CONSTANTS
  CHUNK = 1
  BANDES_MAX = 2
  Tailles = {2, 3, 4}
  MaxVersions = 2
  MaxLancements = 3
  MaxSuppressions = 1
  Rien = Rien
SPECIFICATION SpecScenes
INVARIANTS
  RepriseFidele
  TransfertsVrais
PROPERTIES
  BandesGardees
  CopiesFideles
CHECK_DEADLOCK FALSE
