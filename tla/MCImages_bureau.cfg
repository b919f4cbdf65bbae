SPECIFICATION SpecScenes
CONSTANTS
  Zones = {1, 2}
  MaxDessins = 3
  MaxTailles = 1
  MaxBascules = 2
  Noir = Noir
  ZonesVnc = {1, 2}
  DESSINS_MAX = 1
  TAILLES_MAX = 1
  VIDES_MAX = 1
  TEXTES_MAX = 1
  GESTES_MAX = 3
  NoirVnc = Noir
INVARIANTS
  EcranTenu
  VncTenu
PROPERTIES
  SilenceEnPause
  BureauAJour
