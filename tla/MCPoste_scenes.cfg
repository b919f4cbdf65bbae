SPECIFICATION SpecScenes
CONSTANTS
  Noms = {"a", "b"}
  Sous = {"a"}
  Arbres <- MCArbres
  Inodes = {1, 2}
  OUVERTS_MAX = 2
  ID_MAX = 3
  REPONSES_EN_VOL = 1
  DEMANDES_MAX = 2
  REQUETES_MAX = 4
  GESTES_MAX = 1
  Aucune = Aucune
  inconnue = inconnue
INVARIANTS
  DossierTenu
  ServicesFideles
PROPERTIES
  PosteGarde
CHECK_DEADLOCK FALSE
