SPECIFICATION SpecScenes
CHECK_DEADLOCK FALSE
CONSTANTS
  s1 = s1
  s2 = s2
  c1 = c1
  c2 = c2
  Ids = {s1, s2}
  Cases = {c1, c2}
  Largeurs = {0, 1, 3}
  Listes <- MCListes
  Flux <- MCFlux
  Origines = {0, 1}
  TAILLE_MAX = 4
  SURFACES_MAX = 2
  OCTETS_SURFACES_MAX = 4
  OCTETS_PUBLIES_MAX = 3
  RECTS_MAX = 1
  EMPLACEMENTS_MAX = 1
  OCTETS_MAX = 1
  PDUS_MAX = 5
  Absente = Absente
  Onglets <- MCOnglets
  Hotes <- MCHotes
  Cles <- MCCles
  Nom <- MCNom
  Chaine <- MCChaine
  Algo <- MCAlgo
  Contenus <- MCContenus
  REINSTALLATIONS = 1
  ESSAIS = 2
INVARIANTS
  SurfacesTenues
  ConfianceTenue
  MagasinsTenus
PROPERTIES
  ConfigTenue
  RestesGardes
