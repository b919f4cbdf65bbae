CONSTANTS
  N = 3
  AvecCle = {1}
  REFUS_MAX = 3
  TOURS_MAX = 3
  QUESTIONS_MAX = 2
  OUVERTURES = 3
  Connexions = {"x"}
  Genres = {"local", "remote", "dynamic"}
  Scenes = {"chaine", "session", "tunnel"}
  UNITES = 2
  TAMPON = 2
  LOT = 2
  Echo = FALSE
SPECIFICATION SpecScenes
INVARIANTS
  SshTenu
PROPERTIES
  ConnueAvant
  SshVif
CHECK_DEADLOCK FALSE
