CONSTANTS
  N = 3
  AvecCle = {1}
  REFUS_MAX = 3
  TOURS_MAX = 3
  QUESTIONS_MAX = 2
  OUVERTURES = 3
  Connexions = {"x"}
  Genres = {"local", "remote", "dynamic"}
  Scenes = {"tunnel"}
  UNITES = 5
  TAMPON = 1
  LOT = 1
  Echo = TRUE
SPECIFICATION SpecScenes
PROPERTIES
  Coule
CHECK_DEADLOCK FALSE
