CONSTANTS
  i1 = i1
  i2 = i2
  o1 = o1
  o2 = o2
  o3 = o3
  f1 = f1
  f2 = f2
  Ids = {i1, i2}
  Ouvertures = {o1, o2, o3}
  Fermetures = {f1, f2}
  MaxRecharges = 1
  Personne = Personne
  Scenes = {"recharge", "page"}
SPECIFICATION FairScenes
INVARIANTS
  HandleVivant
  FermeeJamaisEnregistree
  OngletVrai
PROPERTIES
  RetraitLegitime
  SessionsVives
CHECK_DEADLOCK FALSE
