CONSTANTS
  k1 = k1
  Aucune = Aucune
  inconnue = inconnue
  o1 = o1
  o2 = o2
  Onglets = {1}
  Ouvertures = {o1, o2}
  MaxRecharges = 1
  MaxAnnonces = 1
  Personne = Personne
SPECIFICATION SpecScenes
INVARIANTS
  BureauTenu
PROPERTIES
  BureauVif
  ImplementeProcessus
CHECK_DEADLOCK FALSE
