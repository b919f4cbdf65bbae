SPECIFICATION FairSpec
CONSTANTS
  t1 = t1
  d1 = d1
  d2 = d2
  s1 = s1
  Ids = {t1}
  Departs = {d1, d2}
  Arrets = {s1}
  MaxEssais = 2
  MaxRecharges = 1
  Personne = Personne
INVARIANTS
  TypeOK
  PasDeFuite
  MagasinVrai
  ArretVu
PROPERTIES
  JetonTenu
  LigneRendue
CHECK_DEADLOCK FALSE
