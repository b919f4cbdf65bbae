CONSTANTS
  i1 = i1
  s1 = s1
  s2 = s2
  a1 = a1
  a2 = a2
  c1 = c1
  Ids = {i1}
  Sessions = {s1, s2}
  Appels = {a1, a2}
  Copies = {c1}
  Aucun = Aucun
SPECIFICATION SpecScenes
INVARIANTS
  CanalTenu
PROPERTIES
  RangementStable
  PanneauVif
CHECK_DEADLOCK FALSE
