SPECIFICATION FairSpec
CONSTANTS
  MaxSessions = 2
  MaxOctets = 3
  Blocs <- MCBlocs
  CapCanal = 1
  EN_VOL_MAX = 1
  FLUSH = 2
  Enregistrables = {1}
  MaxGestes = 1
INVARIANTS
  TexteFidele
  FluxTenu
  EnregistrementContinu
PROPERTIES
  SortieRendue
CHECK_DEADLOCK FALSE
