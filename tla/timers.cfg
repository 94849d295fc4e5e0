SPECIFICATION FairSpec
CONSTANTS
  MaxTimerId = 3
INVARIANTS
  KeptIsArmed
  OnlySelfClearedLinger
PROPERTIES
  ClearedIsSilent
  OneShotsFire
  IntervalsRepeat
CHECK_DEADLOCK FALSE
