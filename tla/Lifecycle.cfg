SPECIFICATION FairSpec
CONSTANTS
  MaxStarts = 4
  MaxTorn = 2
INVARIANTS
  Consistent
  HandleInUse
  NoRevival
  NoAbort
PROPERTY CallsReturn
CHECK_DEADLOCK FALSE
