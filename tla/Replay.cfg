SPECIFICATION FairSpec
CONSTANTS
  Caller = {c1, c2}
  Run = {r1, r2}
  Null = Null
  MaxRecords = 2
  MaxCalls = 4
INVARIANTS
  IInv
PROPERTIES
  StopEnds
  CallsReturn
CHECK_DEADLOCK FALSE
