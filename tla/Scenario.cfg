CONSTANTS
  Documents <- MCDocuments
  Keys = {"lag", "drop"}
  Values = {1, 2}
  MaxSteps = 3
  Second = 2
  Wrap = 8
  Boot = 5
  MaxTime = 7
  LastCall = 2
  MaxCalls = 4
  MaxCaptured = 1
SPECIFICATION ScenarioSpec
INVARIANTS
  ScenarioConsistent
  PlayedOut
PROPERTIES
  Punctual
  PlayEnds
CHECK_DEADLOCK FALSE
