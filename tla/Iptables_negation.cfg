CONSTANTS
  Compiled <- Compile
  Derived <- Derive
  MaxRules = 3
  BranchLimit = 4
  DepthLimit = 2
  MaxInstalled = 8
  MaxWords = 7
  MaxFailures = 0
  MaxDeaths = 0
  Words <- NegationWords
  Packets <- MCPackets
SPECIFICATION ChainsSpec
INVARIANT SelectedIsQueued
CHECK_DEADLOCK FALSE
