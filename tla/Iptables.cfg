CONSTANTS
  Compiled <- Compile
  Derived <- Derive
  MaxRules = 3
  BranchLimit = 4
  DepthLimit = 1
  MaxInstalled = 8
  MaxWords = 5
  MaxFailures = 1
  MaxDeaths = 1
  Words <- MCWords
  Packets <- MCPackets
SPECIFICATION ChainsSpec
INVARIANTS
  ChainsConsistent
  ParserAgrees
  SelectedIsQueued
  ChainRestored
CHECK_DEADLOCK FALSE
