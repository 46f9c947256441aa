SPECIFICATION FairServers
CONSTANTS
  Http = {w1, w2}
  Pipe = {pp}
  JoinsTimeOut = TRUE
  MaxRequests = 2
  MaxConnections = 2
INVARIANTS
  IInv
  ServersInv
PROPERTIES
  AppSpec
  ConnectionsEnd
  QuitEnds
CHECK_DEADLOCK FALSE
