SPECIFICATION Spec
CONSTANTS
  Workers = {a, b}
  Bounds <- SomeBounds
  Delays = {1, 3}
  Rollover = 4
  MaxSessions = 2
  MaxPackets = 1
  MaxRecords = 2
  a = a
  b = b
SYMMETRY Symmetry
INVARIANTS
  Consistent
  RankIsFound
