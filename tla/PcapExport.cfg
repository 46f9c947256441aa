CONSTANTS
  Paths = {"a", "b"}
  OutPath = "a"
  Lengths = {1, 3}
  PacketLimits = {0, 1}
  ByteLimits = {0, 2}
  Stages <- MCStages
  MaxPackets = 3
  MaxFailures = 2
SPECIFICATION Spec
INVARIANTS
  Consistent
PROPERTIES
  OpenFilesGrow
