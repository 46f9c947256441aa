SPECIFICATION Spec
CONSTANTS
  Packet = {p1, p2}
  Clone = {c1}
  NoPacket = NoPacket
  Pipeline <- Whole
  KeepAtMost = 1
SYMMETRY PacketSymmetry
INVARIANTS
  IInv
  NoOrphan
  CleanStop
PROPERTIES
  VerdictOnce
  OnlyModulesDrop
  KernelSpec
CHECK_DEADLOCK FALSE
