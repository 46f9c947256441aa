SPECIFICATION Spec
CONSTANTS
  Packet = {p1, p2}
  Clone = {c1}
  NoPacket = NoPacket
  Pipeline <- LagDup
  KeepAtMost = 1
SYMMETRY PacketSymmetry
INVARIANT NoCrash
CHECK_DEADLOCK FALSE
