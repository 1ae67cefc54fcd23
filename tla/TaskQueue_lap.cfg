SPECIFICATION Spec
CONSTANTS
  S = 3
  Producers = {p1, p2}
  Packets = {a}
  NoPacket = NoPacket
  MaxOvertakes = 3
INVARIANTS
  RingLayout
