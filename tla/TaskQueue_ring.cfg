CONSTANTS
  S = 3
  Producers = {p1, p2}
  Packets = {a, b}
  NoPacket = NoPacket
  MaxOvertakes = 2
SPECIFICATION FairSpec
INVARIANTS
  TypeOK
  RingLayout
  SlotExclusive
  RingInv
PROPERTIES
  ImplementsFifo
  CommittedIsConsumed
