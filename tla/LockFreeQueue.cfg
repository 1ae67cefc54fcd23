CONSTANTS
  Producers = {p1, p2}
  Capacity = 3
  MaxAcquires = 5
SPECIFICATION Spec
INVARIANTS
  SizeCounts
  QueueUntilSkewed
PROPERTIES
  WedgedForEver
CHECK_DEADLOCK FALSE
