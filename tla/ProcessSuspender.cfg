CONSTANTS
  Threads = {t1, t2, t3, t4}
  NoTid = NoTid
SPECIFICATION FairSpec
INVARIANTS
  Exclusive
  Balanced
  SuspInv
PROPERTIES
  AskerIsServed
  ProcessIsResumed
  ChildEnds
CHECK_DEADLOCK FALSE
