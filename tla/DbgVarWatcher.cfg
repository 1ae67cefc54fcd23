CONSTANTS
  Threads = {t1, t2, t3, t4}
  NoTid = NoTid
  Accessors = {t1, t2}
  Values = {v1, v2}
SYMMETRY Symmetry
SPECIFICATION Spec
INVARIANTS
  TypeOK
  FailureNeedsOverlap
  OpenIsExclusive
  Coherent
CHECK_DEADLOCK FALSE
