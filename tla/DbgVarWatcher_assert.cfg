CONSTANTS
  Threads = {t1, t2, t3}
  NoTid = NoTid
  Accessors = {t1, t2}
  Values = {v1, v2}
SYMMETRY Symmetry
SPECIFICATION Spec
INVARIANTS
  AssertionsHold
CHECK_DEADLOCK FALSE
