CONSTANTS
  MaxLen = 2
  Chars <- MCChars
SPECIFICATION Spec
INVARIANTS
  StricmpOrders
  LexcmpOrders
  StrncpyTruncates
  PrintpReadsBack
CHECK_DEADLOCK FALSE
