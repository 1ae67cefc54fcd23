CONSTANTS
  Regs = {0, 1}
  Targets = {f1, Get, Set}
  GetThreadContext = Get
  SetThreadContext = Set
  Redirs = {r1, r2}
  Foreign = Foreign
  Null = Null
  Caller = Caller
  Values = {v1, v2}
  MaxCalls = 1
SYMMETRY Symmetry
SPECIFICATION HandlersSpec
INVARIANTS
  TypeOK
  TablesMatchRegisters
  OnlySelfRemovalDies
  StatusIsValid
  CallsKeepVariable
PROPERTIES
  ImplementsRedirection
CHECK_DEADLOCK FALSE
