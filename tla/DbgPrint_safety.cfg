CONSTANTS
  Clients = {c1, c2}
  S = 3
  Words = 2
  Unit = 2
  NoOne = NoOne
  MaxPrints = 4
  MaxOvertakes = 2
SYMMETRY Symmetry
SPECIFICATION Spec
INVARIANTS
  PrintedInOrder
  CellsAccounted
  StoreHasRoom
  StopDrains
CHECK_DEADLOCK FALSE
