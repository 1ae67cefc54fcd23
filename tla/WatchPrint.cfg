CONSTANTS
  Clients = {c1, c2}
  S = 3
  Words = 2
  Unit = 2
  NoOne = NoOne
  MaxPrints = 3
  MaxOvertakes = 2
SPECIFICATION FairSpec
PROPERTIES
  ServerStops
  ReservedIsPrinted
  CallbackPrints
CHECK_DEADLOCK FALSE
