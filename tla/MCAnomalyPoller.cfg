SPECIFICATION FairSpec
CONSTANTS
  Ids = {x, y}
  TypeOf <- OneType
  Window = 2
  Patience = 1
  MaxTime = 4
  MaxFaults = 1
INVARIANT TypeOK
PROPERTIES LogSpec EventsTrue BaselineAfterLog CatchesUp
CHECK_DEADLOCK FALSE
