SPECIFICATION Spec
CONSTANTS
  Ids = {x, y}
  TypeOf <- OneType
  Window = 2
  Patience = 1
  MaxTime = 6
  MaxFaults = 0
PROPERTY PruneKeepsActive
CHECK_DEADLOCK FALSE
