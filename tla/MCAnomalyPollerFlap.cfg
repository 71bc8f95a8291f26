SPECIFICATION Spec
CONSTANTS
  Ids = {x, y}
  TypeOf <- OneType
  Window = 3
  Patience = 1
  MaxTime = 4
  MaxFaults = 0
INVARIANT BackfillKeepsClears
CHECK_DEADLOCK FALSE
