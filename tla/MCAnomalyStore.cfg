SPECIFICATION QuerySpec
CONSTANTS
  Ids = {x, y}
  Stamps = {1, 2}
  MaxRows = 2
  MaxEvents = 4
  Selections <- SmallSelections
  Limits = {3}
  MaxPage = 1
  NoWalk = none
SYMMETRY IdSymmetry
INVARIANTS
  TypeOK
  HeldRowsStay
  OneIdentityPerEvent
  PagesComplete
  QueriesAgree
PROPERTY
  LogSpec
