SPECIFICATION TriageSpec
CONSTANTS
  Sites = {1, 2}
  Site <- TwoSites
  Home <- SplitHomes
  Hostname <- ThreeNames
  Nameless = {3}
  Troubles <- AllTroubles
  MaxTurns = 1
  MaxRefusals = 0
  Refused = refused
INVARIANTS
  ReachableIsTrue
CHECK_DEADLOCK FALSE
