SPECIFICATION FairSpec
CONSTANTS
  Systems = {s1, s2}
  RefreshEvery = 2
  PruneEvery = 2
  Window = 1
  Patience = 1
  Busy = {s1}
  MaxTime = 4
  MaxCount = 2
  MaxResets = 1
  MaxFaults = 1
INVARIANTS TypeOK GrowthSound FlagMeansReset
PROPERTY Covers
CHECK_DEADLOCK FALSE
