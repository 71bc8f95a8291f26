SPECIFICATION Spec
CONSTANTS
  Systems = {s1, s2}
  RefreshEvery = 2
  PruneEvery = 2
  Window = 3
  Patience = 1
  Busy = {s1}
  MaxTime = 4
  MaxCount = 2
  MaxResets = 1
  MaxFaults = 1
INVARIANT IntervalTrue
CHECK_DEADLOCK FALSE
