SPECIFICATION Spec
CONSTANTS
  Systems = {s1, s2}
  Commands = {c1, c2}
  Cap = 1
  MaxRetries = 1
INVARIANTS TypeOK ActiveBounded JobsAccounted Attended NothingHangs
PROPERTY EndsByItself
SYMMETRY Symmetric
CHECK_DEADLOCK FALSE
