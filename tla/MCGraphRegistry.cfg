\* Three concurrent callers on one blueprint with up to 2 versions.
CONSTANTS
  Keys = {k1}
  Callers = {c1, c2, c3}
  MaxVersion = 2
  NoKey = NoKey
  NoCaller = NoCaller
SPECIFICATION FairSpec
INVARIANTS TypeOK NoLeakedGraph ClosedNeverHit RecordedNotAhead
PROPERTIES ReadsSpec CallsFinish
CHECK_DEADLOCK FALSE
