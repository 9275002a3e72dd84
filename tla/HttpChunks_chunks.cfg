SPECIFICATION MCSpec
CONSTANTS
  Size = 7
  MaxConns = 2
  Buf = 1
  MinSteal = 3
  MaxRetry = 1
  MaxStops = 2
INVARIANTS
  Covered
  NeverTwice
  SnapshotResumable
  DoneHasNoOtherGap
CHECK_DEADLOCK FALSE
