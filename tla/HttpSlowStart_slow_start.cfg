SPECIFICATION FairSpec
CONSTANTS
  MaxConns = 3
  MaxRetry = 2
  MaxTurns = 1
PROPERTIES
  LoopEnds
CHECK_DEADLOCK FALSE
