SPECIFICATION FairSpec
CONSTANTS
  Starters = {s1}
  Pausers = {p1}
  Tickers = {}
  Deleters = {}
  Watch = Watch
  None = None
  MaxGen = 4
  MaxCrash = 0
  StorageFails = TRUE
PROPERTIES
  PauseTakesEffect
  HandlersReturn
  FinishedRunEnds
CHECK_DEADLOCK FALSE
