SPECIFICATION Spec
CONSTANTS
  Starters = {s1, s2}
  Pausers = {p1, p2}
  Tickers = {}
  Deleters = {}
  Watch = Watch
  None = None
  MaxGen = 4
  MaxCrash = 0
  StorageFails = FALSE
SYMMETRY MCSymmetry
INVARIANTS
  PausedMeansStopped
  RunningIsWatched
PROPERTIES
  StaleStartNeverRuns
CHECK_DEADLOCK FALSE
