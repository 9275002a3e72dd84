SPECIFICATION Spec
CONSTANTS
  Starters = {s1}
  Pausers = {p1}
  Tickers = {t1}
  Deleters = {d1}
  Watch = Watch
  None = None
  MaxGen = 3
  MaxCrash = 1
  StorageFails = TRUE
PROPERTIES
  DoneRecordKept
CONSTRAINT ShortAfterCrash
CHECK_DEADLOCK FALSE
