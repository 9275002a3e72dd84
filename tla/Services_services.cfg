CONSTANTS
    p1 = p1  p2 = p2
    Jobs = {p1, p2}
    MaxStops = 2
    Parts <- PartNumbers
    FirstRar = p1
    NoPart = NoPart
    DeleteAfter = TRUE
    MaxDeletes = 1
    Urls = {u1}
    Callers = {c1}
    MaxPuts = 1
    MaxTimers = 1
    Blobs = {b1}
    Leasers = {t1, t2}
    Readers = {r1}
    NoBlob = NoBlob
    MaxRuns = 1
SPECIFICATION ServicesSpec
INVARIANTS
  ManualNotSkipped
  ReferencesBalance
PROPERTIES
  SerialExecution
  JobsEnd
  LastPartExtracts
  SessionsEnd
CHECK_DEADLOCK FALSE
