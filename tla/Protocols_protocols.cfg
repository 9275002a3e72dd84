CONSTANTS
    m1 = m1  m2 = m2  w1 = w1  t1 = t1  t2 = t2  f1 = f1  f2 = f2
    Nothing = Nothing
    Medias = {m1, m2}
    HlsWorkers = {w1}
    NumSegments = 2
    MaxHlsRuns = 2
    MaxHlsCrashes = 1
    BtTasks = {t1}
    BtFiles = {f1, f2}
    Nobody = Nobody
    MaxBtCalls = 2
    MaxBtPatches = 1
    MaxBtFaults = 1
    NoTask = NoTask
    EdTasks = {t1, t2}
    MaxEdStarts = 3
SPECIFICATION ProtocolsSpec
INVARIANTS
  TargetWhole
  BtDoneVerified
  BtClosedNeverDownloads
  EdDoneHasFile
PROPERTIES
  HlsCallsReturn
  BtCloseReturns
CHECK_DEADLOCK FALSE
