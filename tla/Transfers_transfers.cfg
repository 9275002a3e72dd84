CONSTANTS
    w1 = w1  w2 = w2  t1 = t1  t2 = t2  t3 = t3  b1 = b1  b2 = b2  x1 = x1  x2 = x2
    rid = rid  i1 = i1  i2 = i2  d1 = d1  r1 = r1  r2 = r2
    FileSizes <- TwoFiles
    Connections = 2
    FtpWorkers = {w1, w2}
    MaxFtpRetries = 1
    MaxFtpCrashes = 1
    MaxFtpStarts = 3
    MaxLost = 1
    VersionSizes <- TwoVersions
    MaxHtFaults = 2
    MaxHtStops = 2
    Targeting = {t1, t2, t3}
    Late = {t3}
    Categorized = {t2}
    MaxSettings = 1
    MaxStartFaults = 1
    MaxTargetCalls = 1
    Batches = {b1, b2}
    Grouped = {b1, b2}
    Members = {t1, t2, t3}
    BatchItems <- Items
    Rids = {rid}
    RidOf <- Resolved
    NoRid = NoRid
    GroupDeleters = {x1, x2}
    Filters <- TheFilters
    MaxMishaps = 1
    Installs = {i1, i2}
    GitCalls = {i1}
    Deletions = {d1}
    Runtimes = {r1, r2}
    MaxHostFaults = 1
SYMMETRY WorkerSymmetry
SPECIFICATION TransfersSpec
INVARIANTS
  FtpDoneWhole
  DoneIsWhole
  TargetsApart
  MembersHaveGroups
  EmptyGroupsGo
  RemovedDataStaysGone
PROPERTIES
  KeptTasksKeepFiles
CHECK_DEADLOCK FALSE
