CONSTANTS
    w1 = w1  w2 = w2  t1 = t1  t2 = t2  t3 = t3  b1 = b1  b2 = b2  x1 = x1  x2 = x2
    rid = rid  i1 = i1  i2 = i2  d1 = d1  r1 = r1  r2 = r2
    FileSizes <- TwoFiles
    Connections = 2
    FtpWorkers = {w1, w2}
    MaxFtpRetries = 0
    MaxFtpCrashes = 0
    MaxFtpStarts = 0
    MaxLost = 0
    VersionSizes <- TwoVersions
    MaxHtFaults = 2
    MaxHtStops = 0
    Targeting = {t1}
    Late = {}
    Categorized = {}
    MaxSettings = 1
    MaxStartFaults = 1
    MaxTargetCalls = 1
    Batches = {b1, b2}
    Grouped = {b1, b2}
    Members = {t1, t2, t3}
    BatchItems <- Items
    Rids = {rid}
    RidOf <- Resolved
    NoRid = NoRid
    GroupDeleters = {x1, x2}
    Filters <- TheFilters
    MaxMishaps = 0
    Installs = {i1}
    GitCalls = {i1}
    Deletions = {}
    Runtimes = {}
    MaxHostFaults = 0
SPECIFICATION TransfersSpec
INVARIANTS NoByteIsSkipped
CHECK_DEADLOCK FALSE
