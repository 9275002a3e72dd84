CONSTANTS
    e1 = e1  g1 = g1  c1 = c1  c2 = c2  b1 = b1  b2 = b2
    MediaUnits = 3
    BlockUnits = 2
    FetchBlocks = 1
    MaxSeeks = 1
    MaxBreaks = 1
    Executes = {e1}
    Gotos = {g1}
    Closers = {c1, c2}
    MaxLoads = 1
    Pipes = {b1, b2}
    PipeChunks = 2
    PipeSlots = 1
    BlobUnits = 3
    RangeFailures = 2
SPECIFICATION PlatformSpec
INVARIANTS
  EofIsTheEnd
  SourceErrorIsTrue
  StreamLetGo
PROPERTIES
  ReadsReturn
  CallsReturnAfterClose
  CancelledRequestEnds
CHECK_DEADLOCK FALSE
