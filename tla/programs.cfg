SPECIFICATION PSpec
CONSTANTS
  Db <- OneSdrEach
  Selected <- Ranges
  Failed <- FailedSets
  Client = {c1}
  Items = 5
  ItemBytes = 4
  PageBytes = 24
  Lens = {2, 3}
  Numbers = 12
  SockSize = 2
  Peer = {c1, c2}
  num = 3
  MaxBlock = 4
  Total = 25
  Pieces = {1, 5, 19}
  Room = 18
  OtherRooms = {1}
  Garbage <- AnyIndex
  length = 4
  buffer_size = 3
  taps_length = 4
  inputSize = 2
  decimation = 3
  channels = 2
  avgNumber = 2
  everyNSamples = 3
  Flush = 2
  SyncEvery = 3
  SyncLen = 2
  Pad = 2
  None = None
  OutputRates = {8, 11, 12}
  HdOutputRates = {44, 48}
  Pump = {p1}
  Closer = {e1}
  QueueSize = 2
  MaxTimers = 1
  MaxPings = 0
  NoTimer = NoTimer
INVARIANTS Servable UsersKept NoneOnlyIfNone  InOrder BlocksInOrder ChunkingIrrelevant WithinBounds AudioFlows RatesAgree NoThreadLeft
PROPERTIES ImplementsLossyStream
CHECK_DEADLOCK FALSE
