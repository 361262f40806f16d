SPECIFICATION BlocksSpec
CONSTANTS
  Total = 25
  Pieces = {1, 5, 19}
  Room = 18
  OtherRooms = {1}
  Garbage = {0, 40}
  length = 4
  buffer_size = 3
  taps_length = 4
  inputSize = 2
  decimation = 3
  channels = 2
  avgNumber = 2
  everyNSamples = 3
  Flush = 2
  SyncEvery = 3
  SyncLen = 2
  Pad = 2
INVARIANTS SafeWithoutLock
CHECK_DEADLOCK FALSE
