SPECIFICATION ESpec
CONSTANTS
  bufsize = 4
  Default = 4
  own = 3
  step = 2
  skip = 1
  taps_length = 2
  factor = 2
  num_poly_points = 2
  Totals = {6}
  PipeSize = 8
  itemBytes = 2
  clamp = 3
  ringSize = 7
  SizeMax = 31
  Total = 17
  MaxLines = 2
  Pump = {}
  Closer = {}
  QueueSize = 1
  MaxTimers = 3
  MaxPings = 1
  NoTimer = NoTimer
INVARIANTS TailOnly NothingLeftOver KeepAlive
PROPERTIES PipelineEnds CloseEndsThreads
CHECK_DEADLOCK FALSE
