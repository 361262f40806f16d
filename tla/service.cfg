SPECIFICATION ServiceSpec
CONSTANTS
  Server = {s1}
  Registered = {s1}
  Client = {c1}
  Admin = {}
  MaxVersion = 3
  MaxDepth = 3
  Lossy = TRUE
  StaleProfile = FALSE
  Fits <- FitsNext
  User = {u1}
  Slow = {}
  Editor = {}
  MaxRuns = 3
  Crashes = FALSE
  NoRun = NoRun
  Settings = {"center_freq", "rf_gain", "direct_sampling"}
INVARIANTS LockOwner PollerSurvives OneProcess StateTruthful NoOrphans DeviceFollows
PROPERTIES RequestEnds CatchesUp LockReleased StopEnds
CHECK_DEADLOCK FALSE
