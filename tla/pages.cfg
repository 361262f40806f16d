SPECIFICATION PagesSpec
CONSTANTS
  Server = {s1}
  Registered = {}
  Client = {c1}
  Admin = {a1, a2}
  MaxVersion = 1
  MaxDepth = 1
  Lossy = FALSE
  StaleProfile = TRUE
  Fits <- FitsNext
  User = {u1}
  Slow = {u1}
  Editor = {e1}
  MaxRuns = 1
  Crashes = TRUE
  NoRun = NoRun
SYMMETRY AdminSymmetry
INVARIANTS DeletedNeverOffered StopEndsProcess
PROPERTIES DecisionUndisturbed
CHECK_DEADLOCK FALSE
