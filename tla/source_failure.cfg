SPECIFICATION SourceFairSpec
CONSTANTS
  User = {u1}
  Slow = {}
  Editor = {}
  MaxRuns = 2
  Crashes = FALSE
  NoRun = NoRun
PROPERTIES EveryoneAnswered
CHECK_DEADLOCK FALSE
