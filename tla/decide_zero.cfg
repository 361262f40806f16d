SPECIFICATION Spec
CONSTANTS
  Db <- OneSdrEach
  Selected <- Ranges
  Failed <- FailedSets
INVARIANTS ZeroMeansDisabled
CHECK_DEADLOCK FALSE
