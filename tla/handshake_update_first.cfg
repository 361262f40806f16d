SPECIFICATION HSpec
CONSTANTS
  Handler = {h1}
INVARIANTS UpdateBeforeAnswer
CHECK_DEADLOCK FALSE
