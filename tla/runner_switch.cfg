SPECIFICATION SwitchSpec
CONSTANTS
  Caller = {p1}
  Runner = {r1}
  Reader = {b1, b2}
  nullptr = nullptr
PROPERTIES SwitchTakesEffect
CHECK_DEADLOCK FALSE
