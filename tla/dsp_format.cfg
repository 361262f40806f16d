SPECIFICATION DspSpec
CONSTANTS
  None = None
  OutputRates = {8, 11, 12}
  HdOutputRates = {44, 48}
INVARIANTS FormatMended
CHECK_DEADLOCK FALSE
