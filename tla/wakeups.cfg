SPECIFICATION MCSpec
CONSTANTS
  Handler = {h1, h2, h3}
  Caller = {p1, p2}
  Runner = {r1, r2}
  Reader = {b1, b2}
  nullptr = nullptr
  MaxStarts = 2
INVARIANTS NoStaleSignal NoStrayRunner OneProcesses
PROPERTIES ImplementsPollOnRequest RequestAnswered StopsTakeEffect
CHECK_DEADLOCK FALSE
