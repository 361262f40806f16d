SPECIFICATION IqSpec
CONSTANTS
  Client = {c1}
  Items = 5
  ItemBytes = 4
  PageBytes = 24
  Lens = {2, 3}
  Numbers = 12
  SockSize = 2
INVARIANTS BeginsWithI
CHECK_DEADLOCK FALSE
