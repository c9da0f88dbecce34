CONSTANTS
  Address = {a}
  Conn = {c1, c2}
  Caller = {s, t}
  ReadTimeout = TRUE
  MaxRx = 1
  MaxSends = 1
  None = None
CHECK_DEADLOCK FALSE
SPECIFICATION FairSpec
INVARIANTS NoHandlerAfterStop RxAtRest
PROPERTIES StopEnds
