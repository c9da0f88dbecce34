CONSTANTS
  a = a
  b = b
  p = p
  q = q
  Router = {a, b}
  Pair = {p, q}
  From <- MCFrom
  Dialed <- MCDialed
  LocalMaxBuffer = 1
  MaxSent <- MCMaxSent
  Sent = 4
  None = None
CHECK_DEADLOCK FALSE
SPECIFICATION RoutersSpec
INVARIANTS StopReturnsOrStuck StoppedIsClosed
