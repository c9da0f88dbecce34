CONSTANTS
  Pair = {p}
  LocalMaxBuffer = 1
  MaxSent <- MCMaxSent
  SentOut = 0
  SentInc = 4
  None = None
  l1 = l1
  l2 = l2
  x = x
  Listener = {l1, l2}
  Address = {x}
  Addr <- MCAddr
  Call = {1, 2, 3}
  Of <- MCOf
  To <- MCTo
  MaxStops = 2
  MaxRetryConnect = 1
CHECK_DEADLOCK FALSE
SPECIFICATION FairSpec
INVARIANTS NoPanic EndsTogether MessagesInOrder ListeningIsRegistered
PROPERTIES MutexReleased ListenEnds
