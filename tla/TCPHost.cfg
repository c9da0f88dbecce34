CONSTANTS
  Listens = {l, m}
  Stops = {s, t}
  CloseFails = TRUE
  MaxAccepted = 1
  None = None
  Sender = {x, y}
  Length = {0, 1, 2}
  SizeMod = 3
  MaxSends = 2
CHECK_DEADLOCK FALSE
SPECIFICATION FairHostSpec
INVARIANTS NoLoopAfterStop NoPanic FramesIntact
PROPERTIES StopReturns FrameReceived
