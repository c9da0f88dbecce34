CONSTANTS
  a = a
  b = b
  c = c
  j = j
  None = None
  Peer = {a, b, c}
  Rank <- MCRank
  Job = {j}
  Call <- OneAnswers
  MaxIncorrectMessages = 2
  QueueSize = 1
  MaxEvents = 2
CHECK_DEADLOCK FALSE
SPECIFICATION FairSpec
INVARIANTS HandshakeAgreement
PROPERTIES RouterReleased HelloHeard
