CONSTANTS
  Initiator = i
  Responder = r
  SeqMod = 4
  ReliableMessageBuffer = 1
  MaxIncorrectMessages = 3
  InitiatorSends = 2
  ResponderSends = 0
  MaxSends <- MCMaxSends
  MaxWire = 1
  None = None
CHECK_DEADLOCK FALSE
SPECIFICATION FairSpec
INVARIANTS ReceivedInOrder ConfirmedAccepted
PROPERTIES DeliverySpec SendReturns ConfirmedReceived
