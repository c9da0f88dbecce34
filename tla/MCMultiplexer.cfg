CONSTANTS
  Thread = {s, t}
  FirstThread = s
  ChannelId = {x, y}
  FirstChannels = {x}
  OtherChannels = {x, y}
  Uses <- MCUses
  Client = c
  QueueSize = 1
  MaxMade = 2
  MaxForward <- MCMaxForward
  SharedForward = 0
  PrivateForward = 3
  MaxOut = 1
  NoChannel = NoChannel
  NoBlob = NoBlob
  NoMessage = NoMessage
CHECK_DEADLOCK FALSE
SPECIFICATION FairSpec
INVARIANTS NoGap HeldIsRegistered FirstIsMember ClosedIsGone
 
