CONSTANTS
  Address = {a, b}
  Talker = {a}
  TalkerMax = 3
  ListenerMax = 1
  MaxSent <- MCMaxSent
  MayStall = {}
  ChannelId = {x}
  ChannelSize = 2
  MaxChannel = 1
  ChannelQueueSize = 1
  NoCall = NoCall
  NoChannel = NoChannel
  NoClient = NoClient
  NoBlob = NoBlob
CHECK_DEADLOCK FALSE
SPECIFICATION FairSpec
PROPERTY StopReturns
