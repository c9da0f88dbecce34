CONSTANTS
  Address = {a, b}
  Talker = {a}
  TalkerMax = 3
  ListenerMax = 1
  MaxSent <- MCMaxSent
  MayStall = {b}
  ChannelId = {x, y}
  ChannelSize = 2
  MaxChannel = 0
  ChannelQueueSize = 2
  NoCall = NoCall
  NoChannel = NoChannel
  NoClient = NoClient
  NoBlob = NoBlob
CHECK_DEADLOCK FALSE
SPECIFICATION FairSpec
INVARIANTS SenderOrder
PROPERTIES ServiceSpec StopReturnsOrLockCycle RoutinesEnd QueuesDrain
