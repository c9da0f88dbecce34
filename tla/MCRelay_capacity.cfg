CONSTANTS
  Address = {a}
  Talker = {a}
  TalkerMax = 3
  ListenerMax = 1
  MaxSent <- MCMaxSent
  MayStall = {}
  ChannelId = {x, y, z}
  ChannelSize = 2
  MaxChannel = 1
  ChannelQueueSize = 1
  NoCall = NoCall
  NoChannel = NoChannel
  NoClient = NoClient
  NoBlob = NoBlob
CHECK_DEADLOCK FALSE
SPECIFICATION Spec
INVARIANT RegistryBounded
