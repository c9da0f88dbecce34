CONSTANTS
  Address = {a, b, c, d}
  Talker = {a, b}
  TalkerMax = 2
  ListenerMax = 1
  MaxSent <- MCMaxSent
  MayStall = {}
  ChannelId = {x}
  ChannelSize = 4
  MaxChannel = 1
  ChannelQueueSize = 2
  NoCall = NoCall
  NoChannel = NoChannel
  NoClient = NoClient
  NoBlob = NoBlob
CHECK_DEADLOCK FALSE
SPECIFICATION Spec
SYMMETRY RelaySymmetry
INVARIANTS EgressAfterJoin ChannelTotalOrder RoutineRegistered
