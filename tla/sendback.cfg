CONSTANTS
  Channels = {c1, c2}
  MaxPackets = 3
  PacketSize <- Sizes
  MaxSendQueueSize = 2
  MaxSendBufferSize = 3
  ThoroughlyAbandonTime = 2
  NoChannel = NoChannel

SPECIFICATION Spec
INVARIANTS AtMostOnce KeptInOrder
PROPERTIES QueueSpec NothingKeptForever
