CONSTANTS
  Channels = {c1, c2}
  MaxConcurrent = 2
  Handles = {h1}
  Peers = {s1}
  MaxSendQueueSize = 1
  AbandonTime = 1
  MaxSends = 1
  Packet = Packet
  NoTime = NoTime
  NoChannel = NoChannel

SPECIFICATION SpecServed
INVARIANTS NodesSound AcceptNeedsLink 
PROPERTIES Reconnects
CHECK_DEADLOCK FALSE
