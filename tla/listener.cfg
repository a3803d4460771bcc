CONSTANTS
  c1 = c1
  c2 = c2
  s1 = s1
  NoPeer = NoPeer
  Peers <- MCPeers
  Port <- MCPort
  MaxListens = 2
  MaxErrors = 2
SPECIFICATION Spec
CHECK_DEADLOCK FALSE
INVARIANTS
  OneAccept
  MadeWhole
PROPERTIES
  ArrivalsSettled
  ClosedForGood
