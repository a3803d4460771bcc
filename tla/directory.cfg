CONSTANTS
  a = a
  b = b
  a1 = a1
  a2 = a2
  b1 = b1
  b2 = b2
  NoLink = NoLink
  Servers <- MCServers
  Watched <- MCWatched
  Links <- MCLinks
  Owner <- MCOwner
  MaxLogins = 3
  MaxSends = 1
  MaxUnread = 2
SYMMETRY MCSymmetry
SPECIFICATION Spec
CHECK_DEADLOCK FALSE
INVARIANTS
  KnowsOnline
  ForgetsOffline
