SPECIFICATION Spec
CONSTANTS
  Keys = {k1, k2}
  NoKey = NoKey
  AuthWait = 3
  MaxInactive = 5
  HeartbeatInterval = 2
  Delay = 1
  MaxInFlight = 1
  Faults = {"slow", "cut", "reset", "clock", "refuse", "close", "stray"}
INVARIANTS
  SessionAgrees
  StaysUp
PROPERTIES
  AuthDecided
  DeadNoticed
