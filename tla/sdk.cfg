SPECIFICATION Spec
CONSTANTS
  c0 = c0
  c1 = c1
  Calls <- MCCalls
  RetryCount <- MCRetryCount
  CallTimeout = 2
  TimeoutInterval = 1
  MaxSilence = 3
  HeartbeatInterval = 2
  ConnectTimeout = 2
  ReconnectDelay = 1
  Faults = {"send", "reset", "clock"}
INVARIANTS
  OneOutcome
PROPERTIES
  DisposedForGood
  CallDecided
  Reconnects
