SPECIFICATION Spec
CONSTANTS
  NULL = NULL
  Timers = {t1, t2, t3}
  Users = {u}
  Ticker = ticker
  Intervals = {0, 1}
  MaxLag = 1
  MaxOps = 4
CHECK_DEADLOCK FALSE
INVARIANTS
  InStep
  StuckOnlyAtStaleStop
PROPERTIES
  QueueSpec
  Ticks
