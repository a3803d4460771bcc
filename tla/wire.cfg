SPECIFICATION WireSpec
CONSTANTS
  ByteBase = 4
  NULL = NULL
  Beyond = {0, 1}
  Inputs <- MCInputs
  Modes = {"inner", "outer", "sdk"}
  Streams <- MCStreams
  Transparent = {0}
  Xored <- MCXored
  Key <- MCKey
  ModVt = 3
  Subtract = 1
  Compressing = {TRUE, FALSE}
  SequenceNos = {0, 2}
  MSS = 7
  Garbage <- MCGarbage
  Window = 4
  Faults = {"part", "flip"}
CHECK_DEADLOCK FALSE
INVARIANTS
  WholeOrRefused
  OverreadBounded
  FramesIntact
  ForgedRefused
