SPECIFICATION CollectionsSpec
CONSTANTS
  NULL = NULL
  Capacity = 3
  Values = {v1, v2}
  Default = default
  Addresses = {10, 13}
  Members = {m1, m2, m3}
  Nodes = {n1, n2, n3}
  Walkers = {w, x}
SYMMETRY Symmetry
CHECK_DEADLOCK FALSE
INVARIANTS
  ContentsExact
  SetToured
PROPERTIES
  KillLosesLittle
