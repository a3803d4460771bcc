SPECIFICATION Spec
CONSTANTS
  Servers = {s1, s2, s3}
  Clients = {c1}
  ServerVecs = {sv1, sv2}
  ClientVecs = {cv1, cv2}
  LinkNos = {n1, n2, n3}
  MaxFDs = {1}
  CloseAll = TRUE
  Faults = {"timer", "silent"}
  NoSocket = NoSocket
  NoVec = NoVec
  NoLink = NoLink
SYMMETRY HubSymmetry
CHECK_DEADLOCK FALSE
INVARIANTS
  ServerTableExact
PROPERTIES
  NoResurrection
