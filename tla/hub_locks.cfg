SPECIFICATION Spec
CONSTANTS
  Servers = {s1}
  Clients = {c1, c2}
  ServerVecs = {sv1, sv2}
  ClientVecs = {cv1, cv2}
  LinkNos = {n1, n2}
  MaxFDs = {1}
  CloseAll = TRUE
  Faults = {"timer"}
  NoSocket = NoSocket
  NoVec = NoVec
  NoLink = NoLink
SYMMETRY HubSymmetry
CHECK_DEADLOCK FALSE
INVARIANTS
  NoLockCycle
