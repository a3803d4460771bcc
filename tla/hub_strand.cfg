SPECIFICATION Spec
CONSTANTS
  Servers = {s1, s2}
  Clients = {c1, c2}
  ServerVecs = {sv1, sv2}
  ClientVecs = {cv1, cv2}
  LinkNos = {n1, n2, n3}
  MaxFDs = {1, 2}
  CloseAll = TRUE
  Faults = {"wrap"}
  NoSocket = NoSocket
  NoVec = NoVec
  NoLink = NoLink
SYMMETRY HubSymmetry
CHECK_DEADLOCK FALSE
INVARIANTS
  ClientHosted
  ServerSeesClients
  PeersAgree
  NothingDisplaced
PROPERTIES
  CapacityRespected
