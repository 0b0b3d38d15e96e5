CONSTANTS
  Conns = {c1, c2}
  Users = {ann, bob}
  NoRoom = NoRoom
  Updates = {u1}
  NoDoc = NoDoc
  DbFaults = TRUE
  Client = {d1, d2}
  Window = 2
  n1 = n1
  n2 = n2
  Node = {n1, n2}
  NoNode = NoNode
  Room = {0}
  VNodes <- Positions
  KeyHash <- Keys
  MaxFaults = 1
  MaxBusy = 2
  MaxScans = 1
  MaxInbox = 1
SPECIFICATION LiveSpec
PROPERTIES HandlersSettle ShutdownEnds DashboardCatchesUp DeadUnlisted
CHECK_DEADLOCK FALSE
