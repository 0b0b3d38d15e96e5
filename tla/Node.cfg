CONSTANTS
  Updates = {u1, u2}
  NoDoc = NoDoc
  DbFaults = TRUE
  Conns = {c1, c2, c3}
  Users = {ann, bob}
  NoRoom = NoRoom
SPECIFICATION NodeSpec
SYMMETRY Symm
INVARIANTS
  NodeTypeOK
  
  CleanRoomIsStored
  JoinedOnce
PROPERTIES
  PrunedBehindASnapshot
  ImplementsPromise
  ImplementsSharedRoom
CHECK_DEADLOCK FALSE
