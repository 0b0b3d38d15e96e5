CONSTANTS
  Conns = {c1, c2, c3}
  Users = {ann}
  NoRoom = NoRoom
SPECIFICATION RoomsSpec
INVARIANT RejoinKeepsRoom
CHECK_DEADLOCK FALSE
