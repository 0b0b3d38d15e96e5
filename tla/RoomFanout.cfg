SPECIFICATION LiveSpec
CONSTANTS
  None = None
  Clients = {c1, c2}
  Editors = {c1}
  Updates = {u1}
  HighWater = 1
  LowWater = 0
  MaxConnects = 1
INVARIANTS
  TypeOK
  OnlyOverrunsMissing
PROPERTIES
  CatchUpRepairs
  PauseEnds
CHECK_DEADLOCK FALSE
