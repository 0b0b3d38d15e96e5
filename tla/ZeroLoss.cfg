CONSTANTS
  Updates = {u1, u2}
  NoDoc = NoDoc
  DbFaults = FALSE
SPECIFICATION Spec
INVARIANT ZeroLoss
