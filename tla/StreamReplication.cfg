SPECIFICATION LiveSpec
CONSTANTS
  Mirrors = {m1}
  Updates = {u1, u2}
  NoGroup = NoGroup
  BatchSize = 2
  MaxLen = 1
  MaxStream = 2
  MaxReplies = 2
  MaxFailures = 1
INVARIANTS
  TypeOK
  LossAccounted
PROPERTY EntryArrives
