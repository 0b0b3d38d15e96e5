CONSTANTS
  Updates = {u1}
  NoDoc = NoDoc
  DbFaults = TRUE
SPECIFICATION FairSpec
PROPERTY EachSaveRuns
