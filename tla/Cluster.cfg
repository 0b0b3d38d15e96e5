\* Three nodes, eleven rooms between and beyond their virtual nodes; one clock;
\* two simulations of one host; two forwarded writes.
CONSTANTS
  n1 = n1
  n2 = n2
  n3 = n3
  Node = {n1, n2, n3}
  NoNode = NoNode
  Room = {0, 1, 2, 3, 4, 5, 6, 7, 8, 9, 10}
  VNodes <- Positions
  KeyHash <- Keys
  MaxFaults = 1
  MaxBusy = 2
  MaxScans = 1
  MaxInbox = 1
  Request = {q1, q2}
  MaxSends = 2
  MaxForwardTrouble = 2
  Caller = {timer, ready}
  BootWall <- Wall
  Skews <- Offsets
  MaxMono = 5
  Host = {h1}
  MaxStarts = 2
  MaxFailures = 2
  Injected = {"shutdown", "delay"}
  MaxConcurrent = 1
  MaxTape = 2
  MaxRequests = 5
SPECIFICATION Spec
INVARIANTS TypeOK OnlyLapsedUnlisted  RingConsistent AckedIsDurable
           DrillsOnTrack
PROPERTIES ClockNeverBack ForwardsRemotely
SYMMETRY Symm
CHECK_DEADLOCK FALSE
