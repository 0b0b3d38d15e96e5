CONSTANTS
  Server = {s1, s2, s3}
  Nobody = Nobody
  MaxDeletes = 1
  MaxCreationTrouble = 2
  Reader = {r1, r2, r3}
  NoMirror = NoMirror
  Peer = {p1, p2}
  Author = {a1}
  MaxClock = 2
  MaxLosses = 1
  MaxRounds = 2
  Socket = {c1, c2, c3}
  Account = {u1, u2}
  Capacity = 2
  MaxSeats = 1
  MaxAuths = 2
  Threshold = 2
  Link = {l1}
  Folder = {f1, f2}
  MaxChanges = 3
  Person = {ann, bob}
  Doc = {doc}
  Visitor = {v1, v2}
  Ticket = {k1, k2, k3}
  NoTicket = NoTicket
  MaxMishaps = 1
  Tab = {t1, t2}
  MaxEdits = 3
  Task = {x1, x2}
  User = User
  MaxItems = 2
  MaxVersions = 1
  Client = {d1, d2, d3}
  Window = 2
  Bench = {b1, b2}
  NoBench = NoBench
  Cells = 1
  MaxBenchFaults = 1
  OwnEdit = {o1, o2}
  PeerEdit = {e1}
  MaxAttempts = 1
  MaxConnects = 2
SPECIFICATION Spec
INVARIANTS TypeOK LoadsExclusive MirrorServesReaders 
           RevocationHolds RoomsOfFolderClosed  CountedOnce
           NoTwinVersions  EngineSettles 
PROPERTIES RequesterCatchesUp 
CHECK_DEADLOCK FALSE
