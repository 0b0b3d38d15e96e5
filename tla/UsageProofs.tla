---------------------------- MODULE UsageProofs ----------------------------
(***************************************************************************)
(* Theorems about what is built on the rooms and what watches them at      *)
(* work: the live dashboards, the benchmark engine, the SDK's client, the  *)
(* version history and the edit counters, for any number of sockets, runs, *)
(* updates, versions and tabs; and the types of all services together.     *)
(***************************************************************************)
EXTENDS MCServices, AccessProofs, NodesProofs

LEMMA UpTo == \A n \in Nat : IsFiniteSet(1..n) /\ Cardinality(1..n) = n
<1>1. \A n \in Nat : IsFiniteSet(1..n) /\ Cardinality(1..n) = IF 1 > n THEN 0 ELSE n - 1 + 1
  BY FS_Interval
<1> QED BY <1>1

---------------------------------------------------------------------------
(* LiveDashboard *)

\* Who looks a folder up has been opened; who subscribed is still here.
ClientsHere ==
  /\ \A c \in lookingUp : clientAt[c] # "away"
  /\ \A c \in subs : clientAt[c] \in {"open", "closing"}

DashIInv == DashTypeOK /\ ClientsHere /\ DashboardExact

LEMMA DashStarts == DashInit => DashIInv
BY WindowAssumption DEF DashInit, DashIInv, DashTypeOK, ClientsHere, DashboardExact, NoTimer, Stale

LEMMA DashStays ==
  ASSUME DashIInv, [DashNext]_dashVars
  PROVE  DashIInv'
<1> USE WindowAssumption DEF DashIInv, DashTypeOK
<1>1. NoTimer \in Nat /\ Window < NoTimer
  BY DEF NoTimer
<1>2. ASSUME NEW c \in Client, OpenClient(c)
      PROVE  DashIInv'
  <2>1. DashTypeOK' /\ ClientsHere'
    BY <1>2 DEF OpenClient, ClientsHere, NoTimer
  <2>2. c \notin subs
    BY <1>2 DEF OpenClient, ClientsHere
  <2> QED BY <1>2, <2>1, <2>2 DEF OpenClient, DashboardExact, Stale, NoTimer
<1>3. ASSUME NEW c \in Client, FolderFound(c)
      PROVE  DashIInv'
  <2>1. DashTypeOK' /\ ClientsHere'
    BY <1>3 DEF FolderFound, NotifyNow, Broadcast, OpenNow, ClientsHere, NoTimer
  <2>2. CASE subs = {}
    BY <1>3, <2>1, <2>2 DEF FolderFound, NotifyNow, DashboardExact, Stale, ClientsHere, NoTimer
  <2>3. CASE subs # {}
    <3>1. \A d \in Client : ~Stale(d)'
      BY <1>3, <2>3 DEF FolderFound, NotifyNow, Broadcast, OpenNow, Stale
    <3> QED BY <1>3, <2>1, <2>3, <3>1
            DEF FolderFound, NotifyNow, DashboardExact, ClientsHere, NoTimer
  <2> QED BY <2>2, <2>3
<1>4. ASSUME NEW c \in Client, FolderFails(c)
      PROVE  DashIInv'
  BY <1>4 DEF FolderFails, ClientsHere, DashboardExact, Stale, NoTimer
<1>5. ASSUME NEW c \in Client, RecordEdit(c)
      PROVE  DashIInv'
  <2>1. DashTypeOK' /\ ClientsHere'
    BY <1>5 DEF RecordEdit, ClientsHere, NoTimer
  <2>2. subs # {} => timer' # NoTimer
    BY <1>1, <1>5 DEF RecordEdit
  <2> QED BY <1>5, <2>1, <2>2 DEF RecordEdit, DashboardExact, Stale, NoTimer
<1>6. ASSUME NEW c \in Client, Subscribe(c)
      PROVE  DashIInv'
  <2>1. DashTypeOK' /\ ClientsHere'
    BY <1>6 DEF Subscribe, Broadcast, OpenNow, ClientsHere, NoTimer
  <2>2. \A d \in Client : ~Stale(d)'
    BY <1>6 DEF Subscribe, Broadcast, OpenNow, Stale
  <2> QED BY <1>6, <2>1, <2>2 DEF Subscribe, DashboardExact, NoTimer
<1>7. ASSUME NEW c \in Client, Close(c)
      PROVE  DashIInv'
  <2>1. DashTypeOK' /\ ClientsHere'
    BY <1>7 DEF Close, ClientsHere, NoTimer
  <2> QED BY <1>7, <2>1 DEF Close, DashboardExact, Stale, NoTimer
<1>8. ASSUME NEW c \in Client, Disconnected(c)
      PROVE  DashIInv'
  <2> DEFINE remaining == subs \ {c}
  <2>1. subs' = remaining /\ subscribed' = subscribed \ {c} /\ tracked' = tracked \ {c}
        /\ clientAt[c] = "closing" /\ clientAt' = [clientAt EXCEPT ![c] = "closed"]
        /\ UNCHANGED <<lookingUp, overtaken>>
    BY <1>8 DEF Disconnected
  <2>2. ClientsHere'
    BY <2>1 DEF ClientsHere
  <2>3. subs' = subscribed' /\ \A d \in tracked' : clientAt'[d] \in {"open", "closing"} \/ d \in overtaken'
    BY <2>1 DEF DashboardExact
  <2>4. CASE c \in tracked /\ remaining # {}
    <3>1. timer' = NoTimer /\ upToDate' = remaining \cap OpenNow(clientAt)
      BY <1>8, <2>4 DEF Disconnected, Broadcast
    <3>2. DashTypeOK'
      BY <2>1, <3>1 DEF OpenNow, NoTimer
    <3>3. \A d \in Client : ~Stale(d)'
      BY <2>1, <3>1 DEF OpenNow, Stale
    <3> QED BY <2>2, <2>3, <3>1, <3>2, <3>3 DEF DashboardExact, NoTimer
  <2>5. CASE ~(c \in tracked /\ remaining # {})
    <3>1. timer' = (IF c \in subs THEN TimerLeft(remaining) ELSE timer) /\ upToDate' = upToDate
      BY <1>8, <2>5 DEF Disconnected
    <3>2. timer' \in {timer, NoTimer} /\ (remaining # {} => timer' = timer)
          /\ (remaining = {} => timer' = NoTimer)
      BY <3>1 DEF TimerLeft, DashboardExact
    <3>3. DashTypeOK'
      BY <1>1, <2>1, <3>1, <3>2 DEF NoTimer
    <3>4. \A d \in Client : Stale(d)' => Stale(d) /\ remaining # {}
      BY <2>1, <3>1 DEF Stale
    <3>5. NoTimer' = NoTimer
      BY DEF NoTimer
    <3> QED BY <2>1, <2>2, <2>3, <3>2, <3>3, <3>4, <3>5 DEF DashboardExact
  <2> QED BY <2>4, <2>5
<1>9. CASE WindowTick
  <2>1. timer' # NoTimer /\ timer # NoTimer /\ timer' \in 0..NoTimer
    BY <1>1, <1>9 DEF WindowTick
  <2>2. UNCHANGED <<clientAt, lookingUp, tracked, subs, subscribed, upToDate, overtaken>>
    BY <1>9 DEF WindowTick
  <2> QED BY <2>1, <2>2 DEF ClientsHere, DashboardExact, Stale, NoTimer
<1>10. CASE TimerFires
  <2>1. DashTypeOK' /\ ClientsHere'
    BY <1>10 DEF TimerFires, Broadcast, OpenNow, ClientsHere, NoTimer
  <2>2. \A d \in Client : ~Stale(d)'
    BY <1>10 DEF TimerFires, Broadcast, OpenNow, Stale
  <2> QED BY <1>10, <2>1, <2>2 DEF TimerFires, DashboardExact, NoTimer
<1>11. CASE UNCHANGED dashVars
  BY <1>11 DEF dashVars, ClientsHere, DashboardExact, Stale, NoTimer
<1> QED BY <1>2, <1>3, <1>4, <1>5, <1>6, <1>7, <1>8, <1>9, <1>10, <1>11 DEF DashNext

\* The variables keep their types.
THEOREM DashTypes == DashSpec => []DashTypeOK
<1>1. DashIInv => DashTypeOK
  BY DEF DashIInv
<1> QED BY <1>1, DashStarts, DashStays, PTL DEF DashSpec

\* LiveDashboardManager: no subscriber that missed a change is left without a
\* timer, no timer without an audience, and no session without its socket.
THEOREM DashboardKept == DashSpec => []DashboardExact
<1>1. DashIInv => DashboardExact
  BY DEF DashIInv
<1> QED BY <1>1, DashStarts, DashStays, PTL DEF DashSpec

---------------------------------------------------------------------------
(* BenchmarkRuns *)

Before == {"none", "inserting", "marking"}

\* A run that was cancelled, or that the engine shows, is past start().
StartedFirst ==
  /\ \A r \in aborted : runAt[r] \notin Before
  /\ shown # NoBench => runAt[shown] \notin Before
  /\ (\E r \in Bench : runAt[r] \in Executing) => shown # NoBench

\* The row of a run that is over or cancelled says how it ended, or will.
RowsEnd ==
  benchFaults = 0 =>
    \A r \in Bench \ cancelling : At(r, "over") \/ r \in aborted => row[r] # "running"

WorkUnderWay == IsRunning => \E r \in Bench : runAt[r] \in Executing /\ r \notin aborted

BenchPlaces ==
  /\ row \in [Bench -> {"absent", "running", "completed", "failed", "cancelled", "deleted"}]
  /\ runAt \in [Bench -> Executing \cup {"none", "inserting", "marking", "over"}]
  /\ phase \in Over \cup {"warmup", "measurement", "cooldown", "persisting"}
  /\ aborted \subseteq Bench /\ cancelling \subseteq Bench
  /\ shown \in Bench \cup {NoBench}
  /\ benchFaults \in Nat

BenchIInv == BenchPlaces /\ StartedFirst /\ RowsEnd /\ WorkUnderWay

LEMMA BenchStarts == BenchInit => BenchIInv
BY BenchAssumption DEF BenchInit, BenchIInv, BenchPlaces, StartedFirst, RowsEnd, WorkUnderWay,
   IsRunning, Over, Before, At, Executing, Sleeping

\* What a statement that ends a run makes of its row.
LEMMA EndWritten ==
  ASSUME BenchPlaces, NEW r \in Bench, NEW s \in {"completed", "failed", "cancelled"},
         Finalized(r, s)
  PROVE  /\ row' \in [Bench -> {"absent", "running", "completed", "failed", "cancelled", "deleted"}]
         /\ benchFaults' \in Nat /\ (benchFaults' = 0 => benchFaults = 0 /\ row'[r] # "running")
         /\ \A q \in Bench \ {r} : row'[q] = row[q]
<1>1. CASE BenchFault /\ UNCHANGED row
  BY <1>1 DEF BenchFault, BenchPlaces
<1>2. CASE Written(r, s) /\ UNCHANGED benchFaults
  BY <1>2 DEF Written, BenchPlaces
<1> QED BY <1>1, <1>2 DEF Finalized

LEMMA BenchStays ==
  ASSUME BenchIInv, [BenchNext]_benchVars
  PROVE  BenchIInv'
<1> USE BenchAssumption DEF BenchIInv, BenchPlaces, StartedFirst, RowsEnd, WorkUnderWay, IsRunning,
           Over, Before, At, Goes, Executing, Sleeping
<1>1. ASSUME UNCHANGED <<row, aborted, phase, shown, cancelling>>,
             benchFaults' \in Nat, benchFaults' = 0 => benchFaults = 0,
             \/ UNCHANGED runAt
             \/ \E r \in Bench : runAt[r] \in {"none", "spawning"}
                   /\ \/ runAt[r] = "none" /\ runAt' = [runAt EXCEPT ![r] = "inserting"]
                      \/ runAt[r] = "spawning" /\ runAt' = [runAt EXCEPT ![r] = "warmup"]
      PROVE  BenchIInv'
  BY <1>1
<1>2. ASSUME NEW r \in Bench, StartByRoute(r) \/ StartCell(r)
      PROVE  BenchIInv'
  BY <1>1, <1>2 DEF StartByRoute, StartCell, Started, engineVars
<1>3. ASSUME NEW r \in Bench, Inserted(r)
      PROVE  BenchIInv'
  <2>1. UNCHANGED <<aborted, phase, shown, cancelling>> /\ runAt[r] = "inserting"
    BY <1>3 DEF Inserted, engineVars
  <2>2. CASE row' = [row EXCEPT ![r] = "running"] /\ runAt' = [runAt EXCEPT ![r] = "marking"]
             /\ benchFaults' = benchFaults
    BY <2>1, <2>2
  <2>3. CASE row' = row /\ runAt' = [runAt EXCEPT ![r] = "over"] /\ benchFaults' = benchFaults + 1
    BY <2>1, <2>3
  <2> QED BY <1>3, <2>2, <2>3 DEF Inserted, Rejected, BenchFault
<1>4. ASSUME NEW r \in Bench, Marked(r)
      PROVE  BenchIInv'
  <2>1. UNCHANGED <<row, cancelling>> /\ runAt[r] = "marking"
    BY <1>4 DEF Marked
  <2>2. CASE runAt' = [runAt EXCEPT ![r] = "spawning"] /\ phase' = "warmup" /\ shown' = r
             /\ UNCHANGED <<aborted, benchFaults>>
    BY <2>1, <2>2
  <2>3. CASE runAt' = [runAt EXCEPT ![r] = "over"] /\ benchFaults' = benchFaults + 1
             /\ UNCHANGED <<aborted, phase, shown>>
    BY <2>1, <2>3
  <2> QED BY <1>4, <2>2, <2>3 DEF Marked, Rejected, BenchFault, engineVars
<1>5. ASSUME NEW r \in Bench, Spawn(r)
      PROVE  BenchIInv'
  BY <1>1, <1>5 DEF Spawn
<1>6. ASSUME NEW r \in Bench, Wake(r)
      PROVE  BenchIInv'
  <2>1. UNCHANGED <<row, aborted, shown, cancelling, benchFaults>> /\ runAt[r] \in Sleeping
    BY <1>6 DEF Wake
  <2>2. CASE r \in aborted
    <3>1. runAt' = [runAt EXCEPT ![r] = "over"] /\ phase' = phase
      BY <1>6, <2>2 DEF Wake
    <3> QED BY <2>1, <2>2, <3>1
  <2>3. CASE r \notin aborted
    <3>1. PICK n \in {"measuring", "cooling", "storing", "failing"} :
            runAt' = [runAt EXCEPT ![r] = n]
      BY <1>6, <2>1, <2>3 DEF Wake, Next1
    <3>2. phase' \in Over \cup {"warmup", "measurement", "cooldown", "persisting"}
      BY <1>6, <2>1, <2>3 DEF Wake, Shows
    <3> QED BY <2>1, <2>3, <3>1, <3>2
  <2> QED BY <2>2, <2>3
<1>7. ASSUME NEW r \in Bench, NEW place \in {"storing", "failing"},
             NEW s \in {"completed", "failed"}, OutcomeStored(r, place, s)
      PROVE  BenchIInv'
  <2>1. UNCHANGED <<aborted, shown, cancelling>> /\ runAt[r] \in Executing
        /\ runAt' = [runAt EXCEPT ![r] = "over"] /\ phase' = s /\ Finalized(r, s)
    BY <1>7 DEF OutcomeStored
  <2>2. /\ row' \in [Bench -> {"absent", "running", "completed", "failed", "cancelled", "deleted"}]
        /\ benchFaults' \in Nat /\ (benchFaults' = 0 => benchFaults = 0 /\ row'[r] # "running")
        /\ \A q \in Bench \ {r} : row'[q] = row[q]
    BY <2>1, EndWritten
  <2> QED BY <2>1, <2>2
<1>8. CASE Cancel
  <2>1. phase' = "cancelled" /\ aborted' = aborted \cup {shown} /\ shown' = shown
        /\ cancelling' = cancelling \cup {shown} /\ UNCHANGED <<row, benchFaults>>
    BY <1>8 DEF Cancel
  <2>2. shown \in Bench /\ runAt[shown] \notin Before
    BY <1>8 DEF Cancel
  <2>3. runAt' = runAt \/ runAt' = [runAt EXCEPT ![shown] = "over"]
    BY <1>8 DEF Cancel
  <2> QED BY <2>1, <2>2, <2>3
<1>9. ASSUME NEW r \in Bench, CancelStored(r)
      PROVE  BenchIInv'
  <2>1. UNCHANGED <<runAt, aborted, phase, shown>> /\ cancelling' = cancelling \ {r}
        /\ Finalized(r, "cancelled")
    BY <1>9 DEF CancelStored, engineVars
  <2>2. /\ row' \in [Bench -> {"absent", "running", "completed", "failed", "cancelled", "deleted"}]
        /\ benchFaults' \in Nat /\ (benchFaults' = 0 => benchFaults = 0 /\ row'[r] # "running")
        /\ \A q \in Bench \ {r} : row'[q] = row[q]
    BY <2>1, EndWritten
  <2> QED BY <2>1, <2>2
<1>10. ASSUME NEW r \in Bench, DeleteRun(r)
      PROVE  BenchIInv'
  BY <1>10 DEF DeleteRun, engineVars
<1>11. CASE AskMatrix \/ CellEnded \/ CellFailed
  <2>1. UNCHANGED <<row, runAt, aborted, phase, shown, cancelling>>
    BY <1>11 DEF AskMatrix, CellEnded, CellFailed, engineVars
  <2>2. benchFaults' = benchFaults \/ benchFaults' = benchFaults + 1
    BY <1>11 DEF AskMatrix, CellEnded, CellFailed, BenchFault
  <2> QED BY <1>1, <2>1, <2>2
<1>12. CASE UNCHANGED benchVars
  BY <1>1, <1>12 DEF benchVars, engineVars
<1>13. CASE BenchNext
  BY <1>2, <1>3, <1>4, <1>5, <1>6, <1>7, <1>8, <1>9, <1>10, <1>11, <1>13 DEF BenchNext
<1> QED BY <1>12, <1>13

\* BenchmarkEngine: an engine that calls itself running has a run under way that
\* was not cancelled, and without failed statements the row of every run that is
\* over says so, for any number of overlapping starts and cancellations.
THEOREM EngineNeverStuck == BenchSpec => []EngineSettles
<1>1. BenchIInv => EngineSettles
  BY DEF BenchIInv, WorkUnderWay, RowsEnd, EngineSettles
<1> QED BY <1>1, BenchStarts, BenchStays, PTL DEF BenchSpec

\* The bookkeeping that EngineSettles does not depend on.
BenchBooks ==
  /\ cellRow \in [1..Cells -> {"absent", "queued", "failed"}]
  /\ byMatrix \subseteq Bench /\ crew \subseteq Bench
  /\ tracker \in Bench \cup {NoBench}
  /\ matrix \in [cell : 0..Cells, doing : {"idle", "ready", "starting", "waiting", "recording"}]
  /\ benchFaults \in 0..MaxBenchFaults

LEMMA BooksStay ==
  ASSUME BenchBooks, [BenchNext]_benchVars
  PROVE  BenchBooks'
<1> USE DEF BenchBooks
<1>1. Cells \in Nat /\ MaxBenchFaults \in Nat
  BY BenchAssumption
<1>2. BenchFault => benchFaults' \in 0..MaxBenchFaults
  BY <1>1 DEF BenchFault
<1>3. \A d \in {"idle", "ready", "starting", "waiting", "recording"} :
        [matrix EXCEPT !.doing = d]
          \in [cell : 0..Cells, doing : {"idle", "ready", "starting", "waiting", "recording"}]
  OBVIOUS
<1>4. ASSUME NEW r \in Bench, StartByRoute(r) \/ StartCell(r) PROVE BenchBooks'
  BY <1>3, <1>4 DEF StartByRoute, StartCell, engineVars
<1>5. ASSUME NEW r \in Bench, Rejected(r) PROVE matrix' \in [cell : 0..Cells,
               doing : {"idle", "ready", "starting", "waiting", "recording"}]
                 /\ benchFaults' \in 0..MaxBenchFaults
  BY <1>2, <1>3, <1>5 DEF Rejected
<1>6. ASSUME NEW r \in Bench, Inserted(r) \/ Marked(r) PROVE BenchBooks'
  BY <1>3, <1>5, <1>6 DEF Inserted, Marked, engineVars
<1>7. ASSUME NEW r \in Bench, Spawn(r) \/ Wake(r) \/ CancelStored(r) \/ DeleteRun(r) PROVE BenchBooks'
  BY <1>2, <1>7 DEF Spawn, Wake, CleanUp, CancelStored, Finalized, DeleteRun, engineVars
<1>8. ASSUME NEW r \in Bench, NEW place, NEW s, OutcomeStored(r, place, s) PROVE BenchBooks'
  BY <1>2, <1>8 DEF OutcomeStored, CleanUp, Finalized
<1>9. CASE Cancel
  BY <1>9 DEF Cancel, CleanUp
<1>10. CASE AskMatrix
  <2>1. [cell |-> 1, doing |-> "ready"]
          \in [cell : 0..Cells, doing : {"idle", "ready", "starting", "waiting", "recording"}]
    BY <1>1, <1>10 DEF AskMatrix
  <2> QED BY <1>2, <1>10, <2>1 DEF AskMatrix, engineVars
<1>11. CASE CellEnded \/ CellFailed
  <2>1. matrix' \in [cell : 0..Cells, doing : {"idle", "ready", "starting", "waiting", "recording"}]
    BY <1>1, <1>11 DEF CellEnded, CellFailed, NextCell, NoMatrix
  <2> QED BY <1>2, <1>11, <2>1 DEF CellEnded, CellFailed, engineVars
<1>12. CASE UNCHANGED benchVars
  BY <1>12 DEF benchVars, engineVars
<1> QED BY <1>4, <1>6, <1>7, <1>8, <1>9, <1>10, <1>11, <1>12 DEF BenchNext

\* BenchmarkEngine: the rows, the status object and the place of every run have
\* their types, for any number of runs, cells and failed statements.
THEOREM BenchTypes == BenchSpec => []BenchTypeOK
<1>1. BenchInit => BenchBooks
  BY BenchAssumption DEF BenchInit, BenchBooks, NoMatrix
<1>2. BenchIInv /\ BenchBooks => BenchTypeOK
  BY DEF BenchIInv, BenchPlaces, BenchBooks, BenchTypeOK
<1> QED BY <1>1, <1>2, BooksStay, BenchStarts, BenchStays, PTL DEF BenchSpec

---------------------------------------------------------------------------
(* SdkRoom *)

Has(s, type) == \E i \in DOMAIN s : s[i].type = type
Carries(type) == type \in {"step2", "update"}

\* The updates that frames on their way bring.
Carried(s) == UNION {s[i].set : i \in {j \in DOMAIN s : Carries(s[j].type)}}

Within(s, held) == \A i \in DOMAIN s : s[i].set \subseteq held

\* The client's SyncStep1 follows its auth frame, and nothing is ahead of it.
Step1First(s) ==
  \A i \in DOMAIN s : s[i].type = "step1" => i = 1 \/ (i = 2 /\ s[1].type = "auth")

\* The server's SyncStep1 precedes its answer to the client's.
Step1Precedes(s) ==
  \A i, j \in DOMAIN s : s[i].type = "step1" /\ s[j].type = "step2" => i < j

LEMMA FrameAppended ==
  ASSUME NEW s \in Seq(SdkFrame), NEW m \in SdkFrame
  PROVE  LET r == Append(s, m)
         IN  /\ r \in Seq(SdkFrame) /\ r # << >>
             /\ \A type : Has(r, type) <=> Has(s, type) \/ m.type = type
             /\ Carried(r) = Carried(s) \cup (IF Carries(m.type) THEN m.set ELSE {})
             /\ \A held : Within(r, held) <=> Within(s, held) /\ m.set \subseteq held
             /\ Step1First(s) /\ m.type # "step1" => Step1First(r)
             /\ Step1Precedes(s) /\ (m.type = "step1" => ~Has(s, "step2")) => Step1Precedes(r)
<1> DEFINE r == Append(s, m)
<1>1. r \in Seq(SdkFrame) /\ DOMAIN s = 1..Len(s) /\ DOMAIN r = 1..(Len(s) + 1) /\ Len(s) \in Nat
      /\ r[Len(s) + 1] = m /\ \A i \in DOMAIN s : i \in DOMAIN r /\ r[i] = s[i]
  OBVIOUS
<1>2. \A i \in DOMAIN r : i \in DOMAIN s \/ i = Len(s) + 1
  BY <1>1
<1> HIDE DEF r
<1>3. \A type : Has(r, type) <=> Has(s, type) \/ m.type = type
  BY <1>1, <1>2 DEF Has
<1>4. \A held : Within(r, held) <=> Within(s, held) /\ m.set \subseteq held
  BY <1>1, <1>2 DEF Within
<1>5. ASSUME NEW e
      PROVE  e \in Carried(r) <=> e \in Carried(s) \/ (Carries(m.type) /\ e \in m.set)
  <2>1. e \in Carried(r) <=> \E i \in DOMAIN r : Carries(r[i].type) /\ e \in r[i].set
    BY DEF Carried
  <2>2. e \in Carried(s) <=> \E i \in DOMAIN s : Carries(s[i].type) /\ e \in s[i].set
    BY DEF Carried
  <2> QED BY <2>1, <2>2, <1>1, <1>2
<1>6. Carried(r) = Carried(s) \cup (IF Carries(m.type) THEN m.set ELSE {})
  BY <1>5
<1>7. Step1First(s) /\ m.type # "step1" => Step1First(r)
  BY <1>1, <1>2 DEF Step1First
<1>8. Step1Precedes(s) /\ (m.type = "step1" => ~Has(s, "step2")) => Step1Precedes(r)
  BY <1>1, <1>2 DEF Step1Precedes, Has
<1>9. r # << >>
  BY <1>1
<1> QED BY <1>1, <1>3, <1>4, <1>6, <1>7, <1>8, <1>9 DEF r

LEMMA FrameTaken ==
  ASSUME NEW s \in Seq(SdkFrame), s # << >>
  PROVE  LET m == Head(s) r == Tail(s)
         IN  /\ r \in Seq(SdkFrame) /\ m \in SdkFrame
             /\ \A type : Has(s, type) <=> Has(r, type) \/ m.type = type
             /\ Carried(s) = Carried(r) \cup (IF Carries(m.type) THEN m.set ELSE {})
             /\ \A held : Within(s, held) <=> Within(r, held) /\ m.set \subseteq held
             /\ Step1First(s) => Step1First(r) /\ (m.type # "auth" => ~Has(r, "step1"))
             /\ Step1Precedes(s) => Step1Precedes(r) /\ (m.type = "step2" => ~Has(s, "step1"))
<1> DEFINE m == Head(s) r == Tail(s)
<1>1. r \in Seq(SdkFrame) /\ DOMAIN s = 1..Len(s) /\ Len(s) \in Nat /\ Len(s) >= 1
      /\ DOMAIN r = 1..(Len(s) - 1) /\ 1 \in DOMAIN s /\ m = s[1] /\ m \in SdkFrame
      /\ \A i \in DOMAIN r : i + 1 \in DOMAIN s /\ r[i] = s[i + 1] /\ i \in Nat /\ i >= 1
  OBVIOUS
<1>2. \A i \in DOMAIN s : i = 1 \/ (i - 1 \in DOMAIN r /\ r[i - 1] = s[i])
  <2> SUFFICES ASSUME NEW i \in DOMAIN s, i # 1 PROVE i - 1 \in DOMAIN r /\ r[i - 1] = s[i]
    OBVIOUS
  <2>1. i - 1 \in DOMAIN r /\ (i - 1) + 1 = i
    BY <1>1
  <2> QED BY <1>1, <2>1
<1> HIDE DEF r, m
<1>3. \A type : Has(s, type) <=> Has(r, type) \/ m.type = type
  BY <1>1, <1>2 DEF Has
<1>4. \A held : Within(s, held) <=> Within(r, held) /\ m.set \subseteq held
  BY <1>1, <1>2 DEF Within
<1>5. ASSUME NEW e
      PROVE  e \in Carried(s) <=> e \in Carried(r) \/ (Carries(m.type) /\ e \in m.set)
  <2>1. e \in Carried(r) <=> \E i \in DOMAIN r : Carries(r[i].type) /\ e \in r[i].set
    BY DEF Carried
  <2>2. e \in Carried(s) <=> \E i \in DOMAIN s : Carries(s[i].type) /\ e \in s[i].set
    BY DEF Carried
  <2> QED BY <2>1, <2>2, <1>1, <1>2
<1>6. Carried(s) = Carried(r) \cup (IF Carries(m.type) THEN m.set ELSE {})
  BY <1>5
<1>7. Step1First(s) => Step1First(r) /\ (m.type # "auth" => ~Has(r, "step1"))
  <2> SUFFICES ASSUME Step1First(s), NEW i \in DOMAIN r, r[i].type = "step1"
               PROVE  i = 1 /\ m.type = "auth"
    BY DEF Step1First, Has
  <2>1. i + 1 = 2 /\ s[1].type = "auth"
    BY <1>1 DEF Step1First
  <2> QED BY <1>1, <2>1
<1>8. Step1Precedes(s) => Step1Precedes(r) /\ (m.type = "step2" => ~Has(s, "step1"))
  <2> SUFFICES ASSUME Step1Precedes(s)
               PROVE  Step1Precedes(r) /\ (m.type = "step2" => ~Has(s, "step1"))
    OBVIOUS
  <2>1. ASSUME NEW i \in DOMAIN r, NEW j \in DOMAIN r, r[i].type = "step1", r[j].type = "step2"
        PROVE  i < j
    <3>1. i + 1 < j + 1
      BY <1>1, <2>1 DEF Step1Precedes
    <3> QED BY <1>1, <3>1
  <2>2. ASSUME m.type = "step2", NEW i \in DOMAIN s, s[i].type = "step1" PROVE FALSE
    BY <1>1, <2>2 DEF Step1Precedes
  <2> QED BY <2>1, <2>2 DEF Step1Precedes, Has
<1> QED BY <1>1, <1>3, <1>4, <1>6, <1>7, <1>8 DEF r, m

\* The server has answered the client's SyncStep1 over this socket.
SdkAnswered == (sdkSynced /\ wire = "open") \/ Has(toClient, "step2")

\* Nothing is on its way without a socket; the server answers when it is live.
SocketStages ==
  /\ joinCall \in {"no", "routing", "thrown"} => wire = "idle"
  /\ wire # "open" => peerAt = "none"
  /\ peerAt = "none" => toServer = << >> /\ toClient = << >>
  /\ sdkSynced => wire = "open" \/ sdkClosed
  /\ SdkAnswered => peerAt = "live"
  /\ Has(toClient, "step1") => peerAt \in {"joined", "live"}

FramesOnTheWay ==
  /\ Within(toServer, sdkDoc) /\ Within(toClient, serverDoc)
  /\ Step1First(toServer) /\ Step1Precedes(toClient)
  /\ sdkSynced /\ wire = "open" => ~Has(toClient, "step1")

\* What the server has and the client has not is on its way to it ...
Down == SdkAnswered => serverDoc \subseteq sdkDoc \cup Carried(toClient)

\* ... and once the client has answered the server's SyncStep1, the other way
\* round, unless the server dropped the client's.
Up ==
  peerAt \in {"joined", "live"} /\ ~Has(toClient, "step1") /\ (Has(toServer, "step1") \/ SdkAnswered)
    => sdkDoc \ late \subseteq serverDoc \cup Carried(toServer)

SdkIInv == SdkTypeOK /\ SocketStages /\ FramesOnTheWay /\ Down /\ Up

LEMMA NoFrames ==
  /\ << >> \in Seq(SdkFrame)
  /\ \A type : ~Has(<< >>, type)
  /\ Carried(<< >>) = {}
  /\ \A held : Within(<< >>, held)
  /\ Step1First(<< >>) /\ Step1Precedes(<< >>)
<1>1. << >> \in Seq(SdkFrame) /\ DOMAIN << >> = {}
  OBVIOUS
<1>2. Carried(<< >>) = {}
  BY <1>1 DEF Carried
<1> QED BY <1>1, <1>2 DEF Has, Within, Step1First, Step1Precedes

LEMMA SdkStarts == SdkInit => SdkIInv
<1> SUFFICES ASSUME SdkInit PROVE SdkIInv
  OBVIOUS
<1>1. SdkTypeOK
  <2>1. toServer \in Seq(SdkFrame) /\ toClient \in Seq(SdkFrame)
    BY DEF SdkInit
  <2>2. /\ joinCall = "no" /\ sdkClosed = FALSE /\ wire = "idle" /\ sdkSynced = FALSE
        /\ attempt = 0 /\ sdkDoc = {} /\ peerAt = "none" /\ serverDoc = {} /\ opened = 0 /\ late = {}
    BY DEF SdkInit
  <2>3. attempt \in 0..MaxAttempts /\ opened \in 0..MaxConnects
    BY <2>2, SdkAssumption
  <2> QED BY <2>1, <2>2, <2>3 DEF SdkTypeOK
<1>2. /\ joinCall = "no" /\ wire = "idle" /\ ~sdkSynced /\ peerAt = "none"
      /\ toServer = << >> /\ toClient = << >> /\ sdkDoc = {} /\ serverDoc = {}
  BY DEF SdkInit
<1>3. ~SdkAnswered /\ ~Has(toClient, "step1") /\ FramesOnTheWay
  BY <1>2, NoFrames DEF SdkAnswered, FramesOnTheWay
<1> QED BY <1>1, <1>2, <1>3 DEF SdkIInv, SocketStages, Down, Up

\* Without a socket there is nothing to say of the frames.
LEMMA Unconnected ==
  ASSUME SdkTypeOK', wire' # "open", peerAt' = "none", toServer' = << >>, toClient' = << >>,
         sdkSynced' => sdkClosed', joinCall' \in {"no", "routing", "thrown"} => wire' = "idle"
  PROVE  SdkIInv'
<1>1. ~SdkAnswered' /\ ~Has(toClient', "step1") /\ FramesOnTheWay'
  BY NoFrames DEF SdkAnswered, FramesOnTheWay
<1> QED BY <1>1 DEF SdkIInv, SocketStages, Down, Up

\* _sendAuthError() before the room is joined.
LEMMA SdkRefused ==
  ASSUME SdkIInv, peerAt \in {"fresh", "verifying"}, RefuseSocket,
         UNCHANGED <<joinCall, sdkClosed, wire, sdkSynced, attempt, sdkDoc, serverDoc, opened, late>>,
         toServer' \in Seq(SdkFrame), Within(toServer', sdkDoc'), Step1First(toServer')
  PROVE  SdkIInv'
<1> DEFINE m == Control("auth_error")
<1>1. m \in SdkFrame /\ m.type = "auth_error" /\ m.set = {} /\ ~Carries(m.type)
  BY DEF SdkFrame, Control, Msg, Carries
<1>2. toClient' = Append(toClient, m) /\ peerAt' = "closing" /\ toClient \in Seq(SdkFrame)
  BY DEF SdkIInv, SdkTypeOK, RefuseSocket
<1> HIDE DEF m
<1>3. /\ toClient' \in Seq(SdkFrame)
      /\ \A type : Has(toClient', type) <=> Has(toClient, type) \/ m.type = type
      /\ \A held : Within(toClient', held) <=> Within(toClient, held) /\ m.set \subseteq held
      /\ Step1Precedes(toClient) => Step1Precedes(toClient')
  BY <1>1, <1>2, FrameAppended
<1>4. SdkTypeOK' /\ wire = "open"
  BY <1>2, <1>3 DEF SdkIInv, SdkTypeOK, SocketStages
<1>5. ~Has(toClient, "step1") /\ ~Has(toClient', "step1") /\ ~SdkAnswered /\ ~SdkAnswered'
  BY <1>1, <1>3 DEF SdkIInv, SocketStages, SdkAnswered
<1>6. FramesOnTheWay'
  BY <1>1, <1>3, <1>5 DEF SdkIInv, FramesOnTheWay
<1> QED BY <1>2, <1>4, <1>5, <1>6 DEF SdkIInv, SocketStages, Down, Up

LEMMA SdkStays ==
  ASSUME SdkIInv, [SdkNext]_sdkVars
  PROVE  SdkIInv'
<1> USE SdkAssumption DEF Unplugged
<1>0. SdkTypeOK /\ SocketStages /\ FramesOnTheWay /\ Down /\ Up
  BY DEF SdkIInv
<1>1. CASE UNCHANGED sdkVars
  BY <1>0, <1>1 DEF sdkVars, SdkIInv, SdkTypeOK, SocketStages, FramesOnTheWay, Down, Up, SdkAnswered
<1>2. CASE JoinRoom
  BY <1>0, <1>2
     DEF JoinRoom, SdkIInv, SdkTypeOK, SocketStages, FramesOnTheWay, Down, Up, SdkAnswered
<1>3. CASE RouteFound
  BY <1>0, <1>3
     DEF RouteFound, SdkIInv, SdkTypeOK, SocketStages, FramesOnTheWay, Down, Up, SdkAnswered
<1>4. CASE ResolveUrl
  <2>1. SdkTypeOK'
    BY <1>0, <1>4 DEF ResolveUrl, ScheduleReconnect, SdkTypeOK
  <2>2. wire' # "open"
    BY <1>4 DEF ResolveUrl, ScheduleReconnect
  <2>3. wire = "resolving" /\ UNCHANGED <<sdkClosed, sdkSynced, peerAt, toServer, toClient>>
    BY <1>4 DEF ResolveUrl
  <2>4. joinCall' \notin {"no", "routing", "thrown"} /\ peerAt = "none" /\ toServer = << >>
        /\ toClient = << >> /\ (sdkSynced => sdkClosed)
    BY <1>0, <1>4, <2>3 DEF ResolveUrl, SocketStages
  <2> QED BY <2>1, <2>2, <2>3, <2>4, Unconnected
<1>5. CASE ReconnectTimer
  <2>1. SdkTypeOK'
    BY <1>0, <1>5 DEF ReconnectTimer, SdkTypeOK
  <2> QED BY <1>0, <1>5, <2>1, Unconnected DEF ReconnectTimer, SocketStages
<1>6. CASE OnOpen
  <2> DEFINE auth == Control("auth") step1 == Msg("step1", sdkDoc)
  <2>1. auth \in SdkFrame /\ step1 \in SdkFrame /\ auth.type = "auth" /\ auth.set = {}
        /\ step1.type = "step1" /\ step1.set = sdkDoc
    BY <1>0 DEF SdkTypeOK, SdkFrame, Control, Msg
  <2>2. toServer' = <<auth, step1>> /\ wire = "opening" /\ wire' = "open" /\ attempt' = 0
        /\ peerAt' = "fresh"
        /\ UNCHANGED <<joinCall, sdkClosed, sdkSynced, sdkDoc, serverDoc, toClient, opened, late>>
    BY <1>6 DEF OnOpen
  <2> HIDE DEF auth, step1
  <2>3. toClient' = << >> /\ ~sdkSynced' /\ ~sdkClosed'
    BY <1>0, <2>2 DEF SocketStages, SdkTypeOK
  <2>4. toServer' \in Seq(SdkFrame) /\ DOMAIN toServer' = {1, 2} /\ toServer'[1] = auth
        /\ toServer'[2] = step1
    BY <2>1, <2>2
  <2>5. Within(toServer', sdkDoc') /\ Step1First(toServer')
    BY <2>1, <2>2, <2>4 DEF Within, Step1First
  <2>6. SdkTypeOK'
    BY <1>0, <2>2, <2>3, <2>4 DEF SdkTypeOK
  <2>7. ~SdkAnswered' /\ ~Has(toClient, "step1")' /\ FramesOnTheWay'
    BY <2>2, <2>3, <2>5, NoFrames DEF SdkAnswered, FramesOnTheWay
  <2>8. joinCall \notin {"no", "routing", "thrown"}
    BY <1>0, <2>2 DEF SocketStages
  <2> QED BY <2>2, <2>3, <2>6, <2>7, <2>8 DEF SdkIInv, SocketStages, Down, Up
<1>7. CASE OnClose
  <2>1. SdkTypeOK'
    <3>1. toServer' \in Seq(SdkFrame) /\ toClient' \in Seq(SdkFrame) /\ peerAt' = "none"
          /\ sdkSynced' = FALSE /\ ScheduleReconnect /\ wire \in {"opening", "open"}
          /\ UNCHANGED <<joinCall, sdkClosed, sdkDoc, serverDoc, opened, late>>
      BY <1>7 DEF OnClose
    <3>2. attempt' \in 0..MaxAttempts /\ wire' \in {"waiting", "idle"} /\ ~sdkClosed
      BY <1>0, <3>1 DEF ScheduleReconnect, SdkTypeOK
    <3> QED BY <1>0, <3>1, <3>2 DEF SdkTypeOK
  <2>2. wire' # "open" /\ joinCall' \notin {"no", "routing", "thrown"}
    BY <1>0, <1>7 DEF OnClose, ScheduleReconnect, SocketStages
  <2>3. ~sdkSynced' /\ peerAt' = "none" /\ toServer' = << >> /\ toClient' = << >>
    BY <1>7 DEF OnClose
  <2> QED BY <2>1, <2>2, <2>3, Unconnected
<1>8. CASE LeaveSdkRoom \/ OnAuthError
  <2>1. SdkTypeOK'
    BY <1>0, <1>8, NoFrames DEF LeaveSdkRoom, OnAuthError, SdkTypeOK
  <2>2. wire' # "open" /\ sdkClosed' = TRUE
    BY <1>0, <1>8 DEF LeaveSdkRoom, OnAuthError, SdkTypeOK
  <2> QED BY <1>8, <2>1, <2>2, Unconnected DEF LeaveSdkRoom, OnAuthError
<1>9. ASSUME NEW e \in OwnEdit, EditDoc(e)
      PROVE  SdkIInv'
  <2> DEFINE m == Msg("update", {e})
  <2>1. m \in SdkFrame /\ m.type = "update" /\ m.set = {e} /\ Carries(m.type)
    BY DEF SdkFrame, SdkUpdates, Msg, Carries
  <2>2. sdkDoc' = sdkDoc \cup {e} /\ sdkDoc' \subseteq SdkUpdates
        /\ UNCHANGED <<joinCall, sdkClosed, wire, sdkSynced, attempt, peerAt, serverDoc,
                       toClient, opened>>
    BY <1>0, <1>9 DEF EditDoc, SdkTypeOK, SdkUpdates
  <2> HIDE DEF m
  <2>3. CASE sdkSynced /\ wire = "open"
    <3>1. toServer' = Append(toServer, m) /\ late' = late /\ toServer \in Seq(SdkFrame)
      BY <1>0, <1>9, <2>3 DEF EditDoc, SdkTypeOK, m
    <3>2. /\ toServer' \in Seq(SdkFrame)
          /\ \A type : Has(toServer', type) <=> Has(toServer, type) \/ m.type = type
          /\ Carried(toServer') = Carried(toServer) \cup {e}
          /\ Within(toServer', sdkDoc') <=> Within(toServer, sdkDoc') /\ {e} \subseteq sdkDoc'
          /\ Step1First(toServer) => Step1First(toServer')
      BY <2>1, <3>1, FrameAppended
    <3>3. SdkTypeOK'
      BY <1>0, <2>2, <3>1, <3>2 DEF SdkTypeOK
    <3>4. Within(toServer, sdkDoc')
      BY <1>0, <2>2 DEF FramesOnTheWay, Within
    <3>5. SocketStages'
      BY <1>0, <2>2, <2>3, <3>2 DEF SocketStages, SdkAnswered
    <3>6. FramesOnTheWay'
      BY <1>0, <2>2, <3>2, <3>4 DEF FramesOnTheWay
    <3>7. Down' /\ Up'
      BY <1>0, <2>1, <2>2, <3>1, <3>2 DEF Down, Up, SdkAnswered
    <3> QED BY <3>3, <3>5, <3>6, <3>7 DEF SdkIInv
  <2>4. CASE ~(sdkSynced /\ wire = "open")
    <3>1. toServer' = toServer /\ late' = late \cup {e}
      BY <1>9, <2>4 DEF EditDoc
    <3>2. SdkTypeOK'
      BY <1>0, <2>2, <3>1 DEF SdkTypeOK
    <3>3. SocketStages' /\ FramesOnTheWay'
      BY <1>0, <2>2, <3>1 DEF SocketStages, FramesOnTheWay, SdkAnswered, Within
    <3>4. Down' /\ Up'
      BY <1>0, <2>2, <3>1 DEF Down, Up, SdkAnswered
    <3> QED BY <3>2, <3>3, <3>4 DEF SdkIInv
  <2> QED BY <2>3, <2>4
<1>10. CASE OnSync
  <2> DEFINE m == Head(toClient)
  <2>1. wire = "open" /\ toClient # << >> /\ toClient' = Tail(toClient)
        /\ UNCHANGED <<sdkClosed, wire, attempt, peerAt, serverDoc, opened>>
        /\ toClient \in Seq(SdkFrame)
    BY <1>0, <1>10 DEF OnSync, SdkTypeOK
  <2>2. /\ toClient' \in Seq(SdkFrame) /\ m \in SdkFrame
        /\ \A type : Has(toClient, type) <=> Has(toClient', type) \/ m.type = type
        /\ Carried(toClient) = Carried(toClient') \cup (IF Carries(m.type) THEN m.set ELSE {})
        /\ \A held : Within(toClient, held) <=> Within(toClient', held) /\ m.set \subseteq held
        /\ Step1Precedes(toClient) =>
             Step1Precedes(toClient') /\ (m.type = "step2" => ~Has(toClient, "step1"))
    BY <2>1, FrameTaken
  <2>3. m.type # "auth_error"
    BY <1>10 DEF OnSync
  <2>4. m.set \subseteq serverDoc /\ m.set \subseteq SdkUpdates
    BY <1>0, <2>2 DEF FramesOnTheWay, SdkFrame
  <2>5. CASE m.type = "step1"
    <3> DEFINE r == Msg("step2", Diff(sdkDoc, m.set))
    <3>1. toServer' = Append(toServer, r) /\ late' = {}
          /\ UNCHANGED <<joinCall, sdkSynced, sdkDoc>> /\ toServer \in Seq(SdkFrame)
      BY <1>0, <1>10, <2>5 DEF OnSync, SdkTypeOK
    <3>2. r \in SdkFrame /\ r.type = "step2" /\ r.set = sdkDoc \ m.set /\ Carries(r.type)
          /\ ~Carries(m.type)
      BY <1>0, <2>5 DEF SdkFrame, SdkTypeOK, Msg, Diff, Carries
    <3> HIDE DEF r, m
    <3>3. /\ toServer' \in Seq(SdkFrame)
          /\ \A type : Has(toServer', type) <=> Has(toServer, type) \/ r.type = type
          /\ Carried(toServer') = Carried(toServer) \cup (sdkDoc \ m.set)
          /\ Within(toServer', sdkDoc) <=> Within(toServer, sdkDoc) /\ r.set \subseteq sdkDoc
          /\ Step1First(toServer) => Step1First(toServer')
      BY <3>1, <3>2, FrameAppended
    <3>4. SdkTypeOK'
      BY <1>0, <2>1, <2>2, <3>1, <3>3 DEF SdkTypeOK
    <3>5. SdkAnswered' <=> SdkAnswered
      BY <2>1, <2>2, <2>5, <3>1 DEF SdkAnswered
    <3>6. SocketStages'
      BY <1>0, <2>1, <2>2, <2>5, <3>1, <3>3, <3>5 DEF SocketStages
    <3>7. FramesOnTheWay'
      BY <1>0, <2>1, <2>2, <2>5, <3>1, <3>2, <3>3 DEF FramesOnTheWay
    <3>8. Down'
      BY <1>0, <2>1, <2>2, <3>1, <3>2, <3>5 DEF Down
    <3>9. Up'
      BY <2>1, <2>4, <3>1, <3>3 DEF Up
    <3> QED BY <3>4, <3>6, <3>7, <3>8, <3>9 DEF SdkIInv
  <2>6. CASE m.type # "step1"
    <3>1. sdkDoc' = sdkDoc \cup m.set /\ UNCHANGED <<toServer, late>>
      BY <1>10, <2>6 DEF OnSync
    <3>2. IF m.type = "step2" THEN sdkSynced' = TRUE
                              ELSE sdkSynced' = sdkSynced
      BY <1>10, <2>6 DEF OnSync
    <3>3. joinCall' = joinCall \/ (joinCall = "pending" /\ joinCall' = "resolved")
      BY <1>10, <2>6 DEF OnSync
    <3>4. SdkTypeOK'
      BY <1>0, <2>1, <2>2, <2>4, <3>1, <3>2, <3>3 DEF SdkTypeOK
    <3> HIDE DEF m
    <3>5. SdkAnswered' <=> SdkAnswered
      BY <2>1, <2>2, <3>2 DEF SdkAnswered
    <3>6. Has(toClient', "step1") <=> Has(toClient, "step1")
      BY <2>2, <2>6
    <3>7. SocketStages'
      BY <1>0, <2>1, <3>1, <3>2, <3>3, <3>5, <3>6 DEF SocketStages
    <3>8. Within(toServer', sdkDoc')
      BY <1>0, <3>1 DEF FramesOnTheWay, Within
    <3>9. FramesOnTheWay'
      BY <1>0, <2>1, <2>2, <3>1, <3>2, <3>6, <3>8 DEF FramesOnTheWay
    <3>10. Down'
      BY <1>0, <2>1, <2>2, <3>1, <3>5 DEF Down
    <3>11. Up'
      BY <1>0, <2>1, <2>4, <3>1, <3>5, <3>6 DEF Up
    <3> QED BY <3>4, <3>7, <3>9, <3>10, <3>11 DEF SdkIInv
  <2> QED BY <2>5, <2>6
<1>11. CASE ServerReceives
  <2> DEFINE m == Head(toServer)
  <2>1. peerAt # "none" /\ toServer # << >> /\ toServer' = Tail(toServer)
        /\ UNCHANGED <<joinCall, sdkClosed, wire, sdkSynced, attempt, sdkDoc, opened, late>>
        /\ toServer \in Seq(SdkFrame)
    BY <1>0, <1>11 DEF ServerReceives, SdkTypeOK
  <2>2. /\ toServer' \in Seq(SdkFrame) /\ m \in SdkFrame
        /\ \A type : Has(toServer, type) <=> Has(toServer', type) \/ m.type = type
        /\ Carried(toServer) = Carried(toServer') \cup (IF Carries(m.type) THEN m.set ELSE {})
        /\ \A held : Within(toServer, held) <=> Within(toServer', held) /\ m.set \subseteq held
        /\ Step1First(toServer) =>
             Step1First(toServer') /\ (m.type # "auth" => ~Has(toServer', "step1"))
    BY <2>1, FrameTaken
  <2>3. m.set \subseteq sdkDoc /\ m.set \subseteq SdkUpdates /\ wire = "open"
        /\ Within(toServer', sdkDoc') /\ Step1First(toServer')
    BY <1>0, <2>1, <2>2 DEF FramesOnTheWay, SocketStages, SdkFrame
  <2>4. CASE m.type = "auth" /\ peerAt = "fresh" /\ peerAt' = "verifying"
             /\ UNCHANGED <<serverDoc, toClient>>
    <3>1. SdkTypeOK'
      BY <1>0, <2>1, <2>2, <2>4 DEF SdkTypeOK
    <3> QED BY <1>0, <2>1, <2>2, <2>3, <2>4, <3>1
            DEF SdkIInv, SocketStages, FramesOnTheWay, Down, Up, SdkAnswered
  <2>5. CASE m.type # "auth" /\ peerAt \in {"fresh", "verifying"} /\ RefuseSocket
             /\ UNCHANGED serverDoc
    BY <2>1, <2>2, <2>3, <2>5, SdkRefused
  <2>6. CASE peerAt \in {"entering", "joined", "closing"}
             /\ UNCHANGED <<peerAt, serverDoc, toClient>>
    <3>1. SdkTypeOK'
      BY <1>0, <2>1, <2>2, <2>6 DEF SdkTypeOK
    <3>2. ~SdkAnswered /\ ~SdkAnswered'
      BY <1>0, <2>1, <2>6 DEF SocketStages, SdkAnswered
    <3>3. Up'
      BY <1>0, <2>1, <2>2, <2>3, <2>6, <3>2 DEF Up, FramesOnTheWay, Carries
    <3> QED BY <1>0, <2>1, <2>2, <2>3, <2>6, <3>1, <3>2, <3>3
            DEF SdkIInv, SocketStages, FramesOnTheWay, Down, SdkAnswered
  <2>7. CASE m.type = "step1" /\ peerAt = "live" /\ UNCHANGED <<peerAt, serverDoc>>
             /\ toClient' = Append(toClient, Msg("step2", Diff(serverDoc, m.set)))
    <3> DEFINE r == Msg("step2", Diff(serverDoc, m.set))
    <3>1. r \in SdkFrame /\ r.type = "step2" /\ r.set = serverDoc \ m.set /\ Carries(r.type)
          /\ ~Carries(m.type) /\ toClient \in Seq(SdkFrame)
      BY <1>0, <2>7 DEF SdkFrame, SdkTypeOK, Msg, Diff, Carries
    <3> HIDE DEF r, m
    <3>2. /\ toClient' \in Seq(SdkFrame)
          /\ \A type : Has(toClient', type) <=> Has(toClient, type) \/ r.type = type
          /\ Carried(toClient') = Carried(toClient) \cup (serverDoc \ m.set)
          /\ Within(toClient', serverDoc) <=> Within(toClient, serverDoc) /\ r.set \subseteq serverDoc
          /\ Step1Precedes(toClient) => Step1Precedes(toClient')
      BY <2>7, <3>1, FrameAppended DEF r
    <3>3. SdkTypeOK'
      BY <1>0, <2>1, <2>2, <2>7, <3>2 DEF SdkTypeOK
    <3>4. Has(toClient', "step1") <=> Has(toClient, "step1")
      BY <3>1, <3>2
    <3>5. SocketStages'
      BY <1>0, <2>1, <2>2, <2>7, <3>2, <3>4 DEF SocketStages, SdkAnswered
    <3>6. FramesOnTheWay'
      BY <1>0, <2>1, <2>2, <2>3, <2>7, <3>1, <3>2, <3>4 DEF FramesOnTheWay
    <3>7. Down'
      BY <2>1, <2>3, <2>7, <3>2 DEF Down
    <3>8. Up'
      BY <1>0, <2>1, <2>2, <2>7, <3>1, <3>4 DEF Up
    <3> QED BY <3>3, <3>5, <3>6, <3>7, <3>8 DEF SdkIInv
  <2>8. CASE m.type \in {"step2", "update"} /\ peerAt = "live" /\ serverDoc' = serverDoc \cup m.set
             /\ UNCHANGED <<peerAt, toClient>>
    <3>1. SdkTypeOK'
      BY <1>0, <2>1, <2>2, <2>3, <2>8 DEF SdkTypeOK
    <3>2. Within(toClient', serverDoc')
      BY <1>0, <2>8 DEF FramesOnTheWay, Within
    <3>3. Up'
      BY <1>0, <2>1, <2>2, <2>8 DEF Up, SdkAnswered, Carries
    <3> QED BY <1>0, <2>1, <2>2, <2>3, <2>8, <3>1, <3>2, <3>3
            DEF SdkIInv, SocketStages, FramesOnTheWay, Down, SdkAnswered
  <2> QED BY <1>11, <2>4, <2>5, <2>6, <2>7, <2>8 DEF ServerReceives
<1>12. CASE ServerVerifies
  <2>1. CASE peerAt' = "entering" /\ UNCHANGED toClient
    BY <1>0, <1>12, <2>1
       DEF ServerVerifies, SdkIInv, SdkTypeOK, SocketStages, FramesOnTheWay, Down, Up, SdkAnswered
  <2>2. CASE RefuseSocket
    BY <1>0, <1>12, <2>2, SdkRefused DEF ServerVerifies, SdkTypeOK, FramesOnTheWay
  <2> QED BY <1>12, <2>1, <2>2 DEF ServerVerifies
<1>13. CASE ServerJoins
  <2> DEFINE m == Msg("step1", serverDoc)
  <2>1. m \in SdkFrame /\ m.type = "step1" /\ m.set = serverDoc /\ ~Carries(m.type)
    BY <1>0 DEF SdkFrame, SdkTypeOK, Msg, Carries
  <2>2. toClient' = Append(toClient, m) /\ peerAt = "entering" /\ peerAt' = "joined"
        /\ toClient \in Seq(SdkFrame)
        /\ UNCHANGED <<joinCall, sdkClosed, wire, sdkSynced, attempt, sdkDoc, serverDoc,
                       toServer, opened, late>>
    BY <1>0, <1>13 DEF ServerJoins, SdkTypeOK
  <2> HIDE DEF m
  <2>3. /\ toClient' \in Seq(SdkFrame)
        /\ \A type : Has(toClient', type) <=> Has(toClient, type) \/ m.type = type
        /\ \A held : Within(toClient', held) <=> Within(toClient, held) /\ m.set \subseteq held
        /\ Step1Precedes(toClient) /\ ~Has(toClient, "step2") => Step1Precedes(toClient')
    BY <2>1, <2>2, FrameAppended
  <2>4. ~SdkAnswered /\ ~SdkAnswered' /\ Has(toClient', "step1")
    BY <1>0, <2>1, <2>2, <2>3 DEF SocketStages, SdkAnswered
  <2>5. SdkTypeOK'
    BY <1>0, <2>2, <2>3 DEF SdkTypeOK
  <2>6. FramesOnTheWay'
    BY <1>0, <2>1, <2>2, <2>3, <2>4 DEF FramesOnTheWay, SdkAnswered
  <2> QED BY <1>0, <2>2, <2>4, <2>5, <2>6 DEF SdkIInv, SocketStages, Down, Up
<1>14. CASE ServerTracks
  BY <1>0, <1>14
     DEF ServerTracks, SdkIInv, SdkTypeOK, SocketStages, FramesOnTheWay, Down, Up, SdkAnswered
<1>15. ASSUME NEW e \in PeerEdit, PeerEdits(e)
       PROVE  SdkIInv'
  <2> DEFINE m == Msg("update", {e})
  <2>1. m \in SdkFrame /\ m.type = "update" /\ m.set = {e} /\ Carries(m.type)
    BY DEF SdkFrame, SdkUpdates, Msg, Carries
  <2>2. serverDoc' = serverDoc \cup {e} /\ serverDoc' \subseteq SdkUpdates
        /\ UNCHANGED <<joinCall, sdkClosed, wire, sdkSynced, attempt, sdkDoc, peerAt,
                       toServer, opened, late>>
    BY <1>0, <1>15 DEF PeerEdits, SdkTypeOK, SdkUpdates
  <2>3. Within(toClient, serverDoc')
    BY <1>0, <2>2 DEF FramesOnTheWay, Within
  <2> HIDE DEF m
  <2>4. CASE peerAt \in {"joined", "live"}
    <3>1. toClient' = Append(toClient, m) /\ toClient \in Seq(SdkFrame)
      BY <1>0, <1>15, <2>4 DEF PeerEdits, SdkTypeOK, m
    <3>2. /\ toClient' \in Seq(SdkFrame)
          /\ \A type : Has(toClient', type) <=> Has(toClient, type) \/ m.type = type
          /\ Carried(toClient') = Carried(toClient) \cup {e}
          /\ Within(toClient', serverDoc') <=> Within(toClient, serverDoc') /\ m.set \subseteq serverDoc'
          /\ Step1Precedes(toClient) => Step1Precedes(toClient')
      BY <2>1, <3>1, FrameAppended
    <3>3. SdkTypeOK'
      BY <1>0, <2>2, <3>2 DEF SdkTypeOK
    <3>4. (SdkAnswered' <=> SdkAnswered) /\ (Has(toClient', "step1") <=> Has(toClient, "step1"))
      BY <2>1, <2>2, <3>2 DEF SdkAnswered
    <3>5. SocketStages'
      BY <1>0, <2>2, <2>4, <3>4 DEF SocketStages
    <3>6. FramesOnTheWay'
      BY <1>0, <2>1, <2>2, <2>3, <3>2, <3>4 DEF FramesOnTheWay
    <3>7. Down' /\ Up'
      BY <1>0, <2>2, <3>2, <3>4 DEF Down, Up
    <3> QED BY <3>3, <3>5, <3>6, <3>7 DEF SdkIInv
  <2>5. CASE peerAt \notin {"joined", "live"}
    <3>1. toClient' = toClient
      BY <1>15, <2>5 DEF PeerEdits
    <3> QED BY <1>0, <2>2, <2>3, <2>5, <3>1
            DEF SdkIInv, SdkTypeOK, SocketStages, FramesOnTheWay, Down, Up, SdkAnswered
  <2> QED BY <2>4, <2>5
<1> QED BY <1>1, <1>2, <1>3, <1>4, <1>5, <1>6, <1>7, <1>8, <1>9, <1>10, <1>11, <1>12, <1>13,
           <1>14, <1>15 DEF SdkNext

\* The variables of the room and of the server's end keep their types.
THEOREM SdkTypes == SdkSpec => []SdkTypeOK
<1>1. SdkIInv => SdkTypeOK
  BY DEF SdkIInv
<1> QED BY <1>1, SdkStarts, SdkStays, PTL DEF SdkSpec

\* PeerGridRoom 'synced': whenever nothing is on its way, the room and the server
\* differ only by what was typed between the two answers of the handshake, over
\* any number of reconnections and with any number of other users' updates.
THEOREM SyncedAgree == SdkSpec => []SyncedIsConsistent
<1>1. SdkIInv => SyncedIsConsistent
  <2> SUFFICES ASSUME SdkIInv, sdkSynced, wire = "open", peerAt = "live",
                      toServer = << >>, toClient = << >>
               PROVE  sdkDoc \ late \subseteq serverDoc /\ serverDoc \subseteq sdkDoc
    BY DEF SyncedIsConsistent
  <2>1. SdkAnswered /\ ~Has(toClient, "step1") /\ Carried(toClient) = {} /\ Carried(toServer) = {}
    BY NoFrames DEF SdkAnswered
  <2> QED BY <2>1 DEF SdkIInv, Down, Up
<1> QED BY <1>1, SdkStarts, SdkStays, PTL DEF SdkSpec

---------------------------------------------------------------------------
(* VersionHistory *)

\* Every place up to the number of its members is that of a member of the set.
LEMMA RankOnto ==
  ASSUME NEW S \in SUBSET Nat, IsFiniteSet(S), NEW k \in 1..Cardinality(S)
  PROVE  \E i \in S : Cardinality({j \in S : j < i}) = k - 1
<1> DEFINE Below(i) == {j \in S : j < i}
           rank == [i \in S |-> Cardinality(Below(i)) + 1]
<1>1. Cardinality(S) \in Nat
  BY FS_CardinalityType
<1>2. ASSUME NEW i \in S
      PROVE  /\ IsFiniteSet(Below(i)) /\ Cardinality(Below(i)) \in Nat
             /\ Cardinality(Below(i)) < Cardinality(S)
  <2>1. Below(i) \in SUBSET S /\ i \notin Below(i)
    OBVIOUS
  <2>2. IsFiniteSet(Below(i)) /\ Cardinality(Below(i)) <= Cardinality(S)
        /\ Cardinality(Below(i)) # Cardinality(S)
    BY <2>1, FS_Subset
  <2>3. Cardinality(Below(i)) \in Nat
    BY <2>2, FS_CardinalityType
  <2> QED BY <1>1, <2>2, <2>3
<1>3. ASSUME NEW i \in S, NEW j \in S, i < j
      PROVE  Cardinality(Below(i)) < Cardinality(Below(j))
  <2>1. Below(i) \in SUBSET Below(j) /\ i \in Below(j) /\ i \notin Below(i)
    <3>1. ASSUME NEW x \in S, x < i PROVE x < j
      <4>1. x \in Nat /\ i \in Nat /\ j \in Nat
        OBVIOUS
      <4> QED BY <1>3, <3>1, <4>1
    <3>2. ~(i < i)
      <4>1. i \in Nat
        OBVIOUS
      <4> QED BY <4>1
    <3> QED BY <1>3, <3>1, <3>2
  <2>2. Cardinality(Below(i)) <= Cardinality(Below(j))
        /\ Cardinality(Below(i)) # Cardinality(Below(j))
    BY <1>2, <2>1, FS_Subset
  <2> QED BY <1>2, <2>2
<1> HIDE DEF Below
<1>4. rank \in [S -> 1..Cardinality(S)]
  <2>1. ASSUME NEW i \in S PROVE Cardinality(Below(i)) + 1 \in 1..Cardinality(S)
    BY <1>1, <1>2
  <2> QED BY <2>1
<1>5. \A i, j \in S : rank[i] = rank[j] => i = j
  <2> SUFFICES ASSUME NEW i \in S, NEW j \in S, i # j PROVE rank[i] # rank[j]
    OBVIOUS
  <2>1. i < j \/ j < i
    OBVIOUS
  <2> QED BY <1>2, <1>3, <2>1
<1>6. rank \in Injection(S, 1..Cardinality(S))
  BY <1>4, <1>5 DEF Injection, IsInjective
<1>7. IsFiniteSet(1..Cardinality(S)) /\ Cardinality(1..Cardinality(S)) = Cardinality(S)
  BY <1>1, FS_Interval
<1>8. rank \in Surjection(S, 1..Cardinality(S))
  BY <1>6, <1>7, FS_Injection
<1>9. PICK i \in S : rank[i] = k
  BY <1>8 DEF Surjection
<1>10. Cardinality(Below(i)) = k - 1
  BY <1>2, <1>9
<1> QED BY <1>10 DEF Below

Hash == {NoHash} \cup {<<"restored", t>> : t \in Task}
        \cup {<<kind, n, gone>> : kind \in {"auto", "manual"}, n \in Nat, gone \in SUBSET Nat}
Version == [source : {"auto", "manual", "restore"}, hash : Hash, size : 0..MaxItems]

\* Rows() takes some of the versions, each of them once.
LEMMA RowsOfVersions ==
  ASSUME versions \in Seq(Version), NEW at \in SUBSET DOMAIN versions
  PROVE  /\ Rows(at) \in Seq(Version)
         /\ \E f \in [DOMAIN Rows(at) -> DOMAIN versions] :
              /\ \A k \in DOMAIN Rows(at) : Rows(at)[k] = versions[f[k]]
              /\ \A k, l \in DOMAIN Rows(at) : f[k] = f[l] => k = l
<1> DEFINE n == Cardinality(at)
           Place(k) == CHOOSE i \in at : Cardinality({j \in at : j < i}) = k - 1
           f == [k \in 1..n |-> Place(k)]
<1>1. DOMAIN versions = 1..Len(versions) /\ Len(versions) \in Nat
      /\ \A i \in DOMAIN versions : versions[i] \in Version
  OBVIOUS
<1>2. at \in SUBSET Nat /\ at \in SUBSET (1..Len(versions))
  BY <1>1
<1>3. IsFiniteSet(at) /\ n \in Nat
  <2>1. IsFiniteSet(1..Len(versions))
    BY <1>1, FS_Interval
  <2> QED BY <1>2, <2>1, FS_Subset, FS_CardinalityType
<1>4. ASSUME NEW k \in 1..n
      PROVE  Place(k) \in at /\ Cardinality({j \in at : j < Place(k)}) = k - 1
  BY <1>2, <1>3, RankOnto
<1> HIDE DEF n, Place
<1>5. Rows(at) = [k \in 1..n |-> versions[Place(k)]]
  BY DEF Rows, n, Place
<1>6. \A k \in 1..n : versions[Place(k)] \in Version
  BY <1>1, <1>4
<1>7. Rows(at) \in Seq(Version) /\ DOMAIN Rows(at) = 1..n
  BY <1>3, <1>5, <1>6
<1>8. f \in [1..n -> DOMAIN versions] /\ \A k \in 1..n : Rows(at)[k] = versions[f[k]]
  BY <1>4, <1>5
<1>9. ASSUME NEW k \in 1..n, NEW l \in 1..n, f[k] = f[l] PROVE k = l
  <2>1. Place(k) = Place(l)
    BY <1>9
  <2>2. k - 1 = l - 1
    BY <1>4, <2>1
  <2> QED BY <1>3, <2>2
<1> QED BY <1>7, <1>8, <1>9

VersionPlaces ==
  /\ VersionTypeOK
  /\ hash \in [Task -> Hash] /\ captured \in Hash /\ versions \in Seq(Version)

\* Whoever is about to insert found no version with its hash, and is alone with it.
TwinsApart ==
  ~twinRace =>
    /\ \A i, j \in DOMAIN versions : versions[i].hash = versions[j].hash => i = j
    /\ \A t \in Task : taskAt[t] = "inserting" => ~Found(t)
    /\ \A t, u \in Task :
         taskAt[t] = "inserting" /\ taskAt[u] = "inserting" /\ hash[t] = hash[u] => t = u

\* What a restore deletes is all of the log that was there when it began.
LoadedAll ==
  \A t \in Task :
    /\ taskAt[t] = "loading" => before[t] <= Len(log)
    /\ taskAt[t] = "appending" => before[t] <= seen[t]
    /\ seen[t] <= Len(log)

VersionIInv == VersionPlaces /\ TwinsApart /\ LoadedAll

LEMMA VersionStarts == VersionInit => VersionIInv
<1> SUFFICES ASSUME VersionInit PROVE VersionIInv
  OBVIOUS
<1>1. /\ taskAt = [t \in Task |-> "new"] /\ source = [t \in Task |-> "auto"]
      /\ hash = [t \in Task |-> NoHash] /\ chosen = [t \in Task |-> 0]
      /\ seen = [t \in Task |-> 0] /\ before = [t \in Task |-> 0]
      /\ erased = {} /\ covered = 0 /\ captured = NoHash /\ twinRace = FALSE
      /\ log \in Seq(Task \cup {User}) /\ Len(log) = 0
      /\ versions \in Seq(Version) /\ DOMAIN versions = {}
  BY DEF VersionInit
<1>2. NoHash \in Hash /\ 0 \in 0..MaxItems
  BY TaskAssumption DEF Hash
<1>3. covered \in 0..Len(log) /\ Len(log) <= MaxItems /\ erased \subseteq DOMAIN log
  BY <1>1, TaskAssumption
<1>4. VersionPlaces
  BY <1>1, <1>2, <1>3 DEF VersionPlaces, VersionTypeOK
<1> QED BY <1>1, <1>4 DEF VersionIInv, TwinsApart, LoadedAll

\* The hash of a document is one.
LEMMA HashTyped ==
  ASSUME VersionPlaces, NEW t \in Task, NEW kind \in {"auto", "manual", "restore"}
  PROVE  HashOf(t, kind) \in Hash
<1>1. Len(log) \in Nat /\ erased \in SUBSET Nat
  BY DEF VersionPlaces, VersionTypeOK
<1> QED BY <1>1 DEF HashOf, Hash

\* A version that was pruned leaves the others as they were.
LEMMA PruneStays ==
  ASSUME VersionIInv, NEW at \in SUBSET DOMAIN versions, versions' = Rows(at),
         NEW t \in Task, NEW from, from # "inserting", NEW to \in {"counting", "done"},
         Steps(t, from, to),
         UNCHANGED <<source, hash, chosen, seen, before, log, erased, covered, captured, twinRace>>
  PROVE  VersionIInv'
<1> USE DEF VersionIInv, VersionPlaces, VersionTypeOK, Steps
<1>1. versions' \in Seq(Version)
  BY RowsOfVersions
<1>2. PICK f \in [DOMAIN Rows(at) -> DOMAIN versions] :
            /\ \A k \in DOMAIN Rows(at) : Rows(at)[k] = versions[f[k]]
            /\ \A k, l \in DOMAIN Rows(at) : f[k] = f[l] => k = l
  <2>1. versions \in Seq(Version)
    OBVIOUS
  <2> HIDE DEF VersionIInv, VersionPlaces
  <2> QED BY <2>1, RowsOfVersions
<1>3. VersionPlaces'
  BY <1>1
<1>4. \A u \in Task : taskAt'[u] = "inserting" => taskAt[u] = "inserting"
  OBVIOUS
<1>5. TwinsApart'
  <2> SUFFICES ASSUME ~twinRace
               PROVE  /\ \A i, j \in DOMAIN versions' : versions'[i].hash = versions'[j].hash => i = j
                      /\ \A u \in Task : taskAt'[u] = "inserting" => ~Found(u)'
                      /\ \A u, w \in Task : taskAt'[u] = "inserting" /\ taskAt'[w] = "inserting"
                                             /\ hash[u] = hash[w] => u = w
    BY DEF TwinsApart
  <2>1. \A i, j \in DOMAIN versions' : versions'[i].hash = versions'[j].hash => i = j
    BY <1>2 DEF TwinsApart
  <2>2. \A u \in Task : taskAt'[u] = "inserting" => ~Found(u)'
    BY <1>2, <1>4 DEF TwinsApart, Found
  <2> QED BY <1>4, <2>1, <2>2 DEF TwinsApart
<1>6. LoadedAll'
  BY DEF LoadedAll
<1> QED BY <1>3, <1>5, <1>6

LEMMA VersionStays ==
  ASSUME VersionIInv, [VersionNext]_versionVars
  PROVE  VersionIInv'
<1> USE TaskAssumption DEF Steps
<1>0. VersionPlaces /\ TwinsApart /\ LoadedAll
  BY DEF VersionIInv
<1>1. CASE UNCHANGED versionVars
  BY <1>0, <1>1 DEF versionVars, VersionIInv, VersionPlaces, VersionTypeOK, TwinsApart, LoadedAll, Found
<1>2. ASSUME NEW t \in Task, AutoCapture(t) \/ CreateCheckpoint(t)
      PROVE  VersionIInv'
  <2>1. PICK kind \in {"auto", "manual"} :
          /\ taskAt[t] = "new" /\ taskAt' = [taskAt EXCEPT ![t] = "checking"]
          /\ source' = [source EXCEPT ![t] = kind]
          /\ hash' = [hash EXCEPT ![t] = HashOf(t, kind)]
          /\ UNCHANGED <<chosen, seen, before, log, erased, covered, captured, versions, twinRace>>
    BY <1>2 DEF AutoCapture, CreateCheckpoint
  <2>2. HashOf(t, kind) \in Hash
    BY <1>0, HashTyped
  <2>3. VersionPlaces'
    BY <1>0, <2>1, <2>2 DEF VersionPlaces, VersionTypeOK
  <2>4. \A u \in Task : taskAt'[u] = "inserting" => taskAt[u] = "inserting" /\ hash'[u] = hash[u]
    BY <1>0, <2>1 DEF VersionPlaces, VersionTypeOK
  <2>5. TwinsApart'
    BY <1>0, <2>1, <2>4 DEF TwinsApart, Found
  <2>6. LoadedAll'
    BY <1>0, <2>1 DEF LoadedAll, VersionPlaces, VersionTypeOK
  <2> QED BY <2>3, <2>5, <2>6 DEF VersionIInv
<1>3. ASSUME NEW t \in Task, CheckDuplicate(t)
      PROVE  VersionIInv'
  <2>1. taskAt[t] = "checking"
        /\ UNCHANGED <<source, hash, chosen, seen, before, log, erased, covered, captured, versions>>
    BY <1>3 DEF CheckDuplicate
  <2>2. CASE Found(t) /\ taskAt' = [taskAt EXCEPT ![t] = "done"] /\ UNCHANGED twinRace
    BY <1>0, <2>1, <2>2
       DEF VersionIInv, VersionPlaces, VersionTypeOK, TwinsApart, LoadedAll, Found
  <2>3. CASE /\ ~Found(t) /\ taskAt' = [taskAt EXCEPT ![t] = "inserting"]
             /\ twinRace' = (twinRace \/ \E u \in Task \ {t} :
                               taskAt[u] = "inserting" /\ hash[u] = hash[t])
    <3>1. VersionPlaces'
      BY <1>0, <2>1, <2>3 DEF VersionPlaces, VersionTypeOK
    <3>2. TwinsApart'
      BY <1>0, <2>1, <2>3 DEF TwinsApart, Found, VersionPlaces, VersionTypeOK
    <3>3. LoadedAll'
      BY <1>0, <2>1, <2>3 DEF LoadedAll, VersionPlaces, VersionTypeOK
    <3> QED BY <3>1, <3>2, <3>3 DEF VersionIInv
  <2> QED BY <1>3, <2>2, <2>3 DEF CheckDuplicate
<1>4. ASSUME NEW t \in Task, InsertVersion(t)
      PROVE  VersionIInv'
  <2> DEFINE size == IF source[t] = "restore" THEN chosen[t] ELSE Cardinality(Visible)
             new == [source |-> source[t], hash |-> hash[t], size |-> size]
  <2>1. /\ taskAt[t] = "inserting"
        /\ taskAt' = [taskAt EXCEPT ![t] = IF source[t] = "auto" THEN "aging" ELSE "done"]
        /\ versions' = Append(versions, new)
        /\ captured' = (IF source[t] = "auto" THEN hash[t] ELSE captured)
        /\ UNCHANGED <<source, hash, chosen, seen, before, log, erased, covered, twinRace>>
    BY <1>4 DEF InsertVersion
  <2>2. size \in 0..MaxItems
    <3>1. Len(log) \in Nat /\ Len(log) <= MaxItems /\ Visible \in SUBSET (1..Len(log))
      <4>1. log \in Seq(Task \cup {User}) /\ Len(log) <= MaxItems
        BY <1>0 DEF VersionPlaces, VersionTypeOK
      <4>2. Len(log) \in Nat /\ DOMAIN log = 1..Len(log)
        BY <4>1
      <4> QED BY <4>1, <4>2 DEF Visible
    <3>2. IsFiniteSet(1..Len(log)) /\ Cardinality(1..Len(log)) = Len(log)
      BY <3>1, UpTo
    <3>3. IsFiniteSet(Visible) /\ Cardinality(Visible) <= Len(log)
      BY <3>1, <3>2, FS_Subset
    <3>4. Cardinality(Visible) \in Nat
      BY <3>3, FS_CardinalityType
    <3>5. Cardinality(Visible) \in 0..MaxItems
      BY <3>1, <3>3, <3>4
    <3> QED BY <1>0, <3>5 DEF VersionPlaces, VersionTypeOK
  <2>3. new \in Version /\ new.hash = hash[t]
    BY <1>0, <2>2 DEF VersionPlaces, VersionTypeOK, Version
  <2> HIDE DEF new, size
  <2>4. /\ versions \in Seq(Version) /\ versions' \in Seq(Version) /\ Len(versions) \in Nat
        /\ DOMAIN versions = 1..Len(versions) /\ DOMAIN versions' = 1..(Len(versions) + 1)
        /\ versions'[Len(versions) + 1] = new
        /\ \A i \in DOMAIN versions : versions'[i] = versions[i]
    BY <1>0, <2>1, <2>3 DEF VersionPlaces
  <2>5. VersionPlaces'
    BY <1>0, <2>1, <2>4 DEF VersionPlaces, VersionTypeOK
  <2>6. \A i \in DOMAIN versions' : i \in DOMAIN versions \/ i = Len(versions) + 1
    BY <2>4
  <2>7. \A u \in Task : taskAt'[u] = "inserting" => taskAt[u] = "inserting" /\ u # t
    BY <1>0, <2>1 DEF VersionPlaces, VersionTypeOK
  <2>8. TwinsApart'
    <3> SUFFICES ASSUME ~twinRace
                 PROVE  /\ \A i, j \in DOMAIN versions' : versions'[i].hash = versions'[j].hash => i = j
                        /\ \A u \in Task : taskAt'[u] = "inserting" => ~Found(u)'
                        /\ \A u, w \in Task : taskAt'[u] = "inserting" /\ taskAt'[w] = "inserting"
                                               /\ hash[u] = hash[w] => u = w
      BY <2>1 DEF TwinsApart
    <3>1. ~Found(t)
      BY <1>0, <2>1 DEF TwinsApart
    <3>2. \A i, j \in DOMAIN versions' : versions'[i].hash = versions'[j].hash => i = j
      BY <1>0, <2>3, <2>4, <2>6, <3>1 DEF TwinsApart, Found
    <3>3. ASSUME NEW u \in Task, taskAt'[u] = "inserting" PROVE ~Found(u)'
      <4>1. hash[u] # hash[t] /\ ~Found(u)
        BY <1>0, <2>1, <2>7, <3>3 DEF TwinsApart
      <4> QED BY <2>1, <2>3, <2>4, <2>6, <4>1 DEF Found
    <3> QED BY <1>0, <2>7, <3>2, <3>3 DEF TwinsApart
  <2>9. LoadedAll'
    BY <1>0, <2>1 DEF LoadedAll, VersionPlaces, VersionTypeOK
  <2> QED BY <2>5, <2>8, <2>9 DEF VersionIInv
<1>5. ASSUME NEW t \in Task, TaskFails(t)
      PROVE  VersionIInv'
  BY <1>0, <1>5
     DEF TaskFails, VersionIInv, VersionPlaces, VersionTypeOK, TwinsApart, LoadedAll, Found
<1>6. CASE ClearCaptureState
  BY <1>0, <1>6
     DEF ClearCaptureState, VersionIInv, VersionPlaces, VersionTypeOK, TwinsApart, LoadedAll, Found,
         Hash
<1>7. ASSUME NEW t \in Task, PruneByAge(t)
      PROVE  VersionIInv'
  <2>1. PICK n \in 0..Len(versions) : versions' = Rows(Kept(n))
    BY <1>7 DEF PruneByAge
  <2>2. Kept(n) \in SUBSET DOMAIN versions
    BY DEF Kept
  <2> QED BY <1>7, <2>1, <2>2, PruneStays DEF PruneByAge
<1>8. ASSUME NEW t \in Task, PruneByCount(t)
      PROVE  VersionIInv'
  <2>1. CASE versions' = versions
    BY <1>0, <1>8, <2>1
       DEF PruneByCount, VersionIInv, VersionPlaces, VersionTypeOK, TwinsApart, LoadedAll, Found
  <2>2. CASE versions' = Rows(Kept(Len(versions) - MaxVersions))
    <3>1. Kept(Len(versions) - MaxVersions) \in SUBSET DOMAIN versions
      BY DEF Kept
    <3> QED BY <1>8, <2>2, <3>1, PruneStays DEF PruneByCount
  <2> QED BY <1>8, <2>1, <2>2 DEF PruneByCount
<1>9. ASSUME NEW t \in Task, LoadTarget(t)
      PROVE  VersionIInv'
  <2>1. PICK i \in DOMAIN versions : chosen' = [chosen EXCEPT ![t] = versions[i].size]
    BY <1>9 DEF LoadTarget
  <2>2. versions[i].size \in 0..MaxItems /\ Len(log) \in 0..MaxItems
    <3>1. versions[i] \in Version
      BY <1>0 DEF VersionPlaces
    <3>2. log \in Seq(Task \cup {User}) /\ Len(log) <= MaxItems
      BY <1>0 DEF VersionPlaces, VersionTypeOK
    <3>3. Len(log) \in Nat
      BY <3>2
    <3> QED BY <3>1, <3>2, <3>3 DEF Version
  <2>3. VersionPlaces'
    BY <1>0, <1>9, <2>1, <2>2 DEF LoadTarget, VersionPlaces, VersionTypeOK
  <2>4. TwinsApart'
    BY <1>0, <1>9 DEF LoadTarget, TwinsApart, Found, VersionPlaces, VersionTypeOK
  <2>5. LoadedAll'
    BY <1>0, <1>9, <2>2 DEF LoadTarget, LoadedAll, VersionPlaces, VersionTypeOK
  <2> QED BY <2>3, <2>4, <2>5 DEF VersionIInv
<1>10. ASSUME NEW t \in Task, LoadCurrent(t)
      PROVE  VersionIInv'
  <2>1. Len(log) \in 0..MaxItems
    BY <1>0 DEF VersionPlaces, VersionTypeOK
  <2>2. VersionPlaces'
    BY <1>0, <1>10, <2>1 DEF LoadCurrent, Loaded, VersionPlaces, VersionTypeOK
  <2>3. TwinsApart'
    BY <1>0, <1>10 DEF LoadCurrent, TwinsApart, Found, VersionPlaces, VersionTypeOK
  <2>4. LoadedAll'
    BY <1>0, <1>10, <2>1 DEF LoadCurrent, Loaded, LoadedAll, VersionPlaces, VersionTypeOK
  <2> QED BY <2>2, <2>3, <2>4 DEF VersionIInv
<1>11. ASSUME NEW t \in Task, ApplyRestore(t)
      PROVE  VersionIInv'
  <2> DEFINE copies == [k \in 1..chosen[t] |-> t]
  <2>1. /\ taskAt[t] = "appending" /\ taskAt' = [taskAt EXCEPT ![t] = "checking"]
        /\ Len(log) + chosen[t] <= MaxItems
        /\ log' = log \o copies /\ erased' = erased \cup (1..seen[t])
        /\ source' = [source EXCEPT ![t] = "restore"]
        /\ hash' = [hash EXCEPT ![t] = HashOf(t, "restore")]
        /\ UNCHANGED <<chosen, seen, before, covered, captured, versions, twinRace>>
    BY <1>11 DEF ApplyRestore
  <2>2. chosen[t] \in Nat /\ copies \in Seq(Task \cup {User}) /\ Len(copies) = chosen[t]
        /\ log \in Seq(Task \cup {User}) /\ Len(log) \in Nat
    <3>1. chosen[t] \in Nat /\ log \in Seq(Task \cup {User})
      BY <1>0 DEF VersionPlaces, VersionTypeOK
    <3>2. copies \in Seq(Task \cup {User}) /\ Len(copies) = chosen[t]
      BY <3>1
    <3> QED BY <3>1, <3>2
  <2> HIDE DEF copies
  <2>3. log' \in Seq(Task \cup {User}) /\ Len(log') = Len(log) + chosen[t]
        /\ DOMAIN log' = 1..Len(log') /\ DOMAIN log = 1..Len(log)
    <3>1. log \o copies \in Seq(Task \cup {User}) /\ Len(log \o copies) = Len(log) + Len(copies)
      BY <2>2
    <3> QED BY <2>1, <2>2, <3>1
  <2>4. HashOf(t, "restore") \in Hash
    BY <1>0, HashTyped
  <2>5. seen[t] \in 0..Len(log)
    BY <1>0, <2>2 DEF LoadedAll, VersionPlaces, VersionTypeOK
  <2>6. erased' \subseteq DOMAIN log'
    <3>1. erased \subseteq 1..Len(log)
      BY <1>0, <2>3 DEF VersionPlaces, VersionTypeOK
    <3>2. Len(log) <= Len(log') /\ seen[t] <= Len(log') /\ Len(log) \in Nat /\ Len(log') \in Nat
      BY <2>2, <2>3, <2>5
    <3>3. 1..Len(log) \subseteq 1..Len(log') /\ 1..seen[t] \subseteq 1..Len(log')
      BY <2>5, <3>2
    <3>4. erased' = erased \cup (1..seen[t]) /\ DOMAIN log' = 1..Len(log')
      BY <2>1, <2>3
    <3> QED BY <3>1, <3>3, <3>4
  <2>7. covered \in 0..Len(log') /\ Len(log') <= MaxItems
    BY <1>0, <2>1, <2>2, <2>3 DEF VersionPlaces, VersionTypeOK
  <2>8. VersionPlaces'
    BY <1>0, <2>1, <2>3, <2>4, <2>6, <2>7 DEF VersionPlaces, VersionTypeOK
  <2>9. \A u \in Task : taskAt'[u] = "inserting" => taskAt[u] = "inserting" /\ hash'[u] = hash[u]
    BY <1>0, <2>1 DEF VersionPlaces, VersionTypeOK
  <2>10. TwinsApart'
    BY <1>0, <2>1, <2>9 DEF TwinsApart, Found
  <2>11. LoadedAll'
    BY <1>0, <2>1, <2>2, <2>3 DEF LoadedAll, VersionPlaces, VersionTypeOK
  <2> QED BY <2>8, <2>10, <2>11 DEF VersionIInv
<1>12. CASE EditItems
  <2>1. CASE Len(log) < MaxItems /\ log' = Append(log, User) /\ UNCHANGED erased
    <3>1. /\ log \in Seq(Task \cup {User}) /\ log' \in Seq(Task \cup {User})
          /\ Len(log) \in Nat /\ Len(log') = Len(log) + 1 /\ DOMAIN log' = 1..Len(log')
          /\ DOMAIN log = 1..Len(log)
      BY <1>0, <2>1 DEF VersionPlaces, VersionTypeOK
    <3>2. erased \subseteq DOMAIN log' /\ covered \in 0..Len(log') /\ Len(log') <= MaxItems
      BY <1>0, <2>1, <3>1 DEF VersionPlaces, VersionTypeOK
    <3>3. VersionPlaces'
      BY <1>0, <1>12, <2>1, <3>1, <3>2 DEF EditItems, VersionPlaces, VersionTypeOK
    <3>4. TwinsApart'
      BY <1>0, <1>12 DEF EditItems, TwinsApart, Found
    <3>5. LoadedAll'
      BY <1>0, <1>12, <3>1 DEF EditItems, LoadedAll, VersionPlaces, VersionTypeOK
    <3> QED BY <3>3, <3>4, <3>5 DEF VersionIInv
  <2>2. CASE \E i \in Visible : erased' = erased \cup {i} /\ UNCHANGED log
    BY <1>0, <1>12, <2>2
       DEF EditItems, Visible, VersionIInv, VersionPlaces, VersionTypeOK, TwinsApart, LoadedAll, Found
  <2> QED BY <1>12, <2>1, <2>2 DEF EditItems
<1>13. CASE SaveSnapshot
  BY <1>0, <1>13
     DEF SaveSnapshot, VersionIInv, VersionPlaces, VersionTypeOK, TwinsApart, LoadedAll, Found
<1> QED BY <1>1, <1>2, <1>3, <1>4, <1>5, <1>6, <1>7, <1>8, <1>9, <1>10, <1>11, <1>12, <1>13
        DEF VersionNext

\* The log, the versions and the tasks keep their types.
THEOREM VersionTypes == VersionSpec => []VersionTypeOK
<1>1. VersionIInv => VersionTypeOK
  BY DEF VersionIInv, VersionPlaces
<1> QED BY <1>1, VersionStarts, VersionStays, PTL DEF VersionSpec

\* saveVersion(): its SELECT keeps twin versions out, whatever pruning does between,
\* as long as no two tasks with one hash are between SELECT and INSERT.
THEOREM TwinsKeptOut == VersionSpec => []NoTwinVersions
<1>1. VersionIInv => NoTwinVersions
  BY DEF VersionIInv, TwinsApart, NoTwinVersions
<1> QED BY <1>1, VersionStarts, VersionStays, PTL DEF VersionSpec

\* restoreVersion(): nothing of the document is left that was there when it began.
THEOREM RestoresWhole == VersionSpec => RestoreReplaces
<1> DEFINE Replaced ==
      \A t \in Task : taskAt[t] = "appending" /\ taskAt'[t] = "checking" =>
        \A i \in DOMAIN log' \ erased' : log'[i] = t \/ i > before[t]
<1>1. ASSUME VersionIInv, [VersionNext]_versionVars
      PROVE  [Replaced]_versionVars
  <2>1. SUFFICES ASSUME NEW t \in Task, taskAt[t] = "appending", taskAt'[t] = "checking",
                        NEW i \in DOMAIN log' \ erased'
                 PROVE  i > before[t]
    OBVIOUS
  <2>2. ApplyRestore(t)
    BY <1>1, <2>1
       DEF VersionIInv, VersionPlaces, VersionTypeOK, VersionNext, versionVars, Steps, AutoCapture,
           CreateCheckpoint, CheckDuplicate, InsertVersion, TaskFails, PruneByAge, PruneByCount,
           LoadTarget, LoadCurrent, ApplyRestore, EditItems, SaveSnapshot, ClearCaptureState
  <2>3. before[t] <= seen[t] /\ before[t] \in Nat /\ seen[t] \in Nat
    BY <1>1, <2>1 DEF VersionIInv, VersionPlaces, VersionTypeOK, LoadedAll
  <2>4. i \notin 1..seen[t]
    BY <2>1, <2>2 DEF ApplyRestore
  <2>5. i \in Nat /\ i >= 1
    <3>1. VersionIInv'
      BY <1>1, VersionStays
    <3>2. log' \in Seq(Task \cup {User})
      BY <3>1 DEF VersionIInv, VersionPlaces, VersionTypeOK
    <3> QED BY <2>1, <3>2
  <2> QED BY <2>3, <2>4, <2>5
<1> QED BY <1>1, VersionStarts, VersionStays, PTL DEF VersionSpec, RestoreReplaces
---------------------------------------------------------------------------
(* EditCounters: what Total counts *)

\* The units of finitely many elements are finitely many.
LEMMA UnitsFinite ==
  ASSUME NEW S, IsFiniteSet(S), NEW f, \A x \in S : f[x] \in Nat
  PROVE  IsFiniteSet(Units(f, S)) /\ Cardinality(Units(f, S)) \in Nat
<1> DEFINE part == [x \in S |-> {x} \X (1..f[x])]
           parts == {{x} \X (1..f[x]) : x \in S}
<1>1. part \in Surjection(S, parts)
  BY DEF Surjection
<1>2. IsFiniteSet(parts)
  BY <1>1, FS_Surjection
<1>3. ASSUME NEW x \in S PROVE IsFiniteSet({x} \X (1..f[x]))
  <2>1. IsFiniteSet({x}) /\ IsFiniteSet(1..f[x])
    BY FS_Singleton, UpTo
  <2> QED BY <2>1, FS_Product
<1>4. IsFiniteSet(UNION parts)
  <2>1. \A T \in parts : IsFiniteSet(T)
    BY <1>3
  <2> HIDE DEF parts
  <2> QED BY <1>2, <2>1, FS_UNION
<1> QED BY <1>4, FS_CardinalityType DEF Units

\* The units of one element are as many as it counts.
LEMMA UnitsSplit ==
  ASSUME NEW S, IsFiniteSet(S), NEW f, \A x \in S : f[x] \in Nat, NEW e \in S
  PROVE  Cardinality(Units(f, S)) = Cardinality(Units(f, S \ {e})) + f[e]
<1> DEFINE rest == Units(f, S \ {e})
           own == {e} \X (1..f[e])
<1>1. IsFiniteSet(rest) /\ Cardinality(rest) \in Nat
  <2>1. IsFiniteSet(S \ {e})
    BY FS_RemoveElement
  <2> QED BY <2>1, UnitsFinite
<1>2. IsFiniteSet(own) /\ Cardinality(own) = f[e]
  <2>1. IsFiniteSet({e}) /\ Cardinality({e}) = 1
    BY FS_Singleton
  <2>2. IsFiniteSet(1..f[e]) /\ Cardinality(1..f[e]) = f[e]
    BY UpTo
  <2>3. IsFiniteSet(own) /\ Cardinality(own) = 1 * f[e]
    BY <2>1, <2>2, FS_Product
  <2> QED BY <2>3
<1>3. Units(f, S) = rest \cup own /\ rest \cap own = {}
  BY DEF Units
<1> HIDE DEF rest, own
<1>4. Cardinality(rest \cup own) = Cardinality(rest) + Cardinality(own) - Cardinality(rest \cap own)
  BY <1>1, <1>2, FS_Union
<1>5. Cardinality(rest \cap own) = 0
  BY <1>3, FS_EmptySet
<1>6. Cardinality(Units(f, S)) = Cardinality(rest) + f[e] - 0
  BY <1>2, <1>3, <1>4, <1>5
<1> QED BY <1>1, <1>6 DEF rest

\* Two functions that agree on S have the same units there.
LEMMA UnitsSame ==
  ASSUME NEW S, NEW f, NEW g, \A x \in S : f[x] = g[x]
  PROVE  Units(f, S) = Units(g, S)
BY DEF Units

\* What changes at one element changes the total by as much.
LEMMA TotalChange ==
  ASSUME NEW S, IsFiniteSet(S), NEW f \in [S -> Nat], NEW g \in [S -> Nat], NEW e \in S,
         \A x \in S \ {e} : g[x] = f[x]
  PROVE  Total(f) \in Nat /\ Total(g) \in Nat /\ Total(g) = Total(f) - f[e] + g[e]
<1>1. /\ Total(f) = Cardinality(Units(f, S)) /\ Total(g) = Cardinality(Units(g, S))
  BY DEF Total
<1>2. /\ Total(f) = Cardinality(Units(f, S \ {e})) + f[e]
      /\ Total(g) = Cardinality(Units(g, S \ {e})) + g[e]
  BY <1>1, UnitsSplit
<1>3. Units(f, S \ {e}) = Units(g, S \ {e})
  BY UnitsSame
<1>4. IsFiniteSet(S \ {e})
  BY FS_RemoveElement
<1>5. Cardinality(Units(f, S \ {e})) \in Nat
  BY <1>4, UnitsFinite
<1> QED BY <1>2, <1>3, <1>5

\* The counts of a list of sessions.
EditsOf(list) == [i \in DOMAIN list |-> list[i].edits]
OpenOf(list) == {i \in DOMAIN list : list[i].open}
Session == [open : BOOLEAN, edits : Nat]

LEMMA SessionsFinite ==
  ASSUME NEW list \in Seq(Session)
  PROVE  /\ DOMAIN list = 1..Len(list) /\ Len(list) \in Nat /\ IsFiniteSet(DOMAIN list)
         /\ EditsOf(list) \in [DOMAIN list -> Nat] /\ Total(EditsOf(list)) \in Nat
<1>1. DOMAIN list = 1..Len(list) /\ Len(list) \in Nat
  OBVIOUS
<1>2. \A i \in DOMAIN list : list[i] \in Session
  BY <1>1
<1>3. \A i \in DOMAIN list : list[i].edits \in Nat
  BY <1>2 DEF Session
<1>4. EditsOf(list) \in [DOMAIN list -> Nat]
  BY <1>3 DEF EditsOf
<1>5. IsFiniteSet(DOMAIN list)
  BY <1>1, UpTo
<1>6. IsFiniteSet(Units(EditsOf(list), DOMAIN list)) /\ Cardinality(Units(EditsOf(list), DOMAIN list)) \in Nat
  BY <1>4, <1>5, UnitsFinite
<1>7. DOMAIN EditsOf(list) = DOMAIN list
  BY DEF EditsOf
<1> QED BY <1>1, <1>4, <1>5, <1>6, <1>7 DEF Total

\* incrementEditsBy(): the rows keep their number, and whether they are open.
LEMMA StoredRows ==
  ASSUME CounterTypeOK, NEW n \in Nat
  PROVE  /\ Stored(n) \in Seq(Session) /\ DOMAIN Stored(n) = DOMAIN sessions
         /\ \A i \in DOMAIN sessions :
              /\ Stored(n)[i].open = sessions[i].open
              /\ Stored(n)[i].edits = IF sessions[i].open THEN sessions[i].edits + n
                                      ELSE sessions[i].edits
<1>1. sessions \in Seq(Session)
  BY DEF CounterTypeOK, Session
<1>2. DOMAIN sessions = 1..Len(sessions) /\ Len(sessions) \in Nat
  BY <1>1
<1>3. ASSUME NEW i \in DOMAIN sessions
      PROVE  /\ Stored(n)[i] \in Session
             /\ Stored(n)[i].open = sessions[i].open
             /\ Stored(n)[i].edits = IF sessions[i].open THEN sessions[i].edits + n
                                     ELSE sessions[i].edits
  <2>1. sessions[i] \in Session
    BY <1>1, <1>2
  <2>2. Stored(n)[i] = IF sessions[i].open THEN [sessions[i] EXCEPT !.edits = @ + n] ELSE sessions[i]
    BY DEF Stored
  <2> QED BY <2>1, <2>2 DEF Session
<1>4. DOMAIN Stored(n) = 1..Len(sessions) /\ Stored(n) = [i \in 1..Len(sessions) |-> Stored(n)[i]]
  BY <1>2 DEF Stored
<1>5. Stored(n) \in Seq(Session)
  BY <1>2, <1>3, <1>4
<1> QED BY <1>2, <1>3, <1>4, <1>5

\* With one open session at most, a count is stored once at most.
LEMMA StoredOnce ==
  ASSUME CounterTypeOK, NEW n \in Nat, \A i, j \in Open : i = j
  PROVE  /\ Total(EditsOf(sessions)) \in Nat /\ Total(EditsOf(Stored(n))) \in Nat
         /\ Total(EditsOf(Stored(n))) <= Total(EditsOf(sessions)) + n
<1>1. sessions \in Seq(Session)
  BY DEF CounterTypeOK, Session
<1>2. /\ Stored(n) \in Seq(Session) /\ DOMAIN Stored(n) = DOMAIN sessions
      /\ \A i \in DOMAIN sessions :
           Stored(n)[i].edits = IF sessions[i].open THEN sessions[i].edits + n ELSE sessions[i].edits
  BY StoredRows
<1>3. /\ IsFiniteSet(DOMAIN sessions) /\ EditsOf(sessions) \in [DOMAIN sessions -> Nat]
      /\ EditsOf(Stored(n)) \in [DOMAIN sessions -> Nat]
      /\ Total(EditsOf(sessions)) \in Nat /\ Total(EditsOf(Stored(n))) \in Nat
  BY <1>1, <1>2, SessionsFinite
<1>4. CASE Open = {}
  <2>1. EditsOf(Stored(n)) = EditsOf(sessions)
    BY <1>2, <1>4 DEF EditsOf, Open
  <2> QED BY <1>3, <2>1
<1>5. ASSUME NEW k \in Open
      PROVE  Total(EditsOf(Stored(n))) <= Total(EditsOf(sessions)) + n
  <2>1. k \in DOMAIN sessions /\ sessions[k].open
    BY <1>5 DEF Open
  <2>2. \A i \in DOMAIN sessions \ {k} : EditsOf(Stored(n))[i] = EditsOf(sessions)[i]
    BY <1>2, <1>5 DEF EditsOf, Open
  <2>3. EditsOf(Stored(n))[k] = EditsOf(sessions)[k] + n
    BY <1>2, <2>1 DEF EditsOf
  <2>4. Total(EditsOf(Stored(n))) = Total(EditsOf(sessions)) - EditsOf(sessions)[k] + EditsOf(Stored(n))[k]
    BY <1>3, <2>1, <2>2, TotalChange
  <2>5. EditsOf(sessions)[k] \in Nat
    BY <1>3, <2>1
  <2> QED BY <1>3, <2>3, <2>4, <2>5
<1> QED BY <1>3, <1>4, <1>5

---------------------------------------------------------------------------
(* EditCounters: the invariant *)

\* As long as no two tabs were starting at once: a tab that inserts is alone and
\* finds no session open, so there is never more than one.
OneStarter ==
  ~bothStarting =>
    /\ \A t, u \in Tab : starting[t] = "inserting" /\ starting[u] = "inserting" => t = u
    /\ \A t \in Tab : starting[t] = "inserting" => Open = {}
    /\ \A i, j \in Open : i = j

\* What is stored and what is on its way is no more than what was made.
NoneTwice ==
  ~bothStarting =>
    Total(EditsOf(sessions)) + pendingEdits + flushing + Total(carried) <= made

CounterIInv == CounterTypeOK /\ OneStarter /\ NoneTwice

\* What the counts of a state with the right types are.
LEMMA CountsAreNumbers ==
  ASSUME CounterTypeOK
  PROVE  /\ Total(EditsOf(sessions)) \in Nat /\ Total(carried) \in Nat
         /\ \A t \in Tab : carried[t] \in Nat
<1>1. sessions \in Seq(Session) /\ carried \in [Tab -> Nat]
  BY DEF CounterTypeOK, Session
<1>2. Total(EditsOf(sessions)) \in Nat
  BY <1>1, SessionsFinite
<1>3. Cardinality(Units(carried, Tab)) \in Nat
  BY <1>1, TabAssumption, UnitsFinite
<1> QED BY <1>1, <1>2, <1>3 DEF Total

LEMMA CounterStarts == CounterInit => CounterIInv
<1> SUFFICES ASSUME CounterInit PROVE CounterIInv
  OBVIOUS
<1>1. CounterTypeOK
  <2>1. sessions \in Seq([open : BOOLEAN, edits : Nat])
    BY DEF CounterInit
  <2>2. tabAt \in [Tab -> {"away", "in", "flushing", "saving", "ending", "gone"}]
        /\ starting \in [Tab -> {"no", "selecting", "inserting"}] /\ carried \in [Tab -> Nat]
    BY DEF CounterInit
  <2> QED BY <2>1, <2>2 DEF CounterInit, CounterTypeOK
<1>2. OneStarter
  BY DEF CounterInit, OneStarter, Open
<1>3. Total(EditsOf(sessions)) = 0
  <2>1. DOMAIN EditsOf(sessions) = {}
    BY DEF CounterInit, EditsOf
  <2>2. Units(EditsOf(sessions), {}) = {}
    BY DEF Units
  <2> QED BY <2>1, <2>2, FS_EmptySet DEF Total
<1>4. Total(carried) = 0
  <2>1. DOMAIN carried = Tab /\ \A t \in Tab : carried[t] = 0
    BY DEF CounterInit
  <2>2. Units(carried, Tab) = {}
    BY <2>1 DEF Units
  <2> QED BY <2>1, <2>2, FS_EmptySet DEF Total
<1>5. NoneTwice
  BY <1>3, <1>4 DEF CounterInit, NoneTwice
<1> QED BY <1>1, <1>2, <1>5 DEF CounterIInv

\* The steps that leave the rows and the counts where they are.
LEMMA CountersRest ==
  ASSUME CounterIInv, CounterTypeOK', OneStarter',
         UNCHANGED <<sessions, flushing, carried>>,
         bothStarting = TRUE => bothStarting' = TRUE,
         pendingEdits' + made <= pendingEdits + made'
  PROVE  CounterIInv'
<1>1. Total(EditsOf(sessions)) \in Nat /\ Total(carried) \in Nat
  BY CountsAreNumbers DEF CounterIInv
<1>2. bothStarting \in BOOLEAN /\ bothStarting' \in BOOLEAN
  BY DEF CounterIInv, CounterTypeOK
<1>3. EditsOf(sessions)' = EditsOf(sessions) /\ Total(carried)' = Total(carried)
      /\ Total(EditsOf(sessions))' = Total(EditsOf(sessions))
  BY DEF EditsOf, Total, Units
<1>4. /\ pendingEdits \in Nat /\ pendingEdits' \in Nat /\ made \in Nat /\ made' \in Nat
      /\ flushing \in Nat
  BY DEF CounterIInv, CounterTypeOK
<1>5. ASSUME ~bothStarting'
      PROVE  (Total(EditsOf(sessions)) + pendingEdits + flushing + Total(carried) <= made)'
  <2>1. Total(EditsOf(sessions)) + pendingEdits + flushing + Total(carried) <= made
    BY <1>2, <1>5 DEF CounterIInv, NoneTwice
  <2> DEFINE tally == Total(EditsOf(sessions))
             taken == Total(carried)
  <2>2. /\ tally \in Nat /\ taken \in Nat /\ tally' = tally /\ taken' = taken
        /\ flushing' = flushing /\ tally + pendingEdits + flushing + taken <= made
    BY <1>1, <1>3, <2>1
  <2> HIDE DEF tally, taken
  <2>3. \A a, b, c, p, q, m, n \in Nat :
          a + p + b + c <= m /\ q + m <= p + n => a + q + b + c <= n
    OBVIOUS
  <2>4. tally + pendingEdits' + flushing + taken <= made'
    BY <1>4, <2>2, <2>3
  <2>5. (tally + pendingEdits + flushing + taken <= made)'
    BY <2>2, <2>4
  <2> QED BY <2>5 DEF tally, taken
<1> QED BY <1>5 DEF CounterIInv, NoneTwice

\* A count n is stored, or it is lost: the rows keep their types, none is opened,
\* and with one open row at most their total grows by n at most.
LEMMA StoresKeep ==
  ASSUME CounterIInv, NEW n \in Nat, sessions' \in {sessions, Stored(n)}
  PROVE  /\ sessions' \in Seq([open : BOOLEAN, edits : Nat])
         /\ Open' = Open
         /\ ~bothStarting => /\ Total(EditsOf(sessions))' \in Nat
                             /\ Total(EditsOf(sessions))' <= Total(EditsOf(sessions)) + n
<1>1. CounterTypeOK /\ sessions \in Seq(Session)
  BY DEF CounterIInv, CounterTypeOK, Session
<1>2. Total(EditsOf(sessions)) \in Nat
  BY <1>1, SessionsFinite
<1>3. CASE sessions' = sessions
  <2>1. Open' = Open
    BY <1>3 DEF Open
  <2>2. Total(EditsOf(sessions))' = Total(EditsOf(sessions))
    BY <1>3 DEF EditsOf, Total, Units
  <2> QED BY <1>1, <1>2, <1>3, <2>1, <2>2 DEF Session
<1>4. CASE sessions' = Stored(n)
  <2>1. Open' = Open
    BY <1>1, <1>4, StoredRows DEF Open
  <2>2. EditsOf(sessions)' = EditsOf(Stored(n))
    BY <1>4 DEF EditsOf
  <2>3. Total(EditsOf(sessions))' = Total(EditsOf(Stored(n)))
    BY <2>2 DEF Total, Units
  <2>4. sessions' \in Seq(Session)
    BY <1>1, <1>4, StoredRows
  <2>5. ~bothStarting => Total(EditsOf(Stored(n))) \in Nat
                         /\ Total(EditsOf(Stored(n))) <= Total(EditsOf(sessions)) + n
    BY <1>1, StoredOnce DEF CounterIInv, OneStarter
  <2> QED BY <2>1, <2>3, <2>4, <2>5 DEF Session
<1> QED BY <1>3, <1>4

LEMMA CounterStays ==
  ASSUME CounterIInv, [CounterNext]_counterVars
  PROVE  CounterIInv'
<1>0. CounterIInv /\ CounterTypeOK /\ OneStarter /\ NoneTwice
  BY DEF CounterIInv
<1>1. CASE UNCHANGED counterVars
  <2>1. CounterTypeOK' /\ OneStarter'
    BY <1>0, <1>1 DEF counterVars, CounterTypeOK, OneStarter, Open
  <2>2. UNCHANGED <<sessions, flushing, carried>> /\ bothStarting' = bothStarting
        /\ pendingEdits' = pendingEdits /\ made' = made
    BY <1>1 DEF counterVars
  <2>3. pendingEdits' + made <= pendingEdits + made'
    BY <1>0, <2>2 DEF CounterTypeOK
  <2> QED BY <1>0, <2>1, <2>2, <2>3, CountersRest
<1>2. ASSUME NEW t \in Tab, JoinTab(t)
      PROVE  CounterIInv'
  <2>1. CounterTypeOK' /\ OneStarter'
    BY <1>0, <1>2 DEF JoinTab, CounterTypeOK, OneStarter, Open
  <2>2. UNCHANGED <<sessions, flushing, carried>> /\ bothStarting' = bothStarting
        /\ pendingEdits' = pendingEdits /\ made' = made
    BY <1>2 DEF JoinTab
  <2>3. pendingEdits' + made <= pendingEdits + made'
    BY <1>0, <2>2 DEF CounterTypeOK
  <2> QED BY <1>0, <2>1, <2>2, <2>3, CountersRest
<1>3. ASSUME NEW t \in Tab, TrackEdit(t)
      PROVE  CounterIInv'
  <2>1. CounterTypeOK'
    BY <1>0, <1>3 DEF TrackEdit, CounterTypeOK
  <2>2. \A u \in Tab : starting'[u] = "inserting" => starting[u] = "inserting"
    BY <1>0, <1>3 DEF TrackEdit, CounterTypeOK
  <2>3. OneStarter'
    BY <1>0, <1>3, <2>2 DEF TrackEdit, OneStarter, Open
  <2>4. UNCHANGED <<sessions, flushing, carried>> /\ bothStarting' = bothStarting
        /\ pendingEdits' = pendingEdits + 1 /\ made' = made + 1
    BY <1>3 DEF TrackEdit
  <2>5. pendingEdits' + made <= pendingEdits + made'
    BY <1>0, <2>4 DEF CounterTypeOK
  <2> QED BY <1>0, <2>1, <2>3, <2>4, <2>5, CountersRest
<1>4. ASSUME NEW t \in Tab, SelectSession(t)
      PROVE  CounterIInv'
  <2>1. CounterTypeOK'
    BY <1>0, <1>4 DEF SelectSession, CounterTypeOK
  <2>2. /\ bothStarting' = (bothStarting \/ (Open = {} /\ \E u \in Tab : starting[u] = "inserting"))
        /\ starting' = [starting EXCEPT ![t] = IF Open # {} THEN "no" ELSE "inserting"]
        /\ sessions' = sessions /\ Open' = Open
    BY <1>4 DEF SelectSession, Open
  <2>3. OneStarter'
    BY <1>0, <2>2 DEF CounterTypeOK, OneStarter
  <2>4. UNCHANGED <<sessions, flushing, carried>>
        /\ pendingEdits' = pendingEdits /\ made' = made
    BY <1>4 DEF SelectSession
  <2>5. bothStarting = TRUE => bothStarting' = TRUE
    BY <2>2
  <2>6. pendingEdits' + made <= pendingEdits + made'
    BY <1>0, <2>4 DEF CounterTypeOK
  <2> QED BY <1>0, <2>1, <2>3, <2>4, <2>5, <2>6, CountersRest
<1>5. ASSUME NEW t \in Tab, InsertSession(t)
      PROVE  CounterIInv'
  <2> DEFINE newRow == [open |-> TRUE, edits |-> 0]
             n == Len(sessions) + 1
  <2>1. /\ starting[t] = "inserting" /\ starting' = [starting EXCEPT ![t] = "no"]
        /\ sessions' = Append(sessions, newRow)
        /\ UNCHANGED <<tabAt, present, roomOpen, pendingEdits, begun, flushing, carried,
                       lastHere, made, bothStarting>>
    BY <1>5 DEF InsertSession
  <2>2. newRow \in Session /\ newRow.open = TRUE /\ newRow.edits = 0
    BY DEF Session
  <2> HIDE DEF newRow
  <2>3. /\ sessions \in Seq(Session) /\ sessions' \in Seq(Session) /\ Len(sessions) \in Nat
        /\ DOMAIN sessions = 1..Len(sessions) /\ DOMAIN sessions' = 1..n
        /\ sessions'[n] = newRow /\ \A i \in DOMAIN sessions : sessions'[i] = sessions[i]
    BY <1>0, <2>1, <2>2 DEF CounterTypeOK, Session
  <2>4. CounterTypeOK'
    BY <1>0, <2>1, <2>3 DEF CounterTypeOK, Session
  <2>5. n \notin DOMAIN sessions /\ DOMAIN sessions' = DOMAIN sessions \cup {n}
    BY <2>3
  <2>6. OneStarter'
    <3> SUFFICES ASSUME ~bothStarting'
                 PROVE  /\ \A u \in Tab : starting'[u] # "inserting"
                        /\ \A i, j \in Open' : i = j
      BY DEF OneStarter
    <3>1. Open = {} /\ \A u \in Tab : starting[u] = "inserting" => u = t
      BY <1>0, <2>1 DEF OneStarter
    <3>2. Open' \subseteq {n}
      BY <2>3, <2>5, <3>1 DEF Open
    <3> QED BY <1>0, <2>1, <3>1, <3>2 DEF CounterTypeOK
  <2>7. Total(EditsOf(sessions))' = Total(EditsOf(sessions))
    <3>1. Units(EditsOf(sessions'), DOMAIN sessions') = Units(EditsOf(sessions), DOMAIN sessions)
      <4>1. \A i \in DOMAIN sessions : EditsOf(sessions')[i] = EditsOf(sessions)[i]
        BY <2>3, <2>5 DEF EditsOf
      <4>2. EditsOf(sessions')[n] = 0
        BY <2>2, <2>3, <2>5 DEF EditsOf
      <4>3. {n} \X (1..EditsOf(sessions')[n]) = {}
        BY <4>2
      <4>4. Units(EditsOf(sessions'), DOMAIN sessions') = Units(EditsOf(sessions'), DOMAIN sessions)
        BY <2>5, <4>3 DEF Units
      <4> QED BY <4>1, <4>4, UnitsSame
    <3>2. DOMAIN EditsOf(sessions) = DOMAIN sessions /\ DOMAIN EditsOf(sessions') = DOMAIN sessions'
      BY DEF EditsOf
    <3> QED BY <3>1, <3>2 DEF Total
  <2>8. NoneTwice'
    <3>1. bothStarting' = bothStarting /\ pendingEdits' = pendingEdits /\ flushing' = flushing
          /\ made' = made /\ Total(carried)' = Total(carried)
      BY <2>1 DEF Total, Units
    <3> QED BY <1>0, <2>7, <3>1 DEF NoneTwice
  <2> QED BY <2>4, <2>6, <2>8 DEF CounterIInv
<1>6. ASSUME NEW t \in Tab, StartFails(t)
      PROVE  CounterIInv'
  <2>1. CounterTypeOK'
    BY <1>0, <1>6 DEF StartFails, CounterTypeOK
  <2>2. \A u \in Tab : starting'[u] = "inserting" => starting[u] = "inserting"
    BY <1>0, <1>6 DEF StartFails, CounterTypeOK
  <2>3. OneStarter'
    BY <1>0, <1>6, <2>2 DEF StartFails, OneStarter, Open
  <2>4. UNCHANGED <<sessions, flushing, carried>> /\ bothStarting' = bothStarting
        /\ pendingEdits' = pendingEdits /\ made' = made
    BY <1>6 DEF StartFails
  <2>5. pendingEdits' + made <= pendingEdits + made'
    BY <1>0, <2>4 DEF CounterTypeOK
  <2> QED BY <1>0, <2>1, <2>3, <2>4, <2>5, CountersRest
<1>7. ASSUME NEW t \in Tab, LeaveTab(t)
      PROVE  CounterIInv'
  <2>1. UNCHANGED <<roomOpen, begun, starting, flushing, sessions, made, bothStarting>>
    BY <1>7 DEF LeaveTab
  <2>2. OneStarter'
    BY <1>0, <2>1 DEF OneStarter, Open
  <2>3. CASE UNCHANGED <<pendingEdits, carried, lastHere>>
    <3>1. CounterTypeOK'
      BY <1>0, <1>7, <2>1, <2>3 DEF LeaveTab, CounterTypeOK
    <3>2. pendingEdits' + made <= pendingEdits + made'
      BY <1>0, <2>1, <2>3 DEF CounterTypeOK
    <3> QED BY <1>0, <2>1, <2>2, <2>3, <3>1, <3>2, CountersRest
  <2>4. CASE /\ tabAt' = [tabAt EXCEPT ![t] = "flushing"] /\ present' = present \ {t}
             /\ lastHere' = lastHere \cup {t}
             /\ carried' = [carried EXCEPT ![t] = pendingEdits] /\ pendingEdits' = Drained
    <3>1. CounterTypeOK'
      BY <1>0, <2>1, <2>4 DEF CounterTypeOK, Drained
    <3>2. carried \in [Tab -> Nat] /\ carried' \in [Tab -> Nat] /\ carried'[t] = pendingEdits
          /\ \A u \in Tab \ {t} : carried'[u] = carried[u]
      BY <1>0, <2>4, <3>1 DEF CounterTypeOK
    <3>3. /\ Total(carried) \in Nat /\ Total(carried') \in Nat
          /\ Total(carried') = Total(carried) - carried[t] + pendingEdits
      BY <3>2, TabAssumption, TotalChange
    <3>4. NoneTwice'
      <4> SUFFICES ASSUME ~bothStarting'
                   PROVE  (Total(EditsOf(sessions)) + pendingEdits + flushing + Total(carried) <= made)'
        BY DEF NoneTwice
      <4>1. Total(EditsOf(sessions))' = Total(EditsOf(sessions)) /\ Total(carried)' = Total(carried')
            /\ flushing' = flushing /\ pendingEdits' = 0 /\ made' = made
        BY <2>1, <2>4 DEF EditsOf, Total, Units, Drained
      <4>2. Total(EditsOf(sessions)) + pendingEdits + flushing + Total(carried) <= made
        BY <1>0, <2>1 DEF NoneTwice
      <4>3. /\ Total(EditsOf(sessions)) \in Nat /\ carried[t] \in Nat /\ pendingEdits \in Nat
            /\ flushing \in Nat /\ made \in Nat
        BY <1>0, <3>2, CountsAreNumbers DEF CounterTypeOK
      <4>4. \A a, b, c, d, p, m \in Nat : a + p + b + c <= m => a + 0 + b + (c - d + p) <= m
        OBVIOUS
      <4> QED BY <3>3, <4>1, <4>2, <4>3, <4>4
    <3> QED BY <2>2, <3>1, <3>4 DEF CounterIInv
  <2> QED BY <1>7, <2>3, <2>4 DEF LeaveTab
<1>8. ASSUME NEW t \in Tab, LeaveFlushed(t)
      PROVE  CounterIInv'
  <2>1. /\ carried' = [carried EXCEPT ![t] = 0] /\ sessions' \in {sessions, Stored(carried[t])}
        /\ UNCHANGED <<present, roomOpen, pendingEdits, begun, starting, flushing, lastHere,
                       made, bothStarting>>
    BY <1>8 DEF LeaveFlushed
  <2>2. carried \in [Tab -> Nat] /\ carried[t] \in Nat
    BY <1>0 DEF CounterTypeOK
  <2>3. /\ sessions' \in Seq([open : BOOLEAN, edits : Nat]) /\ Open' = Open
        /\ ~bothStarting => /\ Total(EditsOf(sessions))' \in Nat
                            /\ Total(EditsOf(sessions))' <= Total(EditsOf(sessions)) + carried[t]
    BY <1>0, <2>1, <2>2, StoresKeep
  <2>4. CounterTypeOK'
    BY <1>0, <1>8, <2>1, <2>3 DEF LeaveFlushed, CounterTypeOK
  <2>5. OneStarter'
    BY <1>0, <2>1, <2>3 DEF OneStarter
  <2>6. carried' \in [Tab -> Nat] /\ carried'[t] = 0 /\ \A u \in Tab \ {t} : carried'[u] = carried[u]
    BY <2>1, <2>2
  <2>7. /\ Total(carried) \in Nat /\ Total(carried') \in Nat
        /\ Total(carried') = Total(carried) - carried[t] + 0
    BY <2>2, <2>6, TabAssumption, TotalChange
  <2>8. NoneTwice'
    <3> SUFFICES ASSUME ~bothStarting'
                 PROVE  (Total(EditsOf(sessions)) + pendingEdits + flushing + Total(carried) <= made)'
      BY DEF NoneTwice
    <3>1. ~bothStarting /\ pendingEdits' = pendingEdits /\ flushing' = flushing /\ made' = made
          /\ Total(carried)' = Total(carried')
      BY <2>1 DEF Total, Units
    <3>2. Total(EditsOf(sessions)) + pendingEdits + flushing + Total(carried) <= made
      BY <1>0, <3>1 DEF NoneTwice
    <3>3. Total(EditsOf(sessions)) \in Nat /\ pendingEdits \in Nat /\ flushing \in Nat /\ made \in Nat
      BY <1>0, CountsAreNumbers DEF CounterTypeOK
    <3>4. \A a, e, b, c, d, p, m \in Nat :
            a + p + b + c <= m /\ e <= a + d => e + p + b + (c - d + 0) <= m
      OBVIOUS
    <3> QED BY <2>2, <2>3, <2>7, <3>1, <3>2, <3>3, <3>4
  <2> QED BY <2>4, <2>5, <2>8 DEF CounterIInv
<1>9. ASSUME NEW t \in Tab, LeaveSaved(t)
      PROVE  CounterIInv'
  <2>1. CounterTypeOK' /\ OneStarter'
    BY <1>0, <1>9 DEF LeaveSaved, CounterTypeOK, OneStarter, Open
  <2>2. UNCHANGED <<sessions, flushing, carried>> /\ bothStarting' = bothStarting
        /\ pendingEdits' = 0 /\ made' = made
    BY <1>9 DEF LeaveSaved
  <2>3. pendingEdits' + made <= pendingEdits + made'
    BY <1>0, <2>2 DEF CounterTypeOK
  <2> QED BY <1>0, <2>1, <2>2, <2>3, CountersRest
<1>10. ASSUME NEW t \in Tab, LeaveEnded(t)
       PROVE  CounterIInv'
  <2> DEFINE ended == [i \in DOMAIN sessions |-> [sessions[i] EXCEPT !.open = FALSE]]
  <2>1. /\ tabAt' = [tabAt EXCEPT ![t] = "gone"] /\ sessions' \in {sessions, ended}
        /\ UNCHANGED <<present, roomOpen, pendingEdits, begun, starting, flushing, carried,
                       lastHere, made, bothStarting>>
    BY <1>10 DEF LeaveEnded
  <2>2. /\ sessions \in Seq(Session) /\ DOMAIN sessions = 1..Len(sessions) /\ Len(sessions) \in Nat
        /\ \A i \in DOMAIN sessions : sessions[i] \in Session
    <3>1. sessions \in Seq(Session)
      BY <1>0 DEF CounterTypeOK, Session
    <3> QED BY <3>1
  <2>3. \A i \in DOMAIN sessions :
          ended[i] \in Session /\ ended[i].open = FALSE /\ ended[i].edits = sessions[i].edits
    BY <2>2 DEF Session
  <2>4. ended \in Seq(Session) /\ DOMAIN ended = DOMAIN sessions
    BY <2>2, <2>3
  <2> HIDE DEF ended
  <2>5. /\ sessions' \in Seq(Session) /\ DOMAIN sessions' = DOMAIN sessions /\ Open' \subseteq Open
        /\ \A i \in DOMAIN sessions : sessions'[i].edits = sessions[i].edits
    BY <2>1, <2>2, <2>3, <2>4 DEF Open
  <2>6. CounterTypeOK'
    BY <1>0, <2>1, <2>5 DEF CounterTypeOK, Session
  <2>7. OneStarter'
    BY <1>0, <2>1, <2>5 DEF OneStarter
  <2>8. EditsOf(sessions)' = EditsOf(sessions)
    BY <2>5 DEF EditsOf
  <2>9. NoneTwice'
    <3>1. /\ bothStarting' = bothStarting /\ pendingEdits' = pendingEdits /\ flushing' = flushing
          /\ made' = made /\ Total(carried)' = Total(carried)
          /\ Total(EditsOf(sessions))' = Total(EditsOf(sessions))
      BY <2>1, <2>8 DEF Total, Units
    <3> QED BY <1>0, <3>1 DEF NoneTwice
  <2> QED BY <2>6, <2>7, <2>9 DEF CounterIInv
<1>11. CASE BeginFlush
  <2>1. /\ flushing = 0 /\ flushing' = pendingEdits /\ pendingEdits' = 0
        /\ UNCHANGED <<tabAt, present, roomOpen, begun, starting, carried, lastHere, sessions,
                       made, bothStarting>>
    BY <1>11 DEF BeginFlush, Drained
  <2>2. CounterTypeOK' /\ OneStarter'
    BY <1>0, <2>1 DEF CounterTypeOK, OneStarter, Open
  <2>3. NoneTwice'
    <3> SUFFICES ASSUME ~bothStarting'
                 PROVE  (Total(EditsOf(sessions)) + pendingEdits + flushing + Total(carried) <= made)'
      BY DEF NoneTwice
    <3>1. ~bothStarting /\ made' = made /\ Total(carried)' = Total(carried)
          /\ Total(EditsOf(sessions))' = Total(EditsOf(sessions))
      BY <2>1 DEF Total, Units, EditsOf
    <3>2. Total(EditsOf(sessions)) + pendingEdits + flushing + Total(carried) <= made
      BY <1>0, <3>1 DEF NoneTwice
    <3>3. Total(EditsOf(sessions)) \in Nat /\ Total(carried) \in Nat /\ pendingEdits \in Nat
      BY <1>0, CountsAreNumbers DEF CounterTypeOK
    <3>4. \A a, c, p \in Nat : a + p + 0 + c = a + 0 + p + c
      OBVIOUS
    <3> QED BY <2>1, <3>1, <3>2, <3>3, <3>4
  <2> QED BY <2>2, <2>3 DEF CounterIInv
<1>12. CASE EndFlush
  <2>1. /\ flushing' = 0 /\ sessions' \in {sessions, Stored(flushing)}
        /\ UNCHANGED <<tabAt, present, roomOpen, pendingEdits, begun, starting, carried,
                       lastHere, made, bothStarting>>
    BY <1>12 DEF EndFlush
  <2>2. /\ sessions' \in Seq([open : BOOLEAN, edits : Nat]) /\ Open' = Open
        /\ ~bothStarting => /\ Total(EditsOf(sessions))' \in Nat
                            /\ Total(EditsOf(sessions))' <= Total(EditsOf(sessions)) + flushing
    <3>1. flushing \in Nat
      BY <1>0 DEF CounterTypeOK
    <3> QED BY <1>0, <2>1, <3>1, StoresKeep
  <2>3. CounterTypeOK'
    BY <1>0, <2>1, <2>2 DEF CounterTypeOK
  <2>4. OneStarter'
    BY <1>0, <2>1, <2>2 DEF OneStarter
  <2>5. NoneTwice'
    <3> SUFFICES ASSUME ~bothStarting'
                 PROVE  (Total(EditsOf(sessions)) + pendingEdits + flushing + Total(carried) <= made)'
      BY DEF NoneTwice
    <3>1. ~bothStarting /\ pendingEdits' = pendingEdits /\ made' = made
          /\ Total(carried)' = Total(carried)
      BY <2>1 DEF Total, Units
    <3>2. Total(EditsOf(sessions)) + pendingEdits + flushing + Total(carried) <= made
      BY <1>0, <3>1 DEF NoneTwice
    <3>3. /\ Total(EditsOf(sessions)) \in Nat /\ Total(carried) \in Nat /\ pendingEdits \in Nat
          /\ flushing \in Nat /\ made \in Nat
      BY <1>0, CountsAreNumbers DEF CounterTypeOK
    <3>4. \A a, e, b, c, p, m \in Nat : a + p + b + c <= m /\ e <= a + b => e + p + 0 + c <= m
      OBVIOUS
    <3> QED BY <2>1, <2>2, <3>1, <3>2, <3>3, <3>4
  <2> QED BY <2>3, <2>4, <2>5 DEF CounterIInv
<1> QED BY <1>1, <1>2, <1>3, <1>4, <1>5, <1>6, <1>7, <1>8, <1>9, <1>10, <1>11, <1>12 DEF CounterNext

\* The tabs, the counts and the rows of edit_sessions keep their types.
THEOREM CounterTypes == CounterSpec => []CounterTypeOK
<1>1. CounterIInv => CounterTypeOK
  BY DEF CounterIInv
<1> QED BY <1>1, CounterStarts, CounterStays, PTL DEF CounterSpec

\* No edit is counted twice, with any number of tabs, flushes and disconnects, as
\* long as no two calls of startSession() are between their SELECT and INSERT.
THEOREM NeverTwice == CounterSpec => []CountedOnce
<1>1. CounterIInv => CountedOnce
  <2> SUFFICES ASSUME CounterIInv, ~bothStarting PROVE CountedOnce
    BY DEF CountedOnce
  <2>1. IsFiniteSet(Open) /\ \A i, j \in Open : i = j
    <3>1. IsFiniteSet(DOMAIN sessions)
      BY SessionsFinite DEF CounterIInv, CounterTypeOK, Session
    <3>2. Open \in SUBSET DOMAIN sessions
      BY DEF Open
    <3> QED BY <3>1, <3>2, FS_Subset DEF CounterIInv, OneStarter
  <2>2. Cardinality(Open) <= 1
    <3>1. CASE Open = {}
      BY <3>1, FS_EmptySet
    <3>2. ASSUME NEW i \in Open PROVE Cardinality(Open) <= 1
      <4>1. Open = {i}
        BY <2>1
      <4>2. Cardinality(Open) = 1
        BY <4>1, FS_Singleton
      <4> QED BY <4>2
    <3> QED BY <3>1, <3>2
  <2> QED BY <2>2 DEF CountedOnce, CounterIInv, NoneTwice, EditsOf
<1> QED BY <1>1, CounterStarts, CounterStays, PTL DEF CounterSpec

---------------------------------------------------------------------------
(* MCServices *)

\* The services as they are run: a behaviour of one of them leaves the others alone,
\* so that each keeps its own specification, and with it its types.
THEOREM ServicesTypes == Spec => []TypeOK
<1>1. Init => /\ CreationInit /\ MirrorInit /\ ReconcileInit /\ GateInit
              /\ AccessInit /\ FilesInit /\ TokenInit /\ CounterInit /\ VersionInit
              /\ DashInit /\ BenchInit /\ SdkInit
  BY DEF Init
<1>2. [Next]_vars => /\ [CreationNext]_creationVars
                     /\ [MirrorNext]_mirrorVars /\ [ReconcileNext]_reconcileVars
                     /\ [GateNext]_gateVars /\ [AccessNext]_accessVars
                     /\ [FilesNext]_fileVars /\ [TokenNext]_tokenVars
                     /\ [CounterNext]_counterVars /\ [VersionNext]_versionVars
                     /\ [DashNext]_dashVars /\ [BenchNext]_benchVars /\ [SdkNext]_sdkVars
  BY DEF Next, vars, Rests
<1>3. /\ CreationSpec /\ MirrorSpec /\ ReconcileSpec /\ GateSpec
      /\ AccessSpec /\ FilesSpec /\ TokenSpec /\ CounterSpec /\ VersionSpec
      /\ DashSpec /\ BenchSpec /\ SdkSpec
      => []TypeOK
  BY CreationTypes, MirrorTypes, ReconcileTypes, GateTypes, AccessTypes,
     FilesTypes, TokenTypes, CounterTypes, VersionTypes, DashTypes, BenchTypes, SdkTypes,
     PTL DEF TypeOK
<1> QED BY <1>1, <1>2, <1>3, PTL
     DEF Spec, CreationSpec, MirrorSpec, ReconcileSpec, GateSpec, AccessSpec,
         FilesSpec, TokenSpec, CounterSpec, VersionSpec, DashSpec, BenchSpec, SdkSpec
=============================================================================
