--------------------------- MODULE BenchmarkRuns ---------------------------
(***************************************************************************)
(* The benchmark engine of a server (benchmark/BenchmarkEngine.ts) and the *)
(* routes that drive it (routes/benchmark.ts).                             *)
(*                                                                         *)
(* All runs of a process share one status object, one list of editors and  *)
(* one propagation tracker.  start() looks at the phase, then awaits two   *)
(* statements before it claims them, and a cancelled run may still be      *)
(* asleep when the next one starts.  The latencies, the live figures and   *)
(* the interval that refreshes them are left out.                          *)
(***************************************************************************)
EXTENDS Naturals

CONSTANTS Bench,        \* run ids
          NoBench,      \* no run
          Cells,        \* cells of the one matrix a behaviour may ask for
          MaxBenchFaults

ASSUME BenchAssumption ==
  /\ NoBench \notin Bench
  /\ Cells \in Nat /\ MaxBenchFaults \in Nat

VARIABLES row,          \* run id -> its row of benchmark_runs
          cellRow,      \* cell -> its placeholder row
          runAt,        \* run id -> where start() or runBenchmark() is
          byMatrix,     \* the runs that runMatrixSequential() started
          aborted,      \* runs whose AbortController was aborted
          phase,        \* _status.phase
          shown,        \* _status.runId, whose AbortController the engine holds
          crew,         \* runs with editors in this.editors
          tracker,      \* the run whose tracker the engine holds
          cancelling,   \* runs whose cancellation is being written
          matrix,       \* the cell the matrix is at, and what it is doing
          benchFaults

engineVars == <<aborted, phase, shown, crew, tracker>>
benchVars == <<row, cellRow, runAt, byMatrix, engineVars, cancelling, matrix, benchFaults>>

Over == {"idle", "completed", "failed", "cancelled"}
IsRunning == phase \notin Over
Sleeping == {"warmup", "measuring", "cooling"}
Executing == Sleeping \cup {"spawning", "storing", "failing"}
NoMatrix == [cell |-> 0, doing |-> "idle"]

At(r, place) == runAt[r] = place
Goes(r, place) == runAt' = [runAt EXCEPT ![r] = place]
BenchFault == benchFaults < MaxBenchFaults /\ benchFaults' = benchFaults + 1

\* An UPDATE of a row that was deleted changes nothing.
Written(r, status) ==
  row' = IF row[r] = "deleted" THEN row ELSE [row EXCEPT ![r] = status]

\* finalizeRun() swallows a failed statement.
Finalized(r, status) ==
  \/ Written(r, status) /\ UNCHANGED benchFaults
  \/ BenchFault /\ UNCHANGED row

\* cleanup(): whosever editors and tracker the engine has by then.
CleanUp == crew' = {} /\ tracker' = NoBench

BenchInit ==
  /\ row = [r \in Bench |-> "absent"]
  /\ cellRow = [i \in 1..Cells |-> "absent"]
  /\ runAt = [r \in Bench |-> "none"]
  /\ byMatrix = {} /\ aborted = {} /\ crew = {} /\ cancelling = {}
  /\ phase = "idle"
  /\ shown = NoBench /\ tracker = NoBench
  /\ matrix = NoMatrix
  /\ benchFaults = 0

-----------------------------------------------------------------------------
\* start(): the check, up to the first await.
Started(r) ==
  /\ ~IsRunning
  /\ At(r, "none") /\ row[r] = "absent"
  /\ Goes(r, "inserting")

StartByRoute(r) ==
  /\ Started(r)
  /\ UNCHANGED <<row, cellRow, byMatrix, engineVars, cancelling, matrix, benchFaults>>

\* A statement of start() fails: the exception reaches its caller.
Rejected(r) ==
  /\ Goes(r, "over")
  /\ BenchFault
  /\ IF r \in byMatrix
     THEN matrix' = [matrix EXCEPT !.doing = "recording"]
     ELSE UNCHANGED matrix

Inserted(r) ==
  /\ At(r, "inserting")
  /\ \/ row' = [row EXCEPT ![r] = "running"] /\ Goes(r, "marking")
        /\ UNCHANGED <<matrix, benchFaults>>
     \/ Rejected(r) /\ UNCHANGED row
  /\ UNCHANGED <<cellRow, byMatrix, engineVars, cancelling>>

\* The second statement, then in one go a new status, a new AbortController, a
\* new tracker and an empty list of editors, whatever was there.
Marked(r) ==
  /\ At(r, "marking")
  /\ \/ /\ Goes(r, "spawning")
        /\ phase' = "warmup" /\ shown' = r
        /\ tracker' = r /\ crew' = {}
        /\ matrix' = IF r \in byMatrix THEN [matrix EXCEPT !.doing = "waiting"] ELSE matrix
        /\ UNCHANGED <<aborted, benchFaults>>
     \/ Rejected(r) /\ UNCHANGED engineVars
  /\ UNCHANGED <<row, cellRow, byMatrix, cancelling>>

\* One more editor joins the list, and after the last one, or when it finds
\* itself aborted between two, the run goes to sleep for the warm-up.
Spawn(r) ==
  /\ At(r, "spawning")
  /\ \/ r \notin aborted /\ crew' = crew \cup {r} /\ UNCHANGED runAt
     \/ Goes(r, "warmup") /\ UNCHANGED crew
  /\ UNCHANGED <<row, cellRow, byMatrix, aborted, phase, shown, tracker,
                 cancelling, matrix, benchFaults>>

\* The end of a sleep.  A sleep that began after the abort is not cut short by
\* it: such a run cleans up only now.  One without a tracker throws.
Next1(place) == CASE place = "warmup" -> "measuring" [] place = "measuring" -> "cooling"
                  [] place = "cooling" -> "storing"
Shows(place) == CASE place = "warmup" -> "measurement" [] place = "measuring" -> "cooldown"
                  [] place = "cooling" -> "persisting"

Wake(r) ==
  /\ runAt[r] \in Sleeping
  /\ IF r \in aborted
     THEN Goes(r, "over") /\ CleanUp /\ UNCHANGED phase
     ELSE /\ IF tracker = NoBench
             THEN /\ Goes(r, "failing")
                  /\ phase' = IF At(r, "measuring") THEN phase ELSE Shows(runAt[r])
             ELSE Goes(r, Next1(runAt[r])) /\ phase' = Shows(runAt[r])
          /\ UNCHANGED <<crew, tracker>>
  /\ UNCHANGED <<row, cellRow, byMatrix, aborted, shown, cancelling, matrix, benchFaults>>

\* The row of a run that came to its end, or that threw, is written, then the
\* phase, aborted or not.
OutcomeStored(r, place, status) ==
  /\ At(r, place)
  /\ Finalized(r, status)
  /\ phase' = status
  /\ CleanUp
  /\ Goes(r, "over")
  /\ UNCHANGED <<cellRow, byMatrix, aborted, shown, cancelling, matrix>>

\* Fault: cancel() leaves the phase to the run it aborts.
CancelQuietly ==
  /\ IsRunning
  /\ aborted' = aborted \cup {shown}
  /\ cancelling' = cancelling \cup {shown}
  /\ IF runAt[shown] \in Sleeping /\ shown \notin aborted
     THEN Goes(shown, "over") /\ CleanUp
     ELSE UNCHANGED <<runAt, crew, tracker>>
  /\ UNCHANGED <<row, cellRow, byMatrix, phase, shown, matrix, benchFaults>>

\* cancel(): a run that is asleep wakes at once and cleans up; the write of the
\* row is not awaited.
Cancel ==
  /\ IsRunning
  /\ phase' = "cancelled"
  /\ aborted' = aborted \cup {shown}
  /\ cancelling' = cancelling \cup {shown}
  /\ IF runAt[shown] \in Sleeping /\ shown \notin aborted
     THEN Goes(shown, "over") /\ CleanUp
     ELSE UNCHANGED <<runAt, crew, tracker>>
  /\ UNCHANGED <<row, cellRow, byMatrix, shown, matrix, benchFaults>>

CancelStored(r) ==
  /\ r \in cancelling
  /\ cancelling' = cancelling \ {r}
  /\ Finalized(r, "cancelled")
  /\ UNCHANGED <<cellRow, runAt, byMatrix, engineVars, matrix>>

DeleteRun(r) ==
  /\ row[r] \notin {"absent", "deleted"}
  /\ row' = [row EXCEPT ![r] = "deleted"]
  /\ UNCHANGED <<cellRow, runAt, byMatrix, engineVars, cancelling, matrix, benchFaults>>

-----------------------------------------------------------------------------
\* POST matrix: the placeholders, one INSERT each; then the cells in order.
AskMatrix ==
  /\ ~IsRunning /\ Cells > 0
  /\ \A i \in 1..Cells : cellRow[i] = "absent"
  /\ \/ cellRow' = [i \in 1..Cells |-> "queued"]
        /\ matrix' = [cell |-> 1, doing |-> "ready"] /\ UNCHANGED benchFaults
     \/ \E n \in 0..(Cells - 1) :
          cellRow' = [i \in 1..Cells |-> IF i <= n THEN "queued" ELSE "absent"]
        /\ BenchFault /\ UNCHANGED matrix
  /\ UNCHANGED <<row, runAt, byMatrix, engineVars, cancelling>>

\* The run of a cell gets an id of its own; start() throws if one is running.
StartCell(r) ==
  /\ matrix.doing = "ready"
  /\ \/ Started(r) /\ byMatrix' = byMatrix \cup {r}
        /\ matrix' = [matrix EXCEPT !.doing = "starting"]
     \/ IsRunning /\ matrix' = [matrix EXCEPT !.doing = "recording"]
        /\ UNCHANGED <<runAt, byMatrix>>
  /\ UNCHANGED <<row, cellRow, engineVars, cancelling, benchFaults>>

NextCell == matrix' = IF matrix.cell = Cells THEN NoMatrix
                      ELSE [cell |-> matrix.cell + 1, doing |-> "ready"]

\* waitForEngineIdle() answers, or gives up after five minutes.
CellEnded ==
  /\ matrix.doing = "waiting"
  /\ NextCell
  /\ UNCHANGED <<row, cellRow, runAt, byMatrix, engineVars, cancelling, benchFaults>>

\* Only a cell whose start() threw has its placeholder written.
CellFailed ==
  /\ matrix.doing = "recording"
  /\ \/ cellRow' = [cellRow EXCEPT ![matrix.cell] = "failed"] /\ UNCHANGED benchFaults
     \/ BenchFault /\ UNCHANGED cellRow
  /\ NextCell
  /\ UNCHANGED <<row, runAt, byMatrix, engineVars, cancelling>>

BenchNext ==
  \/ \E r \in Bench :
       \/ StartByRoute(r) \/ StartCell(r) \/ Inserted(r) \/ Marked(r) \/ Spawn(r) \/ Wake(r)
       \/ OutcomeStored(r, "storing", "completed") \/ OutcomeStored(r, "failing", "failed")
       \/ CancelStored(r) \/ DeleteRun(r)
  \/ Cancel \/ AskMatrix \/ CellEnded \/ CellFailed

BenchSpec == BenchInit /\ [][BenchNext]_benchVars

-----------------------------------------------------------------------------
\* Types.
BenchTypeOK ==
  /\ row \in [Bench -> {"absent", "running", "completed", "failed", "cancelled", "deleted"}]
  /\ cellRow \in [1..Cells -> {"absent", "queued", "failed"}]
  /\ runAt \in [Bench -> Executing \cup {"none", "inserting", "marking", "over"}]
  /\ phase \in Over \cup {"warmup", "measurement", "cooldown", "persisting"}
  /\ byMatrix \cup aborted \cup crew \cup cancelling \subseteq Bench
  /\ {shown, tracker} \subseteq Bench \cup {NoBench}
  /\ matrix \in [cell : 0..Cells,
                 doing : {"idle", "ready", "starting", "waiting", "recording"}]
  /\ benchFaults \in 0..MaxBenchFaults

\* However starts, cancellations and the ends of runs overlap, an engine that
\* calls itself running has a run under way that will change that, so a later
\* start() is never refused for good; and while no statement fails, the row of
\* a run that is over says how it ended.
EngineSettles ==
  /\ IsRunning => \E r \in Bench : runAt[r] \in Executing /\ r \notin aborted
  /\ benchFaults = 0 =>
       \A r \in Bench : At(r, "over") /\ r \notin cancelling => row[r] # "running"
=============================================================================
