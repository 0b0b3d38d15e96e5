--------------------------- MODULE VersionHistory ---------------------------
(***************************************************************************)
(* The versions of one document: automatic captures on the snapshot timer, *)
(* named checkpoints and restores, each split at its awaits, and the       *)
(* pruning that a capture starts.  The document is the log of the items    *)
(* that were ever inserted and the set of the erased ones; the row in      *)
(* document_snapshots covers a prefix of the log.                          *)
(***************************************************************************)
EXTENDS Naturals, Sequences, FiniteSets

CONSTANTS
  Task,         \* captures, checkpoints and restores
  User,         \* who makes the edits
  MaxItems,     \* bound on the items
  MaxVersions   \* DEFAULT_MAX_VERSIONS

ASSUME TaskAssumption == User \notin Task /\ MaxVersions \in Nat /\ MaxItems \in Nat

VARIABLES
  taskAt,     \* how far a task is
  source,     \* 'auto', 'manual', 'restore'
  hash,       \* snapshotHash of what the task saves
  chosen,     \* the items of the version that a restore brings back
  seen,       \* how much of the log a restore loaded
  before,     \* history: how long the log was when the task began
  log,          \* who inserted each item, in the order of the log
  erased,     \* the items that were deleted
  covered,    \* the prefix of the log that the snapshot row covers
  captured,   \* captureStates.get(fileId).lastHash
  versions,   \* document_versions, the oldest first
  twinRace      \* history: two tasks with one hash were between SELECT and INSERT

versionVars == <<taskAt, source, hash, chosen, seen, before, log, erased, covered,
                 captured, versions, twinRace>>

NoHash == <<"none">>
Visible == DOMAIN log \ erased

\* sha256 of the encoded document: captures save V1, checkpoints V2 bytes, and
\* what a restore builds has a new Yjs client in it.
HashOf(t, kind) ==
  IF kind = "restore" THEN <<"restored", t>>
  ELSE <<kind, Len(log), erased>>

VersionInit ==
  /\ taskAt = [t \in Task |-> "new"] /\ source = [t \in Task |-> "auto"]
  /\ hash = [t \in Task |-> NoHash] /\ chosen = [t \in Task |-> 0]
  /\ seen = [t \in Task |-> 0] /\ before = [t \in Task |-> 0]
  /\ log = << >> /\ erased = {} /\ covered = 0
  /\ captured = NoHash /\ versions = << >> /\ twinRace = FALSE

Steps(t, from, to) == taskAt[t] = from /\ taskAt' = [taskAt EXCEPT ![t] = to]

---------------------------------------------------------------------------
(* The document *)

EditItems ==
  /\ \/ /\ Len(log) < MaxItems /\ log' = Append(log, User) /\ UNCHANGED erased
     \/ \E i \in Visible : erased' = erased \cup {i} /\ UNCHANGED log
  /\ UNCHANGED <<taskAt, source, hash, chosen, seen, before, covered, captured,
                 versions, twinRace>>

SaveSnapshot ==
  /\ covered # Len(log) /\ covered' = Len(log)
  /\ UNCHANGED <<taskAt, source, hash, chosen, seen, before, log, erased, captured,
                 versions, twinRace>>

---------------------------------------------------------------------------
(* autoCapture(), createCheckpoint(), saveVersion() *)

\* The coalescing rules skip what was captured already, and may skip anything
\* too soon after it or too close to it in size.
AutoCapture(t) ==
  /\ captured # HashOf(t, "auto")
  /\ Steps(t, "new", "checking")
  /\ source' = [source EXCEPT ![t] = "auto"]
  /\ hash' = [hash EXCEPT ![t] = HashOf(t, "auto")]
  /\ UNCHANGED <<chosen, seen, before, log, erased, covered, captured, versions, twinRace>>

\* loadSnapshot() brings the snapshot and the log after it.
CreateCheckpoint(t) ==
  /\ Steps(t, "new", "checking")
  /\ source' = [source EXCEPT ![t] = "manual"]
  /\ hash' = [hash EXCEPT ![t] = HashOf(t, "manual")]
  /\ UNCHANGED <<chosen, seen, before, log, erased, covered, captured, versions, twinRace>>

\* Fault: nobody looks for a version with the same hash.
FoundNever(t) == FALSE

Found(t) == \E i \in DOMAIN versions : versions[i].hash = hash[t]

\* The SELECT of saveVersion(); an error ends the task as well.
CheckDuplicate(t) ==
  /\ taskAt[t] = "checking"
  /\ \/ Found(t) /\ Steps(t, "checking", "done") /\ UNCHANGED twinRace
     \/ /\ ~Found(t) /\ Steps(t, "checking", "inserting")
        /\ twinRace' = (twinRace \/ \E u \in Task \ {t} :
                                    taskAt[u] = "inserting" /\ hash[u] = hash[t])
  /\ UNCHANGED <<source, hash, chosen, seen, before, log, erased, covered, captured,
                 versions>>

\* After an automatic capture the versions are pruned.
InsertVersion(t) ==
  /\ Steps(t, "inserting", IF source[t] = "auto" THEN "aging" ELSE "done")
  /\ versions' = Append(versions, [source |-> source[t], hash |-> hash[t],
                   size |-> IF source[t] = "restore" THEN chosen[t]
                            ELSE Cardinality(Visible)])
  /\ captured' = IF source[t] = "auto" THEN hash[t] ELSE captured
  /\ UNCHANGED <<source, hash, chosen, seen, before, log, erased, covered, twinRace>>

TaskFails(t) ==
  /\ taskAt[t] \notin {"new", "done"} /\ taskAt' = [taskAt EXCEPT ![t] = "done"]
  /\ UNCHANGED <<source, hash, chosen, seen, before, log, erased, covered, captured,
                 versions, twinRace>>

\* The room is closed or evicted.
ClearCaptureState ==
  /\ captured # NoHash /\ captured' = NoHash
  /\ UNCHANGED <<taskAt, source, hash, chosen, seen, before, log, erased, covered,
                 versions, twinRace>>

---------------------------------------------------------------------------
(* pruneVersions() *)

\* The automatic versions among the oldest n go.
Kept(n) == {i \in DOMAIN versions : i > n \/ versions[i].source # "auto"}

\* The versions at these positions, in their order.
Rows(at) ==
  [k \in 1..Cardinality(at) |->
     versions[CHOOSE i \in at : Cardinality({j \in at : j < i}) = k - 1]]

PruneByAge(t) ==
  /\ Steps(t, "aging", "counting")
  /\ \E n \in 0..Len(versions) : versions' = Rows(Kept(n))
  /\ UNCHANGED <<source, hash, chosen, seen, before, log, erased, covered, captured, twinRace>>

PruneByCount(t) ==
  /\ Steps(t, "counting", "done")
  /\ versions' = IF Len(versions) <= MaxVersions THEN versions
                 ELSE Rows(Kept(Len(versions) - MaxVersions))
  /\ UNCHANGED <<source, hash, chosen, seen, before, log, erased, covered, captured, twinRace>>

---------------------------------------------------------------------------
(* restoreVersion() *)

LoadTarget(t) ==
  /\ Steps(t, "new", "loading")
  /\ \E i \in DOMAIN versions : chosen' = [chosen EXCEPT ![t] = versions[i].size]
  /\ before' = [before EXCEPT ![t] = Len(log)]
  /\ UNCHANGED <<source, hash, seen, log, erased, covered, captured, versions, twinRace>>

\* Fault: the log after the snapshot is not replayed.
LoadedSnapshotOnly == covered

\* loadSnapshot()
Loaded == Len(log)

LoadCurrent(t) ==
  /\ Steps(t, "loading", "appending")
  /\ seen' = [seen EXCEPT ![t] = Loaded]
  /\ UNCHANGED <<source, hash, chosen, before, log, erased, covered, captured,
                 versions, twinRace>>

\* One update deletes all that was loaded and inserts copies of the version's
\* items; it is logged and applied to the room.
ApplyRestore(t) ==
  /\ Steps(t, "appending", "checking") /\ Len(log) + chosen[t] <= MaxItems
  /\ log' = log \o [k \in 1..chosen[t] |-> t]
  /\ erased' = erased \cup (1..seen[t])
  /\ source' = [source EXCEPT ![t] = "restore"]
  /\ hash' = [hash EXCEPT ![t] = HashOf(t, "restore")]
  /\ UNCHANGED <<chosen, seen, before, covered, captured, versions, twinRace>>

VersionNext ==
  \/ \E t \in Task :
       \/ AutoCapture(t) \/ CreateCheckpoint(t) \/ CheckDuplicate(t) \/ InsertVersion(t)
       \/ TaskFails(t) \/ PruneByAge(t) \/ PruneByCount(t)
       \/ LoadTarget(t) \/ LoadCurrent(t) \/ ApplyRestore(t)
  \/ EditItems \/ SaveSnapshot \/ ClearCaptureState

VersionSpec == VersionInit /\ [][VersionNext]_versionVars

---------------------------------------------------------------------------
VersionTypeOK ==
  /\ taskAt \in [Task -> {"new", "loading", "appending", "checking", "inserting",
                          "aging", "counting", "done"}]
  /\ source \in [Task -> {"auto", "manual", "restore"}]
  /\ chosen \in [Task -> 0..MaxItems] /\ seen \in [Task -> 0..MaxItems]
  /\ before \in [Task -> 0..MaxItems]
  /\ log \in Seq(Task \cup {User}) /\ Len(log) <= MaxItems
  /\ erased \subseteq DOMAIN log /\ covered \in 0..Len(log)
  /\ twinRace \in BOOLEAN

\* No two versions have the same hash, unless two tasks that saved it were both
\* between the SELECT and the INSERT.
NoTwinVersions ==
  ~twinRace => \A i, j \in DOMAIN versions :
                versions[i].hash = versions[j].hash => i = j

\* A restore replaces the document: right after it, nothing is visible of what
\* was there when it began, however little of that the snapshot row covered; what
\* else is visible came in while it ran.
RestoreReplaces ==
  [][\A t \in Task :
       taskAt[t] = "appending" /\ taskAt'[t] = "checking" =>
         \A i \in DOMAIN log' \ erased' : log'[i] = t \/ i > before[t]]_versionVars
=============================================================================
