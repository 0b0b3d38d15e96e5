-------------------------- MODULE DocPersistence --------------------------
(***************************************************************************)
(* The durability path of one document on one server process: the write-   *)
(* ahead log (document_updates), the snapshot table (document_snapshots),  *)
(* the files.ydoc_state column, and the room that feeds all three.         *)
(*                                                                         *)
(* A Y.Doc is the set of the updates merged into it.  An element of        *)
(* Updates is one update frame as a client sends it; a payload sent twice  *)
(* is two elements.  Every await on PostgreSQL is a point where the other  *)
(* handlers run, so every statement is an action of its own.               *)
(***************************************************************************)
EXTENDS Naturals

CONSTANTS
  Updates,   \* the update frames that clients may send
  NoDoc,     \* SQL NULL, an absent row, an empty slot
  DbFaults   \* whether statements on PostgreSQL may fail

ASSUME NoDocAssumption == \A d \in SUBSET Updates : NoDoc # d
ASSUME DbFaultsAssumption == DbFaults \in BOOLEAN

VARIABLES
  \* PostgreSQL
  ydocState,   \* files.ydoc_state
  snapshot,    \* document_snapshots.snapshot
  mark,        \* document_snapshots.snapshot_seq
  log,         \* the updates with a visible row in document_updates
  id,          \* document_updates.id of an update, 0 before nextval()
  lastId,      \* the BIGSERIAL sequence
  \* the server process
  room,        \* the room in the store, by the stage of its life
  doc,         \* room.ydoc
  dirty,       \* room._dirty
  save,        \* the state a running runSave() is writing
  poisoned,    \* room.saveMutex is a rejected promise
  queue,       \* the entry of snapshotQueue's map for this file
  writer,      \* the two loops that call saveSnapshot()
  load,        \* a loadSnapshot() between its two queries
  frame,       \* the stage of the handler of every update frame
  attached,    \* the frames whose handler captured the room in the store
  phase,       \* the progress of shutdown()
  \* history
  logged,      \* every update whose row was ever committed
  during       \* the updates merged while the latest save was running

store == <<ydocState, snapshot, mark, log, id, lastId>>
roomVars == <<room, doc, dirty, save, poisoned>>
vars == <<ydocState, snapshot, mark, log, id, lastId, room, doc, dirty, save,
          poisoned, queue, writer, load, frame, attached, phase, logged, during>>

Docs == SUBSET Updates
Writers == {"worker", "drain"}
Idle == [stage |-> "idle", buf |-> {}, seq |-> 0]
NoLoad == [active |-> FALSE, base |-> {}, seq |-> 0]
InMemory == room \in {"open", "idle"}

Init ==
  /\ ydocState = NoDoc /\ snapshot = NoDoc /\ mark = 0
  /\ log = {} /\ id = [u \in Updates |-> 0] /\ lastId = 0
  /\ room = "absent" /\ doc = {} /\ dirty = FALSE /\ save = NoDoc
  /\ poisoned = FALSE /\ queue = NoDoc
  /\ writer = [w \in Writers |-> Idle] /\ load = NoLoad
  /\ frame = [u \in Updates |-> "unsent"] /\ attached = {}
  /\ phase = "up" /\ logged = {} /\ during = {}

---------------------------------------------------------------------------
(* Opening a room: loadYdocState() first, loadSnapshot() only if it is NULL. *)

\* A fresh Room on the state d; loading it does not make it dirty.
OpenWith(d) ==
  /\ room' = "open" /\ doc' = d /\ dirty' = FALSE /\ save' = NoDoc
  /\ poisoned' = FALSE /\ attached' = {} /\ during' = {}

\* Fault: the snapshot table is preferred to the column.
OpenFromSnapshotFirst ==
  /\ room = "absent" /\ phase = "up" /\ ydocState # NoDoc
  /\ OpenWith(IF snapshot # NoDoc THEN snapshot ELSE ydocState)
  /\ UNCHANGED <<store, queue, writer, load, frame, phase, logged>>

OpenFromColumn ==
  /\ room = "absent" /\ phase = "up" /\ ydocState # NoDoc
  /\ OpenWith(ydocState)
  /\ UNCHANGED <<store, queue, writer, load, frame, phase, logged>>

\* The first query of loadSnapshot(): no row gives an empty document.
ReadSnapshotRow ==
  /\ room = "absent" /\ phase = "up" /\ ydocState = NoDoc
  /\ IF snapshot = NoDoc
       THEN OpenWith({}) /\ load' = NoLoad
       ELSE /\ load' = [active |-> TRUE, base |-> snapshot, seq |-> mark]
            /\ room' = "loading"
            /\ UNCHANGED <<doc, dirty, save, poisoned, attached, during>>
  /\ UNCHANGED <<store, queue, writer, frame, phase, logged>>

\* The rows that loadUpdatesSince(seq) returns.
RowsAfter(seq) == {u \in log : id[u] > seq}

ReplayLog ==
  /\ load.active
  /\ OpenWith(load.base \cup RowsAfter(load.seq))
  /\ load' = NoLoad
  /\ UNCHANGED <<store, queue, writer, frame, phase, logged>>

\* A failed query is swallowed: the room opens empty, or without the replay.
LoadFault ==
  /\ DbFaults
  /\ \/ room = "absent" /\ phase = "up" /\ ydocState = NoDoc /\ OpenWith({})
     \/ load.active /\ OpenWith(load.base)
  /\ load' = NoLoad
  /\ UNCHANGED <<store, queue, writer, frame, phase, logged>>

---------------------------------------------------------------------------
(* handleDataMessage(): log, then merge, then acknowledge. *)

Receive(u) ==
  /\ frame[u] = "unsent" /\ room = "open" /\ phase = "up"
  /\ frame' = [frame EXCEPT ![u] = "appending"]
  /\ attached' = attached \cup {u}
  /\ UNCHANGED <<store, roomVars, queue, writer, load, phase, logged, during>>

\* nextval() of the BIGSERIAL column; the INSERT is not yet visible.
AllocateId(u) ==
  /\ frame[u] = "appending"
  /\ frame' = [frame EXCEPT ![u] = "inserting"]
  /\ lastId' = lastId + 1
  /\ id' = [id EXCEPT ![u] = lastId + 1]
  /\ UNCHANGED <<ydocState, snapshot, mark, log, roomVars, queue, writer,
                 load, attached, phase, logged, during>>

CommitRow(u) ==
  /\ frame[u] = "inserting"
  /\ frame' = [frame EXCEPT ![u] = "logged"]
  /\ log' = log \cup {u}
  /\ logged' = logged \cup {u}
  /\ UNCHANGED <<ydocState, snapshot, mark, id, lastId, roomVars, queue,
                 writer, load, attached, phase, during>>

\* Fault: the handler goes on after appendUpdate() returned null.
AppendFaultIgnored(u) ==
  /\ DbFaults /\ frame[u] \in {"appending", "inserting"}
  /\ frame' = [frame EXCEPT ![u] = "logged"]
  /\ UNCHANGED <<store, roomVars, queue, writer, load, attached, phase,
                 logged, during>>

\* appendUpdate() returns null: the update is dropped, unacknowledged.
AppendFault(u) ==
  /\ DbFaults /\ frame[u] \in {"appending", "inserting"}
  /\ frame' = [frame EXCEPT ![u] = "ended"]
  /\ UNCHANGED <<store, roomVars, queue, writer, load, attached, phase,
                 logged, during>>

\* The handler resumes: applyClientUpdate() on the room it captured, then the
\* ACK if the socket is still open (the last one is closed in an idle room).
Apply(u) ==
  /\ frame[u] = "logged"
  /\ \/ frame' = [frame EXCEPT ![u] = "ended"]
     \/ room = "open" /\ u \in attached /\ frame' = [frame EXCEPT ![u] = "acked"]
  /\ IF u \in attached
       THEN /\ doc' = doc \cup {u} /\ dirty' = TRUE
            /\ during' = IF save = NoDoc THEN during ELSE during \cup {u}
       ELSE UNCHANGED <<doc, dirty, during>>
  /\ UNCHANGED <<store, room, save, poisoned, queue, writer, load, attached,
                 phase, logged>>

---------------------------------------------------------------------------
(* Room.runSave(): one save at a time through saveMutex. *)

RunnableSave == dirty /\ ~poisoned

\* A room leaves the store; handlers that captured it keep a dead object.
Forget ==
  /\ room' = "absent" /\ doc' = {} /\ dirty' = FALSE /\ save' = NoDoc
  /\ poisoned' = FALSE /\ attached' = {} /\ during' = {}

StartSave == save' = doc /\ during' = {}

\* flushPendingEdits(), every EDIT_FLUSH_INTERVAL_MS.
FlushTick ==
  /\ InMemory /\ phase = "up" /\ save = NoDoc /\ RunnableSave
  /\ StartSave
  /\ UNCHANGED <<store, room, doc, dirty, poisoned, queue, writer, load,
                 frame, attached, phase, logged>>

\* The UPDATE of files.ydoc_state returns; _dirty is cleared unconditionally.
\* In an idle room the last disconnect was waiting for it and drops the room.
SaveDone ==
  /\ save # NoDoc
  /\ ydocState' = save
  /\ IF room = "idle"
       THEN Forget
       ELSE dirty' = FALSE /\ save' = NoDoc
            /\ UNCHANGED <<room, doc, poisoned, attached, during>>
  /\ UNCHANGED <<snapshot, mark, log, id, lastId, queue, writer, load, frame,
                 phase, logged>>

\* Fault: _dirty is reset in the finally block.
SaveFaultClean ==
  /\ DbFaults /\ save # NoDoc
  /\ IF room = "idle"
       THEN Forget
       ELSE dirty' = FALSE /\ save' = NoDoc
            /\ UNCHANGED <<room, doc, poisoned, attached, during>>
  /\ UNCHANGED <<store, queue, writer, load, frame, phase, logged>>

\* The UPDATE fails: saveMutex stays rejected and no later save can run.
SaveFault ==
  /\ DbFaults /\ save # NoDoc
  /\ IF room = "idle"
       THEN Forget
       ELSE poisoned' = TRUE /\ save' = NoDoc
            /\ UNCHANGED <<room, doc, dirty, attached, during>>
  /\ UNCHANGED <<store, queue, writer, load, frame, phase, logged>>

\* handleDisconnect() of the last connection: a final snapshot is queued, then
\* runSave(); the room goes at once when there is nothing to wait for.
LastDisconnect ==
  /\ room = "open" /\ phase = "up"
  /\ queue' = doc
  /\ IF RunnableSave
       THEN /\ room' = "idle"
            /\ IF save = NoDoc THEN StartSave ELSE UNCHANGED <<save, during>>
            /\ UNCHANGED <<doc, dirty, poisoned, attached>>
       ELSE Forget
  /\ UNCHANGED <<store, writer, load, frame, phase, logged>>

---------------------------------------------------------------------------
(* snapshotQueue and saveSnapshot(). *)

\* The per-room timer, every SNAPSHOT_INTERVAL_MS; cleared with the room.
SnapshotTick ==
  /\ room = "open" /\ phase = "up" /\ dirty
  /\ queue' = doc
  /\ UNCHANGED <<store, roomVars, writer, load, frame, attached, phase,
                 logged, during>>

\* The worker's loop, or drainSnapshotQueue() during shutdown.
TakeEntry(w) ==
  /\ queue # NoDoc /\ writer[w].stage = "idle"
  /\ w = "drain" => phase = "drain"
  /\ writer' = [writer EXCEPT ![w] = [stage |-> "writing", buf |-> queue, seq |-> 0]]
  /\ queue' = NoDoc
  /\ UNCHANGED <<store, roomVars, load, frame, attached, phase, logged, during>>

\* COALESCE(MAX(id), 0) over the rows that are visible now.
IsMaxId(n) ==
  /\ \A u \in log : id[u] <= n
  /\ n = 0 \/ \E u \in log : id[u] = n

\* The upsert: the encoded bytes are old, the watermark is read now.
WriteSnapshot(w) ==
  /\ writer[w].stage = "writing"
  /\ \E n \in 0 .. lastId :
       /\ IsMaxId(n)
       /\ snapshot' = writer[w].buf
       /\ mark' = n
       /\ writer' = [writer EXCEPT ![w] =
            IF n > 0 THEN [stage |-> "pruning", buf |-> {}, seq |-> n] ELSE Idle]
  /\ UNCHANGED <<ydocState, log, id, lastId, roomVars, queue, load, frame,
                 attached, phase, logged, during>>

Prune(w) ==
  /\ writer[w].stage = "pruning"
  /\ log' = RowsAfter(writer[w].seq)
  /\ writer' = [writer EXCEPT ![w] = Idle]
  /\ UNCHANGED <<ydocState, snapshot, mark, id, lastId, roomVars, queue, load,
                 frame, attached, phase, logged, during>>

\* Fault: a loop whose write failed does not return to its queue.
SnapshotFaultStuck(w) ==
  /\ writer[w].stage = "writing"
  /\ writer' = [writer EXCEPT ![w].stage = "failed"]
  /\ UNCHANGED <<store, roomVars, queue, load, frame, attached, phase, logged,
                 during>>

\* Fault: the log is pruned although the upsert failed.
SnapshotFaultPrunes(w) ==
  /\ DbFaults /\ writer[w].stage = "writing"
  /\ writer' = [writer EXCEPT ![w] = [stage |-> "pruning", buf |-> {}, seq |-> lastId]]
  /\ UNCHANGED <<store, roomVars, queue, load, frame, attached, phase, logged,
                 during>>

\* saveSnapshot() skips a snapshot above MAX_SNAPSHOT_BYTES; it and
\* pruneUpdates() log an error and return.
SnapshotFault(w) ==
  /\ \/ writer[w].stage = "writing"
     \/ DbFaults /\ writer[w].stage = "pruning"
  /\ writer' = [writer EXCEPT ![w] = Idle]
  /\ UNCHANGED <<store, roomVars, queue, load, frame, attached, phase, logged,
                 during>>

---------------------------------------------------------------------------
(* shutdown(): two passes of runSave(), a last snapshot, drain, exit. *)

ShutdownBegin ==
  /\ phase = "up"
  /\ phase' = "flush"
  /\ UNCHANGED <<store, roomVars, queue, writer, load, frame, attached, logged,
                 during>>

\* flushPendingEdits() and then the "persist all dirty rooms" loop.
ShutdownSave ==
  /\ phase \in {"flush", "persist"} /\ save = NoDoc
  /\ phase' = IF phase = "flush" THEN "persist" ELSE "enqueue"
  /\ IF InMemory /\ RunnableSave THEN StartSave ELSE UNCHANGED <<save, during>>
  /\ UNCHANGED <<store, room, doc, dirty, poisoned, queue, writer, load, frame,
                 attached, logged>>

\* Fault: shutdown waits until the room is clean.
ShutdownEnqueueClean ==
  /\ phase = "enqueue" /\ save = NoDoc /\ ~dirty
  /\ phase' = "drain"
  /\ queue' = IF InMemory THEN doc ELSE queue
  /\ UNCHANGED <<store, roomVars, writer, load, frame, attached, logged, during>>

ShutdownEnqueue ==
  /\ phase = "enqueue" /\ save = NoDoc
  /\ phase' = "drain"
  /\ queue' = IF InMemory THEN doc ELSE queue
  /\ UNCHANGED <<store, roomVars, writer, load, frame, attached, logged, during>>

\* The memory of the process is gone; its handlers never resume.
Restart ==
  /\ Forget /\ queue' = NoDoc /\ load' = NoLoad /\ phase' = "up"
  /\ writer' = [w \in Writers |-> Idle]
  /\ frame' = [u \in Updates |->
       IF frame[u] \in {"appending", "inserting", "logged"} THEN "ended" ELSE frame[u]]
  /\ UNCHANGED <<store, logged>>

\* process.exit() once drainSnapshotQueue() has returned.
ShutdownExit ==
  /\ phase = "drain" /\ queue = NoDoc /\ writer["drain"].stage = "idle"
  /\ Restart

Crash == Restart

---------------------------------------------------------------------------
Handler(u) ==
  Receive(u) \/ AllocateId(u) \/ CommitRow(u) \/ AppendFault(u) \/ Apply(u)

Snapshotter(w) ==
  TakeEntry(w) \/ WriteSnapshot(w) \/ Prune(w) \/ SnapshotFault(w)

Next ==
  \/ OpenFromColumn \/ ReadSnapshotRow \/ ReplayLog \/ LoadFault
  \/ \E u \in Updates : Handler(u)
  \/ FlushTick \/ SaveDone \/ SaveFault \/ LastDisconnect \/ SnapshotTick
  \/ \E w \in Writers : Snapshotter(w)
  \/ ShutdownBegin \/ ShutdownSave \/ ShutdownEnqueue \/ ShutdownExit
  \/ Crash

Spec == Init /\ [][Next]_vars

\* PostgreSQL answers every statement, timers fire, handlers are resumed.
\* Clients, crashes and signals are under no obligation.
Fairness ==
  /\ \A u \in Updates :
       /\ WF_vars(AllocateId(u) \/ AppendFault(u))
       /\ WF_vars(CommitRow(u) \/ AppendFault(u))
       /\ WF_vars(Apply(u))
  /\ \A w \in Writers : WF_vars(Snapshotter(w))
  /\ WF_vars(FlushTick) /\ WF_vars(SaveDone \/ SaveFault)
  /\ WF_vars(load.active /\ (ReplayLog \/ LoadFault))
  /\ WF_vars(ShutdownSave) /\ WF_vars(ShutdownEnqueue) /\ WF_vars(ShutdownExit)

FairSpec == Spec /\ Fairness

---------------------------------------------------------------------------
Acked == {u \in Updates : frame[u] = "acked"}
Stored == IF ydocState = NoDoc THEN {} ELSE ydocState

TypeOK ==
  /\ ydocState \in {NoDoc} \cup Docs /\ snapshot \in {NoDoc} \cup Docs
  /\ mark \in Nat /\ log \in Docs /\ id \in [Updates -> Nat] /\ lastId \in Nat
  /\ room \in {"absent", "loading", "open", "idle"}
  /\ doc \in Docs /\ dirty \in BOOLEAN /\ save \in {NoDoc} \cup Docs
  /\ poisoned \in BOOLEAN /\ queue \in {NoDoc} \cup Docs
  /\ writer \in [Writers -> [stage : {"idle", "writing", "pruning"},
                             buf : Docs, seq : Nat]]
  /\ load \in [active : BOOLEAN, base : Docs, seq : Nat]
  /\ frame \in [Updates -> {"unsent", "appending", "inserting", "logged",
                            "acked", "ended"}]
  /\ attached \in Docs
  /\ phase \in {"up", "flush", "persist", "enqueue", "drain"}
  /\ logged \in Docs /\ during \in Docs

\* Nothing is in a document, in a table or on the way to one, and nothing is
\* acknowledged, before its row was committed to document_updates: the order
\* that handleDataMessage() keeps ("WAL-first durability ordering").
WriteAhead ==
  /\ doc \subseteq logged /\ Stored \subseteq logged /\ Acked \subseteq logged
  /\ \A d \in {snapshot, queue, save} : d # NoDoc => d \subseteq logged
  /\ load.base \subseteq logged
  /\ \A w \in Writers : writer[w].buf \subseteq logged

\* A room that is not dirty holds nothing that files.ydoc_state lacks, except
\* updates merged while the latest save was in flight: the only loss window
\* that the unconditional reset of _dirty in runSave() opens.
CleanRoomIsStored ==
  InMemory /\ ~dirty /\ ydocState # NoDoc => doc \subseteq ydocState \cup during

\* files.ydoc_state never loses an update: saves are serialised, each encodes
\* a document that was loaded from the column, and no room outlives another.
ColumnGrows == [][ydocState # NoDoc => ydocState \subseteq Stored']_ydocState

\* A row leaves the log only behind a watermark that was recorded with a
\* snapshot: while no saveSnapshot() has succeeded the log is complete, faults
\* and restarts between the upsert and the pruning included.
PrunedBehindASnapshot ==
  [][\A u \in log \ log' : /\ snapshot # NoDoc
                           /\ \E w \in Writers : id[u] <= writer[w].seq]_log

\* The durable document refines its abstract promise: a checkpoint that only
\* grows, and an open copy between the checkpoint and the log.
Promise == INSTANCE CheckpointedDoc WITH
  Closed <- NoDoc, saved <- Stored, visible <- IF InMemory THEN doc ELSE NoDoc
ImplementsPromise == Promise!Spec

\* A graceful shutdown ends: it waits for saves and for the queue, and nothing
\* refills either.
ShutdownEnds == phase # "up" ~> phase = "up"

---------------------------------------------------------------------------
\* updateLog.ts on recovery: "result: exact pre-crash state, zero loss".  A
\* room that was opened holds every update that was ever acknowledged.
ZeroLoss == room = "open" => Acked \subseteq doc

\* Room.runSave(): calls "are chained via saveMutex so each save runs after the
\* previous one completes".  A dirty room is saved again, sooner or later.
EachSaveRuns ==
  InMemory /\ dirty ~> ~dirty \/ ~InMemory \/ save # NoDoc
=============================================================================
