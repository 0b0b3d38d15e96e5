----------------------- MODULE DocPersistenceProofs -----------------------
(***************************************************************************)
(* Proofs about DocPersistence, for any set of updates, with and without   *)
(* database faults: type correctness, write-ahead logging, the only loss   *)
(* window of a clean room, the growth of the column, and the refinement of *)
(* CheckpointedDoc.                                                        *)
(***************************************************************************)
EXTENDS DocPersistence, TLAPS

\* A handler past the INSERT has its row committed, and every visible row is.
RowsAreLogged ==
  /\ log \subseteq logged
  /\ \A u \in Updates : frame[u] \in {"logged", "acked"} => u \in logged

\* Only a room in the store has handlers and saves, and a loadSnapshot() runs
\* only while there is no column and no room.
OneRoom ==
  /\ ~InMemory => save = NoDoc /\ attached = {}
  /\ load.active => room = "loading" /\ ydocState = NoDoc

\* The room is never behind the column, and a running save lies between them.
SaveBetween ==
  /\ InMemory => Stored \subseteq doc
  /\ save # NoDoc => /\ dirty
                     /\ Stored \subseteq save /\ save \subseteq doc
                     /\ doc \subseteq save \cup during

\* A loop that prunes has upserted its snapshot before.
PruneFollowsUpsert ==
  \A w \in Writers : writer[w].stage = "pruning" => snapshot # NoDoc

Safety ==
  /\ WriteAhead /\ RowsAreLogged /\ OneRoom /\ SaveBetween
  /\ CleanRoomIsStored /\ PruneFollowsUpsert

IInv == TypeOK /\ Safety

---------------------------------------------------------------------------
LEMMA InitInv == Init => IInv
  <1> SUFFICES ASSUME Init PROVE IInv
    OBVIOUS
  <1> USE DEF Init
  <1>1. TypeOK
    BY DEF TypeOK, Docs, Writers, Idle, NoLoad
  <1>2. WriteAhead
    BY DEF WriteAhead, Stored, Acked, Idle, NoLoad
  <1>3. /\ RowsAreLogged /\ OneRoom /\ SaveBetween /\ CleanRoomIsStored
        /\ PruneFollowsUpsert
    BY DEF RowsAreLogged, OneRoom, SaveBetween, CleanRoomIsStored, InMemory,
       Stored, NoLoad, PruneFollowsUpsert, Idle
  <1> QED BY <1>1, <1>2, <1>3 DEF IInv, Safety

LEMMA TypeInductive == TypeOK /\ [Next]_vars => TypeOK'
  <1> SUFFICES ASSUME TypeOK, [Next]_vars PROVE TypeOK'
    OBVIOUS
  <1> USE DEF TypeOK, Docs, store, roomVars
  <1>1. CASE OpenFromColumn
    BY <1>1 DEF OpenFromColumn, OpenWith
  <1>2. CASE ReadSnapshotRow
    <2>1. load' \in [active : BOOLEAN, base : Docs, seq : Nat]
      <3>1. CASE snapshot = NoDoc
        <4>1. load' = NoLoad
          BY <1>2, <3>1 DEF ReadSnapshotRow
        <4> QED BY <4>1 DEF NoLoad
      <3>2. CASE snapshot # NoDoc
        <4>1. load' = [active |-> TRUE, base |-> snapshot, seq |-> mark]
          BY <1>2, <3>2 DEF ReadSnapshotRow
        <4>2. snapshot \in Docs /\ mark \in Nat
          BY <3>2
        <4> QED BY <4>1, <4>2
      <3> QED BY <3>1, <3>2
    <2>2. room' \in {"absent", "loading", "open", "idle"}
      BY <1>2 DEF ReadSnapshotRow, OpenWith
    <2>3. /\ doc' \in Docs /\ dirty' \in BOOLEAN /\ save' \in {NoDoc} \cup Docs
          /\ poisoned' \in BOOLEAN /\ attached' \in Docs /\ during' \in Docs
      BY <1>2 DEF ReadSnapshotRow, OpenWith
    <2>4. UNCHANGED <<store, queue, writer, frame, phase, logged>>
      BY <1>2 DEF ReadSnapshotRow
    <2> QED BY <2>1, <2>2, <2>3, <2>4
  <1>3. CASE ReplayLog
    BY <1>3 DEF ReplayLog, OpenWith, RowsAfter, NoLoad
  <1>4. CASE LoadFault
    BY <1>4 DEF LoadFault, OpenWith, NoLoad
  <1>5. ASSUME NEW u \in Updates, Receive(u) PROVE TypeOK'
    BY <1>5 DEF Receive
  <1>6. ASSUME NEW u \in Updates, AllocateId(u) PROVE TypeOK'
    BY <1>6 DEF AllocateId
  <1>7. ASSUME NEW u \in Updates, CommitRow(u) PROVE TypeOK'
    BY <1>7 DEF CommitRow
  <1>8. ASSUME NEW u \in Updates, AppendFault(u) PROVE TypeOK'
    BY <1>8 DEF AppendFault
  <1>9. ASSUME NEW u \in Updates, Apply(u) PROVE TypeOK'
    <2>1. frame' \in [Updates -> {"unsent", "appending", "inserting", "logged",
                                  "acked", "ended"}]
      BY <1>9 DEF Apply
    <2>2. doc' \in Docs /\ dirty' \in BOOLEAN /\ during' \in Docs
      <3>1. CASE u \in attached
        <4>1. /\ doc' = doc \cup {u} /\ dirty' = TRUE
              /\ during' = during \/ during' = during \cup {u}
          BY <1>9, <3>1 DEF Apply
        <4> QED BY <4>1
      <3>2. CASE u \notin attached
        BY <1>9, <3>2 DEF Apply
      <3> QED BY <3>1, <3>2
    <2>3. UNCHANGED <<store, room, save, poisoned, queue, writer, load, attached,
                      phase, logged>>
      BY <1>9 DEF Apply
    <2> QED BY <2>1, <2>2, <2>3
  <1>10. CASE FlushTick
    BY <1>10 DEF FlushTick, StartSave
  <1>11. CASE SaveDone
    BY <1>11 DEF SaveDone, Forget
  <1>12. CASE SaveFault
    BY <1>12 DEF SaveFault, Forget
  <1>13. CASE LastDisconnect
    BY <1>13 DEF LastDisconnect, StartSave, Forget
  <1>14. CASE SnapshotTick
    BY <1>14 DEF SnapshotTick
  <1>15. ASSUME NEW w \in Writers, TakeEntry(w) PROVE TypeOK'
    BY <1>15 DEF TakeEntry
  <1>16. ASSUME NEW w \in Writers, WriteSnapshot(w) PROVE TypeOK'
    BY <1>16 DEF WriteSnapshot, Idle
  <1>17. ASSUME NEW w \in Writers, Prune(w) PROVE TypeOK'
    BY <1>17 DEF Prune, RowsAfter, Idle
  <1>18. ASSUME NEW w \in Writers, SnapshotFault(w) PROVE TypeOK'
    BY <1>18 DEF SnapshotFault, Idle
  <1>19. CASE ShutdownBegin
    BY <1>19 DEF ShutdownBegin
  <1>20. CASE ShutdownSave
    BY <1>20 DEF ShutdownSave, StartSave
  <1>21. CASE ShutdownEnqueue
    BY <1>21 DEF ShutdownEnqueue
  <1>22. CASE Restart
    <2>1. writer' \in [Writers -> [stage : {"idle", "writing", "pruning"},
                                   buf : Docs, seq : Nat]]
      BY <1>22 DEF Restart, Idle
    <2>2. frame' \in [Updates -> {"unsent", "appending", "inserting", "logged",
                                  "acked", "ended"}]
      BY <1>22 DEF Restart
    <2>3. load' \in [active : BOOLEAN, base : Docs, seq : Nat]
      BY <1>22 DEF Restart, NoLoad
    <2> QED BY <1>22, <2>1, <2>2, <2>3 DEF Restart, Forget
  <1>23. CASE UNCHANGED vars
    BY <1>23 DEF vars
  <1> QED
    BY <1>1, <1>2, <1>3, <1>4, <1>5, <1>6, <1>7, <1>8, <1>9, <1>10, <1>11,
       <1>12, <1>13, <1>14, <1>15, <1>16, <1>17, <1>18, <1>19, <1>20, <1>21,
       <1>22, <1>23
    DEF Next, Handler, Snapshotter, ShutdownExit, Crash

---------------------------------------------------------------------------
LEMMA SafetyInductive == IInv /\ [Next]_vars => Safety'
  <1> SUFFICES ASSUME IInv, [Next]_vars PROVE Safety'
    OBVIOUS
  <1> USE DEF store, roomVars, Safety, WriteAhead, RowsAreLogged, OneRoom,
        SaveBetween, CleanRoomIsStored, PruneFollowsUpsert, InMemory, Stored,
        Acked
  <1>0. TypeOK /\ Safety
    BY DEF IInv, Safety
  <1>f. /\ frame \in [Updates -> {"unsent", "appending", "inserting", "logged",
                                  "acked", "ended"}]
        /\ writer \in [Writers -> [stage : {"idle", "writing", "pruning"},
                                   buf : Docs, seq : Nat]]
        /\ attached \subseteq Updates
    BY <1>0 DEF TypeOK, Docs
  <1>1. CASE OpenFromColumn
    BY <1>1, <1>0, <1>f DEF OpenFromColumn, OpenWith
  <1>2. CASE ReadSnapshotRow
    BY <1>2, <1>0, <1>f DEF ReadSnapshotRow, OpenWith, NoLoad
  <1>3. CASE ReplayLog
    BY <1>3, <1>0, <1>f DEF ReplayLog, OpenWith, RowsAfter, NoLoad
  <1>4. CASE LoadFault
    BY <1>4, <1>0, <1>f DEF LoadFault, OpenWith, NoLoad
  <1>5. ASSUME NEW u \in Updates, Receive(u) PROVE Safety'
    BY <1>5, <1>0, <1>f DEF Receive
  <1>6. ASSUME NEW u \in Updates, AllocateId(u) PROVE Safety'
    BY <1>6, <1>0, <1>f DEF AllocateId
  <1>7. ASSUME NEW u \in Updates, CommitRow(u) PROVE Safety'
    BY <1>7, <1>0, <1>f DEF CommitRow
  <1>8. ASSUME NEW u \in Updates, AppendFault(u) PROVE Safety'
    BY <1>8, <1>0, <1>f DEF AppendFault
  <1>9. ASSUME NEW u \in Updates, Apply(u) PROVE Safety'
    BY <1>9, <1>0, <1>f DEF Apply
  <1>10. CASE FlushTick
    BY <1>10, <1>0, <1>f DEF FlushTick, StartSave, RunnableSave
  <1>11. CASE SaveDone
    BY <1>11, <1>0, <1>f DEF SaveDone, Forget
  <1>12. CASE SaveFault
    BY <1>12, <1>0, <1>f DEF SaveFault, Forget
  <1>13. CASE LastDisconnect
    BY <1>13, <1>0, <1>f DEF LastDisconnect, StartSave, RunnableSave, Forget
  <1>14. CASE SnapshotTick
    BY <1>14, <1>0, <1>f DEF SnapshotTick
  <1>15. ASSUME NEW w \in Writers, TakeEntry(w) PROVE Safety'
    BY <1>15, <1>0, <1>f DEF TakeEntry
  <1>16. ASSUME NEW w \in Writers, WriteSnapshot(w) PROVE Safety'
    <2>1. snapshot' = writer[w].buf /\ writer[w].buf \in SUBSET Updates
      BY <1>16, <1>f DEF WriteSnapshot, Docs
    <2>2. snapshot' # NoDoc
      BY <2>1, NoDocAssumption
    <2>3. PruneFollowsUpsert'
      BY <2>2
    <2>4. (WriteAhead /\ RowsAreLogged)'
      BY <1>16, <1>0, <1>f DEF WriteSnapshot, Idle
    <2>5. (OneRoom /\ SaveBetween /\ CleanRoomIsStored)'
      BY <1>16, <1>0 DEF WriteSnapshot
    <2> QED BY <2>3, <2>4, <2>5
  <1>17. ASSUME NEW w \in Writers, Prune(w) PROVE Safety'
    BY <1>17, <1>0, <1>f DEF Prune, RowsAfter, Idle
  <1>18. ASSUME NEW w \in Writers, SnapshotFault(w) PROVE Safety'
    BY <1>18, <1>0, <1>f DEF SnapshotFault, Idle
  <1>19. CASE ShutdownBegin
    BY <1>19, <1>0, <1>f DEF ShutdownBegin
  <1>20. CASE ShutdownSave
    BY <1>20, <1>0, <1>f DEF ShutdownSave, StartSave, RunnableSave
  <1>21. CASE ShutdownEnqueue
    BY <1>21, <1>0, <1>f DEF ShutdownEnqueue
  <1>22. CASE Restart
    BY <1>22, <1>0, <1>f DEF Restart, Forget, Idle, NoLoad
  <1>23. CASE UNCHANGED vars
    BY <1>23, <1>0, <1>f DEF vars
  <1> QED
    BY <1>1, <1>2, <1>3, <1>4, <1>5, <1>6, <1>7, <1>8, <1>9, <1>10, <1>11,
       <1>12, <1>13, <1>14, <1>15, <1>16, <1>17, <1>18, <1>19, <1>20, <1>21,
       <1>22, <1>23
    DEF Next, Handler, Snapshotter, ShutdownExit, Crash

---------------------------------------------------------------------------
LEMMA InvariantInductive == IInv /\ [Next]_vars => IInv'
  BY TypeInductive, SafetyInductive DEF IInv

THEOREM Invariant == Spec => []IInv
  BY InitInv, InvariantInductive, PTL DEF Spec

\* For every set of updates the variables keep their types, faults or not.
THEOREM TypeCorrect == Spec => []TypeOK
  <1>1. IInv => TypeOK
    BY DEF IInv
  <1> QED BY Invariant, <1>1, PTL

\* The order of handleDataMessage(): whatever a room, a table, the queue or an
\* acknowledged client holds was committed to document_updates first.
THEOREM LoggedFirst == Spec => []WriteAhead
  <1>1. IInv => WriteAhead
    BY DEF IInv, Safety
  <1> QED BY Invariant, <1>1, PTL

\* The unconditional reset of _dirty in runSave() loses track of nothing but
\* the updates that were merged while that save ran.
THEOREM LossWindow == Spec => []CleanRoomIsStored
  <1>1. IInv => CleanRoomIsStored
    BY DEF IInv, Safety
  <1> QED BY Invariant, <1>1, PTL

---------------------------------------------------------------------------
\* Only a returning save writes files.ydoc_state, and only pruning deletes rows.
LEMMA ColumnWriter == [Next]_vars => UNCHANGED ydocState \/ SaveDone
  BY DEF vars, Next, Handler, Snapshotter, store, roomVars, OpenFromColumn,
     ReadSnapshotRow, ReplayLog, LoadFault, Receive, AllocateId, CommitRow,
     AppendFault, Apply, FlushTick, SaveFault, LastDisconnect, SnapshotTick,
     TakeEntry, WriteSnapshot, Prune, SnapshotFault, ShutdownBegin,
     ShutdownSave, ShutdownEnqueue, ShutdownExit, Crash, Restart

LEMMA RowDeleter ==
  [Next]_vars => \/ log \subseteq log'
                 \/ \E w \in Writers : Prune(w)
  BY DEF vars, Next, Handler, Snapshotter, store, roomVars, OpenFromColumn,
     ReadSnapshotRow, ReplayLog, LoadFault, Receive, AllocateId, CommitRow,
     AppendFault, Apply, FlushTick, SaveDone, SaveFault, LastDisconnect,
     SnapshotTick, TakeEntry, WriteSnapshot, SnapshotFault, ShutdownBegin,
     ShutdownSave, ShutdownEnqueue, ShutdownExit, Crash, Restart

\* The column only grows: each save encodes a document that has absorbed the
\* column, and saveMutex lets no older save finish after a newer one.
THEOREM ColumnOnlyGrows == Spec => ColumnGrows
  <1> DEFINE Grows == ydocState # NoDoc => ydocState \subseteq Stored'
  <1>1. IInv /\ [Next]_vars => [Grows]_ydocState
    <2> SUFFICES ASSUME IInv, SaveDone PROVE Grows
      BY ColumnWriter
    <2>1. Stored \subseteq save /\ ydocState' = save /\ save # NoDoc
      BY DEF IInv, Safety, SaveBetween, SaveDone
    <2> QED BY <2>1 DEF Stored
  <1> QED BY Invariant, <1>1, PTL DEF Spec, ColumnGrows

\* No row is pruned before a snapshot with its watermark has been written.
THEOREM PrunedLate == Spec => PrunedBehindASnapshot
  <1> DEFINE Covered ==
        \A u \in log \ log' : /\ snapshot # NoDoc
                              /\ \E w \in Writers : id[u] <= writer[w].seq
  <1>1. IInv /\ [Next]_vars => [Covered]_log
    <2> SUFFICES ASSUME IInv, NEW w \in Writers, Prune(w) PROVE Covered
      BY RowDeleter
    <2>1. snapshot # NoDoc
      BY DEF IInv, Safety, PruneFollowsUpsert, Prune
    <2>2. \A u \in log \ log' : id[u] <= writer[w].seq
      <3> SUFFICES ASSUME NEW u \in log \ log' PROVE id[u] <= writer[w].seq
        OBVIOUS
      <3>1. u \in Updates /\ ~(id[u] > writer[w].seq)
        BY DEF Prune, RowsAfter, IInv, TypeOK, Docs
      <3>2. id[u] \in Nat /\ writer[w].seq \in Nat
        BY <3>1 DEF IInv, TypeOK
      <3> QED BY <3>1, <3>2
    <2> QED BY <2>1, <2>2
  <1> QED BY Invariant, <1>1, PTL DEF Spec, PrunedBehindASnapshot

---------------------------------------------------------------------------
Copy == IF InMemory THEN doc ELSE NoDoc

\* Each step of the server is a step of the abstract document or a stutter.
LEMMA StepRefines == IInv /\ [Next]_vars => [Promise!Next]_Promise!vars
  <1> SUFFICES ASSUME IInv, [Next]_vars PROVE [Promise!Next]_Promise!vars
    OBVIOUS
  <1> USE DEF Promise!Next, Promise!vars, InMemory, Stored, store, roomVars
  <1>0. /\ doc \subseteq Updates /\ logged \subseteq Updates
        /\ doc # NoDoc /\ (InMemory => Stored \subseteq doc)
        /\ doc \subseteq logged /\ Stored \subseteq logged
    BY NoDocAssumption DEF IInv, Safety, TypeOK, Docs, SaveBetween, WriteAhead
  <1>1. ASSUME OpenWith(doc'), room \notin {"open", "idle"},
               doc' \subseteq logged, Stored \subseteq doc',
               UNCHANGED <<logged, ydocState>>
        PROVE  Promise!Open
    <2>1. doc' # NoDoc
      BY <1>0, <1>1, NoDocAssumption
    <2> QED BY <1>1, <2>1 DEF Promise!Open, OpenWith
  <1>2. CASE OpenFromColumn
    BY <1>0, <1>1, <1>2 DEF OpenFromColumn, OpenWith
  <1>3. CASE ReadSnapshotRow
    <2>1. CASE snapshot = NoDoc
      BY <1>1, <1>3, <2>1 DEF ReadSnapshotRow, OpenWith
    <2>2. CASE snapshot # NoDoc
      BY <1>3, <2>2 DEF ReadSnapshotRow
    <2> QED BY <2>1, <2>2
  <1>4. CASE ReplayLog
    BY <1>1, <1>4 DEF ReplayLog, OpenWith, RowsAfter, IInv, Safety, OneRoom,
       WriteAhead, RowsAreLogged
  <1>5. CASE LoadFault
    BY <1>1, <1>5 DEF LoadFault, OpenWith, IInv, Safety, OneRoom, WriteAhead
  <1>6. ASSUME NEW u \in Updates, CommitRow(u) PROVE Promise!Log
    BY <1>6 DEF CommitRow, Promise!Log
  <1>7. ASSUME NEW u \in Updates, Apply(u) PROVE [Promise!Next]_Promise!vars
    <2>1. CASE u \in attached
      <3>1. InMemory /\ u \in logged
        BY <1>7, <2>1 DEF Apply, IInv, Safety, OneRoom, RowsAreLogged
      <3> QED BY <1>0, <1>7, <2>1, <3>1 DEF Apply, Promise!Merge
    <2>2. CASE u \notin attached
      BY <1>7, <2>2 DEF Apply
    <2> QED BY <2>1, <2>2
  <1>8. CASE SaveDone
    <2>1. InMemory /\ Stored \subseteq save /\ save \subseteq doc /\ save # NoDoc
      BY <1>8 DEF SaveDone, IInv, Safety, OneRoom, SaveBetween
    <2>2. Stored' = save /\ UNCHANGED logged
      BY <1>8, <2>1 DEF SaveDone
    <2>3. Copy' \in {Copy, NoDoc}
      BY <1>8, <2>1 DEF SaveDone, Forget, Copy
    <2>4. Promise!Checkpoint
      BY <1>0, <2>1, <2>2, <2>3 DEF Promise!Checkpoint, Copy
    <2> QED BY <2>4
  <1>9. ASSUME Forget, UNCHANGED <<ydocState, logged>> PROVE Promise!Close
    BY <1>9 DEF Forget, Promise!Close
  <1>10. CASE SaveFault
    BY <1>9, <1>10 DEF SaveFault
  <1>11. CASE LastDisconnect
    BY <1>9, <1>11 DEF LastDisconnect
  <1>12. CASE Restart
    BY <1>9, <1>12 DEF Restart
  <1>13. ASSUME UNCHANGED <<ydocState, logged, room, doc>> PROVE UNCHANGED Promise!vars
    BY <1>13
  <1>14. ASSUME NEW u \in Updates, Receive(u) \/ AllocateId(u) \/ AppendFault(u)
         PROVE  UNCHANGED <<ydocState, logged, room, doc>>
    BY <1>14 DEF Receive, AllocateId, AppendFault
  <1>15. ASSUME NEW w \in Writers, Snapshotter(w)
         PROVE  UNCHANGED <<ydocState, logged, room, doc>>
    BY <1>15 DEF Snapshotter, TakeEntry, WriteSnapshot, Prune, SnapshotFault
  <1>16. CASE FlushTick \/ SnapshotTick \/ ShutdownBegin \/ ShutdownSave
              \/ ShutdownEnqueue \/ UNCHANGED vars
    BY <1>13, <1>16 DEF FlushTick, SnapshotTick, ShutdownBegin, ShutdownSave,
       ShutdownEnqueue, vars
  <1> QED
    BY <1>2, <1>3, <1>4, <1>5, <1>6, <1>7, <1>8, <1>10, <1>11, <1>12, <1>13,
       <1>14, <1>15, <1>16
    DEF Next, Handler, ShutdownExit, Crash

\* The server keeps the promise of CheckpointedDoc for every set of updates,
\* through faults, shutdowns and crashes: the checkpoint never loses an update
\* and an open copy lies between the checkpoint and the log.
THEOREM Refinement == Spec => ImplementsPromise
  <1>1. Init => Promise!Init
    BY DEF Init, Promise!Init, InMemory, Stored
  <1> QED BY Invariant, <1>1, StepRefines, PTL
      DEF Spec, ImplementsPromise, Promise!Spec
=============================================================================
