# Formal model of the collaboration server

TLA+ specifications of the collaborative LaTeX editor in this repository: a
Node.js server that keeps one Yjs document ("room") per file, accepts binary
update frames over WebSocket, logs them in PostgreSQL, merges and broadcasts
them, and, when Redis is configured, spreads rooms over a cluster of nodes. All
paths below are relative to `packages/server/src/` unless they say otherwise.

## 1. The system

### Components, state and operations

| Component | State | Operations | Hard part |
|---|---|---|---|
| Durability (`persistence/*`, `Room.runSave`, `fileService.saveYdocState`) | `document_updates`, `document_snapshots`, `files.ydoc_state`, `_dirty`, `saveMutex`, snapshot queue | append, merge, save, snapshot, prune, load and replay, shutdown | every SQL statement is an `await`; three stores are written by five loops |
| Room lifecycle (`ws/RoomStore.ts`, `Room` state machine, `websocket.ts` auth, join and disconnect) | the store's map, creation locks, `Room._state`, connections | auth, get-or-create, add, last disconnect, destroy, shutdown | joins racing the save of the last disconnect |
| Fan-out with backpressure (`ws/backpressure.ts`, `Room.broadcastBinary`, `packages/client/src/hooks/useCollaboration.ts`) | socket buffer, `paused`, `skippedUpdates`, `needsCatchup`; the provider's document | broadcast, drain, catch-up diff; connect, authenticate, synchronise | a skipped update has to arrive later |
| Stream replication (`ws/redisStreams.ts`, `ws/streamIdempotency.ts`) | stream, pending list, high-water mark | publish, read, autoclaim, apply, ack | redelivery and reordering of what a mirror did not acknowledge |
| Room creation in a cluster (`ws/RedisRoomStore.ts`) | the lock in Redis, each node's rooms | acquire, load, release, delete, invalidate | a lock that expires while its holder still loads |
| Forwarded writes (`ws/RedisRoomStore.ts`) | pending requests, the two channels | forward, publish again, append, merge, answer, time out | a timeout racing a late answer; a PUBLISH that ioredis sends twice |
| Edge mirrors (`ws/EdgeMirrorManager.ts`) | mirror rooms, reader counts | find or build, enter, leave, evict | readers that come and go while a mirror is built |
| Room ownership (`ws/consistentHash.ts`) | registry, heartbeat keys, ring of each node | register, heartbeat, scan, publish, handle a change | acting on a registry that was read earlier |
| Reconciliation (`ws/redisReconciliation.ts`) | two nodes' documents | ask with a state vector, answer, merge | updates that arrive meanwhile |
| Cluster clock (`ws/clusterClock.ts`) | offset, last synchronisation | synchronise, now | answers out of order, a Redis that jumps back |
| Admission and sessions (`ws/reconnectAdmission.ts`, guards of `handleAuthMessage`) | token bucket, slots, breaker, session counts | admit, authenticate, count, release | a count taken before an await and released by another handler |
| Permissions (`services/workspacePermissionService.ts`, revocation in `websocket.ts`) | roles, `revokedConnections` | check, revoke at once, confirm, undo | optimistic revocation followed by an asynchronous check |
| Files and folders (`routes/{files,folders,permissions}.ts`, their services) | folders, files, roles, open rooms | create, trash, restore, purge, share, delete | a list read before the deletion it is for |
| Sign-in (`routes/auth.ts`, `packages/client/src/lib/auth/tokenManager.ts`) | `refresh_tokens`, the cookie, a token per tab | sign in, refresh, sign out | tabs that refresh with one cookie at once |
| Edit tracking (`services/editTrackingService.ts`, counters of `Room`) | pending counters, `edit_sessions` | count, flush, start, end | counters drained before they are stored |
| Versions (`services/versionService.ts`, `persistence/versionStore.ts`) | capture state, versions | capture, checkpoint, restore, prune | an await between a check and its write |
| Dashboard push (`ws/DashboardSubscriptionManager.ts`) | sessions, subscribers, timers | subscribe, notify, flush | re-armed timers |
| Benchmark engine (`benchmark/BenchmarkEngine.ts`, `routes/benchmark.ts`) | one status for all runs, rows | start, cancel, end, matrix | runs that overlap on one status |
| Eviction (`ws/roomEvictor.ts`) | LRU index, idle marks | mark, plan, evict | acting on a room that is in use |
| SDK (`packages/sdk/src/index.ts`) | socket, document, back-off | join, reconnect, synchronise, leave | frames sent before the session is live |
| Cluster simulation (`simulator/*`) | health of the hosts, failures, timers, chaos entries, recordings | start, stop, inject, resolve, chaos, record, replay, pause, step | timers of an earlier simulation; a replay that is paused and stepped |
| Presence store, rate limits, metrics, configuration, other HTTP routes, React views | | | not modelled (section 8) |

### How they interact

A socket is admitted and authenticates; `handleAuthMessage` checks the role, takes
a seat for the user and joins the socket to the room of its file
(`getOrCreateRoom` loads the document once, however many sockets race for it; in
a cluster the ring names the node that owns the file, and the other nodes keep
mirrors). The client and the server exchange Yjs sync steps. An update frame goes
through `handleDataMessage`: guards, append to the log, merge into the room
captured before the append, broadcast, stream publication, edit counters,
dashboards, ACK. On a mirror the frame is forwarded to the owner and comes back
through the stream. Timers flush the room to `files.ydoc_state`
(`EDIT_FLUSH_INTERVAL_MS`), queue snapshots and capture versions
(`SNAPSHOT_INTERVAL_MS`), sweep idle rooms and scan the registry. The last
disconnect queues a snapshot, saves and drops the room. Routes that change
permissions or delete folders call back into the sockets. `shutdown()` saves and
snapshots every room before the process exits.

JavaScript runs a handler without interruption between two awaits; every await
is a point where any other handler, timer or message may run. The models put
one action between two awaits.

### What makes each component correct

- **Durability.** Nothing is acknowledged or merged before its row is committed;
  the stored column only grows; rows are pruned only behind a snapshot; a room
  that counts as clean is stored; what was acknowledged is there after a restart.
- **Room lifecycle.** One room per file at a time; a joined connection is in
  exactly one room, the stored one; no room is torn down under its users; every
  join and every disconnect ends.
- **Fan-out.** A browser that is synchronised and not paused lacks nothing; no
  pause lasts for ever.
- **Stream replication.** Every entry reaches every mirror, at most once.
- **Several nodes.** One node loads a room at a time; a forwarded write is
  acknowledged only if it is logged and merged; every reader of a file sits in a
  mirror that updates reach; all nodes come to agree on the owner; after a partition
  the node that asks has what the others had; the cluster's time does not go back.
- **Access.** A limit is never exceeded, and what was counted is released once; a
  revoked socket does not write unless its rights are given back; nobody stays in
  the room of a deleted file; a browser's cookie stays good.
- **Usage.** No edit is counted twice and no version stored twice; a restore
  replaces the document; a dashboard shows the last state once edits pause; an
  engine that calls itself running is.
- **Cluster simulation.** A timer resolves the failure it was armed for; a replay does
  what was recorded, in order and once.
- **SDK.** Both sides agree on the document once they say that they are synchronised.

## 2. The plan

The order follows the data: what keeps a document (1), who holds it (2), how it
reaches browsers (3) and other nodes (4 to 9), and then what surrounds the rooms of
one node (10 to 19).

| # | Module | Implements, or composed in | Main properties | State |
|---|---|---|---|---|
| 1 | `DocPersistence` | implements `CheckpointedDoc`; `MCNode`, `MCLive` | write-ahead, loss window, pruning, refinement | checked, proved |
| 2 | `RoomLifecycle` | implements `SharedRoom`; `MCNode`, `MCLive` | joined once, no teardown in use, refinement, joins and leaves end | checked, proved |
| 3 | `RoomFanout` | browsers and server | what a browser lacks, catch-up repairs, pauses end | checked, proved |
| 4 | `StreamReplication` | owner, Redis, mirrors | losses are accounted for, entries arrive | checked, proved |
| 5 | `RoomCreation` | `MCServices` | one loader | checked, proved |
| 6 | `ForwardedWrites` | mirror and owner; implements `RemoteWrite`; `MCCluster` | an acknowledgement is true, refinement | checked, proved |
| 7 | `EdgeMirrors` | `MCServices` | every reader is in the mirror that is fed | checked, proved |
| 8 | `HashRing`, `ClusterMembership` | membership over the ring; `MCCluster`, `MCLive` | who is unlisted, rings agree, a ring is consistent | checked, proved |
| 9 | `ClusterClock`, `Reconciliation` | `MCCluster`, `MCServices` | time, the requester catches up | checked, proved |
| 10 | `SessionGate` | `MCServices` | seats are exact, slots are returned | checked, proved |
| 11 | `WriteAccess` | `MCServices` | a revocation holds | checked, proved |
| 12 | `WorkspaceFiles` | `MCServices` | rooms of a deleted folder are closed | checked, proved |
| 13 | `SessionTokens` | tabs, browser and server; `MCServices` | the cookie stays good | checked, proved |
| 14 | `EditCounters`, `VersionHistory` | `MCServices` | counted once, no twins, a restore replaces | checked, proved |
| 15 | `LiveDashboard` | `MCServices`, `MCLive` | nothing owed is forgotten, and it arrives | checked, proved |
| 16 | `BenchmarkRuns` | `MCServices` | the engine settles | checked, proved |
| 17 | `SdkRoom` | SDK and server; `MCServices` | synchronised means equal | checked, proved |
| 18 | `RoomSweeps` | | an idle room is evicted (refuted) | checked |
| 19 | `FailureDrills`, `DrillReplay` | the replay engine over the drills; `MCCluster` | drills stay on track | checked, proved |

Worth adding: a composition of `ForwardedWrites` with `StreamReplication`, so that a
forwarded write is followed back to its reader.

## 3. Modules

`MC...` modules are instances for TLC: constants, symmetry sets and scenes, no
behaviour of their own. `...Proofs` modules hold the theorems.

Components that share no state are checked in one run as *scenes*: the variable
`scene` picks in the first state which of them runs, and the variables of the others
keep their first value. A run with scenes explores what its parts would
explore one by one.

### CheckpointedDoc and DocPersistence

`CheckpointedDoc` is the abstract promise: a stored copy that only grows, an open
copy that starts from it.

A Y.Doc is the set of the updates merged into it; merging is union, which is
what a CRDT gives (idempotent, commutative). Ids, the watermark and visibility
of rows are kept: an id is allocated (`AllocateId`) before its row is visible
(`CommitRow`). `room` follows the room in the store; the handler of an update
frame is `Receive`, `AllocateId`, `CommitRow` or `AppendFault`, `Apply`, one
action per await. `attached` says whether the room a handler captured is still
the one in the store: a handler that resumes on a dropped room changes nothing
that anybody can see. `runSave()` is `FlushTick`, `LastDisconnect` or
`ShutdownSave` for its start and `SaveDone` or `SaveFault` for its end;
`poisoned` is the rejected `saveMutex`. The snapshot worker and
`drainSnapshotQueue()` are two writers with the same steps. `Crash` and
`ShutdownExit` lose all memory and keep the tables.

Left out: several files (the queue is one entry); a room that is joined again
while its last disconnect saves, which `RoomLifecycle` has; `sim-` files, which
are never stored; corrupt rows.

### SharedRoom and RoomLifecycle

`SharedRoom` is what the rooms of a file promise to those who are in them: one room
lets people in at a time, whoever is in stays there until it leaves for good, and a
room ends only when it is empty. It does not promise that the room which lets
people in is the one where the others are: `websocket.ts:1271` may drop the room
from the store while a connection that joined during the save is still in it, and
the run `rejoin` shows it.

The rooms of a file are named after the connection whose join loaded them
(`current` is the one in the store, `loader` the one being loaded). `stage`
follows `handleAuthMessage()` and `gone` follows `handleDisconnect()`, one value
for each await they can be suspended in: permission check, load, flush of the edit
counters, last save, end of the session. `Flushed` is the synchronous stretch after
the flush that looks whether the room is empty, `SaveEnds` the one after the save
that drops the store entry. `members`, `state` and `pending` are the fields of
`Room`. `hold` is the room a suspended handler captured. It is the store of a single
process; for a cluster see `RoomCreation`.

### RoomFanout

Browsers and the room hold documents as sets of updates; a state vector is the set
it covers. `link` and the queues are the WebSocket in both directions, `live` says
that the session exists on the server, `appending` the update handlers between
append and merge. `Broadcast` is `broadcastBinary()` with `isBackpressured()` and
`sendCatchupDiff()` in one step, as in the code; `late` are the sockets that have
been paused for `BACKPRESSURE_TIMEOUT_MS` and are terminated. Water
marks count frames instead of bytes. `overrun` is a history variable: the updates
whose frame found the socket of a browser at the high-water mark. The room stays
open.

### StreamReplication

An entry id is a position in the stream. Redis is modelled from the commands the
code sends: XADD with approximate trimming, XGROUP CREATE at `$`, XREADGROUP `>`,
XAUTOCLAIM by idle time, XACK. `pending` keeps the entries of a group in order of
their last delivery, so a sweep claims the ones that have been idle longest.
`replies` holds the answers on their way; `Drop` loses them with the connection.
`Evict` forgets the mark but not the group, and `stale` lets a poll round that
listed the room before run on. A restarted node has a new random id
(`ws/RedisRoomStore.ts:214`), hence no group and no mark: the checkpoints that
`streamIdempotency.ts` writes are read by no process, which is why they are not in
the model. `base` and `lost` are history variables.

### Several nodes

- `RoomCreation`: `creating` is how far `getOrCreate()` is on a node: it tries SET NX
  (`Acquire`; `AcquireUnheard` when the reply is lost), runs the factory
  (`RoomLoaded`, `LoadFails`), and releases the lock by a script that compares the
  node id (`Release`). `DeleteRoom` publishes an invalidation to every node,
  `Invalidate` destroys whatever room the node has. `LockExpires` is the TTL.
- `ForwardedWrites`: a request is published by ioredis, which sends a PUBLISH again
  when the connection breaks before the reply (`Resend`, up to `MaxSends` =
  `maxRetriesPerRequest` + 1 times, then it rejects); so a request is a set of copies.
  `reply` is the answer to its PUBLISH (`RedisPublishes`, `Published`): without a
  subscriber the write has failed. `handler` is the owner's
  `handleForwardedWriteRequest()` for each copy, split at its load, its append and its
  publication, `got` what its append returned. `requests` and `acks` are the channels,
  each loses messages. `ForwardTimeout` rejects the pending promise while the owner
  goes on; a late answer finds nothing. `RemoteWrite` is the abstract promise: each
  copy is logged at most once, the outcome of a write is decided once, and a success
  names a row of that write; a failure promises nothing, the row may be there or
  still come. `Underway` are the copies that may still get into the log, `Outcome`
  is what `forwardWriteToOwner()` returned.
  `ForwardsRemotely` in `MCCluster` is the refinement as TLC checks it, where writes
  are forwarded.
- `EdgeMirrors`: `step` follows a reader through building or finding the mirror and
  registering in the room; `readerCount` is counted at another moment than
  `conns`, as in the code. `EvictIdleMirror` is the sweep for one mirror.
- `HashRing`: `AddNode`, `RemoveNode` and `Rebuild` on a sorted sequence of virtual
  nodes, `GetOwner` with the code's binary search. `ClusterMembership` extends it:
  `nodeState` is how far `register()` and `deregister()` are, `scan` how far
  `scanForDeadNodes()` is (`ScanList`, `ScanProbe`, `ScanClean`, `ScanPublish`),
  `read` and `dead` what it remembers across its awaits.
- `ClusterClock`: `Send`, `RedisAnswers` and `Reply` of one round trip, for two
  callers at once; `Adopt` is what is done with the answer.
- `Reconciliation`: a document is a set of items `<<client, clock>>` and a delete
  set. An item behind a gap is Yjs's pending one: `StateVector` does not cover it,
  `DiffItems` includes it.

- `FailureDrills`: a simulation is named after its call of `start()`: `spawning` are
  the calls that await their editors, `GoOn` what they do then, with whatever
  `_scenario` and hosts there are by now. `failures` is numbered from 1 in every
  simulation, as in the code; `chaos` keeps the entries of every engine,
  whose `stage` says whether its recovery timer is armed. The timed failures are
  `delays`. Only the time the editors take to spawn is modelled of them.
  `DrillReplay` extends it with the replay engine: `armed` are the `setTimeout`s of
  `scheduleContinuousReplay()`, `Due` says which may fire next, `index` is shared by
  the timers and the steps by hand. `tie` marks an event recorded so soon after the
  one before that their two delays, computed from a clock that moves on, may swap.

### Access

- `SessionGate`: `authAt` is how far `handleAuthMessage()` is; `seats` is
  `userConnectionCounts` as the sets of sockets counted, `auths` is the
  number `authInProgress`. `HangUp` is `handleDisconnect()`, at any moment.
- `WriteAccess`: `hooks` are committed changes whose hook has not run,
  `checks` the asynchronous confirmations `disconnectUserFromFolder()` starts
  for each socket. `missed` and `doubled` are history variables.
- `WorkspaceFiles`: `ask` is the request of each person with the stage it has
  reached: `CheckRole` (the permission query), then the statement of the
  operation, for a folder's deletion three more (`ListFiles`, `RemoveFolder`,
  `CloseRooms`). `unseen` is a history variable.
- `SessionTokens`: `LockRow`, `Rotate` and `RollBack` are the transaction of the
  refresh handler with its row lock; `Granted` is the browser storing the cookie
  of whatever reply comes last; `ReplyLost` loses it.

### Usage

- `EditCounters`: `pendingEdits`, `flushing` and `carried` are where counts can be
  between the room and `edit_sessions`.
- `VersionHistory`: the document is a log of insertions with the set of those
  erased; `taskAt` is how far a capture, a checkpoint or a restore is.
- `LiveDashboard`: `timer` counts the ticks left of a debounce window.
- `BenchmarkRuns`: `runAt` is where a run is, `phase` and `shown` are the one
  status that all runs share.
- `SdkRoom`: `wire` is the SDK's socket, `peerAt` the server's end of it,
  and the frames between them are queues.
- `RoomSweeps`: `idleSince` counts sweep intervals since the room was stamped.

## 4. The runs

Two threads of TLC check every run in less than four minutes.

| Run | Instance | What it shows |
|---|---|---|
| `node` | 2 updates with faults of the database; 3 connections, 2 users | the safety of the durability path, that it implements `CheckpointedDoc`, that nobody is left on a destroyed room or on two, and that the rooms implement `SharedRoom` |
| `live` | 1 update; 2 connections, 2 users; 2 subscribers; 2 nodes | joins, disconnects and the shutdown end, a dashboard catches up, a dead node is unlisted |
| `fanout` | an editor and a viewer, 1 update, marks 1 and 0, 1 connection each | what a browser may lack, that catch-up repairs it, that pauses end |
| `streams` | 1 mirror, 2 updates, 2 entries, batches of 2, 2 replies on their way, 1 failure | every loss is one of the two kinds the code admits, everything else arrives |
| `cluster` | 3 nodes with 2 virtual nodes each, 11 keys, 1 fault; 2 forwarded writes, 2 sends of each, 2 faults; 2 callers of the clock, 3 skews; 1 host, 2 simulations, recordings of 2 events, 5 requests | who is unlisted, when rings agree, what a ring answers, that an acknowledged write is logged and merged, that forwarding implements `RemoteWrite`, that time does not go back, that drills stay on track |
| `services` | 12 scenes, see below | the properties of the components around the rooms |
| `zero_loss`, `save_chain`, `rejoin`, `lost_entry`, `trash_restore`, `idle_evicted` | the instances above, or small ones | a statement of the documentation or of a comment that the code does not keep (section 7) |

Why these bounds are enough. *node*: two updates make every pair of steps of
two handlers race, and an update can be in a snapshot, in the log only, or nowhere;
a third one adds no new relation between two stores. Three connections
are needed for a join that arrives while two others leave, and two users for
one of them to stay present. *fanout*: a mark of one frame makes a socket pause,
skip, and resume within two broadcasts, and awareness frames, which are not
bounded, supply the second one. *streams*: two entries give the case that a lost
reply is overtaken, with both delivered together or apart, and trimming at
`MaxLen` 1 removes one of them. *cluster*: three nodes let one scan while a second
joins and a third dies; `MaxBusy` 2 of them may be between awaits at once, and
`MaxInbox` 1 message may be on its way to each, `MaxScans` 1 scan among them; the
keys lie before, between and after all virtual nodes, and on one. Two forwarded writes
share the channels and the log; two copies of each race one another, and two
faults let a write be sent again and then be rejected, or be logged twice with one
answer lost. Two simulations
with two failures each are enough for a timer or an entry of the first to meet a
failure of the second under the same number, and one host for both to be about it;
five requests start a simulation, start a replay, pause it, step and resume. The
chaos engine and the replay engine meet only in the failures they make, so each
has a scene of its own: the one has no replay, the other no chaos and no timed failures.

The bounds of `services`: three nodes, one deletion and two faults for the
lock (one that holds it, one that waits, one whose lock expired); three readers of a mirror (one builds, one comes, one
leaves); two nodes that reconcile two items of one author with one loss in
two rounds; three sockets of two accounts with one seat each, two slots and a
breaker that opens at two failures; one socket, two folders and three changes of
permissions; two persons and one file; two tabs and three refresh tokens with
one mishap; two tabs with three edits; two tasks over two items that keep one
version; three subscribers with a window of two ticks; two runs and a matrix of one
cell with one failed statement; an SDK room with two edits of its own, one of a
peer, one retry and two sockets. A race in this code is between two handlers; each
instance has those two, and a third actor where a set can be emptied and filled
again.

A deadlock check is on wherever the system cannot stop. Rooms end when
everybody has left, browsers when they used up their connections, and the other
bounded scenes when nobody has a request left: those configurations turn it off,
and the liveness properties say what must not stop.

## 5. Fairness

Each assumption is one the runtime gives. PostgreSQL and Redis answer a command or
the driver rejects it, so an action that resumes a handler is weakly fair together
with its failure. Timers fire (`FlushTick`, the polls, the sweeps, `WindowTick` and
`TimerFires` of a dashboard, `ScanList` of a node that runs), and a socket the
server closes reports its close. A topology message that was delivered is handled,
and the heartbeat key of a process that is gone expires. Polls and claims of a
stream are strongly fair, because the bound on replies disables and enables them
again while the timer keeps firing. A browser reads its socket and renews its
awareness, as y-protocols does every 15 s. No fairness is assumed of
clients that connect, type or leave, nor of crashes, failures, evictions and
restarts.

In `live` the fairness of all scenes is assumed at once. That asks nothing of
the scenes that rest: none of the actions that must happen is enabled in the
first state of its component.

## 6. What is proved

The theorems hold for every set of updates, connections, nodes, sockets, users,
files and so on, and for every bound. Each proof has the same form: `Init =>
IInv`, `IInv /\ [Next]_vars => IInv'` action by action, and the property from
`IInv`; `IInv` holds the types, or rests on a theorem that does. What it adds, and why:

- `DocPersistenceProofs`, from `NoDocAssumption` (the mark of an empty column is
  no document) and `DbFaultsAssumption`: the types, `WriteAhead`,
  `CleanRoomIsStored`, `ColumnGrows`, `PrunedBehindASnapshot` and the refinement
  of `CheckpointedDoc`. They are not inductive: a save could finish
  with bytes from before the column's own content, or a load could start from a
  row that was never committed. `IInv` adds that visible rows and acknowledged
  updates were committed (`RowsAreLogged`), that only a room in the store has
  handlers and saves (`OneRoom`), that a save in flight lies between the column and
  the document (`SaveBetween`), and that whoever prunes has written
  (`PruneFollowsUpsert`).
- `RoomLifecycleProofs`, from `NoRoomAssumption`: the types, `InUseNotDestroyed`,
  `JoinedOnce`, the refinement of `SharedRoom`, and three more that no run repeats: one
  load at a time, an idle room is empty, and a room in the store is never replaced. The
  run leaves out `InUseNotDestroyed`, which `JoinedOnce` and the refinement imply of
  joined connections. `IInv` adds that members are joined connections of a room that was constructed (`MembersJoined`), that
  the creation lock stands for a room that was not, the store for one that was
  (`StoreConsistent`), and that a suspended handler holds a constructed room
  (`HoldsRoom`). In the refinement (`RoomsAreShared`) the place of a connection is the
  one room that `JoinedOnce` gives it; a finished load is the promise's `Open`, a join
  its `Enter`, and every other step that is seen at all a `Leave` (`Parts`,
  `PartsAreLeave`): somebody goes, the door closes, or a room that `InUseNotDestroyed`
  knows to be empty ends. `NodeTypes` are the types of the two components of `MCNode`
  together: a step is one of either and leaves the state of the other alone.
- `RoomFanoutProofs`, from `FanoutAssumption` (editors are clients, the low mark
  is below the high one): the types, `KnownIsHeld`, `OnlyOverrunsMissing`,
  `CatchUpRepairs`. `IInv` adds that a browser sends only what its document
  holds (`SendsOwn`), that a paused socket too lacks only overrun updates until a
  frame is skipped and counted (`MissingAccounted`), and that a browser that is not
  connected has no state vector (`FreshWhenDown`). The lemmas about
  `Coming` and `Broadcast` say what one more frame and one broadcast change.
- `StreamReplicationProofs`, from `StreamAssumption` (a batch has at least one
  entry, the bounds are numbers, no cursor is `NoGroup`): the types and
  `LossAccounted`, for any number of mirrors and failures and any length of the
  stream. `LossAccounted` alone does not survive `Process`, which moves the mark,
  or `Ack`. `IInv` adds that nothing is ahead of the cursor (`Delivered`), that
  what the mirror lacks and the mark has not passed is pending (`StaysPending`)
  because an acknowledgement on its way covers only what the mark has passed
  (`AckedIsPast`), and that an entry which was never lost is in a reply on its way,
  with only smaller entries before it (`InOrder`): the mark cannot overtake it. The
  lemmas about `All` say which entries a sequence of replies holds;
  `LargestExists` is why the mark is defined.
- `ClusterProofs`, from `NoNodeAssumption`, `HashAssumption`, `BoundsAssumption`,
  `MaxSendsAssumption`, `ClockAssumption`, `DrillAssumption` and `ReplayAssumption`: the
  types of all five modules and of `MCCluster`, `OnlyLapsedUnlisted`, `RingsAgree`,
  `RingConsistent`, `AckedIsDurable`, `ForwardsRemotely`, `ClockNeverBack` and
  `DrillsOnTrack`. A scan
  acts on what it read two awaits ago, so the invariant says what that can still
  mean: a node that never lapsed has its key and its entry (`BeatsListed`), whatever
  was read has started (`ReadStarted`), and whom a scan holds for dead has lapsed or
  left (`DeadLapsed`), because nobody is held for dead before the probe
  (`ProbedFirst`). `RingsAgree` needs an invariant of its own, `RingIInv`, most of
  which holds only while no two changes of the membership ran into one another
  (`overlap`), as the property itself: one node at a time is changing the list
  (`OneChange`), what it read is the list (`ReadCurrent`), and a node whose ring
  is not that of the list has in its queue, or is about to be sent, the message
  that makes it so (`AllInformed`, with `NewsDue`). `RingConsistent` is about the
  operators of `HashRing`. A sorted ring is determined by the set of its virtual nodes,
  because each has its rank (`SortedSorts`, `RankOnto`); hence adding and removing
  a node cancel out (`AddedRemoved`) and the rebuilt ring is the sort of all virtual
  nodes, in whatever order they come (`RebuildSorted`); the binary search
  returns the first index at or after the key (`LowerBoundFinds`), so the owner is
  the nearest node clockwise (`OwnerIsNearest`), which a node that joins or leaves
  changes only for what it takes or had (`OwnerStays`). Where one would use
  induction, over the width of the search interval or the number of nodes, the proof
  takes a smallest counterexample (`LeastNumber`). `HashAssumption` says that nodes
  and virtual nodes are finitely many and that no two hash alike. `AckedIsDurable`
  follows the fact that a row is logged and merged from the handler (`HandlerDid`) through the answer on its way
  (`AnswersTrue`) to the client (`ClientsTold`). The refinement of `RemoteWrite`
  (`ForwardingIsRemote`) needs a copy to be in one place only, not yet sent, in the
  channel or in a handler (`OneCopy`): then the append takes it out of
  `Underway`, a loss too (`LosesCopies`), and nothing puts it back. The clock needs
  only its types; the rest is a step argument.
  For the drills, failures are only appended and closed, never moved (`FailuresKept`),
  and an engine begins with no entries (`EngineFresh`); of a replay without ties,
  `OnTape` holds: what is armed is what is left, so the first timer is the only one due
  (`FirstIsDue`). It covers the chaos engine together with the replays, and
  any number of hosts, which the run does not.
- `NodesProofs`, from `NobodyAssumption`, `NoMirrorAssumption` and
  `ReconcileAssumption`: the types of three modules, `LoadsExclusive` by the fact that whoever is past SET NX has the lock unless
  it expired (`HolderHasLock`); and `MirrorServesReaders`.
  The mirror is evicted when its counter is zero, while readers are in
  the room's own set, so the invariant counts: the readers inside are no more than
  `readerCount` (`Counted`), one builds at a time and only without a mirror
  (`OneBuilder`), and those inside are in the mapped one (`InTheMirror`), which is
  not destroyed (`MirrorKept`). `RequesterCatchesUp` is a property of a step, hence
  follows from what holds of the answer it merges: as long as the room that
  asked is there, it has what its state vector covers (`AskerHas`, by
  `VectorCovered`), so the diff completes what the answering node had
  (`DiffCompletes`).
- `AccessProofs`, from `GateAssumption` and `TicketAssumption`: the types,
  `SeatsExact` and that no slot leaks (the slots are a finite set whose size is the
  counter, `SlotsHeld`); `RevocationHolds`, by the set of folders whose files the user
  may write or is about to be stopped from (`Writable`): whatever role was read, is
  being reread or is remembered allows only those (`ReadIsGood`, `RereadIsGood`,
  `RoleIsGood`); `RoomsOfFolderClosed`, because only the one owner gets as far as
  listing files (`OneOwner`, `ActingOwns`, `OneDrops`), and what was listed with what
  could not be seen is all there is (`ListIsFull`); and `JarIsUsable`, by `TokenCore`:
  a chain has one live token (`OneLive`), a held row lock is on a live one
  (`RowsLocked`), an heir in a reply or lost with it is live and no browser has ever
  sent it (`HeirsLive`, `OrphansLive`), and nobody's cookie is a token that is yet to be
  made (`CookiesUsed`).
- `UsageProofs`, from `WindowAssumption`, `BenchAssumption`, `SdkAssumption`,
  `TaskAssumption` and `TabAssumption`, and the types of `MCServices` from those of its
  twelve components:
  - `DashboardExact`, with the fact that whoever looks a folder up was opened
    and whoever subscribed is still here (`ClientsHere`);
  - `EngineSettles`, with the fact that a running engine has a run at work that was
    not cancelled (`WorkUnderWay`) and that the row of a run that ends is written
    first (`RowsEnd`);
  - `SyncedIsConsistent`: both ends of the socket move through their stages together
    (`SocketStages`), a frame carries only what its sender has, and each SyncStep1
    comes before the frames that build on it (`FramesOnTheWay`). From the answer to
    its SyncStep1 on, what the SDK lacks of the server's document is in
    frames on their way (`Down`), and the other way round (`Up`). With both
    queues empty the documents are equal, except for the edits of the SDK that
    the server dropped (`late`);
  - `NoTwinVersions`: whoever is about to insert found no version with its hash and
    is alone with it, unless two captures overlapped (`TwinsApart`);
  - `RestoreReplaces`: the log entries a restore deletes are all those that were there
    when it began (`LoadedAll`);
  - `CountedOnce`: what is stored, pending, being flushed and carried is no more than
    what was made (`NoneTwice`), because a row is started by one tab only while none
    is open (`OneStarter`), unless two starts overlapped. Totals of sequences
    are sizes of sets of units, so the lemmas are about sets (`UnitsSplit`,
    `TotalChange`).

Only model-checked: the liveness properties `HandlersSettle`, `ShutdownEnds`,
`DashboardCatchesUp`, `DeadUnlisted`, `PauseEnds` and `EntryArrives`, because the
prover has no fairness and no ENABLED. Every safety invariant, every action
property and every refinement of the passing runs is a theorem.

## 7. Where the code and its documentation disagree

With a run that shows it:

- `zero_loss`: the log is replayed only if `files.ydoc_state` is NULL and a
  snapshot row exists, so after a crash an acknowledged update can be in the log
  and not in the room (`websocket.ts:718-721`, `persistence/snapshotStore.ts`).
- `save_chain`: after one failed save the chain in `saveMutex` stays rejected and no
  later save of that room runs (`ws/Room.ts:563`).
- `rejoin`: a connection that joins while the last disconnect saves ends up in a
  room outside the store (`websocket.ts:1271`).
- `lost_entry`: an entry whose reply was lost is taken for a duplicate when it is
  claimed after a later one (`ws/streamIdempotency.ts:173`).
- `trash_restore`: the permission check of the restore route does not see files
  in the trash, so every such request is answered 404
  (`services/workspacePermissionService.ts:57`).
- `idle_evicted`: every eviction sweep stamps idle rooms anew, and a room that a
  forwarded write opened is not stamped at all: no idle room is ever evicted
  (`websocket.ts:2154`).

Seen while modelling, without a run of their own. The models have these
behaviours; a property that they would break excuses them by a history variable, and
its comment says which.

- The frame that pauses a socket is skipped and not counted, so it is never repaired
  when nothing else was skipped (`ws/backpressure.ts:104`); a drained socket stays
  paused until the next broadcast (`ws/Room.ts:602`).
- Frames that arrive before `getFolderIdForFile()` answers are dropped on a healthy
  connection (`websocket.ts:800`); the SDK's SyncStep1, sent right after its auth
  frame, can be taken for a failed authentication (`websocket.ts:456-505`).
- The recorded watermark may cover rows that the snapshot lacks
  (`persistence/snapshotStore.ts:155`); `_dirty` is reset after the save and
  forgets edits merged during it (`ws/Room.ts:569`).
- A socket that closes while it authenticates stays in the room and keeps its seat
  (`websocket.ts:596`), and its session may outlive it (`websocket.ts:637`).
- An update frame that passed the guards before a revocation is still logged and
  merged after it; the revocation hook reaches only the node that served
  the request; with three overlapping hooks a role can be restored although the
  last confirmation failed (`websocket.ts:2023`).
- An invalidation destroys whatever room the node has by then
  (`ws/RedisRoomStore.ts:834`); the comment at 202-204 says other nodes run their own
  factory as a fallback, the code at 748 throws.
- A forwarded write whose PUBLISH gets no reply is sent again by ioredis and logged once
  per copy, because the owner keeps no request ids (`ws/RedisRoomStore.ts:495`,
  `websocket.ts:754`); merging is idempotent, so the document does not show it.
- Two readers that build a mirror at once leave one of them on a room that nothing
  reaches, although mirrors are "kept hot" (`ws/EdgeMirrorManager.ts:26-27`). Entries
  published between the load of a mirror and the creation of its group reach it
  through nothing (`websocket.ts:574-589`).
- Membership changes that overlap can leave two rings different for good, and a
  node whose heartbeat lapsed once does not come back (`ws/consistentHash.ts:494-541`).
  The first clock synchronisation may take time back.
- The revocation of a token family on reuse is rolled back with its transaction
  (`routes/auth.ts:225-231`); of two tabs opened at once one refresh is refused.
- Two joins of a user can insert two edit sessions, and each flush then counts
  twice (`services/editTrackingService.ts:58`); overlapping captures store one
  version twice (`services/versionService.ts:114`).
- Steady edits postpone a dashboard for as long as they go on.
- Two overlapping `start()` calls of the benchmark engine both run, and a cancelled
  run that is asleep cleans up the editors of the next one; placeholder rows of a
  matrix stay 'queued'.
- A room stays open after its file is trashed or purged, and after a folder's
  deletion whose activity log fails (`services/folderService.ts:110-113`).
- In the SDK a database failure during authentication also sends auth_error, after
  which it never reconnects; two overlapping `joinRoom()` calls build two rooms.
- The chaos engine's failures are never recorded, although `simulator/ReplayEngine.ts:6`
  names "every injected failure and scenario event from ChaosEngine", and a recovery that is replayed closes all open failures of
  its host. Resolving one failure makes a host healthy while others are open on it
  (`simulator/FailureInjector.ts:135`). `stop()` during `start()` does not end
  the latter, which reports 'running' afterwards; two `start()` calls that overlap in
  this way leave the chaos engine of the first one without an owner, and its timers
  resolve failures of later simulations (`simulator/ClusterSimulator.ts:121`).
  Stopping the chaos engine leaves its entries open for good, and they count toward
  `maxConcurrentFailures`.
- `applyCompactedState()` drops the awareness that its comment says it transfers
  (`ws/Room.ts:514-550`). `replayPending()` is never called.

## 8. Not modelled

PROJECT.json lists every part. The presence store's remote half waits for messages
that nothing in the repository publishes. Rate and burst limits
(`ws/ConnectionGuards.ts`, `byzantineGuard`) are counters over wall-clock windows
that refuse a frame and keep nothing. The owner key and its heartbeat are written
and never read. Compaction runs in one synchronous step and keeps the
document's content. Account deletion, listings, search and comparison of versions are
single statements, or change nothing. Metrics, logging, configuration, the landing
page and the React views keep no state the server depends on; the tests, the stress scripts and the
simulated editors load the system and are not part of it. Of the simulator the swarm,
which starts and stops editors, the samples and the snapshots are left out. Signatures, hashes and encodings are abstracted to whether they match.
