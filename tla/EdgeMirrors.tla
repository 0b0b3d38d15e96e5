---------------------------- MODULE EdgeMirrors ----------------------------
(***************************************************************************)
(* EdgeMirrorManager for one file on a node that does not own it, with the *)
(* readers that handleAuthMessage() and handleDisconnect() bring and take  *)
(* away.  A room is named by the reader whose join built it.  Stream       *)
(* updates reach the room that the map names, and no other.                *)
(***************************************************************************)
EXTENDS Naturals, FiniteSets

CONSTANTS
  Reader,   \* the sockets that ask for this file
  NoMirror  \* no entry in `mirrors`

ASSUME NoMirrorAssumption == NoMirror \notin Reader

VARIABLES
  step,         \* how far handleAuthMessage() is for a reader
  departed,     \* conn.disconnected
  joined,       \* the room the reader was given
  mirror,       \* mirrors.get(fileId)
  readerCount,
  mirrorState,  \* Room._state of every room ever built
  conns,        \* Room.connections
  polled,       \* the stream consumer polls the room's stream
  raced         \* history: two readers were building a mirror at once

mirrorVars == <<step, departed, joined, mirror, readerCount, mirrorState, conns,
                polled, raced>>

Building == {r \in Reader : step[r] = "building"}

MirrorInit ==
  /\ step = [r \in Reader |-> "away"] /\ departed = {}
  /\ joined = [r \in Reader |-> NoMirror]
  /\ mirror = NoMirror /\ readerCount = 0
  /\ mirrorState = [m \in Reader |-> "unborn"]
  /\ conns = [m \in Reader |-> {}]
  /\ polled = FALSE /\ raced = FALSE

\* addReader() and registerRoomStream(), after getOrCreate() has resolved.
Enter(r, m, count) ==
  /\ joined' = [joined EXCEPT ![r] = m]
  /\ readerCount' = count + 1
  /\ step' = [step EXCEPT ![r] = "registering"]
  /\ polled' = TRUE

\* The entry exists: only a microtask lies between get() and addReader().
FindMirror(r) ==
  /\ step[r] = "away" /\ r \notin departed /\ mirror # NoMirror
  /\ Enter(r, mirror, readerCount)
  /\ UNCHANGED <<departed, mirror, mirrorState, conns, raced>>

BuildMirror(r) ==
  /\ step[r] = "away" /\ r \notin departed /\ mirror = NoMirror
  /\ step' = [step EXCEPT ![r] = "building"]
  /\ raced' = (raced \/ Building # {})
  /\ UNCHANGED <<departed, joined, mirror, readerCount, mirrorState, conns, polled>>

\* The factory resolves: the new entry takes the place of any other.  The socket
\* may be closed by now.
MirrorBuilt(r) ==
  /\ step[r] = "building"
  /\ mirror' = r
  /\ mirrorState' = [mirrorState EXCEPT ![r] = "active"]
  /\ Enter(r, r, 0)
  /\ UNCHANGED <<departed, conns, raced>>

BuildFails(r) ==
  /\ step[r] = "building"
  /\ step' = [step EXCEPT ![r] = "refused"]
  /\ UNCHANGED <<departed, joined, mirror, readerCount, mirrorState, conns, polled, raced>>

\* room.addConnection(): an idle room is active again.
AddConnection(r) ==
  /\ step[r] = "registering"
  /\ step' = [step EXCEPT ![r] = "in"]
  /\ conns' = [conns EXCEPT ![joined[r]] = @ \cup {r}]
  /\ mirrorState' = [mirrorState EXCEPT ![joined[r]] =
                       IF @ = "idle" THEN "active" ELSE @]
  /\ UNCHANGED <<departed, joined, mirror, readerCount, polled, raced>>

\* Fault: the count is not kept from going below zero.
DecrementedBelow == readerCount - 1

Decremented == IF readerCount = 0 THEN 0 ELSE readerCount - 1

\* handleDisconnect(): conn.servedByMirror is set only after addReader().  The
\* room it looks at is the one that the map names now.  markIdle() throws
\* unless the room is active.
Leave(r) ==
  /\ r \notin departed /\ departed' = departed \cup {r}
  /\ IF step[r] \notin {"registering", "in"} \/ mirror = NoMirror
     THEN UNCHANGED <<readerCount, mirrorState, conns>>
     ELSE /\ conns' = [conns EXCEPT ![mirror] = @ \ {r}]
          /\ readerCount' = Decremented
          /\ mirrorState' = [mirrorState EXCEPT ![mirror] =
               IF conns'[mirror] = {} /\ @ = "active" THEN "idle" ELSE @]
  /\ UNCHANGED <<step, joined, mirror, polled, raced>>

\* Fault: the sweep asks the room instead of the count.
NobodyConnected == conns[mirror] = {}

NoReaderCounted == readerCount = 0

\* evictIdleMirrors(): no reader counted, and none for idleTimeoutMs.
EvictIdleMirror ==
  /\ mirror # NoMirror /\ NoReaderCounted
  /\ mirrorState' = [mirrorState EXCEPT ![mirror] = "destroying"]
  /\ mirror' = NoMirror /\ polled' = FALSE
  /\ UNCHANGED <<step, departed, joined, readerCount, conns, raced>>

MirrorNext ==
  \/ \E r \in Reader : \/ FindMirror(r) \/ BuildMirror(r) \/ MirrorBuilt(r)
                       \/ BuildFails(r) \/ AddConnection(r) \/ Leave(r)
  \/ EvictIdleMirror

MirrorSpec == MirrorInit /\ [][MirrorNext]_mirrorVars

---------------------------------------------------------------------------
MirrorTypeOK ==
  /\ step \in [Reader -> {"away", "building", "registering", "in", "refused"}]
  /\ departed \subseteq Reader /\ joined \in [Reader -> Reader \cup {NoMirror}]
  /\ mirror \in Reader \cup {NoMirror} /\ readerCount \in Nat
  /\ mirrorState \in [Reader -> {"unborn", "active", "idle", "destroying"}]
  /\ conns \in [Reader -> SUBSET Reader]
  /\ polled \in BOOLEAN /\ raced \in BOOLEAN

Served(r) ==
  /\ joined[r] = mirror /\ polled
  /\ mirrorState[mirror] = "active"

\* As long as no two readers built a mirror at the same time, every reader with
\* an open socket is in the mirror that stream updates reach: joins, reader
\* counts, idle marks and the eviction sweep never cut it off.
MirrorServesReaders ==
  ~raced => \A r \in Reader : step[r] = "in" /\ r \notin departed => Served(r)
=============================================================================
