----------------------------- MODULE RoomSweeps -----------------------------
(***************************************************************************)
(* The eviction sweep over the rooms of one node: the LRU index, the marks *)
(* that each sweep sets in it, and the rooms that a join or a forwarded    *)
(* write opens and that the last disconnect closes.                        *)
(***************************************************************************)
EXTENDS Naturals, FiniteSets

CONSTANTS
  File,           \* the files that are opened on the node
  MaxConns,       \* bound on the connections of a room
  IdleTimeout     \* IDLE_EVICTION_TIMEOUT_MS, in sweep intervals

VARIABLES
  roomState,   \* Room._state, "none" without a room
  connCount,   \* Room.connectionCount
  closing,     \* the disconnects that are saving a room, to close it then
  indexed,     \* the files in the LRU index
  idleSince    \* how long ago idleSinceMs was stamped, NotIdle when it is 0

sweepVars == <<roomState, connCount, closing, indexed, idleSince>>

NotIdle == IdleTimeout + 1

SweepInit ==
  /\ roomState = [f \in File |-> "none"] /\ connCount = [f \in File |-> 0]
  /\ closing = [f \in File |-> 0] /\ indexed = {}
  /\ idleSince = [f \in File |-> NotIdle]

Touch(f) == indexed' = indexed \cup {f} /\ idleSince' = [idleSince EXCEPT ![f] = NotIdle]

---------------------------------------------------------------------------
\* The factory touches the index; a room that exists is only joined.
JoinRoom(f) ==
  /\ connCount[f] < MaxConns
  /\ connCount' = [connCount EXCEPT ![f] = @ + 1]
  /\ roomState' = [roomState EXCEPT ![f] = "active"]
  /\ IF roomState[f] = "none" THEN Touch(f) ELSE UNCHANGED <<indexed, idleSince>>
  /\ UNCHANGED closing

\* handleForwardedWriteRequest() opens a room that nobody is connected to.
OpenForForwardedWrite(f) ==
  /\ roomState[f] = "none"
  /\ roomState' = [roomState EXCEPT ![f] = "active"]
  /\ Touch(f)
  /\ UNCHANGED <<connCount, closing>>

EditRoom(f) ==
  /\ connCount[f] > 0 /\ Touch(f)
  /\ UNCHANGED <<roomState, connCount, closing>>

LeaveRoom(f) ==
  /\ connCount[f] > 0 /\ closing[f] < MaxConns
  /\ connCount' = [connCount EXCEPT ![f] = @ - 1]
  /\ IF connCount[f] = 1
     THEN /\ roomState' = [roomState EXCEPT ![f] = "idle"]
          /\ closing' = [closing EXCEPT ![f] = @ + 1]
     ELSE UNCHANGED <<roomState, closing>>
  /\ UNCHANGED <<indexed, idleSince>>

\* runSave() ends: the room goes, whoever has joined it meanwhile.  destroy()
\* throws unless it is idle, and leaves the index as it is.
DropRoom(f) ==
  /\ closing[f] > 0 /\ closing' = [closing EXCEPT ![f] = @ - 1]
  /\ roomState' = [roomState EXCEPT ![f] = "none"]
  /\ connCount' = [connCount EXCEPT ![f] = 0]
  /\ IF roomState[f] = "idle"
     THEN indexed' = indexed \ {f} /\ idleSince' = [idleSince EXCEPT ![f] = NotIdle]
     ELSE UNCHANGED <<indexed, idleSince>>

Marked ==
  [f \in File |-> IF f \notin indexed \/ roomState[f] = "none" THEN idleSince[f]
                  ELSE IF connCount[f] > 0 THEN NotIdle
                  ELSE IF roomState[f] = "idle" THEN 0 ELSE idleSince[f]]

\* computeEvictionPlan(): every candidate, whether or not rooms overflow.
ToEvict(idle) == {f \in indexed : idle[f] # NotIdle /\ idle[f] >= IdleTimeout}

\* runEvictionSweep(): the marks come first.
RunEvictionSweep ==
  LET evicted == {f \in ToEvict(Marked) : roomState[f] # "none" /\ connCount[f] = 0}
  IN  /\ roomState' = [f \in File |-> IF f \in evicted THEN "none" ELSE roomState[f]]
      /\ indexed' = indexed \ evicted
      /\ idleSince' = [f \in File |-> IF f \in evicted THEN NotIdle ELSE Marked[f]]
      /\ UNCHANGED <<connCount, closing>>

\* A sweep interval passes.
Tick ==
  /\ idleSince' = [f \in File |-> IF idleSince[f] < IdleTimeout
                                  THEN idleSince[f] + 1 ELSE idleSince[f]]
  /\ UNCHANGED <<roomState, connCount, closing, indexed>>

SweepNext ==
  \/ \E f \in File : JoinRoom(f) \/ OpenForForwardedWrite(f) \/ EditRoom(f)
                     \/ LeaveRoom(f) \/ DropRoom(f)
  \/ RunEvictionSweep \/ Tick

\* Timers fire and saves end.
SweepSpec ==
  /\ SweepInit /\ [][SweepNext]_sweepVars
  /\ WF_sweepVars(RunEvictionSweep) /\ WF_sweepVars(Tick)
  /\ \A f \in File : WF_sweepVars(DropRoom(f))

---------------------------------------------------------------------------
SweepTypeOK ==
  /\ roomState \in [File -> {"none", "active", "idle"}]
  /\ connCount \in [File -> 0..MaxConns]
  /\ closing \in [File -> 0..MaxConns] /\ indexed \subseteq File
  /\ idleSince \in [File -> 0..NotIdle]

\* "Idle rooms (zero connections) are candidates for eviction": a room that
\* nobody is connected to is evicted, or somebody joins it.
IdleEvicted ==
  \A f \in File :
    roomState[f] # "none" /\ connCount[f] = 0 ~> roomState[f] = "none" \/ connCount[f] > 0
=============================================================================
