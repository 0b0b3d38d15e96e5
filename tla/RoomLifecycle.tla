--------------------------- MODULE RoomLifecycle ---------------------------
(***************************************************************************)
(* The room of one file on one server process: the store with its creation *)
(* lock, the state machine of Room, and the connections that join and      *)
(* leave.  handleAuthMessage() and handleDisconnect() are split at their   *)
(* awaits; between two awaits any other handler may run.                   *)
(*                                                                         *)
(* A room object is named by the connection whose join created it, so the  *)
(* model needs no bound on the number of rooms.                            *)
(***************************************************************************)
CONSTANTS
  Conns,   \* the sockets that are ever opened for this file
  Users,   \* their users; several tabs may belong to one
  NoRoom   \* no room: an absent entry of the store or of creationLocks

ASSUME NoRoomAssumption == NoRoom \notin Conns

VARIABLES
  user,      \* conn.userId
  stage,     \* how far handleAuthMessage() is for a connection
  gone,      \* how far handleDisconnect() is
  closing,   \* the sockets on which the server called ws.close()
  current,   \* roomStore.get(fileId)
  loader,    \* the room that the creation lock stands for
  state,     \* Room._state; "unborn" before the constructor
  members,   \* Room.connections
  unsaved,     \* the rooms whose _dirty is set
  pending,   \* Room.pendingEdits: the users with unflushed edits
  started,   \* conn.sessionStarted
  hold,      \* the room that a suspended handleDisconnect() captured
  lookup,    \* connections whose getFolderIdForFile() is running
  session,   \* sessionTracker
  deleted,   \* the folder of the file was deleted
  stopping   \* shuttingDown

conns == <<user, stage, closing, started, lookup>>
rooms == <<current, loader, state, members>>
roomsVars == <<user, stage, gone, closing, current, loader, state, members, unsaved,
          pending, started, hold, lookup, session, deleted, stopping>>

RoomsInit ==
  /\ user \in [Conns -> Users]
  /\ stage = [c \in Conns |-> "new"] /\ gone = [c \in Conns |-> "no"]
  /\ closing = {} /\ current = NoRoom /\ loader = NoRoom
  /\ state = [r \in Conns |-> "unborn"] /\ members = [r \in Conns |-> {}]
  /\ unsaved = {} /\ pending = [r \in Conns |-> {}] /\ started = {}
  /\ hold = [c \in Conns |-> NoRoom] /\ lookup = {} /\ session = {}
  /\ deleted = FALSE /\ stopping = FALSE

---------------------------------------------------------------------------
(* handleAuthMessage() *)

Authenticate(c) ==
  /\ stage[c] = "new" /\ gone[c] = "no" /\ c \notin closing
  /\ stage' = [stage EXCEPT ![c] = "verifying"]
  /\ UNCHANGED <<user, closing, started, lookup, gone, rooms, unsaved, pending,
                 hold, session, deleted, stopping>>

\* No valid token, no role, too many sessions, or an error: conn.userId is not
\* set.  The file of a deleted folder has no role.
Refuse(c) ==
  /\ stage[c] = "verifying"
  /\ stage' = [stage EXCEPT ![c] = "refused"]
  /\ closing' = closing \cup {c}
  /\ UNCHANGED <<user, started, lookup, gone, rooms, unsaved, pending, hold,
                 session, deleted, stopping>>

\* Room.addConnection() and the rest of handleAuthMessage() for those who wait.
Enter(cs, r) ==
  /\ stage' = [c \in Conns |-> IF c \in cs THEN "joined" ELSE stage[c]]
  /\ members' = [members EXCEPT ![r] = @ \cup cs]
  /\ state' = [state EXCEPT ![r] = "active"]
  /\ lookup' = lookup \cup cs

\* Fault: addConnection() takes a connection into a room that is being destroyed.
JoinUnchecked(c) ==
  /\ stage[c] = "verifying" /\ ~deleted
  /\ IF current # NoRoom
       THEN Enter({c}, current) /\ UNCHANGED loader
       ELSE /\ stage' = [stage EXCEPT ![c] = "joining"]
            /\ loader' = IF loader = NoRoom THEN c ELSE loader
            /\ UNCHANGED <<members, state, lookup>>
  /\ UNCHANGED <<user, closing, started, gone, current, unsaved, pending, hold,
                 session, deleted, stopping>>

\* The role is known.  The verification is not stopped by a socket that closed
\* meanwhile: conn.disconnected is not looked at.
Join(c) ==
  /\ stage[c] = "verifying" /\ ~deleted
  /\ \/ /\ current # NoRoom /\ state[current] # "destroying"
        /\ Enter({c}, current)
        /\ UNCHANGED <<closing, loader>>
     \/ /\ current # NoRoom /\ state[current] = "destroying"
        /\ stage' = [stage EXCEPT ![c] = "failed"]
        /\ closing' = closing \cup {c}
        /\ UNCHANGED <<members, state, lookup, loader>>
     \/ /\ current = NoRoom
        /\ stage' = [stage EXCEPT ![c] = "joining"]
        /\ loader' = IF loader = NoRoom THEN c ELSE loader
        /\ UNCHANGED <<members, state, lookup, closing>>
  /\ UNCHANGED <<user, started, gone, current, unsaved, pending, hold, session,
                 deleted, stopping>>

Waiting == {c \in Conns : stage[c] = "joining"}

\* Fault: only the first caller enters the room that it created.
LoadedForOne ==
  /\ loader # NoRoom
  /\ current' = loader /\ loader' = NoRoom
  /\ stage' = [c \in Conns |-> IF c \in Waiting THEN "joined" ELSE stage[c]]
  /\ members' = [members EXCEPT ![loader] = @ \cup {loader}]
  /\ state' = [state EXCEPT ![loader] = "active"]
  /\ lookup' = lookup \cup Waiting
  /\ UNCHANGED <<user, closing, started, gone, unsaved, pending, hold, session,
                 deleted, stopping>>

\* Fault: the rejection reaches the first caller alone.
LoadFailsForOne ==
  /\ loader # NoRoom
  /\ loader' = NoRoom
  /\ stage' = [stage EXCEPT ![loader] = "failed"]
  /\ closing' = closing \cup {loader}
  /\ UNCHANGED <<user, started, lookup, gone, current, state, members, unsaved,
                 pending, hold, session, deleted, stopping>>

\* The factory resolves: the room is stored, the lock released and every
\* caller that shares the promise enters before other events are handled.
Loaded ==
  /\ loader # NoRoom
  /\ current' = loader /\ loader' = NoRoom
  /\ Enter(Waiting, loader)
  /\ UNCHANGED <<user, closing, started, gone, unsaved, pending, hold, session,
                 deleted, stopping>>

LoadFails ==
  /\ loader # NoRoom
  /\ loader' = NoRoom
  /\ stage' = [c \in Conns |-> IF c \in Waiting THEN "failed" ELSE stage[c]]
  /\ closing' = closing \cup Waiting
  /\ UNCHANGED <<user, started, lookup, gone, current, state, members, unsaved,
                 pending, hold, session, deleted, stopping>>

\* getFolderIdForFile() answers, with the workspace or without one.
Tracked(c) ==
  /\ c \in lookup
  /\ lookup' = lookup \ {c}
  /\ session' \in {session, session \cup {c}}
  /\ UNCHANGED <<user, stage, closing, started, gone, rooms, unsaved, pending,
                 hold, deleted, stopping>>

---------------------------------------------------------------------------
(* An update frame goes to the room in the store, whatever room was joined. *)

Edit(c) ==
  /\ stage[c] = "joined" /\ gone[c] = "no" /\ c \in session
  /\ current # NoRoom /\ ~stopping
  /\ unsaved' = unsaved \cup {current}
  /\ pending' = [pending EXCEPT ![current] = @ \cup {user[c]}]
  /\ started' = started \cup {c}
  /\ UNCHANGED <<user, stage, closing, lookup, gone, rooms, hold, session,
                 deleted, stopping>>

\* flushPendingEdits(): counters are drained, the save may fail.
FlushRooms ==
  /\ current # NoRoom /\ ~stopping
  /\ pending[current] # {} \/ current \in unsaved
  /\ pending' = [pending EXCEPT ![current] = {}]
  /\ unsaved' \in {unsaved, unsaved \ {current}}
  /\ UNCHANGED <<conns, gone, rooms, hold, session, deleted, stopping>>

---------------------------------------------------------------------------
(* handleDisconnect() *)

Finish(c) ==
  /\ gone' = [gone EXCEPT ![c] = "done"]
  /\ session' = session \ {c}

\* The edit session is ended for the user's last connection.
EndSession(c, last) ==
  IF last /\ c \in started
    THEN gone' = [gone EXCEPT ![c] = "ending"] /\ UNCHANGED session
    ELSE Finish(c)

\* From the check of connectionCount to the next await: stay, throw in
\* markIdle(), wait for the save, or drop the room at once.
CloseIfEmpty(c, r, rest, last) ==
  \/ /\ rest # {} \/ stopping
     /\ EndSession(c, last)
     /\ UNCHANGED <<current, state, hold>>
  \/ /\ rest = {} /\ ~stopping /\ state[r] # "active"
     /\ gone' = [gone EXCEPT ![c] = "threw"]
     /\ UNCHANGED <<current, state, hold, session>>
  \/ /\ rest = {} /\ ~stopping /\ state[r] = "active" /\ r \in unsaved
     /\ state' = [state EXCEPT ![r] = "idle"]
     /\ gone' = [gone EXCEPT ![c] = "saving"]
     /\ hold' = [hold EXCEPT ![c] = r]
     /\ UNCHANGED <<current, session>>
  \/ /\ rest = {} /\ ~stopping /\ state[r] = "active" /\ r \notin unsaved
     /\ state' = [state EXCEPT ![r] = "destroying"]
     /\ current' = NoRoom
     /\ EndSession(c, last)
     /\ UNCHANGED hold

Identified(c) == stage[c] \in {"joining", "joined", "failed"}

\* The 'close' event, whoever closed the socket.
Disconnect(c) ==
  /\ gone[c] = "no"
  /\ \/ /\ ~Identified(c)
        /\ gone' = [gone EXCEPT ![c] = "done"]
        /\ UNCHANGED <<current, state, members, pending, hold, session>>
     \/ /\ Identified(c) /\ current = NoRoom
        /\ Finish(c)
        /\ UNCHANGED <<current, state, members, pending, hold>>
     \/ /\ Identified(c) /\ current # NoRoom
        /\ LET rest == members[current] \ {c}
               last == \A d \in rest : user[d] # user[c]
           IN /\ members' = [members EXCEPT ![current] = rest]
              /\ IF last /\ user[c] \in pending[current]
                   THEN /\ gone' = [gone EXCEPT ![c] = "flushing"]
                        /\ hold' = [hold EXCEPT ![c] = current]
                        /\ pending' = [pending EXCEPT ![current] = @ \ {user[c]}]
                        /\ UNCHANGED <<current, state, session>>
                   ELSE /\ CloseIfEmpty(c, current, rest, last)
                        /\ UNCHANGED pending
  /\ UNCHANGED <<conns, loader, unsaved, deleted, stopping>>

\* The user's edit counters are stored; the handler looks at its room again.
Flushed(c) ==
  /\ gone[c] = "flushing"
  /\ CloseIfEmpty(c, hold[c], members[hold[c]], TRUE)
  /\ UNCHANGED <<conns, loader, members, unsaved, pending, deleted, stopping>>

\* The save of the last disconnect returned or failed: the entry of the file is
\* deleted from the store, then destroy() throws unless the room is idle.
SaveEnds(c) ==
  /\ gone[c] = "saving"
  /\ unsaved' \in {unsaved, unsaved \ {hold[c]}}
  /\ current' = NoRoom
  /\ IF state[hold[c]] = "idle"
       THEN /\ state' = [state EXCEPT ![hold[c]] = "destroying"]
            /\ EndSession(c, TRUE)
       ELSE /\ gone' = [gone EXCEPT ![c] = "threw"]
            /\ UNCHANGED <<state, session>>
  /\ UNCHANGED <<conns, loader, members, pending, hold, deleted, stopping>>

\* Fault: the end of the edit session leaves the handler in a state of its own.
SessionEndedStuck(c) ==
  /\ gone[c] = "ending"
  /\ gone' = [gone EXCEPT ![c] = "ended"]
  /\ UNCHANGED <<conns, rooms, unsaved, pending, hold, session, deleted, stopping>>

SessionEnded(c) ==
  /\ gone[c] = "ending"
  /\ Finish(c)
  /\ UNCHANGED <<conns, rooms, unsaved, pending, hold, deleted, stopping>>

---------------------------------------------------------------------------
\* closeRoomsForFolder()
DeleteFolder ==
  /\ ~deleted
  /\ deleted' = TRUE
  /\ IF current = NoRoom
       THEN UNCHANGED <<closing, pending, state, current>>
       ELSE /\ closing' = closing \cup members[current]
            /\ pending' = [pending EXCEPT ![current] = {}]
            /\ state' = [state EXCEPT ![current] = "destroying"]
            /\ current' = NoRoom
  /\ UNCHANGED <<user, stage, started, lookup, gone, loader, members, unsaved,
                 hold, session, stopping>>

ShutdownStart ==
  /\ ~stopping
  /\ stopping' = TRUE
  /\ UNCHANGED <<conns, gone, rooms, unsaved, pending, hold, session, deleted>>

\* The end of shutdown(): every socket is closed and marked disconnected; the
\* room is destroyed, unless it is idle and markIdle() throws.
ShutdownEnd ==
  /\ stopping
  /\ closing' = closing \cup {c \in Conns : gone[c] = "no"}
  /\ gone' = [c \in Conns |-> IF gone[c] = "no" THEN "done" ELSE gone[c]]
  /\ IF current # NoRoom /\ state[current] = "active"
       THEN state' = [state EXCEPT ![current] = "destroying"]
       ELSE UNCHANGED state
  /\ UNCHANGED <<user, stage, started, lookup, current, loader, members, unsaved,
                 pending, hold, session, deleted, stopping>>

---------------------------------------------------------------------------
RoomsNext ==
  \/ \E c \in Conns :
       \/ Authenticate(c) \/ Refuse(c) \/ Join(c) \/ Tracked(c) \/ Edit(c)
       \/ Disconnect(c) \/ Flushed(c) \/ SaveEnds(c) \/ SessionEnded(c)
  \/ Loaded \/ LoadFails \/ FlushRooms
  \/ DeleteFolder \/ ShutdownStart \/ ShutdownEnd

RoomsSpec == RoomsInit /\ [][RoomsNext]_roomsVars

\* The database answers; sockets that the server closes report their close.
RoomsFairness ==
  /\ WF_roomsVars(Loaded \/ LoadFails)
  /\ \A c \in Conns :
       /\ WF_roomsVars(Join(c) \/ Refuse(c)) /\ WF_roomsVars(Tracked(c))
       /\ WF_roomsVars(Flushed(c)) /\ WF_roomsVars(SaveEnds(c))
       /\ WF_roomsVars(SessionEnded(c))
       /\ WF_roomsVars(c \in closing /\ Disconnect(c))

---------------------------------------------------------------------------
RoomsTypeOK ==
  /\ user \in [Conns -> Users]
  /\ stage \in [Conns -> {"new", "verifying", "refused", "joining", "joined",
                          "failed"}]
  /\ gone \in [Conns -> {"no", "flushing", "saving", "ending", "done", "threw"}]
  /\ closing \subseteq Conns /\ unsaved \subseteq Conns /\ started \subseteq Conns
  /\ lookup \subseteq Conns /\ session \subseteq Conns
  /\ current \in Conns \cup {NoRoom} /\ loader \in Conns \cup {NoRoom}
  /\ state \in [Conns -> {"unborn", "active", "idle", "destroying"}]
  /\ members \in [Conns -> SUBSET Conns] /\ pending \in [Conns -> SUBSET Users]
  /\ hold \in [Conns -> Conns \cup {NoRoom}]
  /\ deleted \in BOOLEAN /\ stopping \in BOOLEAN

\* The creation lock coalesces the joins: while a room is being loaded there is
\* none in the store, so no two rooms of the file are loaded side by side.
LoadsAlone == loader # NoRoom => current = NoRoom

\* A room in the store is only ever removed, never overwritten by another one.
NeverReplaced == [][current # NoRoom => current' \in {current, NoRoom}]_current

\* A room is torn down only when nobody who could still use it is inside: its
\* members are on their way out, however joins, saves, the deletion of the
\* folder and the shutdown interleave.
InUseNotDestroyed ==
  \A r, c \in Conns :
    state[r] = "destroying" /\ c \in members[r] => c \in closing \/ gone[c] # "no"

\* An idle room is empty: the join that arrives while the room is saved for the
\* last time reactivates it.
IdleIsEmpty == \A r \in Conns : state[r] = "idle" => members[r] = {}

\* An authenticated open connection is registered in exactly one room.
JoinedOnce ==
  \A c \in Conns : stage[c] = "joined" /\ gone[c] = "no" =>
    \E r \in Conns : {x \in Conns : c \in members[x]} = {r}

\* Where an open, joined connection is, as JoinedOnce says: the one room that has it.
RoomOf(c) == CHOOSE r \in Conns : c \in members[r]
Absent == {c \in Conns : gone[c] # "no"} \cup closing
Place(c) == IF stage[c] = "joined" /\ c \notin Absent THEN RoomOf(c) ELSE NoRoom

\* The store, the states of the rooms and the handlers together keep the promise
\* of a shared room to the connections that are open and not about to be closed:
\* joins, rejoins of an idle room, failed and late saves, the deletion of the
\* folder and the shutdown never move one, end its room under it, or let it into a
\* room that is being torn down.
Shared == INSTANCE SharedRoom WITH
  Person <- Conns, Room <- Conns, Nowhere <- NoRoom,
  door <- current, place <- [c \in Conns |-> Place(c)], left <- Absent,
  opened <- {r \in Conns : state[r] # "unborn"},
  ended <- {r \in Conns : state[r] = "destroying"}
ImplementsSharedRoom == Shared!Spec

\* Whatever a connection starts ends: whoever starts to authenticate is let in or
\* refused, also when it waited for a load that another connection started, and
\* handleDisconnect() ends, by returning or by throwing.
HandlersSettle ==
  \A c \in Conns :
    /\ stage[c] = "verifying" ~> stage[c] \in {"refused", "joined", "failed"}
    /\ gone[c] # "no" ~> gone[c] \in {"done", "threw"}

---------------------------------------------------------------------------
\* Room.addConnection(): a connection that arrives "between the last disconnect
\* and the store deletion" makes the room active again.  An open, joined
\* connection of a file that was not deleted finds itself in the stored room.
RejoinKeepsRoom ==
  \A c \in Conns : stage[c] = "joined" /\ gone[c] = "no" /\ ~deleted =>
    current # NoRoom /\ c \in members[current]
=============================================================================
