------------------------ MODULE RoomLifecycleProofs ------------------------
(***************************************************************************)
(* Proofs about RoomLifecycle, for any number of connections and users:    *)
(* type correctness, coalesced loading, no room destroyed or replaced      *)
(* under its users, and membership in exactly one room; and the types of   *)
(* the rooms and the durability of a node together.                        *)
(***************************************************************************)
EXTENDS MCNode, DocPersistenceProofs

\* Only a joined connection is a member, and only of a room that exists.
MembersJoined ==
  \A r, c \in Conns : c \in members[r] => stage[c] = "joined" /\ state[r] # "unborn"

\* The creation lock stands for a room that has not been constructed, requested
\* by a connection that still waits; the stored room has been constructed.
StoreConsistent ==
  /\ loader # NoRoom => state[loader] = "unborn" /\ stage[loader] = "joining"
  /\ current # NoRoom => state[current] # "unborn"
  /\ \A r \in Conns : stage[r] \in {"new", "verifying"} => state[r] = "unborn"

\* A suspended handleDisconnect() holds a room that exists.
HoldsRoom ==
  \A c \in Conns : gone[c] \in {"flushing", "saving"} =>
    hold[c] \in Conns /\ state[hold[c]] # "unborn"

RoomsSafety ==
  /\ LoadsAlone /\ InUseNotDestroyed /\ IdleIsEmpty /\ JoinedOnce
  /\ MembersJoined /\ StoreConsistent /\ HoldsRoom

RoomsIInv == RoomsTypeOK /\ RoomsSafety

---------------------------------------------------------------------------
LEMMA RoomsStart == RoomsInit => RoomsIInv
  <1> SUFFICES ASSUME RoomsInit PROVE RoomsIInv
    OBVIOUS
  <1>1. RoomsTypeOK
    BY DEF RoomsInit, RoomsTypeOK
  <1>2. LoadsAlone /\ InUseNotDestroyed /\ IdleIsEmpty /\ JoinedOnce
    BY DEF RoomsInit, LoadsAlone, InUseNotDestroyed, IdleIsEmpty, JoinedOnce
  <1>3. MembersJoined /\ StoreConsistent /\ HoldsRoom
    BY DEF RoomsInit, MembersJoined, StoreConsistent, HoldsRoom
  <1> QED BY <1>1, <1>2, <1>3 DEF RoomsIInv, RoomsSafety

LEMMA RoomsTypesStay == RoomsIInv /\ [RoomsNext]_roomsVars => RoomsTypeOK'
  <1> SUFFICES ASSUME RoomsIInv, [RoomsNext]_roomsVars PROVE RoomsTypeOK'
    OBVIOUS
  <1>0. RoomsTypeOK /\ HoldsRoom
    BY DEF RoomsIInv, RoomsSafety
  <1> USE NoRoomAssumption DEF RoomsTypeOK, conns, rooms
  <1>1. ASSUME NEW c \in Conns, Authenticate(c) PROVE RoomsTypeOK'
    BY <1>1, <1>0 DEF Authenticate
  <1>2. ASSUME NEW c \in Conns, Refuse(c) PROVE RoomsTypeOK'
    BY <1>2, <1>0 DEF Refuse
  <1>3. ASSUME NEW c \in Conns, Join(c) PROVE RoomsTypeOK'
    BY <1>3, <1>0 DEF Join, Enter
  <1>4. ASSUME NEW c \in Conns, Tracked(c) PROVE RoomsTypeOK'
    BY <1>4, <1>0 DEF Tracked
  <1>5. ASSUME NEW c \in Conns, Edit(c) PROVE RoomsTypeOK'
    BY <1>5, <1>0 DEF Edit
  <1>6. ASSUME NEW c \in Conns, Disconnect(c) PROVE RoomsTypeOK'
    BY <1>6, <1>0 DEF Disconnect, CloseIfEmpty, EndSession, Finish
  <1>7. ASSUME NEW c \in Conns, Flushed(c) PROVE RoomsTypeOK'
    BY <1>7, <1>0 DEF Flushed, CloseIfEmpty, EndSession, Finish, HoldsRoom
  <1>8. ASSUME NEW c \in Conns, SaveEnds(c) PROVE RoomsTypeOK'
    BY <1>8, <1>0 DEF SaveEnds, EndSession, Finish, HoldsRoom
  <1>9. ASSUME NEW c \in Conns, SessionEnded(c) PROVE RoomsTypeOK'
    BY <1>9, <1>0 DEF SessionEnded, Finish
  <1>10. CASE Loaded
    BY <1>10, <1>0 DEF Loaded, Enter, Waiting
  <1>11. CASE LoadFails
    BY <1>11, <1>0 DEF LoadFails, Waiting
  <1>12. CASE FlushRooms
    BY <1>12, <1>0 DEF FlushRooms
  <1>13. CASE DeleteFolder
    BY <1>13, <1>0 DEF DeleteFolder
  <1>14. CASE ShutdownStart
    BY <1>14, <1>0 DEF ShutdownStart
  <1>15. CASE ShutdownEnd
    BY <1>15, <1>0 DEF ShutdownEnd
  <1>16. CASE UNCHANGED roomsVars
    BY <1>16, <1>0 DEF roomsVars
  <1> QED
    BY <1>1, <1>2, <1>3, <1>4, <1>5, <1>6, <1>7, <1>8, <1>9, <1>10, <1>11, <1>12, <1>13, <1>14, <1>15, <1>16 DEF RoomsNext

LEMMA RoomsSafetyStays == RoomsIInv /\ [RoomsNext]_roomsVars => RoomsSafety'
  <1> SUFFICES ASSUME RoomsIInv, [RoomsNext]_roomsVars PROVE RoomsSafety'
    OBVIOUS
  <1>0. RoomsTypeOK /\ RoomsSafety
    BY DEF RoomsIInv
  <1> USE NoRoomAssumption DEF RoomsTypeOK, conns, rooms, RoomsSafety, LoadsAlone,
        InUseNotDestroyed, IdleIsEmpty, JoinedOnce, MembersJoined,
        StoreConsistent, HoldsRoom
  <1>1. ASSUME NEW c \in Conns, Authenticate(c) PROVE RoomsSafety'
    BY <1>1, <1>0 DEF Authenticate
  <1>2. ASSUME NEW c \in Conns, Refuse(c) PROVE RoomsSafety'
    BY <1>2, <1>0 DEF Refuse
  <1>3. ASSUME NEW c \in Conns, Join(c) PROVE RoomsSafety'
    BY <1>3, <1>0 DEF Join, Enter
  <1>4. ASSUME NEW c \in Conns, Tracked(c) PROVE RoomsSafety'
    BY <1>4, <1>0 DEF Tracked
  <1>5. ASSUME NEW c \in Conns, Edit(c) PROVE RoomsSafety'
    BY <1>5, <1>0 DEF Edit
  <1>6. ASSUME NEW c \in Conns, Disconnect(c) PROVE RoomsSafety'
    BY <1>6, <1>0 DEF Disconnect, CloseIfEmpty, EndSession, Finish
  <1>7. ASSUME NEW c \in Conns, Flushed(c) PROVE RoomsSafety'
    BY <1>7, <1>0 DEF Flushed, CloseIfEmpty, EndSession, Finish, HoldsRoom
  <1>8. ASSUME NEW c \in Conns, SaveEnds(c) PROVE RoomsSafety'
    BY <1>8, <1>0 DEF SaveEnds, EndSession, Finish, HoldsRoom
  <1>9. ASSUME NEW c \in Conns, SessionEnded(c) PROVE RoomsSafety'
    BY <1>9, <1>0 DEF SessionEnded, Finish
  <1>10. CASE Loaded
    BY <1>10, <1>0 DEF Loaded, Enter, Waiting
  <1>11. CASE LoadFails
    BY <1>11, <1>0 DEF LoadFails, Waiting
  <1>12. CASE FlushRooms
    BY <1>12, <1>0 DEF FlushRooms
  <1>13. CASE DeleteFolder
    BY <1>13, <1>0 DEF DeleteFolder
  <1>14. CASE ShutdownStart
    BY <1>14, <1>0 DEF ShutdownStart
  <1>15. CASE ShutdownEnd
    BY <1>15, <1>0 DEF ShutdownEnd
  <1>16. CASE UNCHANGED roomsVars
    BY <1>16, <1>0 DEF roomsVars
  <1> QED
    BY <1>1, <1>2, <1>3, <1>4, <1>5, <1>6, <1>7, <1>8, <1>9, <1>10, <1>11, <1>12, <1>13, <1>14, <1>15, <1>16 DEF RoomsNext

---------------------------------------------------------------------------
LEMMA RoomsStay == RoomsIInv /\ [RoomsNext]_roomsVars => RoomsIInv'
  BY RoomsTypesStay, RoomsSafetyStays DEF RoomsIInv

THEOREM RoomsInvariant == RoomsSpec => []RoomsIInv
  BY RoomsStart, RoomsStay, PTL DEF RoomsSpec

\* The variables keep their types for any connections and users.
THEOREM RoomsTypes == RoomsSpec => []RoomsTypeOK
  <1>1. RoomsIInv => RoomsTypeOK
    BY DEF RoomsIInv
  <1> QED BY RoomsInvariant, <1>1, PTL

\* RoomStore.getOrCreate() coalesces any number of racing joins: a room is
\* loaded only while the store has none.
THEOREM Coalesced == RoomsSpec => []LoadsAlone
  <1>1. RoomsIInv => LoadsAlone
    BY DEF RoomsIInv, RoomsSafety
  <1> QED BY RoomsInvariant, <1>1, PTL

\* Neither the last disconnect nor the deletion of the folder nor the shutdown
\* destroys a room under a connection that stays.
THEOREM NotDestroyedInUse == RoomsSpec => []InUseNotDestroyed
  <1>1. RoomsIInv => InUseNotDestroyed
    BY DEF RoomsIInv, RoomsSafety
  <1> QED BY RoomsInvariant, <1>1, PTL

\* Idle rooms are empty: joining reactivates them.
THEOREM IdleRoomsEmpty == RoomsSpec => []IdleIsEmpty
  <1>1. RoomsIInv => IdleIsEmpty
    BY DEF RoomsIInv, RoomsSafety
  <1> QED BY RoomsInvariant, <1>1, PTL

\* However joins and loads interleave, an open joined connection is registered
\* in exactly one room.
THEOREM ExactlyOneRoom == RoomsSpec => []JoinedOnce
  <1>1. RoomsIInv => JoinedOnce
    BY DEF RoomsIInv, RoomsSafety
  <1> QED BY RoomsInvariant, <1>1, PTL

\* The stored room is never overwritten: only Loaded stores a room, and it runs
\* while there is none.
THEOREM NoReplacement == RoomsSpec => NeverReplaced
  <1> DEFINE Kept == current # NoRoom => current' \in {current, NoRoom}
  <1>1. RoomsIInv /\ [RoomsNext]_roomsVars => [Kept]_current
    <2> SUFFICES ASSUME RoomsIInv, [RoomsNext]_roomsVars PROVE Kept \/ UNCHANGED current
      OBVIOUS
    <2>1. CASE Loaded
      BY <2>1 DEF Loaded, RoomsIInv, RoomsSafety, LoadsAlone
    <2>2. ASSUME ~Loaded PROVE current' \in {current, NoRoom}
      BY <2>2 DEF RoomsNext, roomsVars, rooms, Authenticate, Refuse, Join, Tracked, Edit,
         Disconnect, Flushed, SaveEnds, SessionEnded, LoadFails, FlushRooms,
         DeleteFolder, ShutdownStart, ShutdownEnd, CloseIfEmpty
    <2> QED BY <2>1, <2>2
  <1> QED BY RoomsInvariant, <1>1, PTL DEF RoomsSpec, NeverReplaced

---------------------------------------------------------------------------
(* The rooms implement SharedRoom. *)

\* An open, joined connection is in the one room that has it.
LEMMA InOneRoom ==
  RoomsIInv => \A c \in Conns \ Absent : stage[c] = "joined" =>
    RoomOf(c) \in Conns /\ \A r \in Conns : c \in members[r] <=> r = RoomOf(c)
<1> SUFFICES ASSUME RoomsIInv, NEW c \in Conns \ Absent, stage[c] = "joined"
             PROVE  RoomOf(c) \in Conns /\ \A r \in Conns : c \in members[r] <=> r = RoomOf(c)
  OBVIOUS
<1>1. PICK r \in Conns : {x \in Conns : c \in members[x]} = {r}
  BY DEF RoomsIInv, RoomsSafety, JoinedOnce, Absent
<1> QED BY <1>1 DEF RoomOf

\* The same in the next state.
LEMMA InOneRoomNext ==
  RoomsIInv' => \A c \in Conns \ Absent' : stage'[c] = "joined" =>
    RoomOf(c)' \in Conns /\ \A r \in Conns : c \in members'[r] <=> r = RoomOf(c)'
<1> SUFFICES ASSUME RoomsIInv', NEW c \in Conns \ Absent', stage'[c] = "joined"
             PROVE  RoomOf(c)' \in Conns /\ \A r \in Conns : c \in members'[r] <=> r = RoomOf(c)'
  OBVIOUS
<1>1. PICK r \in Conns : {x \in Conns : c \in members'[x]} = {r}
  BY DEF RoomsIInv, RoomsSafety, JoinedOnce, Absent
<1> QED BY <1>1 DEF RoomOf

\* A connection that is not absent stays where it is when it stays joined, and
\* stays out when it is not.
Settled(c) ==
  /\ stage'[c] = "joined" <=> stage[c] = "joined"
  /\ \A r \in Conns : c \in members[r] => c \in members'[r]

LEMMA PlaceStays ==
  ASSUME RoomsIInv, RoomsIInv', Absent \subseteq Absent', NEW c \in Conns \ Absent', Settled(c)
  PROVE  Place(c)' = Place(c)
<1>1. CASE stage[c] # "joined"
  BY <1>1 DEF Place, Settled
<1>2. CASE stage[c] = "joined"
  <2>1. RoomOf(c) \in Conns /\ c \in members[RoomOf(c)]
    BY <1>2, InOneRoom
  <2>2. RoomOf(c)' = RoomOf(c)
    BY <1>2, <2>1, InOneRoomNext DEF Settled
  <2> QED BY <1>2, <2>2 DEF Place, Settled
<1> QED BY <1>1, <1>2

\* What a step has to do for the promise's Leave: nobody gets in or moves, no room
\* is opened or revived, and the store keeps its room or drops it.
Parts ==
  /\ Absent \subseteq Absent' /\ current' \in {current, NoRoom}
  /\ \A r \in Conns : /\ state[r] = "unborn" <=> state'[r] = "unborn"
                      /\ state[r] = "destroying" => state'[r] = "destroying"
  /\ \A c \in Conns \ Absent' : Settled(c)

LEMMA PartsAreLeave ==
  ASSUME RoomsIInv, RoomsIInv', Parts
  PROVE  Shared!Leave
<1> DEFINE group == Absent' \ Absent
           empty == {r \in Conns : state'[r] = "destroying" /\ state[r] # "destroying"}
           place == [c \in Conns |-> Place(c)]
<1>1. Absent \subseteq Conns /\ Absent' \subseteq Conns
  BY DEF Absent, RoomsIInv, RoomsTypeOK
<1>2. Absent' = Absent \cup group /\ group \in SUBSET Conns
  BY <1>1 DEF Parts
<1>3. \A c \in Conns : Place(c)' = IF c \in group THEN NoRoom ELSE Place(c)
  <2> SUFFICES ASSUME NEW c \in Conns
               PROVE  Place(c)' = IF c \in group THEN NoRoom ELSE Place(c)
    OBVIOUS
  <2>1. CASE c \in Absent'
    BY <2>1 DEF Place
  <2>2. CASE c \notin Absent'
    BY <2>2, PlaceStays DEF Parts
  <2> QED BY <2>1, <2>2
<1>4. place' = Shared!Moved(group, NoRoom)
  BY <1>3 DEF Shared!Moved
<1>5. \A c \in Conns : place'[c] \notin empty
  <2> SUFFICES ASSUME NEW c \in Conns, Place(c)' \in empty PROVE FALSE
    OBVIOUS
  <2>1. stage'[c] = "joined" /\ c \notin Absent'
    BY NoRoomAssumption DEF Place
  <2>2. c \in members'[Place(c)'] /\ state'[Place(c)'] = "destroying"
    BY <2>1, InOneRoomNext DEF Place
  <2> QED BY <2>1, <2>2 DEF RoomsIInv, RoomsSafety, InUseNotDestroyed, Absent
<1>6. empty \in SUBSET {r \in Conns : state[r] # "unborn"}
  BY DEF Parts
<1>7. {r \in Conns : state'[r] = "destroying"} = {r \in Conns : state[r] = "destroying"} \cup empty
  BY DEF Parts
<1>8. {r \in Conns : state'[r] # "unborn"} = {r \in Conns : state[r] # "unborn"}
  BY DEF Parts
<1> HIDE DEF group, empty
<1> QED BY <1>2, <1>4, <1>5, <1>6, <1>7, <1>8 DEF Parts, Shared!Leave

LEMMA JoinShares ==
  ASSUME RoomsIInv, RoomsIInv', NEW c \in Conns, Join(c)
  PROVE  [Shared!Next]_Shared!vars
<1> USE NoRoomAssumption DEF RoomsIInv, RoomsTypeOK
<1>1. CASE current = NoRoom \/ state[current] = "destroying" \/ c \in Absent
  <2>1. Parts
    BY <1>1 DEF Join, Enter, Parts, Settled, Absent, RoomsSafety, StoreConsistent
  <2> QED BY <2>1, PartsAreLeave DEF Shared!Next
<1>2. CASE current # NoRoom /\ state[current] # "destroying" /\ c \notin Absent
  <2>1. /\ stage[c] = "verifying" /\ stage' = [stage EXCEPT ![c] = "joined"]
        /\ members' = [members EXCEPT ![current] = @ \cup {c}]
        /\ state' = [state EXCEPT ![current] = "active"]
        /\ UNCHANGED <<closing, gone, current>>
    BY <1>2 DEF Join, Enter
  <2>2. Absent' = Absent
    BY <2>1 DEF Absent
  <2>3. Place(c) = NoRoom /\ Place(c)' = current
    BY <1>2, <2>1, <2>2, InOneRoomNext DEF Place
  <2>4. \A d \in Conns \ {c} : Place(d)' = Place(d)
    <3> SUFFICES ASSUME NEW d \in Conns \ {c} PROVE Place(d)' = Place(d)
      OBVIOUS
    <3>1. CASE d \in Absent
      BY <2>2, <3>1 DEF Place
    <3>2. CASE d \notin Absent
      BY <1>2, <2>1, <2>2, <3>2, PlaceStays DEF Settled
    <3> QED BY <3>1, <3>2
  <2>5. c \in Shared!Outside
    BY <1>2, <2>3 DEF Shared!Outside
  <2>6. [d \in Conns |-> Place(d)]' = Shared!Moved({c}, current)
    BY <2>3, <2>4 DEF Shared!Moved
  <2>7. state[current] # "unborn"
    BY <1>2 DEF RoomsSafety, StoreConsistent
  <2>8. /\ {r \in Conns : state'[r] # "unborn"} = {r \in Conns : state[r] # "unborn"}
        /\ {r \in Conns : state'[r] = "destroying"} = {r \in Conns : state[r] = "destroying"}
    BY <1>2, <2>1, <2>7
  <2>9. current \in {r \in Conns : state[r] # "unborn"} \ {r \in Conns : state[r] = "destroying"}
    BY <1>2, <2>7
  <2>10. UNCHANGED <<current, Absent>>
    BY <2>1, <2>2
  <2> QED BY ONLY <2>5, <2>6, <2>8, <2>9, <2>10 DEF Shared!Enter, Shared!Next
<1> QED BY <1>1, <1>2

LEMMA LoadedShares ==
  ASSUME RoomsIInv, RoomsIInv', Loaded
  PROVE  [Shared!Next]_Shared!vars
<1> DEFINE group == Waiting \ Absent
<1> USE NoRoomAssumption DEF RoomsIInv, RoomsTypeOK
<1>1. /\ loader \in Conns /\ current = NoRoom /\ current' = loader
      /\ stage' = [d \in Conns |-> IF d \in Waiting THEN "joined" ELSE stage[d]]
      /\ members' = [members EXCEPT ![loader] = @ \cup Waiting]
      /\ state[loader] = "unborn" /\ state' = [state EXCEPT ![loader] = "active"]
      /\ UNCHANGED <<closing, gone>>
  BY DEF Loaded, Enter, RoomsSafety, LoadsAlone, StoreConsistent
<1>2. Absent' = Absent /\ Absent \subseteq Conns
  BY <1>1 DEF Absent
<1>3. \A d \in Conns : Place(d)' = IF d \in group THEN loader ELSE Place(d)
  <2> SUFFICES ASSUME NEW d \in Conns
               PROVE  Place(d)' = IF d \in group THEN loader ELSE Place(d)
    OBVIOUS
  <2>1. CASE d \in Absent
    BY <1>2, <2>1 DEF Place
  <2>2. CASE d \in group
    BY <1>1, <1>2, <2>2, InOneRoomNext DEF Place, Waiting
  <2>3. CASE d \notin Absent /\ d \notin group
    BY <1>1, <1>2, <2>3, PlaceStays DEF Settled
  <2> QED BY <2>1, <2>2, <2>3
<1>4. group \in SUBSET Shared!Outside
  BY DEF Shared!Outside, Waiting, Place
<1>5. [d \in Conns |-> Place(d)]' = Shared!Moved(group, loader)
  BY <1>3 DEF Shared!Moved
<1>6. /\ {r \in Conns : state'[r] # "unborn"} = {r \in Conns : state[r] # "unborn"} \cup {loader}
      /\ {r \in Conns : state'[r] = "destroying"} = {r \in Conns : state[r] = "destroying"}
  BY <1>1
<1> HIDE DEF group
<1> QED BY <1>1, <1>2, <1>4, <1>5, <1>6 DEF Shared!Open, Shared!Next

LEMMA StepShares ==
  ASSUME RoomsIInv, RoomsIInv', [RoomsNext]_roomsVars
  PROVE  [Shared!Next]_Shared!vars
<1>1. CASE \E c \in Conns : Join(c)
  BY <1>1, JoinShares
<1>2. CASE Loaded
  BY <1>2, LoadedShares
<1>3. ASSUME Parts PROVE [Shared!Next]_Shared!vars
  BY <1>3, PartsAreLeave DEF Shared!Next
<1> USE DEF RoomsIInv, RoomsTypeOK, RoomsSafety, Parts, Settled, Absent
<1>4. ASSUME NEW c \in Conns, Authenticate(c) \/ Refuse(c) \/ Tracked(c) \/ Edit(c)
      PROVE  Parts
  BY <1>4 DEF Authenticate, Refuse, Tracked, Edit, rooms, conns
<1>5. ASSUME NEW c \in Conns, Disconnect(c) PROVE Parts
  BY <1>5 DEF Disconnect, CloseIfEmpty, EndSession, Finish, conns
<1>6. ASSUME NEW c \in Conns, Flushed(c) PROVE Parts
  BY <1>6 DEF Flushed, CloseIfEmpty, EndSession, Finish, conns, HoldsRoom
<1>7. ASSUME NEW c \in Conns, SaveEnds(c) \/ SessionEnded(c) PROVE Parts
  BY <1>7 DEF SaveEnds, SessionEnded, EndSession, Finish, conns, rooms, HoldsRoom
<1>8. ASSUME LoadFails \/ FlushRooms \/ ShutdownStart PROVE Parts
  BY <1>8 DEF LoadFails, FlushRooms, ShutdownStart, Waiting, rooms, conns
<1>9. ASSUME DeleteFolder \/ ShutdownEnd PROVE Parts
  BY <1>9, NoRoomAssumption DEF DeleteFolder, ShutdownEnd, StoreConsistent
<1>10. ASSUME UNCHANGED roomsVars PROVE Parts
  BY <1>10 DEF roomsVars
<1> QED BY <1>1, <1>2, <1>3, <1>4, <1>5, <1>6, <1>7, <1>8, <1>9, <1>10 DEF RoomsNext

\* RoomStore, Room and the handlers of CollaborationServer keep the promise of a
\* shared room, for any connections and users: nobody is moved, nobody's room ends
\* under it, and no room that is torn down takes anybody in.
THEOREM RoomsAreShared == RoomsSpec => ImplementsSharedRoom
<1>1. RoomsInit => Shared!Init
  BY NoRoomAssumption DEF RoomsInit, Shared!Init, Place, Absent
<1> QED BY RoomsInvariant, <1>1, StepShares, PTL
    DEF RoomsSpec, ImplementsSharedRoom, Shared!Spec

---------------------------------------------------------------------------
\* MCNode: the rooms and the durability of a file, as they are run together, leave
\* each other's state alone, so that each keeps its own specification.
THEOREM NodeTypes == NodeSpec => []NodeTypeOK
  <1>1. NodeInit => Init /\ RoomsInit
    BY DEF NodeInit
  <1>2. [NodeNext]_<<scene, vars, roomsVars>> => [Next]_vars /\ [RoomsNext]_roomsVars
    BY DEF NodeNext
  <1>3. Spec /\ RoomsSpec => []NodeTypeOK
    BY TypeCorrect, RoomsTypes, PTL DEF NodeTypeOK
  <1> QED BY <1>1, <1>2, <1>3, PTL DEF NodeSpec, Spec, RoomsSpec
=============================================================================
