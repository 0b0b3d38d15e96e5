----------------------------- MODULE SharedRoom -----------------------------
(***************************************************************************)
(* What the rooms of a file promise to those who are in them, with no lock,*)
(* no states of a room and no handlers.  At most one room takes people in. *)
(* Whoever is in stays in that room until it leaves, and leaves for good.  *)
(* A room ends only when nobody is inside; an ended room takes nobody in   *)
(* and does not come back.                                                 *)
(*                                                                         *)
(* That the room which takes people in is the one where the others are is  *)
(* not promised: it may be closed to newcomers while it is in use.         *)
(***************************************************************************)
CONSTANTS
  Person,   \* who may come
  Room,     \* the names rooms may get
  Nowhere   \* no room

VARIABLES
  door,    \* the room that takes people in, or Nowhere
  place,   \* person -> the room it is in, or Nowhere
  left,    \* who has left, or gave up before it was let in
  opened,  \* every room that was ever opened
  ended    \* those of them that ended

vars == <<door, place, left, opened, ended>>

Init ==
  /\ door = Nowhere /\ place = [p \in Person |-> Nowhere] /\ left = {}
  /\ opened = {} /\ ended = {}

Outside == {p \in Person : place[p] = Nowhere} \ left
Moved(group, where) == [p \in Person |-> IF p \in group THEN where ELSE place[p]]

\* A new room, for all those who waited for it.
Open ==
  /\ door = Nowhere
  /\ \E r \in Room \ opened, group \in SUBSET Outside :
       /\ door' = r /\ opened' = opened \cup {r}
       /\ place' = Moved(group, r)
  /\ UNCHANGED <<left, ended>>

Enter ==
  /\ door \in opened \ ended
  /\ \E p \in Outside : place' = Moved({p}, door)
  /\ UNCHANGED <<door, left, opened, ended>>

\* Some leave, the door may close, and rooms may end in which nobody is left.
Leave ==
  /\ \E group \in SUBSET Person :
       left' = left \cup group /\ place' = Moved(group, Nowhere)
  /\ door' \in {door, Nowhere}
  /\ \E empty \in SUBSET opened :
       /\ \A p \in Person : place'[p] \notin empty
       /\ ended' = ended \cup empty
  /\ UNCHANGED opened

Next == Open \/ Enter \/ Leave

Spec == Init /\ [][Next]_vars
=============================================================================
