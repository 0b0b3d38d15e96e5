------------------------------- MODULE MCNode -------------------------------
(***************************************************************************)
(* One node for TLC: the durability of a file and the life of its room.    *)
(* The two share no variable: a behaviour runs the one or the other, and   *)
(* the idle one keeps its first value.                                     *)
(***************************************************************************)
EXTENDS DocPersistence, RoomLifecycle, FiniteSets, TLC

VARIABLE scene

NodeInit ==
  /\ scene \in {"durability", "rooms"}
  /\ Init /\ RoomsInit
  \* Users are interchangeable: the first one has most of the connections.
  /\ LET others == {c \in Conns : user[c] # CHOOSE u \in Users : TRUE}
     IN  IF scene = "rooms" THEN 2 * Cardinality(others) <= Cardinality(Conns)
                            ELSE others = {}

NodeNext ==
  \/ scene = "durability" /\ Next /\ UNCHANGED <<scene, roomsVars>>
  \/ scene = "rooms" /\ RoomsNext /\ UNCHANGED <<scene, vars>>

NodeSpec == NodeInit /\ [][NodeNext]_<<scene, vars, roomsVars>>

\* The variables of the durability path and of the rooms have their types.
NodeTypeOK == TypeOK /\ RoomsTypeOK

Symm == Permutations(Updates) \cup Permutations(Conns)
=============================================================================
