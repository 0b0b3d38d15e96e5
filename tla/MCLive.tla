------------------------------- MODULE MCLive -------------------------------
(***************************************************************************)
(* What must eventually happen, for TLC: small instances of the rooms, the *)
(* durability path, the dashboard and the membership.  They share no       *)
(* state: a behaviour runs one of them, `scene`.  In its first state       *)
(* fairness asks nothing of the others, which keep their variables, so     *)
(* the fairness of all of them is assumed together.                        *)
(***************************************************************************)
EXTENDS DocPersistence, RoomLifecycle, LiveDashboard, ClusterMembership, TLC

CONSTANTS n1, n2

VARIABLE scene

allVars == <<scene, vars, roomsVars, dashVars, membershipVars>>

Positions == (n1 :> {1, 3}) @@ (n2 :> {2, 4})
Keys == [r \in Room |-> r]

Rests(name, variables) == scene # name /\ UNCHANGED variables

LiveInit ==
  /\ scene \in {"rooms", "durability", "dashboard", "membership"}
  /\ Init /\ RoomsInit /\ DashInit /\ MembershipInit
  \* Users are interchangeable, and an idle component has one first state.
  /\ user[CHOOSE c \in Conns : TRUE] = CHOOSE u \in Users : TRUE
  /\ scene # "rooms" => user = [c \in Conns |-> CHOOSE u \in Users : TRUE]

LiveNext ==
  /\ UNCHANGED scene
  /\ (scene = "rooms" /\ RoomsNext) \/ Rests("rooms", roomsVars)
  /\ (scene = "durability" /\ Next) \/ Rests("durability", vars)
  /\ (scene = "dashboard" /\ DashNext) \/ Rests("dashboard", dashVars)
  /\ (scene = "membership" /\ MembershipNext) \/ Rests("membership", membershipVars)

LiveSpec ==
  /\ LiveInit /\ [][LiveNext]_allVars
  /\ Fairness /\ RoomsFairness /\ DashFairness /\ MembershipFairness
=============================================================================
