----------------------------- MODULE MCCluster -----------------------------
(***************************************************************************)
(* The membership of the cluster, the writes that are forwarded in it, the *)
(* clock of one process and the simulated cluster of the admin routes for  *)
(* TLC.  They share no state: a behaviour runs one of them, and the        *)
(* variables of the idle ones keep their first value.  Drills are run with *)
(* the chaos engine and without the replay engine, and the other way round *)
(* with untimed failures.                                                  *)
(***************************************************************************)
EXTENDS ClusterMembership, ForwardedWrites, ClusterClock, DrillReplay, TLC

CONSTANTS n1, n2, n3

VARIABLE scene

Positions == (n1 :> {1, 7}) @@ (n2 :> {3, 9}) @@ (n3 :> {4, 6})
Keys == [r \in Room |-> r]
Wall == 2
Offsets == {-1, 0, 2}
Symm == Permutations(Node) \cup Permutations(Request)

Init ==
  /\ scene \in {"membership", "forward", "clock", "chaos", "replay"}
  /\ MembershipInit /\ ForwardInit /\ ClockInit /\ DrillsInit
  /\ scene # "clock" => skew = 0

Next ==
  /\ UNCHANGED scene
  /\ \/ /\ scene = "membership" /\ MembershipNext
        /\ UNCHANGED <<forwardVars, clockVars, drillsVars>>
     \/ /\ scene = "forward" /\ ForwardNext
        /\ UNCHANGED <<membershipVars, clockVars, drillsVars>>
     \/ /\ scene = "clock" /\ ClockNext
        /\ UNCHANGED <<membershipVars, forwardVars, drillsVars>>
     \/ /\ \/ scene = "chaos" /\ UNCHANGED replayVars
           \/ scene = "replay" /\ UNCHANGED <<ticking, chaos, delays>>
        /\ DrillsNext
        /\ UNCHANGED <<membershipVars, forwardVars, clockVars>>

Spec == Init /\ [][Next]_<<scene, membershipVars, forwardVars, clockVars, drillsVars>>

\* ImplementsRemoteWrite where writes are forwarded; in the other scenes the mapping
\* need not be computed to see that nothing moves.
ForwardsRemotely ==
  /\ Remote!Init
  /\ [][scene = "forward" => Remote!Next \/ UNCHANGED Remote!vars]_forwardVars

\* The variables of the modules have their types; a scan belongs to a process
\* that runs, and finds dead only what it has read.
TypeOK == MembershipTypeOK /\ ForwardTypeOK /\ ClockTypeOK /\ DrillsTypeOK
=============================================================================
