------------------------- MODULE ClusterMembership -------------------------
(***************************************************************************)
(* ClusterMembership: the registry set and the heartbeat keys in Redis, and*)
(* at every node the set of nodes its hash ring is built from.  Handlers   *)
(* are split at their awaits.  A node id is a random UUID, so a process    *)
(* that restarts is another node.  Time is abstracted: a heartbeat key may *)
(* expire at any moment, that of a stalled process included.               *)
(***************************************************************************)
EXTENDS HashRing

CONSTANTS
  MaxFaults,  \* bound on heartbeats that lapse, failures, lost messages
  MaxBusy,    \* bound on the nodes that are between two awaits at once
  MaxScans,   \* bound on the scans among them
  MaxInbox    \* bound on the messages on their way to a node

ASSUME BoundsAssumption ==
  MaxFaults \in Nat /\ MaxBusy \in Nat /\ MaxScans \in Nat /\ MaxInbox \in Nat

VARIABLES
  nodeState, \* "new", "listing" and "probing" (in register()), "up",
             \* "leaving" (in deregister()), "adrift" (register() rejected),
             \* "gone" (crashed or shut down)
  registry,  \* pg:nodes
  beats,     \* the nodes whose heartbeat key exists
  active,    \* activeNodes, and the ring rebuilt from it
  read,      \* the members that a register() or a scan has read
  dead,      \* the members that a scan found dead
  scan,      \* how far scanForDeadNodes() is
  inbox,     \* pg:topology:change messages on their way to each node
  lapsed,    \* history: nodes whose heartbeat key expired at some time
  overlap,   \* history: membership changes ran into one another
  faults     \* how many faults have happened, for the bound

membershipVars == <<nodeState, registry, beats, active, read, dead, scan, inbox,
                    lapsed, overlap, faults>>

Running == {n \in Node : nodeState[n] \notin {"new", "gone"}}
Event(n, nodes) == [nodeId |-> n, activeNodes |-> nodes]

\* Nothing is under way: no handler between two awaits, no message in flight.
Quiet ==
  \A n \in Running : /\ nodeState[n] \in {"up", "adrift"} /\ scan[n] = "idle"
                     /\ inbox[n] = << >>

MembershipInit ==
  /\ nodeState = [n \in Node |-> "new"]
  /\ registry = {} /\ beats = {}
  /\ active = [n \in Node |-> {}]
  /\ read = [n \in Node |-> {}] /\ dead = [n \in Node |-> {}]
  /\ scan = [n \in Node |-> "idle"]
  /\ inbox = [n \in Node |-> << >>]
  /\ lapsed = {} /\ overlap = FALSE /\ faults = 0

\* PUBLISH reaches every subscribed process, the publisher included.
Publish(e) ==
  /\ \A n \in Node : Len(inbox[n]) < MaxInbox
  /\ inbox' = [n \in Node |-> IF n \in Running THEN Append(inbox[n], e) ELSE inbox[n]]

Busy(n) == nodeState[n] \in {"listing", "probing", "leaving"} \/ scan[n] # "idle"
MayStart(n) == Cardinality({m \in Node : Busy(m)} \cup {n}) <= MaxBusy
Fault == faults < MaxFaults /\ faults' = faults + 1

---------------------------------------------------------------------------
(* register(), refreshTopology() *)

Register(n) ==
  /\ nodeState[n] = "new" /\ MayStart(n)
  /\ nodeState' = [nodeState EXCEPT ![n] = "listing"]
  /\ registry' = registry \cup {n} /\ beats' = beats \cup {n}
  /\ overlap' = (overlap \/ ~Quiet)
  /\ UNCHANGED <<active, read, dead, scan, inbox, lapsed, faults>>

ListMembers(n) ==
  /\ nodeState[n] = "listing"
  /\ nodeState' = [nodeState EXCEPT ![n] = "probing"]
  /\ read' = [read EXCEPT ![n] = registry]
  /\ UNCHANGED <<registry, beats, active, dead, scan, inbox, lapsed, overlap, faults>>

\* The members with a heartbeat become the ring; the join is published.
JoinRing(n) ==
  /\ nodeState[n] = "probing"
  /\ nodeState' = [nodeState EXCEPT ![n] = "up"]
  /\ active' = [active EXCEPT ![n] = read[n] \cap beats]
  /\ Publish(Event(n, read[n] \cap beats))
  /\ read' = [read EXCEPT ![n] = {}]
  /\ UNCHANGED <<registry, beats, dead, scan, lapsed, overlap, faults>>

\* Redis fails: register() rejects, no timer is started, the process serves on.
RegisterFails(n) ==
  /\ Fault
  /\ nodeState[n] \in {"listing", "probing"}
  /\ nodeState' = [nodeState EXCEPT ![n] = "adrift"]
  /\ read' = [read EXCEPT ![n] = {}]
  /\ overlap' = TRUE
  /\ UNCHANGED <<registry, beats, active, dead, scan, inbox, lapsed>>

---------------------------------------------------------------------------
(* deregister() *)

Deregister(n) ==
  /\ nodeState[n] \in {"up", "adrift"} /\ MayStart(n)
  /\ nodeState' = [nodeState EXCEPT ![n] = "leaving"]
  /\ registry' = registry \ {n} /\ beats' = beats \ {n}
  /\ overlap' = (overlap \/ ~Quiet)
  /\ UNCHANGED <<active, read, dead, scan, inbox, lapsed, faults>>

\* Fault: a scan under way is not stopped with its process.
StopMidScan(n) ==
  /\ nodeState' = [nodeState EXCEPT ![n] = "gone"]
  /\ active' = [active EXCEPT ![n] = {}]
  /\ UNCHANGED <<scan, read, dead>>

Stop(n) ==
  /\ nodeState' = [nodeState EXCEPT ![n] = "gone"]
  /\ scan' = [scan EXCEPT ![n] = "idle"]
  /\ read' = [read EXCEPT ![n] = {}] /\ dead' = [dead EXCEPT ![n] = {}]
  /\ active' = [active EXCEPT ![n] = {}]

\* Fault: the node announces its own view with itself still in it.
AnnounceSelf(n) ==
  /\ nodeState[n] = "leaving"
  /\ Stop(n)
  /\ inbox' = [m \in Node |-> IF m = n THEN << >>
                              ELSE IF m \in Running
                                   THEN Append(inbox[m], Event(n, active[n]))
                                   ELSE inbox[m]]
  /\ UNCHANGED <<registry, beats, lapsed, overlap, faults>>

Announce(n) ==
  /\ nodeState[n] = "leaving"
  /\ Stop(n)
  /\ inbox' = [m \in Node |-> IF m = n THEN << >>
                              ELSE IF m \in Running
                                   THEN Append(inbox[m], Event(n, active[n] \ {n}))
                                   ELSE inbox[m]]
  /\ UNCHANGED <<registry, beats, lapsed, overlap, faults>>

---------------------------------------------------------------------------
(* The timers: sendHeartbeat(), the expiry of its key, scanForDeadNodes() *)

SendHeartbeat(n) ==
  /\ nodeState[n] = "up"
  /\ beats' = beats \cup {n}
  /\ UNCHANGED <<nodeState, registry, active, read, dead, scan, inbox, lapsed, overlap,
                 faults>>

Expire(n) ==
  /\ n \in beats
  /\ \/ nodeState[n] = "gone" /\ UNCHANGED faults
     \/ nodeState[n] # "gone" /\ Fault
  /\ beats' = beats \ {n} /\ lapsed' = lapsed \cup {n}
  /\ UNCHANGED <<nodeState, registry, active, read, dead, scan, inbox, overlap>>

ScanList(n) ==
  /\ nodeState[n] = "up" /\ scan[n] = "idle" /\ registry # {} /\ MayStart(n)
  /\ Cardinality({m \in Node : scan[m] # "idle"}) < MaxScans
  /\ scan' = [scan EXCEPT ![n] = "probing"]
  /\ read' = [read EXCEPT ![n] = registry]
  /\ overlap' = (overlap \/ ~Quiet)
  /\ UNCHANGED <<nodeState, registry, beats, active, dead, inbox, lapsed, faults>>

\* Fault: a member is judged by the node's own ring instead of its heartbeat.
ScanProbeOwnRing(n) ==
  /\ scan[n] = "probing"
  /\ LET found == read[n] \ active[n]
     IN  /\ dead' = [dead EXCEPT ![n] = found]
         /\ scan' = [scan EXCEPT ![n] = IF found = {} THEN "idle" ELSE "cleaning"]
         /\ read' = [read EXCEPT ![n] = IF found = {} THEN {} ELSE @]
  /\ UNCHANGED <<nodeState, registry, beats, active, inbox, lapsed, overlap, faults>>

ScanProbe(n) ==
  /\ scan[n] = "probing"
  /\ LET found == read[n] \ beats
     IN  /\ dead' = [dead EXCEPT ![n] = found]
         /\ scan' = [scan EXCEPT ![n] = IF found = {} THEN "idle" ELSE "cleaning"]
         /\ read' = [read EXCEPT ![n] = IF found = {} THEN {} ELSE @]
  /\ UNCHANGED <<nodeState, registry, beats, active, inbox, lapsed, overlap, faults>>

\* Fault: dead members are dropped from the ring but stay in the registry.
ScanCleanKeeps(n) ==
  /\ scan[n] = "cleaning"
  /\ active' = [active EXCEPT ![n] = read[n] \ dead[n]]
  /\ scan' = [scan EXCEPT ![n] = "publishing"]
  /\ UNCHANGED <<nodeState, registry, beats, read, dead, inbox, lapsed, overlap, faults>>

ScanClean(n) ==
  /\ scan[n] = "cleaning"
  /\ registry' = registry \ dead[n]
  /\ active' = [active EXCEPT ![n] = read[n] \ dead[n]]
  /\ scan' = [scan EXCEPT ![n] = "publishing"]
  /\ UNCHANGED <<nodeState, beats, read, dead, inbox, lapsed, overlap, faults>>

\* One node_crash message per dead member, each with what the scan left over.
ScanPublish(n) ==
  /\ scan[n] = "publishing"
  /\ \E d \in dead[n] :
       LET left == dead[n] \ {d}
       IN  /\ Publish(Event(d, read[n] \ dead[n]))
           /\ dead' = [dead EXCEPT ![n] = left]
           /\ read' = [read EXCEPT ![n] = IF left = {} THEN {} ELSE read[n] \ {d}]
           /\ scan' = [scan EXCEPT ![n] = IF left = {} THEN "idle" ELSE @]
  /\ UNCHANGED <<nodeState, registry, beats, active, lapsed, overlap, faults>>

---------------------------------------------------------------------------
(* The subscriber, and the environment *)

\* handleTopologyChange(): the message replaces the view, unless it is about
\* this very node.
HandleTopologyChange(n) ==
  /\ n \in Running /\ inbox[n] # << >>
  /\ LET e == Head(inbox[n])
     IN  active' = IF e.nodeId = n THEN active
                   ELSE [active EXCEPT ![n] = e.activeNodes]
  /\ inbox' = [inbox EXCEPT ![n] = Tail(@)]
  /\ UNCHANGED <<nodeState, registry, beats, read, dead, scan, lapsed, overlap, faults>>

\* The subscriber was disconnected: pub/sub does not keep the message.
MissMessage(n) ==
  /\ Fault
  /\ n \in Running /\ inbox[n] # << >>
  /\ inbox' = [inbox EXCEPT ![n] = Tail(@)]
  /\ overlap' = TRUE
  /\ UNCHANGED <<nodeState, registry, beats, active, read, dead, scan, lapsed>>

CrashNode(n) ==
  /\ Fault
  /\ n \in Running
  /\ overlap' = (overlap \/ nodeState[n] \notin {"up", "adrift"} \/ scan[n] # "idle")
  /\ Stop(n)
  /\ inbox' = [inbox EXCEPT ![n] = << >>]
  /\ UNCHANGED <<registry, beats, lapsed>>

MembershipNext ==
  \E n \in Node :
    \/ Register(n) \/ ListMembers(n) \/ JoinRing(n) \/ RegisterFails(n)
    \/ Deregister(n) \/ Announce(n) \/ SendHeartbeat(n) \/ Expire(n)
    \/ ScanList(n) \/ ScanProbe(n) \/ ScanClean(n) \/ ScanPublish(n)
    \/ HandleTopologyChange(n) \/ MissMessage(n) \/ CrashNode(n)

\* Timers fire, Redis answers, keys of dead processes expire.
MembershipFairness ==
  \A n \in Node :
    /\ WF_membershipVars(ScanList(n)) /\ WF_membershipVars(ScanProbe(n))
    /\ WF_membershipVars(ScanClean(n)) /\ WF_membershipVars(ScanPublish(n))
    /\ WF_membershipVars(HandleTopologyChange(n))
    /\ WF_membershipVars(Expire(n) /\ nodeState[n] = "gone")

MembershipSpec == MembershipInit /\ [][MembershipNext]_membershipVars

---------------------------------------------------------------------------
Message == [nodeId : Node, activeNodes : SUBSET Node]

MembershipTypeOK ==
  /\ nodeState \in [Node -> {"new", "listing", "probing", "up", "leaving", "adrift",
                             "gone"}]
  /\ registry \in SUBSET Node /\ beats \in SUBSET Node /\ lapsed \in SUBSET Node
  /\ active \in [Node -> SUBSET Node] /\ read \in [Node -> SUBSET Node]
  /\ dead \in [Node -> SUBSET Node]
  /\ scan \in [Node -> {"idle", "probing", "cleaning", "publishing"}]
  /\ inbox \in [Node -> Seq(Message)]
  /\ overlap \in BOOLEAN /\ faults \in 0..MaxFaults
  /\ \A n \in Node : /\ scan[n] # "idle" => nodeState[n] \in {"up", "leaving"}
                     /\ dead[n] \subseteq read[n]

\* A registered process leaves pg:nodes only when it shuts down or after its
\* heartbeat key expired at some time: no scan, however old what it read is,
\* removes a node whose heartbeats always arrived.
OnlyLapsedUnlisted ==
  \A n \in Node : nodeState[n] = "up" /\ n \notin registry => n \in lapsed

\* ConsistentHashRing: whatever nodes a process holds for active, its ring gives
\* every room the owner that consistent hashing gives it, as if the ring had
\* grown node by node, and the next join or death moves only the rooms of the
\* node that comes or goes.
RingConsistent == \A n \in Node : active[n] \in ConsistentSets

\* When membership changes do not run into one another, all rings agree with
\* pg:nodes once the messages are delivered: no ring names a node that is not
\* registered, and none misses one whose heartbeat never lapsed.
RingsAgree ==
  ~overlap /\ Quiet =>
    \A n \in registry : nodeState[n] = "up" =>
      registry \ lapsed \subseteq active[n] /\ active[n] \subseteq registry

\* A process that dies is taken off pg:nodes while another one keeps scanning.
DeadUnlisted ==
  \A n \in Node : nodeState[n] = "gone" ~>
    n \notin registry \/ \A m \in Node : nodeState[m] # "up"
=============================================================================
