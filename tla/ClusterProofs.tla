--------------------------- MODULE ClusterProofs ---------------------------
(***************************************************************************)
(* Theorems about the cluster: what may take a node off pg:nodes, when the *)
(* rings agree with it, what a ring makes of its nodes, what the           *)
(* acknowledgement of a forwarded write says, that the cluster clock does  *)
(* not go back, and that the simulated cluster keeps to its timers and its *)
(* recordings.  They hold for any number of nodes, virtual nodes, writes,  *)
(* callers, faults, simulations and failures.                              *)
(***************************************************************************)
EXTENDS MCCluster, FiniteSetTheorems, WellFoundedInduction, TLAPS

---------------------------------------------------------------------------
(* ClusterMembership *)

\* Whoever announced itself and kept its heartbeat is still listed.
BeatsListed ==
  \A n \in Node : nodeState[n] \in {"listing", "probing", "up"} /\ n \notin lapsed =>
    n \in beats /\ n \in registry

\* What is listed, or was read by somebody, has started.
ReadStarted ==
  \A m, n \in Node : n \in registry \/ n \in read[m] => nodeState[n] # "new"

\* Whom a scan holds for dead has lapsed once, or is on its way out.
DeadLapsed ==
  \A m, n \in Node : n \in dead[m] =>
    n \in lapsed \/ nodeState[n] \notin {"new", "listing", "probing", "up"}

\* Nobody is held for dead before the probe.
ProbedFirst == \A n \in Node : scan[n] \in {"idle", "probing"} => dead[n] = {}

MembershipIInv ==
  MembershipTypeOK /\ BeatsListed /\ ReadStarted /\ DeadLapsed /\ ProbedFirst

LEMMA MembershipStarts == MembershipInit => MembershipIInv
<1> SUFFICES ASSUME MembershipInit PROVE MembershipIInv
  OBVIOUS
<1>1. inbox \in [Node -> Seq(Message)]
  <2>1. << >> \in Seq(Message)
    OBVIOUS
  <2> QED BY <2>1 DEF MembershipInit
<1>2. overlap \in BOOLEAN
  BY DEF MembershipInit
<1>3. faults \in 0..MaxFaults
  BY BoundsAssumption DEF MembershipInit
<1>4. MembershipTypeOK
  BY <1>1, <1>2, <1>3 DEF MembershipInit, MembershipTypeOK
<1>5. BeatsListed /\ ReadStarted /\ DeadLapsed /\ ProbedFirst
  BY DEF MembershipInit, BeatsListed, ReadStarted, DeadLapsed, ProbedFirst
<1> QED BY <1>4, <1>5 DEF MembershipIInv

\* Publishing keeps the inboxes sequences of messages.
LEMMA PublishTypes ==
  ASSUME inbox \in [Node -> Seq(Message)], NEW m \in Node, NEW nodes \in SUBSET Node,
         Publish(Event(m, nodes))
  PROVE  inbox' \in [Node -> Seq(Message)]
<1> DEFINE e == Event(m, nodes)
<1>1. e \in Message
  BY DEF Event, Message
<1> HIDE DEF e
<1>2. \A n \in Node : Append(inbox[n], e) \in Seq(Message)
  BY <1>1
<1>3. inbox' = [n \in Node |-> IF n \in Running THEN Append(inbox[n], e) ELSE inbox[n]]
  BY DEF Publish, e
<1> QED BY <1>2, <1>3

\* So does the last message of a node that leaves.
LEMMA AnnounceTypes ==
  ASSUME MembershipTypeOK, NEW n \in Node, Announce(n)
  PROVE  inbox' \in [Node -> Seq(Message)]
<1> DEFINE e == Event(n, active[n] \ {n})
<1>1. e \in Message
  BY DEF Event, Message, MembershipTypeOK
<1> HIDE DEF e
<1>2. \A m \in Node : Append(inbox[m], e) \in Seq(Message) /\ << >> \in Seq(Message)
  BY <1>1 DEF MembershipTypeOK
<1>3. inbox' = [m \in Node |-> IF m = n THEN << >>
                               ELSE IF m \in Running THEN Append(inbox[m], e) ELSE inbox[m]]
  BY DEF Announce, e
<1> QED BY <1>2, <1>3 DEF MembershipTypeOK

\* The sets, and how far the handlers are.
Places ==
  /\ nodeState \in [Node -> {"new", "listing", "probing", "up", "leaving", "adrift",
                             "gone"}]
  /\ registry \in SUBSET Node /\ beats \in SUBSET Node /\ lapsed \in SUBSET Node
  /\ active \in [Node -> SUBSET Node] /\ read \in [Node -> SUBSET Node]
  /\ dead \in [Node -> SUBSET Node]
  /\ scan \in [Node -> {"idle", "probing", "cleaning", "publishing"}]

ScansRun ==
  \A n \in Node : /\ scan[n] # "idle" => nodeState[n] \in {"up", "leaving"}
                  /\ dead[n] \subseteq read[n]

LEMMA HeadIsMessage ==
  ASSUME NEW q \in Seq(Message), q # << >>
  PROVE  Head(q).activeNodes \in SUBSET Node /\ Tail(q) \in Seq(Message)
<1>1. Head(q) \in Message /\ Tail(q) \in Seq(Message)
  OBVIOUS
<1> QED BY <1>1 DEF Message

LEMMA InboxStays ==
  ASSUME MembershipTypeOK, MembershipNext
  PROVE  inbox' \in [Node -> Seq(Message)]
<1>1. PICK n \in Node :
        \/ Register(n) \/ ListMembers(n) \/ JoinRing(n) \/ RegisterFails(n)
        \/ Deregister(n) \/ Announce(n) \/ SendHeartbeat(n) \/ Expire(n)
        \/ ScanList(n) \/ ScanProbe(n) \/ ScanClean(n) \/ ScanPublish(n)
        \/ HandleTopologyChange(n) \/ MissMessage(n) \/ CrashNode(n)
  BY DEF MembershipNext
<1>2. inbox \in [Node -> Seq(Message)]
  BY DEF MembershipTypeOK
<1>3. CASE JoinRing(n)
  <2>1. read[n] \cap beats \in SUBSET Node
    BY DEF MembershipTypeOK
  <2> QED BY <1>2, <1>3, <2>1, PublishTypes DEF JoinRing
<1>4. CASE ScanPublish(n)
  <2>1. PICK d \in dead[n] : Publish(Event(d, read[n] \ dead[n]))
    BY <1>4 DEF ScanPublish
  <2>2. d \in Node /\ read[n] \ dead[n] \in SUBSET Node
    BY DEF MembershipTypeOK
  <2> QED BY <1>2, <2>1, <2>2, PublishTypes
<1>5. CASE Announce(n)
  BY <1>5, AnnounceTypes
<1>6. CASE HandleTopologyChange(n) \/ MissMessage(n)
  <2>1. inbox[n] # << >> /\ inbox' = [inbox EXCEPT ![n] = Tail(@)]
    BY <1>6 DEF HandleTopologyChange, MissMessage
  <2>2. Tail(inbox[n]) \in Seq(Message)
    BY <1>2, <2>1, HeadIsMessage
  <2> QED BY <1>2, <2>1, <2>2
<1>7. CASE CrashNode(n)
  <2>1. << >> \in Seq(Message)
    OBVIOUS
  <2> QED BY <1>2, <1>7, <2>1 DEF CrashNode
<1>8. CASE \/ Register(n) \/ ListMembers(n) \/ RegisterFails(n) \/ Deregister(n)
           \/ SendHeartbeat(n) \/ Expire(n) \/ ScanList(n) \/ ScanProbe(n) \/ ScanClean(n)
  BY <1>2, <1>8 DEF Register, ListMembers, RegisterFails, Deregister, SendHeartbeat, Expire,
                    ScanList, ScanProbe, ScanClean
<1> QED BY <1>1, <1>3, <1>4, <1>5, <1>6, <1>7, <1>8

\* The history flag and the count of faults.
LEMMA FlagsStay ==
  ASSUME overlap \in BOOLEAN, faults \in 0..MaxFaults, MembershipNext
  PROVE  overlap' \in BOOLEAN /\ faults' \in 0..MaxFaults
<1>1. PICK n \in Node :
        \/ Register(n) \/ ListMembers(n) \/ JoinRing(n) \/ RegisterFails(n)
        \/ Deregister(n) \/ Announce(n) \/ SendHeartbeat(n) \/ Expire(n)
        \/ ScanList(n) \/ ScanProbe(n) \/ ScanClean(n) \/ ScanPublish(n)
        \/ HandleTopologyChange(n) \/ MissMessage(n) \/ CrashNode(n)
  BY DEF MembershipNext
<1>2. overlap' \in BOOLEAN
  <2>1. \/ overlap' = (overlap \/ ~Quiet) \/ overlap' = TRUE \/ overlap' = overlap
        \/ overlap' = (overlap \/ nodeState[n] \notin {"up", "adrift"} \/ scan[n] # "idle")
    BY <1>1, Zenon DEF Register, ListMembers, JoinRing, RegisterFails, Deregister, Announce,
       SendHeartbeat, Expire, ScanList, ScanProbe, ScanClean, ScanPublish,
       HandleTopologyChange, MissMessage, CrashNode
  <2> QED BY <2>1, Zenon
<1>3. faults' \in 0..MaxFaults
  <2>1. faults' = faults \/ Fault
    BY <1>1, Zenon DEF Register, ListMembers, JoinRing, RegisterFails, Deregister, Announce,
       SendHeartbeat, Expire, ScanList, ScanProbe, ScanClean, ScanPublish,
       HandleTopologyChange, MissMessage, CrashNode
  <2> QED BY <2>1, BoundsAssumption DEF Fault
<1> QED BY <1>2, <1>3

LEMMA PlacesStay ==
  ASSUME MembershipIInv, MembershipNext
  PROVE  Places' /\ ScansRun' /\ BeatsListed' /\ ReadStarted' /\ DeadLapsed' /\ ProbedFirst'
<1> DEFINE Goal == Places /\ ScansRun /\ BeatsListed /\ ReadStarted /\ DeadLapsed /\ ProbedFirst
<1>1. Goal
  BY DEF MembershipIInv, MembershipTypeOK, Places, ScansRun
<1> USE DEF Places, ScansRun, BeatsListed, ReadStarted, DeadLapsed, ProbedFirst, Stop
<1>2. ASSUME NEW n \in Node, Register(n) PROVE Goal'
  BY <1>1, <1>2 DEF Register
<1>3. ASSUME NEW n \in Node, ListMembers(n) PROVE Goal'
  BY <1>1, <1>3 DEF ListMembers
<1>4. ASSUME NEW n \in Node, JoinRing(n) PROVE Goal'
  BY <1>1, <1>4 DEF JoinRing
<1>5. ASSUME NEW n \in Node, RegisterFails(n) PROVE Goal'
  BY <1>1, <1>5 DEF RegisterFails
<1>6. ASSUME NEW n \in Node, Deregister(n) PROVE Goal'
  BY <1>1, <1>6 DEF Deregister
<1>7. ASSUME NEW n \in Node, Announce(n) PROVE Goal'
  BY <1>1, <1>7 DEF Announce
<1>8. ASSUME NEW n \in Node, SendHeartbeat(n) PROVE Goal'
  BY <1>1, <1>8 DEF SendHeartbeat
<1>9. ASSUME NEW n \in Node, Expire(n) PROVE Goal'
  BY <1>1, <1>9 DEF Expire
<1>10. ASSUME NEW n \in Node, ScanList(n) PROVE Goal'
  BY <1>1, <1>10 DEF ScanList
<1>11. ASSUME NEW n \in Node, ScanProbe(n) PROVE Goal'
  BY <1>1, <1>11 DEF ScanProbe
<1>12. ASSUME NEW n \in Node, ScanClean(n) PROVE Goal'
  BY <1>1, <1>12 DEF ScanClean
<1>13. ASSUME NEW n \in Node, ScanPublish(n) PROVE Goal'
  BY <1>1, <1>13 DEF ScanPublish
<1>14. ASSUME NEW n \in Node, HandleTopologyChange(n) PROVE Goal'
  <2>1. Head(inbox[n]).activeNodes \in SUBSET Node
    BY <1>14, HeadIsMessage DEF HandleTopologyChange, MembershipIInv, MembershipTypeOK
  <2> QED BY <1>1, <1>14, <2>1 DEF HandleTopologyChange
<1>15. ASSUME NEW n \in Node, MissMessage(n) \/ CrashNode(n) PROVE Goal'
  BY <1>1, <1>15, SMTT(30) DEF MissMessage, CrashNode
<1> QED
  BY <1>2, <1>3, <1>4, <1>5, <1>6, <1>7, <1>8, <1>9, <1>10, <1>11, <1>12, <1>13, <1>14,
     <1>15 DEF MembershipNext

LEMMA MembershipStays ==
  ASSUME MembershipIInv, [MembershipNext]_membershipVars
  PROVE  MembershipIInv'
<1>1. CASE UNCHANGED membershipVars
  BY <1>1 DEF membershipVars, MembershipIInv, MembershipTypeOK, BeatsListed, ReadStarted,
              DeadLapsed, ProbedFirst
<1>2. CASE MembershipNext
  <2>1. overlap' \in BOOLEAN /\ faults' \in 0..MaxFaults
    BY <1>2, FlagsStay DEF MembershipIInv, MembershipTypeOK
  <2>2. inbox' \in [Node -> Seq(Message)]
    BY <1>2, InboxStays DEF MembershipIInv
  <2> QED BY <1>2, <2>1, <2>2, PlacesStay
             DEF MembershipIInv, MembershipTypeOK, Places, ScansRun
<1> QED BY <1>1, <1>2

\* The variables keep their types, a scan belongs to a process that runs, and it
\* finds dead only what it has read.
THEOREM MembershipTypes == MembershipSpec => []MembershipTypeOK
<1>1. MembershipIInv => MembershipTypeOK
  BY DEF MembershipIInv
<1> QED BY <1>1, MembershipStarts, MembershipStays, PTL DEF MembershipSpec

\* register(), deregister(), the timers and the scan of every node: a process
\* that is up leaves pg:nodes only if its heartbeat key expired at some time.
THEOREM NobodyUnlisted == MembershipSpec => []OnlyLapsedUnlisted
<1>1. MembershipIInv => OnlyLapsedUnlisted
  BY DEF MembershipIInv, BeatsListed, OnlyLapsedUnlisted
<1> QED BY <1>1, MembershipStarts, MembershipStays, PTL DEF MembershipSpec

---------------------------------------------------------------------------
(* ClusterMembership: the rings agree.  What follows is about the messages *)
(* on their way to a node as a set.                                        *)

Mail == [n \in Node |-> {inbox[n][i] : i \in DOMAIN inbox[n]}]

\* A node whose key never lapsed and that is listed has its key.
BeatsKept == registry \ lapsed \subseteq beats

\* A process that is not running has no messages; one that leaves is off the list.
Unreached ==
  \A n \in Node : /\ nodeState[n] \in {"new", "gone"} => Mail[n] = {}
                  /\ nodeState[n] = "leaving" => n \notin registry

\* The nodes that a message may carry, and those that n may hold for active: its
\* own id stays there when another node has unlisted it.
Fits(nodes) == registry \ lapsed \subseteq nodes /\ nodes \subseteq registry
View(n) == registry \ lapsed \subseteq active[n] /\ active[n] \ {n} \subseteq registry

Changing(n) == nodeState[n] \in {"listing", "probing", "leaving"}

\* A message that n takes over is in its inbox, or still to be published.
NewsDue(n) ==
  \/ \E e \in Mail[n] : e.nodeId # n
  \/ \E b \in Node \ {n} : Changing(b)
  \/ \E b \in Node : scan[b] = "publishing" /\ \E d \in dead[b] : d # n

\* There is one change at a time, and it begins with empty inboxes.
OneChange ==
  /\ \A n \in Node : nodeState[n] # "adrift" /\ (Changing(n) => scan[n] = "idle")
  /\ \A a, b \in Node : Busy(a) /\ Busy(b) => a = b
  /\ \A a, n \in Node : Busy(a) /\ scan[a] # "publishing" => Mail[n] = {}

\* What a node has read is what is listed.
ReadCurrent ==
  \A n \in Node :
    /\ nodeState[n] = "probing" \/ scan[n] \in {"probing", "cleaning"} => read[n] = registry
    /\ scan[n] = "publishing" => read[n] \ dead[n] = registry
    /\ scan[n] \in {"cleaning", "publishing"} => dead[n] # {}

\* A node's ring agrees with the list, or a message will make it agree.
AllInformed ==
  /\ \A n \in Node : /\ nodeState[n] = "up" => View(n) \/ NewsDue(n)
                     /\ nodeState[n] = "leaving" => View(n)
  /\ \A n \in Node : \A e \in Mail[n] : Fits(e.activeNodes)

RingIInv == BeatsKept /\ Unreached /\ (~overlap => OneChange /\ ReadCurrent /\ AllInformed)

\* What the actions do to the messages.
LEMMA MailRests == UNCHANGED inbox => Mail' = Mail
BY DEF Mail

LEMMA AppendedSet ==
  ASSUME NEW q \in Seq(Message), NEW e \in Message
  PROVE  {Append(q, e)[i] : i \in DOMAIN Append(q, e)} = {q[i] : i \in DOMAIN q} \cup {e}
<1> DEFINE p == Append(q, e)
<1>1. /\ Len(q) \in Nat /\ DOMAIN q = 1..Len(q) /\ DOMAIN p = 1..(Len(q) + 1)
      /\ p[Len(q) + 1] = e /\ \A i \in 1..Len(q) : p[i] = q[i]
  OBVIOUS
<1>2. DOMAIN p = DOMAIN q \cup {Len(q) + 1} /\ \A i \in DOMAIN q : p[i] = q[i]
  BY <1>1
<1> HIDE DEF p
<1>3. {p[i] : i \in DOMAIN p} = {q[i] : i \in DOMAIN q} \cup {e}
  BY <1>1, <1>2
<1> QED BY <1>3 DEF p

LEMMA MailAppended ==
  ASSUME inbox \in [Node -> Seq(Message)], NEW e \in Message, NEW n \in Node
  PROVE  {Append(inbox[n], e)[i] : i \in DOMAIN Append(inbox[n], e)} = Mail[n] \cup {e}
<1>1. inbox[n] \in Seq(Message)
  OBVIOUS
<1>2. {Append(inbox[n], e)[i] : i \in DOMAIN Append(inbox[n], e)}
        = {inbox[n][i] : i \in DOMAIN inbox[n]} \cup {e}
  BY <1>1, AppendedSet
<1> QED BY <1>2 DEF Mail

LEMMA MailPublished ==
  ASSUME inbox \in [Node -> Seq(Message)], NEW m \in Node, NEW nodes \in SUBSET Node,
         Publish(Event(m, nodes))
  PROVE  Mail' = [n \in Node |-> IF n \in Running THEN Mail[n] \cup {Event(m, nodes)}
                                 ELSE Mail[n]]
<1> DEFINE e == Event(m, nodes)
<1>1. e \in Message
  BY DEF Event, Message
<1> HIDE DEF e
<1>2. inbox' = [n \in Node |-> IF n \in Running THEN Append(inbox[n], e) ELSE inbox[n]]
  BY DEF Publish, e
<1>3. \A n \in Node : {Append(inbox[n], e)[i] : i \in DOMAIN Append(inbox[n], e)} = Mail[n] \cup {e}
  BY <1>1, MailAppended
<1>4. ASSUME NEW n \in Node PROVE Mail'[n] = IF n \in Running THEN Mail[n] \cup {e} ELSE Mail[n]
  BY <1>2, <1>3 DEF Mail
<1> QED BY <1>4 DEF Mail, e

LEMMA MailAnnounced ==
  ASSUME MembershipTypeOK, NEW n \in Node, Announce(n)
  PROVE  Mail' = [m \in Node |-> IF m = n THEN {}
                                 ELSE IF m \in Running THEN Mail[m] \cup {Event(n, active[n] \ {n})}
                                 ELSE Mail[m]]
<1> DEFINE e == Event(n, active[n] \ {n})
<1>1. e \in Message
  BY DEF Event, Message, MembershipTypeOK
<1> HIDE DEF e
<1>2. inbox' = [m \in Node |-> IF m = n THEN << >>
                              ELSE IF m \in Running THEN Append(inbox[m], e) ELSE inbox[m]]
  BY DEF Announce, e
<1>3. \A m \in Node : {Append(inbox[m], e)[i] : i \in DOMAIN Append(inbox[m], e)} = Mail[m] \cup {e}
  BY <1>1, MailAppended DEF MembershipTypeOK
<1>4. ASSUME NEW m \in Node
      PROVE  Mail'[m] = IF m = n THEN {} ELSE IF m \in Running THEN Mail[m] \cup {e} ELSE Mail[m]
  <2>1. CASE m = n
    <3>1. inbox'[m] = << >>
      BY <1>2, <2>1
    <3> QED BY <2>1, <3>1 DEF Mail
  <2>2. CASE m # n
    BY <1>2, <1>3, <2>2 DEF Mail
  <2> QED BY <2>1, <2>2
<1> QED BY <1>4 DEF Mail, e

LEMMA MailTaken ==
  ASSUME inbox \in [Node -> Seq(Message)], NEW n \in Node, inbox[n] # << >>,
         inbox' = [inbox EXCEPT ![n] = Tail(@)]
  PROVE  /\ Head(inbox[n]) \in Mail[n]
         /\ \A m \in Node \ {n} : Mail'[m] = Mail[m]
         /\ Mail'[n] \subseteq Mail[n] /\ Mail[n] \subseteq Mail'[n] \cup {Head(inbox[n])}
<1> DEFINE q == inbox[n]
           p == Tail(inbox[n])
<1>1. q \in Seq(Message) /\ q # << >> /\ inbox'[n] = p /\ \A m \in Node \ {n} : inbox'[m] = inbox[m]
  OBVIOUS
<1>2. /\ Len(q) \in Nat \ {0} /\ DOMAIN q = 1..Len(q) /\ Head(q) = q[1]
      /\ DOMAIN p = 1..(Len(q) - 1) /\ \A i \in 1..(Len(q) - 1) : p[i] = q[i + 1]
  BY <1>1
<1>3. /\ 1 \in DOMAIN q /\ \A i \in DOMAIN p : i + 1 \in DOMAIN q /\ p[i] = q[i + 1]
      /\ \A i \in DOMAIN q : i = 1 \/ (i - 1 \in DOMAIN p /\ p[i - 1] = q[i])
  BY <1>2
<1> HIDE DEF p, q
<1>4. Mail[n] = {q[i] : i \in DOMAIN q} /\ Mail'[n] = {p[i] : i \in DOMAIN p}
  BY <1>1 DEF Mail, q
<1>5. \A m \in Node \ {n} : Mail'[m] = Mail[m]
  BY <1>1 DEF Mail
<1> QED BY <1>2, <1>3, <1>4, <1>5 DEF q

LEMMA MailCleared ==
  ASSUME inbox \in [Node -> Seq(Message)], NEW n \in Node, inbox' = [inbox EXCEPT ![n] = << >>]
  PROVE  Mail' = [Mail EXCEPT ![n] = {}]
<1>1. inbox'[n] = << >> /\ \A m \in Node \ {n} : inbox'[m] = inbox[m]
  OBVIOUS
<1>2. Mail'[n] = {} /\ \A m \in Node \ {n} : Mail'[m] = Mail[m]
  BY <1>1 DEF Mail
<1> QED BY <1>2 DEF Mail

LEMMA RingStarts == MembershipInit => RingIInv
<1> SUFFICES ASSUME MembershipInit PROVE RingIInv
  OBVIOUS
<1>1. \A n \in Node : Mail[n] = {}
  BY DEF MembershipInit, Mail
<1>2. BeatsKept /\ Unreached
  BY <1>1 DEF MembershipInit, BeatsKept, Unreached
<1>3. OneChange /\ ReadCurrent /\ AllInformed
  BY <1>1 DEF MembershipInit, OneChange, ReadCurrent, AllInformed, Busy, Changing
<1> QED BY <1>2, <1>3 DEF RingIInv

LEMMA AtRest ==
  ASSUME MembershipTypeOK, Unreached, OneChange, AllInformed, Quiet
  PROVE  \A n \in Node : ~Busy(n) /\ Mail[n] = {} /\ (nodeState[n] = "up" => View(n))
<1>1. ASSUME NEW n \in Node PROVE ~Busy(n) /\ Mail[n] = {}
  <2>1. CASE n \in Running
    BY <2>1 DEF Quiet, Busy, Mail, OneChange
  <2>2. CASE n \notin Running
    <3>1. nodeState[n] \in {"new", "gone"}
      BY <2>2 DEF Running
    <3> QED BY <3>1 DEF Unreached, Busy, MembershipTypeOK
  <2> QED BY <2>1, <2>2
<1>2. ASSUME NEW n \in Node, nodeState[n] = "up" PROVE View(n)
  <2>1. ~NewsDue(n)
    BY <1>1 DEF NewsDue, Busy, Changing
  <2> QED BY <1>2, <2>1 DEF AllInformed
<1> QED BY <1>1, <1>2

\* The list and the keys, whatever runs into what.
LEMMA ListStays ==
  ASSUME MembershipIInv, BeatsKept, Unreached, MembershipNext
  PROVE  BeatsKept' /\ Unreached'
<1>0. MembershipTypeOK /\ ReadStarted /\ inbox \in [Node -> Seq(Message)] /\ Mail \in [Node -> SUBSET Message]
  <2>1. \A n \in Node : inbox[n] \in Seq(Message)
    BY DEF MembershipIInv, MembershipTypeOK
  <2>2. \A n \in Node : \A i \in DOMAIN inbox[n] : inbox[n][i] \in Message
    BY <2>1
  <2> QED BY <2>2 DEF MembershipIInv, MembershipTypeOK, Mail
<1> USE DEF MembershipTypeOK, BeatsKept, Unreached, Stop, Running
<1>1. ASSUME NEW n \in Node, Register(n) \/ ListMembers(n) \/ RegisterFails(n) \/ Deregister(n)
                             \/ SendHeartbeat(n) \/ Expire(n) \/ ScanList(n) \/ ScanProbe(n)
                             \/ ScanClean(n)
      PROVE  BeatsKept' /\ Unreached'
  <2>1. Mail' = Mail
    BY <1>1, MailRests DEF Register, ListMembers, RegisterFails, Deregister, SendHeartbeat, Expire,
                           ScanList, ScanProbe, ScanClean
  <2>2. CASE Register(n)
    BY <1>0, <2>1, <2>2 DEF Register
  <2>3. CASE ListMembers(n) \/ RegisterFails(n)
    <3>1. \/ nodeState' = [nodeState EXCEPT ![n] = "probing"]
          \/ nodeState' = [nodeState EXCEPT ![n] = "adrift"]
      BY <2>3 DEF ListMembers, RegisterFails
    <3>2. nodeState[n] \in {"listing", "probing"} /\ UNCHANGED <<registry, beats, lapsed>>
      BY <2>3 DEF ListMembers, RegisterFails
    <3> QED BY <1>0, <2>1, <3>1, <3>2
  <2>4. CASE Deregister(n)
    BY <1>0, <2>1, <2>4 DEF Deregister
  <2>5. CASE SendHeartbeat(n) \/ Expire(n)
    BY <1>0, <2>1, <2>5 DEF SendHeartbeat, Expire
  <2>6. CASE ScanList(n) \/ ScanProbe(n) \/ ScanClean(n)
    BY <1>0, <2>1, <2>6 DEF ScanList, ScanProbe, ScanClean
  <2> QED BY <1>1, <2>2, <2>3, <2>4, <2>5, <2>6
<1>2. ASSUME NEW n \in Node, JoinRing(n)
      PROVE  BeatsKept' /\ Unreached'
  <2>1. Mail' = [m \in Node |-> IF m \in Running THEN Mail[m] \cup {Event(n, read[n] \cap beats)}
                                ELSE Mail[m]]
    <3>1. read[n] \cap beats \in SUBSET Node
      BY <1>0
    <3> QED BY <1>0, <1>2, <3>1, MailPublished DEF JoinRing
  <2> QED BY <1>0, <1>2, <2>1 DEF JoinRing
<1>3. ASSUME NEW n \in Node, Announce(n)
      PROVE  BeatsKept' /\ Unreached'
  <2>1. Mail' = [m \in Node |-> IF m = n THEN {}
                                ELSE IF m \in Running THEN Mail[m] \cup {Event(n, active[n] \ {n})}
                                ELSE Mail[m]]
    BY <1>0, <1>3, MailAnnounced
  <2> QED BY <1>0, <1>3, <2>1 DEF Announce
<1>4. ASSUME NEW n \in Node, ScanPublish(n)
      PROVE  BeatsKept' /\ Unreached'
  <2>1. PICK d \in dead[n] : Publish(Event(d, read[n] \ dead[n]))
    BY <1>4 DEF ScanPublish
  <2>2. d \in Node /\ read[n] \ dead[n] \in SUBSET Node
    BY <1>0, <2>1
  <2>3. Mail' = [m \in Node |-> IF m \in Running THEN Mail[m] \cup {Event(d, read[n] \ dead[n])}
                                ELSE Mail[m]]
    BY <1>0, <2>1, <2>2, MailPublished
  <2> QED BY <1>0, <1>4, <2>3 DEF ScanPublish
<1>5. ASSUME NEW n \in Node, HandleTopologyChange(n) \/ MissMessage(n)
      PROVE  BeatsKept' /\ Unreached'
  <2>1. inbox[n] # << >> /\ inbox' = [inbox EXCEPT ![n] = Tail(@)]
        /\ UNCHANGED <<nodeState, registry, beats, lapsed>>
    BY <1>5 DEF HandleTopologyChange, MissMessage
  <2>2. \A m \in Node : Mail'[m] \subseteq Mail[m]
    BY <1>0, <2>1, MailTaken
  <2> QED BY <1>0, <2>1, <2>2
<1>6. ASSUME NEW n \in Node, CrashNode(n)
      PROVE  BeatsKept' /\ Unreached'
  <2>1. Mail' = [Mail EXCEPT ![n] = {}]
    BY <1>0, <1>6, MailCleared DEF CrashNode
  <2> QED BY <1>0, <1>6, <2>1 DEF CrashNode
<1> QED BY <1>1, <1>2, <1>3, <1>4, <1>5, <1>6 DEF MembershipNext

\* The types that the steps below need.
Typed ==
  /\ nodeState \in [Node -> {"new", "listing", "probing", "up", "leaving", "adrift", "gone"}]
  /\ registry \in SUBSET Node /\ beats \in SUBSET Node /\ lapsed \in SUBSET Node
  /\ active \in [Node -> SUBSET Node] /\ read \in [Node -> SUBSET Node]
  /\ dead \in [Node -> SUBSET Node] /\ Mail \in [Node -> SUBSET Message]
  /\ scan \in [Node -> {"idle", "probing", "cleaning", "publishing"}]
  /\ \A n \in Node : /\ scan[n] # "idle" => nodeState[n] \in {"up", "leaving"}
                     /\ dead[n] \subseteq read[n]

Informed == OneChange /\ ReadCurrent /\ AllInformed

LEMMA TypedMail == MembershipTypeOK => Typed
<1> SUFFICES ASSUME MembershipTypeOK PROVE Typed
  OBVIOUS
<1>1. \A n \in Node : inbox[n] \in Seq(Message)
  BY DEF MembershipTypeOK
<1>2. \A n \in Node : \A i \in DOMAIN inbox[n] : inbox[n][i] \in Message
  BY <1>1
<1>3. Mail \in [Node -> SUBSET Message]
  BY <1>2 DEF Mail
<1> QED BY <1>3 DEF Typed, MembershipTypeOK

\* A change begins at rest.
LEMMA ChangeBegins ==
  ASSUME MembershipTypeOK, Unreached, Informed, Quiet, NEW n \in Node,
         Register(n) \/ Deregister(n) \/ ScanList(n), Unreached'
  PROVE  Informed'
<1>1. Typed /\ Mail' = Mail
  BY TypedMail, MailRests DEF Register, Deregister, ScanList
<1>2. \A m \in Node : ~Busy(m) /\ Mail[m] = {} /\ (nodeState[m] = "up" => View(m))
  BY AtRest DEF Informed
<1>3. \A m \in Node : nodeState[m] \in {"new", "up", "gone"} /\ scan[m] = "idle"
  BY <1>1, <1>2 DEF Busy, Informed, OneChange, Typed
<1>4. CASE Register(n)
  <2>1. OneChange'
    BY <1>1, <1>2, <1>3, <1>4 DEF Register, OneChange, Busy, Changing, Typed
  <2>2. ReadCurrent'
    BY <1>1, <1>3, <1>4 DEF Register, ReadCurrent, Typed
  <2>3. AllInformed'
    BY <1>1, <1>2, <1>3, <1>4 DEF Register, AllInformed, NewsDue, Changing, Typed
  <2> QED BY <2>1, <2>2, <2>3 DEF Informed
<1>5. CASE Deregister(n)
  <2>1. OneChange'
    BY <1>1, <1>2, <1>3, <1>5 DEF Deregister, OneChange, Busy, Changing, Typed
  <2>2. ReadCurrent'
    BY <1>1, <1>3, <1>5 DEF Deregister, ReadCurrent, Typed
  <2>3. nodeState[n] = "up"
    BY <1>3, <1>5 DEF Deregister
  <2>4. View(n)'
    BY <1>1, <1>2, <1>5, <2>3 DEF Deregister, View, Typed
  <2>5. \A m \in Node \ {n} : NewsDue(m)'
    BY <1>1, <1>5 DEF Deregister, NewsDue, Changing, Typed
  <2>6. \A m \in Node \ {n} : nodeState'[m] # "leaving"
    BY <1>1, <1>3, <1>5 DEF Deregister, Typed
  <2>7. AllInformed'
    BY <1>1, <1>2, <1>5, <2>4, <2>5, <2>6 DEF Deregister, AllInformed
  <2> QED BY <2>1, <2>2, <2>7 DEF Informed
<1>6. CASE ScanList(n)
  <2>1. OneChange'
    BY <1>1, <1>2, <1>3, <1>6 DEF ScanList, OneChange, Busy, Changing, Typed
  <2>2. ReadCurrent'
    BY <1>1, <1>3, <1>6 DEF ScanList, ReadCurrent, Typed
  <2>3. AllInformed'
    BY <1>1, <1>2, <1>3, <1>6 DEF ScanList, AllInformed, View, Typed
  <2> QED BY <2>1, <2>2, <2>3 DEF Informed
<1> QED BY <1>4, <1>5, <1>6

\* What a node does by itself while its change is under way.
LEMMA ChangeGoesOn ==
  ASSUME MembershipTypeOK, BeatsKept, Unreached, Informed, NEW n \in Node,
         ListMembers(n) \/ SendHeartbeat(n) \/ Expire(n) \/ ScanProbe(n) \/ ScanClean(n)
  PROVE  Informed'
<1>1. Typed /\ Mail' = Mail
  BY TypedMail, MailRests DEF ListMembers, SendHeartbeat, Expire, ScanProbe, ScanClean
<1>2. OneChange /\ ReadCurrent /\ AllInformed
  BY DEF Informed
<1>3. CASE ListMembers(n)
  <2>1. OneChange'
    BY <1>1, <1>2, <1>3 DEF ListMembers, OneChange, Busy, Changing, Typed
  <2>2. ReadCurrent'
    BY <1>1, <1>2, <1>3 DEF ListMembers, ReadCurrent, OneChange, Changing, Typed
  <2>3. \A m \in Node : (Changing(m) => Changing(m)') /\ (nodeState'[m] = "up" => nodeState[m] = "up")
                        /\ (nodeState'[m] = "leaving" => nodeState[m] = "leaving")
    BY <1>1, <1>3 DEF ListMembers, Changing, Typed
  <2>4. AllInformed'
    BY <1>1, <1>2, <1>3, <2>3 DEF ListMembers, AllInformed, NewsDue, View, Fits
  <2> QED BY <2>1, <2>2, <2>4 DEF Informed
<1>4. CASE SendHeartbeat(n) \/ Expire(n)
  <2>1. /\ UNCHANGED <<nodeState, registry, active, read, dead, scan>>
        /\ lapsed \subseteq lapsed'
    BY <1>4 DEF SendHeartbeat, Expire
  <2>2. OneChange' /\ ReadCurrent'
    BY <1>1, <1>2, <2>1 DEF OneChange, ReadCurrent, Busy, Changing
  <2>3. \A m \in Node : (View(m) => View(m)') /\ (NewsDue(m) => NewsDue(m)')
    BY <1>1, <2>1 DEF View, NewsDue, Changing
  <2>4. \A nodes \in SUBSET Node : Fits(nodes) => Fits(nodes)'
    BY <2>1 DEF Fits
  <2>5. \A m \in Node : \A e \in Mail[m] : e.activeNodes \in SUBSET Node
    BY <1>1 DEF Typed, Message
  <2>6. AllInformed'
    BY <1>1, <1>2, <2>1, <2>3, <2>4, <2>5 DEF AllInformed
  <2> QED BY <2>2, <2>6 DEF Informed
<1>5. CASE ScanProbe(n)
  <2>1. /\ scan[n] = "probing" /\ UNCHANGED <<nodeState, registry, active, lapsed>>
        /\ dead' = [dead EXCEPT ![n] = read[n] \ beats]
        /\ scan' = [scan EXCEPT ![n] = IF read[n] \ beats = {} THEN "idle" ELSE "cleaning"]
        /\ read' = [read EXCEPT ![n] = IF read[n] \ beats = {} THEN {} ELSE @]
    BY <1>5 DEF ScanProbe
  <2>2. OneChange'
    BY <1>1, <1>2, <2>1 DEF OneChange, Busy, Changing, Typed
  <2>3. ReadCurrent'
    <3>1. nodeState[n] # "probing" /\ read[n] = registry
      BY <1>1, <1>2, <2>1 DEF ReadCurrent, Typed
    <3> QED BY <1>1, <1>2, <2>1, <3>1 DEF ReadCurrent, Typed
  <2>4. \A m \in Node : NewsDue(m) => NewsDue(m)'
    BY <1>1, <2>1 DEF NewsDue, Changing, Typed
  <2>5. AllInformed'
    BY <1>1, <1>2, <2>1, <2>4 DEF AllInformed, View, Fits
  <2> QED BY <2>2, <2>3, <2>5 DEF Informed
<1>6. CASE ScanClean(n)
  <2>1. /\ scan[n] = "cleaning" /\ UNCHANGED <<nodeState, read, dead, lapsed>>
        /\ registry' = registry \ dead[n]
        /\ active' = [active EXCEPT ![n] = read[n] \ dead[n]]
        /\ scan' = [scan EXCEPT ![n] = "publishing"]
    BY <1>6 DEF ScanClean
  <2>2. OneChange'
    BY <1>1, <1>2, <2>1 DEF OneChange, Busy, Changing, Typed
  <2>3. read[n] = registry /\ dead[n] # {} /\ \A m \in Node : Mail[m] = {} /\ (Busy(m) => m = n)
    BY <1>2, <2>1 DEF ReadCurrent, OneChange, Busy
  <2>4. ReadCurrent'
    BY <1>1, <1>2, <2>1, <2>3 DEF ReadCurrent, Busy, Typed
  <2>5. nodeState[n] \in {"up", "leaving"} /\ ~Changing(n)
    BY <1>1, <1>2, <2>1 DEF Typed, OneChange
  <2>6. \A m \in Node : nodeState[m] # "leaving" /\ (nodeState[m] = "up" => View(m))
    <3>1. \A m \in Node : ~NewsDue(m) /\ nodeState[m] # "leaving"
      BY <2>1, <2>3, <2>5 DEF NewsDue, Busy, Changing
    <3> QED BY <1>2, <3>1 DEF AllInformed
  <2>7. ASSUME NEW m \in Node, nodeState[m] = "up" PROVE (View(m) \/ NewsDue(m))'
    <3>1. CASE m = n
      BY <1>1, <2>1, <2>3, <3>1 DEF View, Typed
    <3>2. CASE m # n /\ dead[n] = {m}
      BY <1>1, <2>1, <2>6, <2>7, <3>2 DEF View, Typed
    <3>3. CASE m # n /\ dead[n] # {m}
      <4>1. \E d \in dead[n] : d # m
        BY <2>3, <3>3
      <4>2. NewsDue(m)'
        BY <1>1, <2>1, <4>1 DEF NewsDue, Typed
      <4> QED BY <4>2
    <3> QED BY <3>1, <3>2, <3>3
  <2>8. AllInformed'
    BY <1>1, <2>1, <2>3, <2>6, <2>7 DEF AllInformed
  <2> QED BY <2>2, <2>4, <2>8 DEF Informed
<1> QED BY <1>3, <1>4, <1>5, <1>6

\* What is published is what is listed.
LEMMA ChangePublished ==
  ASSUME MembershipTypeOK, BeatsKept, Unreached, Informed, NEW n \in Node,
         JoinRing(n) \/ Announce(n) \/ ScanPublish(n)
  PROVE  Informed'
<1>1. Typed /\ inbox \in [Node -> Seq(Message)]
  BY TypedMail DEF MembershipTypeOK
<1>2. OneChange /\ ReadCurrent /\ AllInformed
  BY DEF Informed
<1>3. CASE JoinRing(n)
  <2> DEFINE joined == read[n] \cap beats
  <2>1. /\ nodeState[n] = "probing" /\ nodeState' = [nodeState EXCEPT ![n] = "up"]
        /\ active' = [active EXCEPT ![n] = joined]
        /\ Publish(Event(n, joined)) /\ read' = [read EXCEPT ![n] = {}]
        /\ UNCHANGED <<registry, dead, scan, lapsed>>
    BY <1>3 DEF JoinRing
  <2>2. read[n] = registry /\ \A m \in Node : Mail[m] = {} /\ (Busy(m) => m = n)
    BY <1>1, <1>2, <2>1 DEF ReadCurrent, OneChange, Busy, Typed, Changing
  <2>3. joined \in SUBSET Node /\ registry \ lapsed \subseteq joined /\ joined \subseteq registry
    BY <1>1, <2>2 DEF BeatsKept, Typed
  <2> HIDE DEF joined
  <2>4. Mail' = [m \in Node |-> IF m \in Running THEN Mail[m] \cup {Event(n, joined)} ELSE Mail[m]]
    BY <1>1, <2>1, <2>3, MailPublished
  <2>5. OneChange'
    BY <1>1, <1>2, <2>1, <2>2 DEF OneChange, Busy, Changing, Typed
  <2>6. ReadCurrent'
    BY <1>1, <1>2, <2>1, <2>2 DEF ReadCurrent, OneChange, Busy, Changing, Typed
  <2>7. \A m \in Node : nodeState'[m] # "leaving" /\ (nodeState'[m] = "up" => m \in Running)
    BY <1>1, <2>1, <2>2 DEF Busy, Running, Typed
  <2>8. ASSUME NEW m \in Node, nodeState'[m] = "up" PROVE (View(m) \/ NewsDue(m))'
    <3>1. CASE m = n
      BY <1>1, <2>1, <2>3, <3>1 DEF View, Typed
    <3>2. CASE m # n
      <4>1. Event(n, joined) \in Mail'[m] /\ Event(n, joined).nodeId # m
        BY <2>4, <2>7, <2>8, <3>2 DEF Event
      <4>2. NewsDue(m)'
        BY <4>1 DEF NewsDue
      <4> QED BY <4>2
    <3> QED BY <3>1, <3>2
  <2>9. \A m \in Node : \A e \in Mail'[m] : e.activeNodes = joined
    BY <2>2, <2>4 DEF Event
  <2>10. AllInformed'
    BY <2>1, <2>3, <2>7, <2>8, <2>9 DEF AllInformed, Fits
  <2> QED BY <2>5, <2>6, <2>10 DEF Informed
<1>4. CASE Announce(n)
  <2> DEFINE left == active[n] \ {n}
  <2>1. /\ nodeState[n] = "leaving" /\ nodeState' = [nodeState EXCEPT ![n] = "gone"]
        /\ active' = [active EXCEPT ![n] = {}] /\ scan' = [scan EXCEPT ![n] = "idle"]
        /\ read' = [read EXCEPT ![n] = {}] /\ dead' = [dead EXCEPT ![n] = {}]
        /\ UNCHANGED <<registry, lapsed>>
    BY <1>4 DEF Announce, Stop
  <2>2. View(n) /\ n \notin registry /\ \A m \in Node : Mail[m] = {} /\ (Busy(m) => m = n)
    BY <1>1, <1>2, <2>1 DEF AllInformed, Unreached, OneChange, Busy, Typed, Changing
  <2>3. registry \ lapsed \subseteq left /\ left \subseteq registry
    BY <2>2 DEF View
  <2>4. Mail' = [m \in Node |-> IF m = n THEN {}
                                ELSE IF m \in Running THEN Mail[m] \cup {Event(n, left)} ELSE Mail[m]]
    BY <1>4, MailAnnounced
  <2> HIDE DEF left
  <2>5. OneChange'
    BY <1>1, <1>2, <2>1, <2>2 DEF OneChange, Busy, Changing, Typed
  <2>6. ReadCurrent'
    BY <1>1, <1>2, <2>1, <2>2 DEF ReadCurrent, OneChange, Busy, Changing, Typed
  <2>7. \A m \in Node : nodeState'[m] # "leaving" /\ (nodeState'[m] = "up" => m \in Running /\ m # n)
    BY <1>1, <2>1, <2>2 DEF Busy, Running, Typed
  <2>8. ASSUME NEW m \in Node, nodeState'[m] = "up" PROVE NewsDue(m)'
    <3>1. Event(n, left) \in Mail'[m] /\ Event(n, left).nodeId # m
      BY <2>4, <2>7, <2>8 DEF Event
    <3> QED BY <3>1 DEF NewsDue
  <2>9. \A m \in Node : \A e \in Mail'[m] : e.activeNodes = left
    BY <2>2, <2>4 DEF Event
  <2>10. AllInformed'
    BY <2>1, <2>3, <2>7, <2>8, <2>9 DEF AllInformed, Fits
  <2> QED BY <2>5, <2>6, <2>10 DEF Informed
<1>5. CASE ScanPublish(n)
  <2> DEFINE alive == read[n] \ dead[n]
  <2>1. PICK d \in dead[n] :
          /\ Publish(Event(d, alive)) /\ dead' = [dead EXCEPT ![n] = dead[n] \ {d}]
          /\ read' = [read EXCEPT ![n] = IF dead[n] \ {d} = {} THEN {} ELSE read[n] \ {d}]
          /\ scan' = [scan EXCEPT ![n] = IF dead[n] \ {d} = {} THEN "idle" ELSE @]
    BY <1>5 DEF ScanPublish
  <2>2. scan[n] = "publishing" /\ UNCHANGED <<nodeState, registry, active, lapsed>>
    BY <1>5 DEF ScanPublish
  <2>3. alive = registry /\ alive \in SUBSET Node /\ d \in Node
        /\ \A m \in Node : Busy(m) => m = n
    BY <1>1, <1>2, <2>1, <2>2 DEF ReadCurrent, OneChange, Busy, Typed
  <2>4. nodeState[n] \in {"up", "leaving"} /\ ~Changing(n)
    BY <1>1, <1>2, <2>2 DEF Typed, OneChange
  <2>5. (dead[n] \ {d} # {} => (read[n] \ {d}) \ (dead[n] \ {d}) = registry)
    BY <2>1, <2>3
  <2> HIDE DEF alive
  <2>6. Mail' = [m \in Node |-> IF m \in Running THEN Mail[m] \cup {Event(d, alive)} ELSE Mail[m]]
    BY <1>1, <2>1, <2>3, MailPublished
  <2>7. OneChange'
    BY <1>1, <1>2, <2>1, <2>2, <2>3, <2>4 DEF OneChange, Busy, Changing, Typed
  <2>8. ReadCurrent'
    BY <1>1, <1>2, <2>1, <2>2, <2>3, <2>4, <2>5 DEF ReadCurrent, OneChange, Busy, Changing, Typed
  <2>9. ASSUME NEW m \in Node, m \in Running, NewsDue(m) PROVE NewsDue(m)'
    <3>1. CASE \E e \in Mail[m] : e.nodeId # m
      BY <2>6, <2>9, <3>1 DEF NewsDue
    <3>2. CASE \E b \in Node \ {m} : Changing(b)
      BY <2>2, <3>2 DEF NewsDue, Changing
    <3>3. CASE \E b \in Node : scan[b] = "publishing" /\ \E x \in dead[b] : x # m
      <4>1. PICK x \in dead[n] : x # m
        BY <2>3, <3>3 DEF Busy
      <4>2. CASE x = d
        <5>1. Event(d, alive) \in Mail'[m] /\ Event(d, alive).nodeId # m
          BY <2>6, <2>9, <4>1, <4>2 DEF Event
        <5> QED BY <5>1 DEF NewsDue
      <4>3. CASE x # d
        <5>1. scan'[n] = "publishing" /\ x \in dead'[n]
          BY <1>1, <2>1, <2>2, <4>1, <4>3 DEF Typed
        <5> QED BY <4>1, <5>1 DEF NewsDue
      <4> QED BY <4>2, <4>3
    <3> QED BY <2>9, <3>1, <3>2, <3>3 DEF NewsDue
  <2>10. \A m \in Node : (View(m) => View(m)')
    BY <2>2 DEF View
  <2>11. \A m \in Node : \A e \in Mail'[m] : e \in Mail[m] \/ e.activeNodes = registry
    BY <2>3, <2>6 DEF Event
  <2>12. AllInformed'
    <3>1. \A m \in Node : nodeState[m] = "up" => m \in Running
      BY DEF Running
    <3>2. \A m \in Node : /\ nodeState[m] = "up" => (View(m) \/ NewsDue(m))'
                          /\ nodeState[m] = "leaving" => View(m)'
      BY <1>2, <2>9, <2>10, <3>1 DEF AllInformed
    <3>3. \A m \in Node : \A e \in Mail'[m] : Fits(e.activeNodes)
      BY <1>2, <2>11 DEF AllInformed, Fits
    <3> QED BY <2>2, <3>2, <3>3 DEF AllInformed, Fits
  <2> QED BY <2>7, <2>8, <2>12 DEF Informed
<1> QED BY <1>3, <1>4, <1>5

\* A message is taken over; an idle process is killed.
LEMMA NewsArrives ==
  ASSUME MembershipTypeOK, Informed, NEW n \in Node, HandleTopologyChange(n)
  PROVE  Informed'
<1>1. Typed /\ inbox \in [Node -> Seq(Message)]
  BY TypedMail DEF MembershipTypeOK
<1>2. OneChange /\ ReadCurrent /\ AllInformed
  BY DEF Informed
<1> DEFINE e == Head(inbox[n])
<1>3. /\ inbox[n] # << >> /\ inbox' = [inbox EXCEPT ![n] = Tail(@)]
      /\ active' = (IF e.nodeId = n THEN active ELSE [active EXCEPT ![n] = e.activeNodes])
      /\ UNCHANGED <<nodeState, registry, read, dead, scan, lapsed>>
  BY DEF HandleTopologyChange
<1>4. /\ e \in Mail[n] /\ \A m \in Node \ {n} : Mail'[m] = Mail[m]
      /\ Mail'[n] \subseteq Mail[n] /\ Mail[n] \subseteq Mail'[n] \cup {e}
  BY <1>1, <1>3, MailTaken
<1> HIDE DEF e
<1>5. Fits(e.activeNodes)
  BY <1>2, <1>4 DEF AllInformed
<1>6. \A m \in Node : Mail'[m] \subseteq Mail[m]
  BY <1>4
<1>7. OneChange'
  BY <1>2, <1>3, <1>6 DEF OneChange, Busy, Changing
<1>8. ReadCurrent'
  BY <1>2, <1>3 DEF ReadCurrent
<1>9. ASSUME NEW m \in Node, m # n PROVE (View(m) => View(m)') /\ (NewsDue(m) => NewsDue(m)')
  <2>1. active'[m] = active[m] /\ Mail'[m] = Mail[m]
    BY <1>1, <1>3, <1>4, <1>9 DEF Typed
  <2> QED BY <1>3, <2>1 DEF View, NewsDue, Changing
<1>10. View(n) \/ NewsDue(n) => (View(n) \/ NewsDue(n))'
  <2>1. CASE e.nodeId = n
    <3>1. View(n) => View(n)'
      BY <1>3, <2>1 DEF View
    <3>2. NewsDue(n) => NewsDue(n)'
      BY <1>3, <1>4, <2>1 DEF NewsDue, Changing
    <3> QED BY <3>1, <3>2
  <2>2. CASE e.nodeId # n
    <3>1. active'[n] = e.activeNodes
      BY <1>1, <1>3, <2>2 DEF Typed
    <3>2. View(n)'
      BY <1>3, <1>5, <3>1 DEF View, Fits
    <3> QED BY <3>2
  <2> QED BY <2>1, <2>2
<1>11. nodeState[n] # "leaving"
  BY <1>2, <1>4 DEF OneChange, Busy, Changing
<1>12. AllInformed'
  BY <1>2, <1>3, <1>6, <1>9, <1>10, <1>11 DEF AllInformed, Fits
<1> QED BY <1>7, <1>8, <1>12 DEF Informed

LEMMA IdleKilled ==
  ASSUME MembershipTypeOK, Informed, NEW n \in Node, CrashNode(n), ~Busy(n)
  PROVE  Informed'
<1>1. Typed /\ Mail' = [Mail EXCEPT ![n] = {}]
  BY TypedMail, MailCleared DEF MembershipTypeOK, CrashNode
<1>2. OneChange /\ ReadCurrent /\ AllInformed
  BY DEF Informed
<1>3. /\ nodeState' = [nodeState EXCEPT ![n] = "gone"] /\ scan' = [scan EXCEPT ![n] = "idle"]
      /\ read' = [read EXCEPT ![n] = {}] /\ dead' = [dead EXCEPT ![n] = {}]
      /\ active' = [active EXCEPT ![n] = {}] /\ UNCHANGED <<registry, lapsed>>
  BY DEF CrashNode, Stop
<1>4. \A m \in Node \ {n} : /\ nodeState'[m] = nodeState[m] /\ scan'[m] = scan[m] /\ read'[m] = read[m]
                            /\ dead'[m] = dead[m] /\ active'[m] = active[m] /\ Mail'[m] = Mail[m]
  BY <1>1, <1>3 DEF Typed
<1>5. nodeState'[n] = "gone" /\ scan'[n] = "idle" /\ Mail'[n] = {}
  BY <1>1, <1>3 DEF Typed
<1>6. OneChange'
  BY <1>2, <1>4, <1>5 DEF OneChange, Busy, Changing
<1>7. ReadCurrent'
  BY <1>2, <1>3, <1>4, <1>5 DEF ReadCurrent
<1>8. ASSUME NEW m \in Node \ {n} PROVE (View(m) => View(m)') /\ (NewsDue(m) => NewsDue(m)')
  <2>1. View(m) => View(m)'
    BY <1>3, <1>4 DEF View
  <2>2. NewsDue(m) => NewsDue(m)'
    BY <1>4 DEF NewsDue, Busy, Changing
  <2> QED BY <2>1, <2>2
<1>9. AllInformed'
  BY <1>2, <1>3, <1>4, <1>5, <1>8 DEF AllInformed, Fits
<1> QED BY <1>6, <1>7, <1>9 DEF Informed

LEMMA RingStays ==
  ASSUME MembershipIInv, RingIInv, [MembershipNext]_membershipVars
  PROVE  RingIInv'
<1>1. MembershipTypeOK /\ BeatsKept /\ Unreached
  BY DEF MembershipIInv, RingIInv
<1>2. CASE UNCHANGED membershipVars
  <2>1. Mail' = Mail
    BY <1>2, MailRests DEF membershipVars
  <2>2. BeatsKept' /\ Unreached'
    BY <1>1, <1>2, <2>1 DEF membershipVars, BeatsKept, Unreached
  <2>3. overlap' = overlap /\ (Informed => Informed')
    BY <1>2, <2>1 DEF membershipVars, Informed, OneChange, ReadCurrent, AllInformed, Busy, Changing,
                      NewsDue, View, Fits
  <2> QED BY <2>2, <2>3 DEF RingIInv, Informed
<1>3. CASE MembershipNext
  <2>1. BeatsKept' /\ Unreached'
    BY <1>1, <1>3, ListStays
  <2> SUFFICES ASSUME ~overlap' PROVE Informed'
    BY <2>1 DEF RingIInv, Informed
  <2>2. ~overlap => Informed
    BY DEF RingIInv, Informed
  <2>3. PICK n \in Node :
          \/ Register(n) \/ ListMembers(n) \/ JoinRing(n) \/ RegisterFails(n)
          \/ Deregister(n) \/ Announce(n) \/ SendHeartbeat(n) \/ Expire(n)
          \/ ScanList(n) \/ ScanProbe(n) \/ ScanClean(n) \/ ScanPublish(n)
          \/ HandleTopologyChange(n) \/ MissMessage(n) \/ CrashNode(n)
    BY <1>3 DEF MembershipNext
  <2>4. CASE Register(n) \/ Deregister(n) \/ ScanList(n)
    <3>1. overlap' = (overlap \/ ~Quiet)
      BY <2>4 DEF Register, Deregister, ScanList
    <3>2. ~overlap /\ Quiet
      BY <3>1, Zenon
    <3> QED BY <1>1, <2>1, <2>2, <2>4, <3>2, ChangeBegins
  <2>5. CASE ListMembers(n) \/ SendHeartbeat(n) \/ Expire(n) \/ ScanProbe(n) \/ ScanClean(n)
    <3>1. overlap' = overlap
      BY <2>5 DEF ListMembers, SendHeartbeat, Expire, ScanProbe, ScanClean
    <3> QED BY <1>1, <2>2, <2>5, <3>1, ChangeGoesOn
  <2>6. CASE JoinRing(n) \/ Announce(n) \/ ScanPublish(n)
    <3>1. overlap' = overlap
      BY <2>6 DEF JoinRing, Announce, ScanPublish
    <3> QED BY <1>1, <2>2, <2>6, <3>1, ChangePublished
  <2>7. CASE HandleTopologyChange(n)
    <3>1. overlap' = overlap
      BY <2>7 DEF HandleTopologyChange
    <3> QED BY <1>1, <2>2, <2>7, <3>1, NewsArrives
  <2>8. CASE CrashNode(n)
    <3>1. overlap' = (overlap \/ nodeState[n] \notin {"up", "adrift"} \/ scan[n] # "idle")
      BY <2>8 DEF CrashNode
    <3>2. ~overlap /\ nodeState[n] \in {"up", "adrift"} /\ scan[n] = "idle"
      BY <3>1, Zenon
    <3>3. ~Busy(n)
      BY <3>2 DEF Busy
    <3> QED BY <1>1, <2>2, <2>8, <3>2, <3>3, IdleKilled
  <2>9. CASE RegisterFails(n) \/ MissMessage(n)
    <3>1. overlap' = TRUE
      BY <2>9 DEF RegisterFails, MissMessage
    <3> QED BY <3>1
  <2> QED BY <2>3, <2>4, <2>5, <2>6, <2>7, <2>8, <2>9
<1> QED BY <1>2, <1>3

\* register(), deregister(), the scans and their messages: as long as the changes
\* of the membership do not run into one another, the rings agree with pg:nodes
\* when all messages are delivered, with any number of nodes, of lapsed heartbeats
\* and of processes that die.
THEOREM RingsMeet == MembershipSpec => []RingsAgree
<1>1. MembershipIInv /\ RingIInv => RingsAgree
  <2> SUFFICES ASSUME MembershipIInv, RingIInv, ~overlap, Quiet,
                      NEW n \in registry, nodeState[n] = "up"
               PROVE  registry \ lapsed \subseteq active[n] /\ active[n] \subseteq registry
    BY DEF RingsAgree
  <2>1. n \in Node
    BY DEF MembershipIInv, MembershipTypeOK
  <2>2. View(n)
    BY <2>1, AtRest DEF RingIInv, MembershipIInv
  <2> QED BY <2>2 DEF View
<1> QED BY <1>1, MembershipStarts, MembershipStays, RingStarts, RingStays, PTL DEF MembershipSpec

---------------------------------------------------------------------------
(* HashRing: ranks.  In a finite set whose elements have different keys,   *)
(* the elements have as many others below them as 0, 1, 2, ...             *)

Lower(S, key, x) == {y \in S : key[y] < key[x]}

LEMMA LowerFinite ==
  ASSUME NEW S, IsFiniteSet(S), NEW key \in [S -> Nat], NEW x \in S
  PROVE  /\ IsFiniteSet(Lower(S, key, x)) /\ Cardinality(Lower(S, key, x)) \in Nat
         /\ Cardinality(S) \in Nat /\ Cardinality(Lower(S, key, x)) < Cardinality(S)
<1>1. Lower(S, key, x) \in SUBSET S /\ x \notin Lower(S, key, x)
  BY DEF Lower
<1>2. /\ IsFiniteSet(Lower(S, key, x)) /\ Cardinality(Lower(S, key, x)) <= Cardinality(S)
      /\ Cardinality(Lower(S, key, x)) # Cardinality(S)
  BY <1>1, FS_Subset
<1>3. Cardinality(Lower(S, key, x)) \in Nat /\ Cardinality(S) \in Nat
  BY <1>2, FS_CardinalityType
<1> QED BY <1>2, <1>3

LEMMA LowerGrows ==
  ASSUME NEW S, IsFiniteSet(S), NEW key \in [S -> Nat], NEW x \in S, NEW y \in S, key[x] < key[y]
  PROVE  Cardinality(Lower(S, key, x)) < Cardinality(Lower(S, key, y))
<1>1. Lower(S, key, x) \in SUBSET Lower(S, key, y) /\ x \in Lower(S, key, y) /\ x \notin Lower(S, key, x)
  BY DEF Lower
<1>2. /\ IsFiniteSet(Lower(S, key, y)) /\ Cardinality(Lower(S, key, x)) \in Nat
      /\ Cardinality(Lower(S, key, y)) \in Nat
  BY LowerFinite
<1>3. /\ Cardinality(Lower(S, key, x)) <= Cardinality(Lower(S, key, y))
      /\ Cardinality(Lower(S, key, x)) # Cardinality(Lower(S, key, y))
  BY <1>1, <1>2, FS_Subset
<1> QED BY <1>2, <1>3

LEMMA RankOnto ==
  ASSUME NEW S, IsFiniteSet(S), NEW key \in [S -> Nat],
         \A x, y \in S : key[x] = key[y] => x = y,
         NEW k \in 1..Cardinality(S)
  PROVE  \E x \in S : /\ Cardinality(Lower(S, key, x)) = k - 1
                      /\ \A y \in S : Cardinality(Lower(S, key, y)) = k - 1 => y = x
<1> DEFINE N == Cardinality(S)
           rank == [x \in S |-> Cardinality(Lower(S, key, x)) + 1]
<1>1. N \in Nat
  BY FS_CardinalityType
<1>2. \A x \in S : Cardinality(Lower(S, key, x)) \in Nat /\ Cardinality(Lower(S, key, x)) < N
  BY LowerFinite
<1>3. rank \in [S -> 1..N]
  BY <1>1, <1>2
<1>4. ASSUME NEW x \in S, NEW y \in S, x # y PROVE rank[x] # rank[y]
  <2>1. key[x] < key[y] \/ key[y] < key[x]
    BY <1>4
  <2>2. \/ Cardinality(Lower(S, key, x)) < Cardinality(Lower(S, key, y))
        \/ Cardinality(Lower(S, key, y)) < Cardinality(Lower(S, key, x))
    BY <2>1, LowerGrows
  <2> QED BY <1>2, <2>2
<1> HIDE DEF rank
<1>5. rank \in Injection(S, 1..N)
  BY <1>3, <1>4 DEF Injection, IsInjective
<1>6. IsFiniteSet(1..N) /\ Cardinality(1..N) = N
  <2>1. \A n \in Nat : IsFiniteSet(1..n) /\ Cardinality(1..n) = IF 1 > n THEN 0 ELSE n - 1 + 1
    BY FS_Interval
  <2> QED BY <1>1, <2>1
<1>7. rank \in Surjection(S, 1..N)
  BY <1>5, <1>6, FS_Injection
<1>8. PICK x \in S : rank[x] = k
  BY <1>7 DEF Surjection
<1>9. ASSUME NEW y \in S PROVE Cardinality(Lower(S, key, y)) = k - 1 <=> rank[y] = k
  <2>1. Cardinality(Lower(S, key, y)) \in Nat /\ k \in Int
    BY <1>2
  <2> QED BY <2>1 DEF rank
<1> QED BY <1>4, <1>8, <1>9

---------------------------------------------------------------------------
(* HashRing: the sort and the filter *)

\* The virtual nodes that a ring is sorted from: finitely many, no two collide.
VNode == [hash : Nat, node : Node]
HashesOf(vnodes) == [v \in vnodes |-> v.hash]
IsRingSet(vnodes) ==
  /\ IsFiniteSet(vnodes) /\ vnodes \in SUBSET VNode
  /\ \A v, w \in vnodes : v.hash = w.hash => v = w

LEMMA BelowByHash ==
  ASSUME NEW S, IsRingSet(S)
  PROVE  /\ HashesOf(S) \in [S -> Nat] /\ \A v, w \in S : HashesOf(S)[v] = HashesOf(S)[w] => v = w
         /\ \A v \in S : {w \in S : ByHash(w, v)} = Lower(S, HashesOf(S), v)
BY DEF IsRingSet, VNode, HashesOf, Lower, ByHash

\* What the sort of S makes of it.
SortsInto(S, ring) ==
  /\ Cardinality(S) \in Nat /\ DOMAIN ring = 1..Cardinality(S) /\ Len(ring) = Cardinality(S)
  /\ ring \in Seq(VNode)
  /\ \A k \in 1..Cardinality(S) :
       ring[k] \in S /\ Cardinality({w \in S : ByHash(w, ring[k])}) = k - 1
  /\ \A v \in S : \E k \in 1..Cardinality(S) : ring[k] = v
  /\ \A j, k \in 1..Cardinality(S) : j < k <=> ring[j].hash < ring[k].hash

LEMMA SortedSorts ==
  ASSUME NEW S, IsRingSet(S)
  PROVE  SortsInto(S, Sorted(S))
<1> DEFINE N == Cardinality(S)
           Rank(v) == Cardinality({w \in S : ByHash(w, v)})
           ring == Sorted(S)
<1>1. N \in Nat
  BY FS_CardinalityType DEF IsRingSet
<1>2. /\ HashesOf(S) \in [S -> Nat] /\ \A v, w \in S : HashesOf(S)[v] = HashesOf(S)[w] => v = w
      /\ \A v \in S : Rank(v) = Cardinality(Lower(S, HashesOf(S), v))
  BY BelowByHash
<1>3. ASSUME NEW k \in 1..N
      PROVE  \E v \in S : Rank(v) = k - 1 /\ \A w \in S : Rank(w) = k - 1 => w = v
  <2>1. PICK v \in S : /\ Cardinality(Lower(S, HashesOf(S), v)) = k - 1
                       /\ \A w \in S : Cardinality(Lower(S, HashesOf(S), w)) = k - 1 => w = v
    BY <1>2, RankOnto DEF IsRingSet
  <2> QED BY <1>2, <2>1
<1>4. \A v \in S : Rank(v) \in Nat /\ Rank(v) < N
  BY <1>2, LowerFinite DEF IsRingSet
<1>5. ASSUME NEW v \in S, NEW w \in S, v.hash < w.hash PROVE Rank(v) < Rank(w)
  <2>1. HashesOf(S)[v] < HashesOf(S)[w]
    BY <1>5 DEF HashesOf
  <2> QED BY <1>2, <2>1, LowerGrows DEF IsRingSet
<1>6. ring = [k \in 1..N |-> CHOOSE v \in S : Rank(v) = k - 1]
  BY DEF Sorted
<1> HIDE DEF Rank, ring
<1>7. ASSUME NEW k \in 1..N PROVE ring[k] \in S /\ Rank(ring[k]) = k - 1
  BY <1>3, <1>6
<1>8. DOMAIN ring = 1..N /\ ring \in [1..N -> VNode]
  BY <1>6, <1>7 DEF IsRingSet
<1>9. ring \in Seq(VNode) /\ Len(ring) = N
  BY <1>1, <1>8
<1>10. ASSUME NEW v \in S PROVE \E k \in 1..N : ring[k] = v
  <2>1. Rank(v) + 1 \in 1..N /\ (Rank(v) + 1) - 1 = Rank(v)
    BY <1>1, <1>4
  <2>2. ring[Rank(v) + 1] = v
    BY <1>3, <1>7, <2>1
  <2> QED BY <2>1, <2>2
<1>11. ASSUME NEW j \in 1..N, NEW k \in 1..N PROVE j < k <=> ring[j].hash < ring[k].hash
  <2>1. /\ ring[j] \in S /\ ring[k] \in S /\ Rank(ring[j]) = j - 1 /\ Rank(ring[k]) = k - 1
    BY <1>7
  <2>2. ring[j].hash \in Nat /\ ring[k].hash \in Nat
    BY <2>1 DEF IsRingSet, VNode
  <2>3. ring[j].hash = ring[k].hash => j = k
    <3>1. ring[j].hash = ring[k].hash => ring[j] = ring[k]
      BY <2>1 DEF IsRingSet
    <3> QED BY <2>1, <3>1
  <2>4. /\ ring[j].hash < ring[k].hash => j - 1 < k - 1
        /\ ring[k].hash < ring[j].hash => k - 1 < j - 1
    BY <1>5, <2>1
  <2> QED BY <1>1, <2>2, <2>3, <2>4
<1> QED BY <1>1, <1>7, <1>8, <1>9, <1>10, <1>11 DEF SortsInto, Rank, ring

\* There is one way to sort.
LEMMA SortedOnce ==
  ASSUME NEW S, IsRingSet(S), NEW ring, ring = [k \in 1..Cardinality(S) |-> ring[k]],
         \A k \in 1..Cardinality(S) : ring[k] \in S /\ Cardinality({w \in S : ByHash(w, ring[k])}) = k - 1
  PROVE  ring = Sorted(S)
<1> DEFINE Rank(v) == Cardinality({w \in S : ByHash(w, v)})
<1>1. SortsInto(S, Sorted(S))
  BY SortedSorts
<1>2. Sorted(S) = [k \in 1..Cardinality(S) |-> Sorted(S)[k]]
  <2> DEFINE At(k) == CHOOSE v \in S : Rank(v) = k - 1
  <2>1. Sorted(S) = [k \in 1..Cardinality(S) |-> At(k)]
    BY DEF Sorted
  <2> HIDE DEF At
  <2> QED BY <2>1
<1>3. ASSUME NEW k \in 1..Cardinality(S) PROVE ring[k] = Sorted(S)[k]
  <2>1. PICK j \in 1..Cardinality(S) : Sorted(S)[j] = ring[k]
    BY <1>1 DEF SortsInto
  <2>2. Rank(Sorted(S)[j]) = j - 1 /\ Rank(ring[k]) = k - 1
    BY <1>1 DEF SortsInto
  <2>3. j = k
    BY <1>1, <2>1, <2>2
  <2> QED BY <2>1, <2>3
<1> QED BY <1>2, <1>3

\* The elements of a sorted ring.
LEMMA SortedSet ==
  ASSUME NEW S, IsRingSet(S)
  PROVE  ToSet(Sorted(S)) = S
<1>1. SortsInto(S, Sorted(S))
  BY SortedSorts
<1>2. ToSet(Sorted(S)) = {Sorted(S)[i] : i \in 1..Cardinality(S)}
  BY <1>1 DEF ToSet, SortsInto
<1>3. /\ \A k \in 1..Cardinality(S) : Sorted(S)[k] \in S
      /\ \A v \in S : \E k \in 1..Cardinality(S) : Sorted(S)[k] = v
  BY <1>1 DEF SortsInto
<1> QED BY <1>2, <1>3

\* removeNode(): what the filter leaves of a sorted ring is the rest, sorted.
LEMMA RemovedSorted ==
  ASSUME NEW S, IsRingSet(S), NEW n
  PROVE  RemoveNode(Sorted(S), n) = Sorted({v \in S : v.node # n})
<1> DEFINE ring == Sorted(S)
           kept == {i \in DOMAIN ring : ring[i].node # n}
           rest == {v \in S : v.node # n}
           id == [i \in kept |-> i]
           place == [i \in kept |-> ring[i]]
           Pick(k) == CHOOSE i \in kept : Cardinality({j \in kept : j < i}) = k - 1
<1>1. SortsInto(S, ring)
  BY SortedSorts
<1>2. IsRingSet(rest)
  <2>1. rest \in SUBSET S
    OBVIOUS
  <2> QED BY <2>1, FS_Subset DEF IsRingSet
<1>3. RemoveNode(ring, n) = [k \in 1..Cardinality(kept) |-> ring[Pick(k)]]
  BY DEF RemoveNode
<1>4. kept \in SUBSET (1..Cardinality(S)) /\ \A i \in kept : ring[i] \in rest
  BY <1>1 DEF SortsInto
<1>5. IsFiniteSet(kept)
  <2>1. \A m \in Nat : IsFiniteSet(1..m)
    BY FS_Interval
  <2>2. IsFiniteSet(1..Cardinality(S))
    BY <1>1, <2>1 DEF SortsInto
  <2> QED BY <1>4, <2>2, FS_Subset
<1>6. \A v \in rest : \E i \in kept : ring[i] = v
  BY <1>1 DEF SortsInto
<1>7. \A i, j \in kept : i < j <=> ring[i].hash < ring[j].hash
  BY <1>1, <1>4 DEF SortsInto
<1>8. \A i, j \in kept : ring[i] = ring[j] => i = j
  <2> SUFFICES ASSUME NEW i \in kept, NEW j \in kept, ring[i] = ring[j] PROVE i = j
    OBVIOUS
  <2>1. i \in Nat /\ j \in Nat /\ ring[i] \in VNode
    BY <1>2, <1>4 DEF IsRingSet
  <2>2. ~(ring[i].hash < ring[j].hash) /\ ~(ring[j].hash < ring[i].hash)
    BY <2>1 DEF VNode
  <2>3. ~(i < j) /\ ~(j < i)
    BY <1>7, <2>2
  <2> QED BY <2>1, <2>3
<1> HIDE DEF ring, kept, rest
\* A subset of the kept positions and the virtual nodes at them are equally many.
<1>9. ASSUME NEW P \in SUBSET kept, NEW V \in SUBSET rest,
             \A i \in P : ring[i] \in V, \A v \in V : \E i \in P : ring[i] = v
      PROVE  Cardinality(P) = Cardinality(V)
  <2> DEFINE f == [i \in P |-> ring[i]]
  <2>1. f \in [P -> V]
    BY <1>9
  <2>2. f \in Injection(P, V)
    BY <1>8, <2>1 DEF Injection, IsInjective
  <2>3. f \in Surjection(P, V)
    BY <1>9, <2>1 DEF Surjection
  <2>4. ExistsBijection(P, V)
    BY <2>2, <2>3 DEF ExistsBijection, Bijection
  <2>5. IsFiniteSet(P)
    BY <1>5, FS_Subset
  <2> QED BY <2>4, <2>5, FS_Bijection
<1>10. Cardinality(kept) = Cardinality(rest)
  BY <1>4, <1>6, <1>9
<1>11. ASSUME NEW i \in kept
       PROVE  Cardinality({j \in kept : j < i}) = Cardinality({w \in rest : ByHash(w, ring[i])})
  <2> DEFINE P == {j \in kept : j < i}
             V == {w \in rest : ByHash(w, ring[i])}
  <2>1. P \in SUBSET kept /\ V \in SUBSET rest
    OBVIOUS
  <2>2. \A j \in P : ring[j] \in V
    BY <1>4, <1>7 DEF ByHash
  <2>3. \A v \in V : \E j \in P : ring[j] = v
    BY <1>6, <1>7 DEF ByHash
  <2> HIDE DEF P, V
  <2>4. Cardinality(P) = Cardinality(V)
    BY <1>9, <2>1, <2>2, <2>3
  <2> QED BY <2>4 DEF P, V
<1>12. ASSUME NEW k \in 1..Cardinality(rest)
       PROVE  /\ ring[Pick(k)] \in rest
              /\ Cardinality({w \in rest : ByHash(w, ring[Pick(k)])}) = k - 1
  <2>1. /\ id \in [kept -> Nat] /\ \A i, j \in kept : id[i] = id[j] => i = j
        /\ \A i \in kept : Lower(kept, id, i) = {j \in kept : j < i}
    BY <1>4 DEF Lower
  <2>2. \E i \in kept : Cardinality(Lower(kept, id, i)) = k - 1
    <3> HIDE DEF id
    <3> QED BY <1>5, <1>10, <2>1, RankOnto
  <2>3. \E i \in kept : Cardinality({j \in kept : j < i}) = k - 1
    BY <2>1, <2>2
  <2>4. Pick(k) \in kept /\ Cardinality({j \in kept : j < Pick(k)}) = k - 1
    BY <2>3
  <2> HIDE DEF Pick
  <2> QED BY <1>4, <1>11, <2>4
<1> HIDE DEF Pick
<1>13. RemoveNode(ring, n) = [k \in 1..Cardinality(rest) |-> ring[Pick(k)]]
  BY <1>3, <1>10
<1>14. RemoveNode(ring, n) = Sorted(rest)
  <2> DEFINE left == RemoveNode(ring, n)
  <2>1. /\ left = [k \in 1..Cardinality(rest) |-> left[k]]
        /\ \A k \in 1..Cardinality(rest) :
             left[k] \in rest /\ Cardinality({w \in rest : ByHash(w, left[k])}) = k - 1
    BY <1>12, <1>13
  <2> HIDE DEF left
  <2>2. left = Sorted(rest)
    BY <1>2, <2>1, SortedOnce
  <2> QED BY <2>2 DEF left
<1> QED BY <1>14 DEF ring, rest

---------------------------------------------------------------------------
(* HashRing: the ring of a set of nodes *)

AllVNodes(nodes) == UNION {VNodesOf(n) : n \in nodes}

LEMMA VNodesFinite ==
  ASSUME NEW n \in Node
  PROVE  IsFiniteSet(VNodesOf(n)) /\ VNodesOf(n) \in SUBSET VNode
<1> DEFINE f == [h \in VNodes[n] |-> [hash |-> h, node |-> n]]
<1>1. IsFiniteSet(VNodes[n]) /\ VNodes[n] \in SUBSET Nat
  BY HashAssumption
<1>2. f \in Surjection(VNodes[n], VNodesOf(n))
  BY DEF Surjection, VNodesOf
<1>3. IsFiniteSet(VNodesOf(n))
  BY <1>1, <1>2, FS_Surjection
<1> QED BY <1>1, <1>3 DEF VNodesOf, VNode

LEMMA AllVNodesRing ==
  ASSUME NEW nodes \in SUBSET Node
  PROVE  IsRingSet(AllVNodes(nodes))
<1> DEFINE f == [n \in nodes |-> VNodesOf(n)]
           parts == {VNodesOf(n) : n \in nodes}
<1>1. IsFiniteSet(nodes)
  BY HashAssumption, FS_Subset
<1>2. f \in Surjection(nodes, parts)
  BY DEF Surjection
<1>3. IsFiniteSet(parts)
  BY <1>1, <1>2, FS_Surjection
<1>4. IsFiniteSet(UNION parts)
  <2>1. \A P \in parts : IsFiniteSet(P)
    BY VNodesFinite
  <2> HIDE DEF parts
  <2> QED BY <1>3, <2>1, FS_UNION
<1>5. \A v \in AllVNodes(nodes) : v \in VNode /\ v.node \in nodes /\ v.hash \in VNodes[v.node]
                                 /\ v = [hash |-> v.hash, node |-> v.node]
  <2>1. \A v \in AllVNodes(nodes) : \E n \in nodes : v \in VNodesOf(n)
    BY DEF AllVNodes
  <2>2. ASSUME NEW n \in nodes, NEW v \in VNodesOf(n)
        PROVE  /\ v \in VNode /\ v.node = n /\ v.hash \in VNodes[n]
               /\ v = [hash |-> v.hash, node |-> v.node]
    <3>1. v \in VNode
      BY VNodesFinite
    <3> QED BY <3>1 DEF VNodesOf
  <2> QED BY <2>1, <2>2
<1>6. ASSUME NEW v \in AllVNodes(nodes), NEW w \in AllVNodes(nodes), v.hash = w.hash PROVE v = w
  <2>1. v.node = w.node
    BY <1>5, <1>6, HashAssumption
  <2> QED BY <1>5, <1>6, <2>1
<1> QED BY <1>4, <1>5, <1>6 DEF IsRingSet, AllVNodes

\* addNode() keeps the ring sorted.
LEMMA AddedSorted ==
  ASSUME NEW nodes \in SUBSET Node, NEW n \in Node
  PROVE  AddNode(Sorted(AllVNodes(nodes)), n) = Sorted(AllVNodes(nodes \cup {n}))
<1>1. ToSet(Sorted(AllVNodes(nodes))) = AllVNodes(nodes)
  BY AllVNodesRing, SortedSet
<1>2. AllVNodes(nodes) \cup VNodesOf(n) = AllVNodes(nodes \cup {n})
  BY DEF AllVNodes
<1> QED BY <1>1, <1>2 DEF AddNode

LEMMA LeastNumber ==
  ASSUME NEW S \in SUBSET Nat, S # {}
  PROVE  \E m \in S : \A k \in S : m <= k
<1>1. PICK m \in S : \A k \in S : ~(<<k, m>> \in OpToRel(<, Nat))
  BY NatLessThanWellFounded, WFMin
<1>2. \A k \in S : ~(k < m)
  BY <1>1 DEF OpToRel
<1> QED BY <1>2

\* rebuild(): a ring that grew node by node holds the virtual nodes of them all in
\* their order, whatever order the nodes came in.
GrowsTo(ringOf, nodes) ==
  ringOf = [s \in SUBSET nodes |->
              IF s = {} THEN << >>
              ELSE AddNode(ringOf[s \ {CHOOSE n \in s : TRUE}], CHOOSE n \in s : TRUE)]

LEMMA RebuildGrows ==
  ASSUME NEW nodes
  PROVE  Rebuild(nodes) = (CHOOSE ringOf : GrowsTo(ringOf, nodes))[nodes]
BY DEF Rebuild, FoldSet, MapThenFoldSet, GrowsTo

LEMMA RebuildSorted ==
  ASSUME NEW nodes \in SUBSET Node
  PROVE  Rebuild(nodes) = Sorted(AllVNodes(nodes))
<1> DEFINE sorted == [s \in SUBSET nodes |-> Sorted(AllVNodes(s))]
           Some(s) == CHOOSE n \in s : TRUE
<1>1. \A s \in SUBSET nodes : s # {} => Some(s) \in s /\ s \ {Some(s)} \in SUBSET nodes
                                         /\ (s \ {Some(s)}) \cup {Some(s)} = s
  OBVIOUS
<1>2. Sorted(AllVNodes({})) = << >>
  <2>1. AllVNodes({}) = {} /\ Cardinality({}) = 0
    BY FS_EmptySet DEF AllVNodes
  <2>2. IsRingSet({})
    BY <2>1, AllVNodesRing
  <2>3. Sorted({}) \in Seq(VNode) /\ Len(Sorted({})) = 0
    BY <2>1, <2>2, SortedSorts DEF SortsInto
  <2>4. Sorted({}) = << >>
    BY <2>3
  <2> QED BY <2>1, <2>4
<1> HIDE DEF Some
<1>3. GrowsTo(sorted, nodes)
  <2>1. ASSUME NEW s \in SUBSET nodes
        PROVE  sorted[s] = IF s = {} THEN << >> ELSE AddNode(sorted[s \ {Some(s)}], Some(s))
    <3>1. CASE s = {}
      BY <1>2, <3>1
    <3>2. CASE s # {}
      <4>1. s \ {Some(s)} \in SUBSET Node /\ Some(s) \in Node
        BY <1>1, <3>2
      <4>2. AddNode(Sorted(AllVNodes(s \ {Some(s)})), Some(s))
              = Sorted(AllVNodes((s \ {Some(s)}) \cup {Some(s)}))
        BY <4>1, AddedSorted
      <4>3. AddNode(sorted[s \ {Some(s)}], Some(s)) = Sorted(AllVNodes(s))
        BY <1>1, <3>2, <4>2
      <4> QED BY <3>2, <4>3
    <3> QED BY <3>1, <3>2
  <2> QED BY <2>1 DEF GrowsTo, Some
<1> HIDE DEF sorted
<1> DEFINE ringOf == CHOOSE f : GrowsTo(f, nodes)
<1>4. GrowsTo(ringOf, nodes)
  BY <1>3
<1>5. Rebuild(nodes) = ringOf[nodes]
  BY RebuildGrows
<1> HIDE DEF ringOf
<1>6. \A s \in SUBSET nodes :
        ringOf[s] = IF s = {} THEN << >> ELSE AddNode(ringOf[s \ {Some(s)}], Some(s))
  BY <1>4 DEF GrowsTo, Some
<1>7. \A s \in SUBSET nodes :
        sorted[s] = IF s = {} THEN << >> ELSE AddNode(sorted[s \ {Some(s)}], Some(s))
  BY <1>3 DEF GrowsTo, Some
\* A smallest set for which the two differ is not empty, and not the smallest.
<1>8. \A s \in SUBSET nodes : ringOf[s] = sorted[s]
  <2> DEFINE Wrong == {s \in SUBSET nodes : ringOf[s] # sorted[s]}
             sizes == {Cardinality(s) : s \in Wrong}
  <2>1. \A s \in SUBSET nodes : IsFiniteSet(s) /\ Cardinality(s) \in Nat
    BY HashAssumption, FS_Subset, FS_CardinalityType
  <2> SUFFICES ASSUME Wrong # {} PROVE FALSE
    OBVIOUS
  <2>2. sizes \in SUBSET Nat /\ sizes # {}
    BY <2>1
  <2>3. PICK m \in sizes : \A k \in sizes : m <= k
    BY <2>2, LeastNumber
  <2>4. PICK s \in Wrong : Cardinality(s) = m
    OBVIOUS
  <2>5. s # {}
    BY <1>6, <1>7, <2>4
  <2>6. Some(s) \in s /\ s \ {Some(s)} \in SUBSET nodes
    BY <1>1, <2>5
  <2>7. Cardinality(s \ {Some(s)}) = Cardinality(s) - 1
    BY <2>1, <2>6, FS_RemoveElement
  <2>8. s \ {Some(s)} \notin Wrong
    <3>1. Cardinality(s \ {Some(s)}) \in Nat /\ Cardinality(s) \in Nat
      BY <2>1, <2>6
    <3>2. ~(m <= Cardinality(s \ {Some(s)}))
      BY <2>4, <2>7, <3>1
    <3> QED BY <2>3, <3>2
  <2>9. ringOf[s \ {Some(s)}] = sorted[s \ {Some(s)}]
    BY <2>6, <2>8
  <2> QED BY <1>6, <1>7, <2>4, <2>5, <2>9
<1> QED BY <1>5, <1>8 DEF sorted

---------------------------------------------------------------------------
(* HashRing: the binary search *)

\* The search as a function of its interval.
Searches(search, ring, key) ==
  search = [range \in (0..Len(ring)) \X (0..Len(ring)) |->
              LET lo == range[1]  hi == range[2]  mid == (lo + hi) \div 2
              IN  IF lo >= hi THEN lo
                  ELSE IF ring[mid + 1].hash < key THEN search[<<mid + 1, hi>>]
                                                   ELSE search[<<lo, mid>>]]

LEMMA LowerBoundSearches ==
  ASSUME NEW ring, NEW key
  PROVE  LowerBound(ring, key) = (CHOOSE search : Searches(search, ring, key))[<<0, Len(ring)>>]
BY DEF LowerBound, Searches

\* One round of the loop.
LEMMA SearchStep ==
  ASSUME NEW ring, Len(ring) \in Nat, NEW key, NEW search, Searches(search, ring, key),
         NEW lo \in 0..Len(ring), NEW hi \in 0..Len(ring), NEW mid, mid = (lo + hi) \div 2
  PROVE  search[<<lo, hi>>] = IF lo >= hi THEN lo
                              ELSE IF ring[mid + 1].hash < key THEN search[<<mid + 1, hi>>]
                                                               ELSE search[<<lo, mid>>]
BY DEF Searches

\* Where the hashes of the first b virtual nodes are below the key, and no others,
\* the search of an interval ends at b, or at its end next to b.
Clamped(b, lo, hi) == IF lo >= hi \/ b <= lo THEN lo ELSE IF b >= hi THEN hi ELSE b

LEMMA LowerBoundFinds ==
  ASSUME NEW ring, Len(ring) \in Nat, NEW key, NEW b \in 0..Len(ring),
         \A k \in 1..Len(ring) : ring[k].hash < key <=> k <= b
  PROVE  LowerBound(ring, key) = b
<1> DEFINE N == Len(ring)
           clamp == [range \in (0..N) \X (0..N) |-> Clamped(b, range[1], range[2])]
<1>1. ASSUME NEW lo \in 0..N, NEW hi \in 0..N, lo < hi, NEW mid, mid = (lo + hi) \div 2
      PROVE  /\ mid \in 0..N /\ mid + 1 \in 0..N /\ mid + 1 \in 1..N
             /\ lo <= mid /\ mid < hi
             /\ ring[mid + 1].hash < key <=> mid < b
             /\ mid < b => Clamped(b, mid + 1, hi) = Clamped(b, lo, hi)
             /\ ~(mid < b) => Clamped(b, lo, mid) = Clamped(b, lo, hi)
  <2>1. mid \in Int /\ lo <= mid /\ mid < hi
    BY <1>1
  <2>2. mid \in 0..N /\ mid + 1 \in 0..N /\ mid + 1 \in 1..N
    BY <1>1, <2>1
  <2>3. ring[mid + 1].hash < key <=> mid + 1 <= b
    BY <2>2
  <2>4. mid + 1 <= b <=> mid < b
    BY <2>1
  <2>5. mid < b => Clamped(b, mid + 1, hi) = Clamped(b, lo, hi)
    BY <1>1, <2>1 DEF Clamped
  <2>6. ~(mid < b) => Clamped(b, lo, mid) = Clamped(b, lo, hi)
    BY <1>1, <2>1 DEF Clamped
  <2> QED BY <2>1, <2>2, <2>3, <2>4, <2>5, <2>6
<1>2. Searches(clamp, ring, key)
  <2> DEFINE Round(range) == LET lo == range[1]  hi == range[2]  mid == (lo + hi) \div 2
                            IN  IF lo >= hi THEN lo
                                ELSE IF ring[mid + 1].hash < key THEN clamp[<<mid + 1, hi>>]
                                                                 ELSE clamp[<<lo, mid>>]
  <2>1. ASSUME NEW range \in (0..N) \X (0..N) PROVE Clamped(b, range[1], range[2]) = Round(range)
    <3>1. PICK lo \in 0..N, hi \in 0..N : range = <<lo, hi>>
      OBVIOUS
    <3> DEFINE mid == (lo + hi) \div 2
    <3>2. range[1] = lo /\ range[2] = hi
      BY <3>1
    <3>3. CASE lo >= hi
      BY <3>2, <3>3 DEF Clamped
    <3>4. CASE ~(lo >= hi)
      <4>1. lo < hi
        BY <3>4
      <4>2. /\ mid \in 0..N /\ mid + 1 \in 0..N
            /\ ring[mid + 1].hash < key <=> mid < b
            /\ mid < b => Clamped(b, mid + 1, hi) = Clamped(b, lo, hi)
            /\ ~(mid < b) => Clamped(b, lo, mid) = Clamped(b, lo, hi)
        BY <1>1, <4>1
      <4> HIDE DEF mid
      <4>3. clamp[<<mid + 1, hi>>] = Clamped(b, mid + 1, hi) /\ clamp[<<lo, mid>>] = Clamped(b, lo, mid)
        BY <4>2
      <4> HIDE DEF clamp
      <4>4. (IF ring[mid + 1].hash < key THEN clamp[<<mid + 1, hi>>] ELSE clamp[<<lo, mid>>])
              = Clamped(b, lo, hi)
        BY <4>2, <4>3
      <4> QED BY <3>2, <3>4, <4>4 DEF mid
    <3> QED BY <3>3, <3>4
  <2> HIDE DEF Round
  <2>2. clamp = [range \in (0..N) \X (0..N) |-> Round(range)]
    BY <2>1
  <2> QED BY <2>2 DEF Round, Searches
<1> HIDE DEF clamp
<1> DEFINE search == CHOOSE f : Searches(f, ring, key)
<1>3. Searches(search, ring, key)
  BY <1>2
<1>4. LowerBound(ring, key) = search[<<0, N>>]
  BY LowerBoundSearches
<1> HIDE DEF search
\* A shortest interval on which the search went wrong is longer than another one.
<1> DEFINE Wrong(lo, hi) == search[<<lo, hi>>] # Clamped(b, lo, hi)
           lengths == {d \in Nat : \E lo, hi \in 0..N : Wrong(lo, hi) /\ hi = lo + d}
<1>5. ASSUME NEW lo \in 0..N, NEW hi \in 0..N, lo >= hi PROVE ~Wrong(lo, hi)
  <2>1. search[<<lo, hi>>] = lo
    <3>1. PICK mid : mid = (lo + hi) \div 2
      OBVIOUS
    <3>2. search[<<lo, hi>>] = IF lo >= hi THEN lo
                               ELSE IF ring[mid + 1].hash < key THEN search[<<mid + 1, hi>>]
                                                                ELSE search[<<lo, mid>>]
      BY <1>3, <3>1, SearchStep
    <3> QED BY <1>5, <3>2
  <2> QED BY <1>5, <2>1 DEF Clamped
<1>6. ASSUME NEW lo \in 0..N, NEW hi \in 0..N, lo < hi, Wrong(lo, hi)
      PROVE  \E m, h \in 0..N : Wrong(m, h) /\ h - m < hi - lo
  <2>1. PICK mid : mid = (lo + hi) \div 2
    OBVIOUS
  <2>2. /\ mid \in 0..N /\ mid + 1 \in 0..N /\ lo <= mid /\ mid < hi
        /\ ring[mid + 1].hash < key <=> mid < b
        /\ mid < b => Clamped(b, mid + 1, hi) = Clamped(b, lo, hi)
        /\ ~(mid < b) => Clamped(b, lo, mid) = Clamped(b, lo, hi)
    BY <1>1, <1>6, <2>1
  <2>3. search[<<lo, hi>>] = IF lo >= hi THEN lo
                             ELSE IF ring[mid + 1].hash < key THEN search[<<mid + 1, hi>>]
                                                              ELSE search[<<lo, mid>>]
    BY <1>3, <2>1, SearchStep
  <2>4. ~(lo >= hi)
    BY <1>6
  <2>5. hi - (mid + 1) < hi - lo /\ mid - lo < hi - lo
    BY <2>2
  <2>6. CASE mid < b
    <3>1. Wrong(mid + 1, hi)
      BY <1>6, <2>2, <2>3, <2>4, <2>6
    <3> HIDE DEF Wrong
    <3> QED BY <2>2, <2>5, <3>1
  <2>7. CASE ~(mid < b)
    <3>1. Wrong(lo, mid)
      BY <1>6, <2>2, <2>3, <2>4, <2>7
    <3> HIDE DEF Wrong
    <3> QED BY <2>2, <2>5, <3>1
  <2> QED BY <2>6, <2>7
<1> HIDE DEF Wrong
<1>7. \A lo, hi \in 0..N : lo >= hi \/ (lo < hi /\ hi - lo \in Nat /\ hi = lo + (hi - lo))
  OBVIOUS
<1>8. \A lo, hi \in 0..N : ~Wrong(lo, hi)
  <2> SUFFICES ASSUME NEW low \in 0..N, NEW high \in 0..N, Wrong(low, high) PROVE FALSE
    OBVIOUS
  <2>1. high - low \in lengths
    BY <1>5, <1>7
  <2>2. lengths \in SUBSET Nat /\ lengths # {}
    BY <2>1
  <2>3. PICK d \in lengths : \A e \in lengths : d <= e
    BY <2>2, LeastNumber
  <2>4. PICK lo \in 0..N, hi \in 0..N : Wrong(lo, hi) /\ hi = lo + d
    BY <2>3
  <2>5. lo < hi /\ hi - lo = d
    <3>1. d \in Nat
      BY <2>2, <2>3
    <3>2. lo < hi
      BY <1>5, <1>7, <2>4
    <3> QED BY <2>4, <3>1, <3>2
  <2>6. PICK m \in 0..N, h \in 0..N : Wrong(m, h) /\ h - m < d
    BY <1>6, <2>4, <2>5
  <2>7. h - m \in lengths /\ h - m \in Nat
    BY <1>5, <1>7, <2>6
  <2>8. d <= h - m /\ d \in Nat
    BY <2>2, <2>3, <2>7
  <2> QED BY <2>6, <2>7, <2>8
<1>9. Clamped(b, 0, N) = b
  BY DEF Clamped
<1>10. 0 \in 0..N /\ N \in 0..N
  OBVIOUS
<1> QED BY <1>4, <1>8, <1>9, <1>10 DEF Wrong

---------------------------------------------------------------------------
(* HashRing: the owner *)

\* The hashes that Clockwise() chooses the first of.
HashesAt(nodes) == UNION {VNodes[n] : n \in nodes}
HashesAfter(nodes, r) == {h \in HashesAt(nodes) : h >= KeyHash[r]}
Nearest(nodes, r) ==
  IF HashesAfter(nodes, r) = {} THEN HashesAt(nodes) ELSE HashesAfter(nodes, r)

LEMMA HashNumbers ==
  ASSUME NEW nodes \in SUBSET Node, NEW r \in Room
  PROVE  /\ HashesAt(nodes) \in SUBSET Nat /\ KeyHash[r] \in Nat
         /\ nodes # {} => Nearest(nodes, r) # {}
<1>1. \A n \in Node : VNodes[n] \in SUBSET Nat /\ VNodes[n] # {}
  BY HashAssumption
<1>2. HashesAt(nodes) \in SUBSET Nat /\ KeyHash[r] \in Nat
  BY <1>1, HashAssumption DEF HashesAt
<1>3. nodes # {} => HashesAt(nodes) # {}
  BY <1>1 DEF HashesAt
<1> QED BY <1>2, <1>3 DEF Nearest

\* The first of them has one owner.
LEMMA NearestOwner ==
  ASSUME NEW nodes \in SUBSET Node, NEW r \in Room, NEW m \in nodes, NEW h \in VNodes[m],
         h \in Nearest(nodes, r), \A g \in Nearest(nodes, r) : h <= g
  PROVE  Clockwise(nodes, r) = m
<1> DEFINE first == CHOOSE f \in Nearest(nodes, r) : \A g \in Nearest(nodes, r) : f <= g
<1>1. Nearest(nodes, r) \in SUBSET Nat
  BY HashNumbers DEF Nearest, HashesAfter
<1>2. first \in Nearest(nodes, r) /\ \A g \in Nearest(nodes, r) : first <= g
  OBVIOUS
<1>3. Clockwise(nodes, r) = CHOOSE n \in nodes : first \in VNodes[n]
  BY DEF Clockwise, Nearest, HashesAfter, HashesAt
<1> HIDE DEF first
<1>4. first = h
  <2>1. first <= h /\ h <= first /\ first \in Nat /\ h \in Nat
    BY <1>1, <1>2
  <2> QED BY <2>1
<1>5. \A n \in nodes : first \in VNodes[n] <=> n = m
  BY <1>4, HashAssumption
<1> QED BY <1>3, <1>5

\* There is a first of them.
LEMMA NearestExists ==
  ASSUME NEW nodes \in SUBSET Node, nodes # {}, NEW r \in Room
  PROVE  \E m \in nodes : \E h \in VNodes[m] :
           h \in Nearest(nodes, r) /\ \A g \in Nearest(nodes, r) : h <= g
<1>1. Nearest(nodes, r) \in SUBSET Nat /\ Nearest(nodes, r) # {}
  BY HashNumbers DEF Nearest, HashesAfter
<1>2. PICK h \in Nearest(nodes, r) : \A g \in Nearest(nodes, r) : h <= g
  BY <1>1, LeastNumber
<1>3. h \in HashesAt(nodes)
  BY DEF Nearest, HashesAfter
<1> QED BY <1>2, <1>3 DEF HashesAt

\* A node that is there before and after another one comes or goes, and has the
\* nearest virtual node with the other there, has it without.
LEMMA OwnerStays ==
  ASSUME NEW nodes \in SUBSET Node, nodes # {}, NEW n \in Node, NEW r \in Room,
         Clockwise(nodes \cup {n}, r) # n
  PROVE  Clockwise(nodes \cup {n}, r) = Clockwise(nodes, r)
<1> DEFINE more == nodes \cup {n}
<1>1. PICK m \in more : \E h \in VNodes[m] :
        h \in Nearest(more, r) /\ \A g \in Nearest(more, r) : h <= g
  BY NearestExists
<1>2. PICK h \in VNodes[m] : h \in Nearest(more, r) /\ \A g \in Nearest(more, r) : h <= g
  BY <1>1
<1>3. Clockwise(more, r) = m
  BY <1>2, NearestOwner
<1>4. m \in nodes
  BY <1>3
<1>5. h \in HashesAt(nodes) /\ HashesAt(nodes) \in SUBSET HashesAt(more)
  BY <1>4 DEF HashesAt
<1>6. h \in Nearest(nodes, r) /\ \A g \in Nearest(nodes, r) : g \in Nearest(more, r)
  BY <1>2, <1>5 DEF Nearest, HashesAfter
<1>7. Clockwise(nodes, r) = m
  BY <1>2, <1>4, <1>6, NearestOwner
<1> QED BY <1>3, <1>7

\* The virtual nodes of a ring and the hashes of its nodes.
LEMMA RingHashes ==
  ASSUME NEW nodes \in SUBSET Node
  PROVE  /\ \A v \in AllVNodes(nodes) : v.node \in nodes /\ v.hash \in VNodes[v.node]
         /\ \A v \in AllVNodes(nodes) : v.hash \in HashesAt(nodes)
         /\ \A h \in HashesAt(nodes) : \E v \in AllVNodes(nodes) : v.hash = h
<1>1. ASSUME NEW v \in AllVNodes(nodes) PROVE v.node \in nodes /\ v.hash \in VNodes[v.node]
  <2>1. PICK n \in nodes : v \in VNodesOf(n)
    BY DEF AllVNodes
  <2> QED BY <2>1 DEF VNodesOf
<1>2. ASSUME NEW h \in HashesAt(nodes) PROVE \E v \in AllVNodes(nodes) : v.hash = h
  <2>1. PICK n \in nodes : h \in VNodes[n]
    BY DEF HashesAt
  <2>2. [hash |-> h, node |-> n] \in AllVNodes(nodes)
    BY <2>1 DEF AllVNodes, VNodesOf
  <2> QED BY <2>2
<1> QED BY <1>1, <1>2 DEF HashesAt

\* The first positions of a sorted ring are those of the hashes below the key.
LEMMA BelowKey ==
  ASSUME NEW S, IsRingSet(S), NEW key \in Nat
  PROVE  \E b \in 0..Cardinality(S) :
           \A k \in 1..Cardinality(S) : Sorted(S)[k].hash < key <=> k <= b
<1> DEFINE ring == Sorted(S)
           below == {v \in S : v.hash < key}
           b == Cardinality(below)
<1>1. SortsInto(S, ring) /\ IsFiniteSet(S) /\ \A v \in S : v.hash \in Nat
  BY SortedSorts DEF IsRingSet, VNode
<1>2. IsFiniteSet(below) /\ b \in Nat /\ b <= Cardinality(S)
  BY <1>1, FS_Subset, FS_CardinalityType
<1>3. ASSUME NEW k \in 1..Cardinality(S) PROVE ring[k].hash < key <=> k <= b
  <2> DEFINE before == {w \in S : ByHash(w, ring[k])}
  <2>1. ring[k] \in S /\ Cardinality(before) = k - 1
    BY <1>1 DEF SortsInto
  <2>2. IsFiniteSet(before) /\ ring[k].hash \in Nat
    BY <1>1, <2>1, FS_Subset
  <2>3. CASE ring[k].hash < key
    <3>1. before \in SUBSET below /\ ring[k] \in below /\ ring[k] \notin before
      BY <1>1, <2>1, <2>3 DEF ByHash
    <3>2. Cardinality(before) <= b /\ Cardinality(before) # b
      BY <1>2, <3>1, FS_Subset
    <3> QED BY <1>2, <2>1, <2>3, <3>2
  <2>4. CASE ~(ring[k].hash < key)
    <3>1. below \in SUBSET before
      BY <1>1, <2>2, <2>4 DEF ByHash
    <3>2. b <= Cardinality(before)
      BY <2>2, <3>1, FS_Subset
    <3> QED BY <1>2, <2>1, <2>4, <3>2
  <2> QED BY <2>3, <2>4
<1> HIDE DEF ring, b
<1>4. b \in 0..Cardinality(S)
  BY <1>1, <1>2 DEF SortsInto
<1> QED BY <1>3, <1>4 DEF ring

LEMMA OwnerIsNearest ==
  ASSUME NEW nodes \in SUBSET Node, nodes # {}, NEW r \in Room
  PROVE  GetOwner(Rebuild(nodes), r) = Clockwise(nodes, r)
<1> DEFINE S == AllVNodes(nodes)
           ring == Sorted(S)
           N == Cardinality(S)
           key == KeyHash[r]
<1>1. Rebuild(nodes) = ring /\ IsRingSet(S)
  BY RebuildSorted, AllVNodesRing
<1>2. SortsInto(S, ring) /\ key \in Nat /\ \A v \in S : v.hash \in Nat
  BY <1>1, SortedSorts, HashNumbers DEF IsRingSet, VNode
<1>3. PICK b \in 0..N : \A k \in 1..N : ring[k].hash < key <=> k <= b
  BY <1>1, <1>2, BelowKey
<1>4. N \in Nat /\ Len(ring) = N /\ ring \in Seq(VNode) /\ \A k \in 1..N : ring[k] \in S
  BY <1>2 DEF SortsInto
<1>5. \A v \in S : \E k \in 1..N : ring[k] = v
  BY <1>2 DEF SortsInto
<1>6. \A j, k \in 1..N : j <= k => ring[j].hash <= ring[k].hash
  <2> SUFFICES ASSUME NEW j \in 1..N, NEW k \in 1..N, j <= k PROVE ring[j].hash <= ring[k].hash
    OBVIOUS
  <2>1. ring[j].hash \in Nat /\ ring[k].hash \in Nat
    BY <1>2, <1>4
  <2>2. j < k <=> ring[j].hash < ring[k].hash
    BY <1>2 DEF SortsInto
  <2>3. j = k \/ j < k
    OBVIOUS
  <2> HIDE DEF ring
  <2> QED BY <2>1, <2>2, <2>3
<1>7. \A h \in HashesAt(nodes) : \E k \in 1..N : ring[k].hash = h
  <2>1. \A h \in HashesAt(nodes) : \E v \in S : v.hash = h
    BY RingHashes
  <2> QED BY <1>5, <2>1
<1>8. \A k \in 1..N : ring[k].hash \in HashesAt(nodes)
  BY <1>4, RingHashes
<1>9. N # 0
  <2>1. \E h : h \in HashesAt(nodes)
    BY HashNumbers DEF Nearest, HashesAfter
  <2> QED BY <1>7, <2>1
<1>10. LowerBound(ring, key) = b
  BY <1>3, <1>4, LowerBoundFinds
<1> DEFINE i == IF b >= N THEN 1 ELSE b + 1
<1>11. GetOwner(ring, r) = ring[i].node
  <2>1. ring # << >>
    <3> HIDE DEF ring
    <3> QED BY <1>4, <1>9
  <2>2. (IF b >= N THEN 0 ELSE b) + 1 = i
    BY <1>4
  <2> HIDE DEF ring, i
  <2> QED BY <1>4, <1>10, <2>1, <2>2 DEF GetOwner
<1>12. i \in 1..N
  BY <1>4, <1>9
<1> HIDE DEF ring, S, N
<1>13. ring[i].hash \in Nearest(nodes, r) /\ \A g \in Nearest(nodes, r) : ring[i].hash <= g
  <2>1. \A k \in 1..N : ring[k].hash \in Nat /\ (ring[k].hash >= key <=> ~(k <= b))
    BY <1>2, <1>3, <1>4
  <2>2. CASE b >= N
    <3>1. \A k \in 1..N : k <= b /\ i <= k
      BY <1>4, <2>2
    <3>2. HashesAfter(nodes, r) = {}
      BY <1>7, <2>1, <3>1 DEF HashesAfter
    <3>3. Nearest(nodes, r) = HashesAt(nodes)
      BY <3>2 DEF Nearest
    <3>4. \A k \in 1..N : ring[i].hash <= ring[k].hash
      BY <1>6, <1>12, <3>1
    <3> QED BY <1>7, <1>8, <1>12, <3>3, <3>4
  <2>3. CASE ~(b >= N)
    <3>1. ~(i <= b) /\ \A k \in 1..N : ~(k <= b) => i <= k
      BY <1>4, <2>3
    <3>2. ring[i].hash \in HashesAfter(nodes, r)
      BY <1>8, <1>12, <2>1, <3>1 DEF HashesAfter
    <3>3. Nearest(nodes, r) = HashesAfter(nodes, r)
      BY <3>2 DEF Nearest
    <3>4. \A k \in 1..N : ring[k].hash >= key => ring[i].hash <= ring[k].hash
      BY <1>6, <1>12, <2>1, <3>1
    <3>5. \A g \in HashesAfter(nodes, r) : ring[i].hash <= g
      BY <1>7, <3>4 DEF HashesAfter
    <3> QED BY <3>2, <3>3, <3>5
  <2> QED BY <2>2, <2>3
<1>14. ring[i].node \in nodes /\ ring[i].hash \in VNodes[ring[i].node]
  BY <1>4, <1>12, RingHashes DEF S
<1>15. Clockwise(nodes, r) = ring[i].node
  BY <1>13, <1>14, NearestOwner
<1> QED BY <1>1, <1>11, <1>15

\* addNode() and then removeNode(): the ring that was.
LEMMA AddedRemoved ==
  ASSUME NEW nodes \in SUBSET Node, NEW n \in Node \ nodes
  PROVE  /\ AddNode(Rebuild(nodes), n) = Rebuild(nodes \cup {n})
         /\ RemoveNode(AddNode(Rebuild(nodes), n), n) = Rebuild(nodes)
<1> DEFINE more == nodes \cup {n}
<1>1. /\ Rebuild(nodes) = Sorted(AllVNodes(nodes)) /\ Rebuild(more) = Sorted(AllVNodes(more))
      /\ AddNode(Rebuild(nodes), n) = Sorted(AllVNodes(more))
  BY RebuildSorted, AddedSorted
<1>2. RemoveNode(Sorted(AllVNodes(more)), n) = Sorted({v \in AllVNodes(more) : v.node # n})
  BY AllVNodesRing, RemovedSorted
<1>3. {v \in AllVNodes(more) : v.node # n} = AllVNodes(nodes)
  <2>1. \A m \in Node : \A v \in VNodesOf(m) : v.node = m
    BY DEF VNodesOf
  <2>2. AllVNodes(more) = AllVNodes(nodes) \cup VNodesOf(n)
    BY DEF AllVNodes
  <2>3. \A v \in AllVNodes(nodes) : v.node # n
    BY RingHashes
  <2> QED BY <2>1, <2>2, <2>3
<1> QED BY <1>1, <1>2, <1>3

LEMMA Transferred ==
  ASSUME NEW old, NEW new, NEW t \in Transfers(new, ComputeOwnership(old))
  PROVE  \E r \in Room : t.from = GetOwner(old, r) /\ t.to = GetOwner(new, r) /\ t.to # t.from
<1> DEFINE owners == ComputeOwnership(old)
<1>1. /\ DOMAIN owners \in SUBSET Room
      /\ \A r \in DOMAIN owners : owners[r] = GetOwner(old, r)
  BY DEF ComputeOwnership
<1>2. PICK r \in DOMAIN owners : /\ GetOwner(new, r) \notin {NoNode, owners[r]}
                                /\ t = [room |-> r, from |-> owners[r], to |-> GetOwner(new, r)]
  BY DEF Transfers
<1> HIDE DEF owners
<1> QED BY <1>1, <1>2

LEMMA Consistent ==
  ASSUME NEW nodes \in SUBSET Node, nodes # {}
  PROVE  IsConsistent(nodes)
<1> DEFINE ring == Rebuild(nodes)
<1>1. \A r \in Room : GetOwner(ring, r) = Clockwise(nodes, r)
  BY OwnerIsNearest
<1>2. ASSUME NEW n \in Node \ nodes
      PROVE  /\ RemoveNode(AddNode(ring, n), n) = ring
             /\ \A t \in Transfers(AddNode(ring, n), ComputeOwnership(ring)) : t.to = n
             /\ \A t \in Transfers(ring, ComputeOwnership(AddNode(ring, n))) : t.from = n
  <2> DEFINE grown == AddNode(ring, n)
  <2>1. \A r \in Room : GetOwner(grown, r) = Clockwise(nodes \cup {n}, r)
    BY AddedRemoved, OwnerIsNearest
  <2>2. \A r \in Room : GetOwner(grown, r) # n => GetOwner(grown, r) = GetOwner(ring, r)
    <3>1. \A r \in Room : Clockwise(nodes \cup {n}, r) # n
                          => Clockwise(nodes \cup {n}, r) = Clockwise(nodes, r)
      BY OwnerStays
    <3> HIDE DEF grown, ring
    <3> QED BY <1>1, <2>1, <3>1
  <2>3. RemoveNode(grown, n) = ring
    BY AddedRemoved
  <2> HIDE DEF ring
  <2> HIDE DEF grown
  <2>4. \A t \in Transfers(grown, ComputeOwnership(ring)) : t.to = n
    BY <2>2, Transferred
  <2>5. \A t \in Transfers(ring, ComputeOwnership(grown)) : t.from = n
    BY <2>2, Transferred
  <2> QED BY <2>3, <2>4, <2>5 DEF grown
<1> QED BY <1>1, <1>2 DEF IsConsistent

\* ConsistentHashRing: whatever nodes it is built from, the search finds the
\* nearest virtual node clockwise, and one node more or less moves no room between
\* two others.
LEMMA AllConsistent == ConsistentSets = SUBSET Node
<1> DEFINE Part(nodes) == IF nodes = {} \/ IsConsistent(nodes) THEN {nodes} ELSE {}
<1>1. \A nodes \in SUBSET Node : Part(nodes) = {nodes}
  BY Consistent
<1>2. ConsistentSets = UNION {Part(nodes) : nodes \in SUBSET Node}
  BY DEF ConsistentSets
<1> HIDE DEF Part
<1> QED BY <1>1, <1>2

\* ConsistentHashRing: whatever the hashes, and whatever nodes the heartbeats made a
\* process hold for active, the search over its ring finds the owner of every room
\* that consistent hashing names, a node that comes and goes leaves the ring as it
\* was, and a join or a death moves no room between two other nodes.
THEOREM RingsConsistent == MembershipSpec => []RingConsistent
<1>1. MembershipTypeOK => RingConsistent
  <2> SUFFICES ASSUME MembershipTypeOK, NEW n \in Node PROVE active[n] \in ConsistentSets
    BY DEF RingConsistent
  <2>1. active[n] \in SUBSET Node
    BY DEF MembershipTypeOK
  <2> QED BY <2>1, AllConsistent
<1> QED BY <1>1, MembershipTypes, PTL

---------------------------------------------------------------------------
(* ForwardedWrites *)

\* The rows of each request in the log, and the updates that the owner, as long
\* as it lives, has in its document.
rows == [r \in Request |-> {i \in DOMAIN updateLog : updateLog[i] = r}]
merged == IF up THEN doc ELSE Request

\* What the owner's handler has done with a copy by the time it is that far.
HandlerDid ==
  \A d \in Delivery :
    /\ handler[d] \in {"appended", "publishing", "answering"} => got[d] \in rows[d[1]]
    /\ handler[d] \in {"publishing", "answering"} => d[1] \in merged

\* An answer on its way says what is in the log and in the document.
AnswersTrue ==
  \A i \in DOMAIN acks : acks[i].success =>
    acks[i].seq \in rows[acks[i].request] /\ acks[i].request \in merged

ClientsTold ==
  \A r \in Request : pendingForwardAcks[r] = "acked" => ackSeq[r] \in rows[r] /\ r \in merged

\* A PUBLISH without its reply has the number of one of its copies.
Numbered == \A r \in Request : reply[r] # "none" => sends[r] \in Copy

ForwardIInv == ForwardTypeOK /\ Numbered /\ HandlerDid /\ AnswersTrue /\ ClientsTold

LEMMA Deliveries ==
  /\ \A d \in Delivery : d[1] \in Request /\ d[2] \in Copy /\ d = <<d[1], d[2]>>
  /\ \A r \in Request, c \in Copy : <<r, c>> \in Delivery
BY DEF Delivery

LEMMA ForwardStarts == ForwardInit => ForwardIInv
<1> SUFFICES ASSUME ForwardInit PROVE ForwardIInv
  OBVIOUS
<1>1. << >> \in Seq(Request) /\ << >> \in Seq(Ack) /\ << >> \in Seq(Delivery) /\ 0 \in 0..MaxSends
  BY MaxSendsAssumption
<1>2. ForwardTypeOK
  BY <1>1 DEF ForwardInit, ForwardTypeOK
<1>3. Numbered /\ HandlerDid /\ AnswersTrue /\ ClientsTold
  BY DEF ForwardInit, Numbered, HandlerDid, AnswersTrue, ClientsTold
<1> QED BY <1>2, <1>3 DEF ForwardIInv

\* Rows stay where they are when the log grows.
LEMMA RowsStay ==
  ASSUME updateLog \in Seq(Request), NEW q \in Request,
         updateLog' = Append(updateLog, q)
  PROVE  /\ updateLog' \in Seq(Request)
         /\ \A r \in Request : rows[r] \subseteq rows'[r]
         /\ Len(updateLog) + 1 \in rows'[q]
<1>1. updateLog' \in Seq(Request) /\ DOMAIN updateLog' = 1..(Len(updateLog) + 1)
  OBVIOUS
<1>2. DOMAIN updateLog = 1..Len(updateLog) /\ Len(updateLog) \in Nat
  OBVIOUS
<1>3. \A i \in DOMAIN updateLog : updateLog'[i] = updateLog[i]
  OBVIOUS
<1>4. updateLog'[Len(updateLog) + 1] = q
  OBVIOUS
<1>5. Len(updateLog) + 1 \in DOMAIN updateLog' /\ DOMAIN updateLog \subseteq DOMAIN updateLog'
  BY <1>1, <1>2
<1> QED BY <1>1, <1>3, <1>4, <1>5 DEF rows

\* No step takes a row or an update of the living owner away.
LEMMA FactsStay ==
  ASSUME ForwardTypeOK, ForwardNext
  PROVE  /\ \A r \in Request : rows[r] \subseteq rows'[r]
         /\ merged \subseteq merged'
<1> USE DEF ForwardTypeOK, HandlerGoes, ForwardTrouble
<1>1. ASSUME NEW d \in Delivery, AppendUpdate(d)
      PROVE  (\A q \in Request : rows[q] \subseteq rows'[q]) /\ merged \subseteq merged'
  <2>1. d[1] \in Request /\ (updateLog' = updateLog \/ updateLog' = Append(updateLog, d[1]))
    BY <1>1 DEF AppendUpdate, Delivery
  <2>2. \A q \in Request : rows[q] \subseteq rows'[q]
    BY <2>1, RowsStay DEF rows
  <2> QED BY <1>1, <2>2 DEF AppendUpdate, merged
<1>2. ASSUME NEW d \in Delivery, Apply(d)
      PROVE  (\A q \in Request : rows[q] \subseteq rows'[q]) /\ merged \subseteq merged'
  BY <1>2 DEF Apply, merged, rows
<1>3. ASSUME OwnerCrash
      PROVE  (\A q \in Request : rows[q] \subseteq rows'[q]) /\ merged \subseteq merged'
  BY <1>3 DEF OwnerCrash, merged, rows
<1>4. ASSUME updateLog' = updateLog, doc' = doc, up' = up
      PROVE  (\A q \in Request : rows[q] \subseteq rows'[q]) /\ merged \subseteq merged'
  BY <1>4 DEF merged, rows
<1>5. \/ updateLog' = updateLog /\ doc' = doc /\ up' = up
      \/ OwnerCrash \/ \E d \in Delivery : AppendUpdate(d) \/ Apply(d)
  BY DEF ForwardNext, ForwardWriteToOwner, Published, ForwardTimeout, RedisPublishes, Resend,
         Opened, PublishStream, Answer, HandleAck, Receive, LoseRequest, LoseAck
<1> QED BY <1>1, <1>2, <1>3, <1>4, <1>5

\* An answer taken off or lost leaves the others as they are.
LEMMA TailOfAcks ==
  ASSUME acks \in Seq(Ack), acks # << >>, acks' = Tail(acks)
  PROVE  /\ acks' \in Seq(Ack) /\ acks[1] \in Ack /\ Head(acks) = acks[1] /\ 1 \in DOMAIN acks
         /\ \A i \in DOMAIN acks' : i + 1 \in DOMAIN acks /\ acks'[i] = acks[i + 1]
OBVIOUS

\* The parts of ForwardTypeOK.
ForwardPlaces ==
  /\ pendingForwardAcks \in [Request -> {"unsent", "waiting", "acked", "failed"}]
  /\ ackSeq \in [Request -> Nat] /\ got \in [Delivery -> Nat]
  /\ sends \in [Request -> 0..MaxSends]
  /\ reply \in [Request -> {"none", "sent", "reached", "missed"}]
  /\ handler \in [Delivery -> {"no", "opening", "appending", "appended",
                              "publishing", "answering", "failing"}]
  /\ doc \subseteq Request

ForwardQueues ==
  /\ requests \in Seq(Delivery) /\ updateLog \in Seq(Request)
  /\ acks \in Seq(Ack)

LEMMA TypesAreParts ==
  ForwardTypeOK <=> ForwardPlaces /\ ForwardQueues /\ up \in BOOLEAN /\ forwardTrouble \in Nat
BY Zenon DEF ForwardTypeOK, ForwardPlaces, ForwardQueues

LEMMA UpStays ==
  ASSUME ForwardNext, up \in BOOLEAN, forwardTrouble \in Nat
  PROVE  up' \in BOOLEAN /\ forwardTrouble' \in Nat
<1> USE DEF ForwardNext, ForwardWriteToOwner, Published, ForwardTimeout, RedisPublishes, Resend,
            Opened, AppendUpdate, Apply, PublishStream, Answer, HandleAck, Receive, LoseRequest, LoseAck, OwnerCrash,
            ForwardTrouble, HandlerGoes
<1>1. up' = up \/ up' = FALSE
  BY Zenon
<1>2. up' \in BOOLEAN
  BY <1>1, Zenon
<1>3. forwardTrouble' = forwardTrouble \/ forwardTrouble' = forwardTrouble + 1
  BY Zenon
<1> QED BY <1>2, <1>3

LEMMA QueuesStay ==
  ASSUME ForwardNext, ForwardPlaces, ForwardQueues, Numbered
  PROVE  ForwardQueues'
<1>1. \A d \in Delivery : Append(requests, d) \in Seq(Delivery)
  BY DEF ForwardQueues
<1>2. requests # << >> => Tail(requests) \in Seq(Delivery)
  BY DEF ForwardQueues
<1>3. requests' \in Seq(Delivery)
  <2>1. << >> \in Seq(Delivery)
    OBVIOUS
  <2>2. \/ requests' = requests \/ requests' = << >>
        \/ requests # << >> /\ requests' = Tail(requests)
        \/ \E r \in Request : requests' = Append(requests, <<r, sends[r]>>) /\ reply[r] = "sent"
    BY Zenon DEF ForwardNext, ForwardWriteToOwner, Published, ForwardTimeout, RedisPublishes, Resend,
       Opened, AppendUpdate, Apply, PublishStream, Answer, HandleAck, Receive, LoseRequest, LoseAck, OwnerCrash
  <2>3. \A r \in Request : reply[r] = "sent" => <<r, sends[r]>> \in Delivery
    BY Deliveries DEF Numbered
  <2> QED BY <1>1, <1>2, <2>1, <2>2, <2>3, Zenon DEF ForwardQueues
<1>4. updateLog' \in Seq(Request)
  <2>1. \A r \in Request : Append(updateLog, r) \in Seq(Request)
    BY DEF ForwardQueues
  <2>2. updateLog' = updateLog \/ \E d \in Delivery : updateLog' = Append(updateLog, d[1])
    BY Zenon DEF ForwardNext, ForwardWriteToOwner, Published, ForwardTimeout, RedisPublishes, Resend,
       Opened, AppendUpdate, Apply, PublishStream, Answer, HandleAck, Receive, LoseRequest, LoseAck, OwnerCrash
  <2> QED BY <2>1, <2>2, Deliveries, Zenon DEF ForwardQueues
<1>5. acks' \in Seq(Ack)
  <2>1. \A a \in Ack : Append(acks, a) \in Seq(Ack)
    BY DEF ForwardQueues
  <2>2. acks # << >> => Tail(acks) \in Seq(Ack)
    BY DEF ForwardQueues
  <2>3. \A d \in Delivery : AckOf(d[1], FALSE, 0) \in Ack /\ AckOf(d[1], TRUE, got[d]) \in Ack
    BY DEF Ack, AckOf, ForwardPlaces, Delivery
  <2>4. \/ acks' = acks
        \/ acks # << >> /\ acks' = Tail(acks)
        \/ \E d \in Delivery : acks' = Append(acks, IF handler[d] = "failing" THEN AckOf(d[1], FALSE, 0)
                                                     ELSE AckOf(d[1], TRUE, got[d]))
    BY Zenon DEF ForwardNext, ForwardWriteToOwner, Published, ForwardTimeout, RedisPublishes, Resend,
       Opened, AppendUpdate, Apply, PublishStream, Answer, HandleAck, Receive, LoseRequest, LoseAck, OwnerCrash
  <2>5. \/ acks' = acks
        \/ acks # << >> /\ acks' = Tail(acks)
        \/ \E a \in Ack : acks' = Append(acks, a)
    BY <2>3, <2>4, Zenon
  <2> QED BY <2>1, <2>2, <2>5, Zenon DEF ForwardQueues
<1> QED BY <1>3, <1>4, <1>5 DEF ForwardQueues

LEMMA ForwardPlacesStay ==
  ASSUME ForwardNext, ForwardPlaces, ForwardQueues
  PROVE  ForwardPlaces'
<1> USE DEF ForwardPlaces, HandlerGoes
<1>1. ASSUME NEW r \in Request, ForwardWriteToOwner(r) \/ Published(r) \/ ForwardTimeout(r)
      PROVE  ForwardPlaces'
  BY <1>1, MaxSendsAssumption DEF ForwardWriteToOwner, Published, ForwardTimeout, publishVars
<1>8. ASSUME NEW r \in Request, RedisPublishes(r) \/ Resend(r)
      PROVE  ForwardPlaces'
  <2>1. CASE RedisPublishes(r)
    BY <2>1 DEF RedisPublishes
  <2>2. CASE Resend(r)
    <3>1. sends[r] \in Nat /\ (sends[r] < MaxSends => sends[r] + 1 \in 0..MaxSends)
      BY MaxSendsAssumption
    <3> QED BY <2>2, <3>1 DEF Resend
  <2> QED BY <1>8, <2>1, <2>2
<1>2. ASSUME NEW d \in Delivery, Opened(d) \/ Apply(d) \/ PublishStream(d)
      PROVE  ForwardPlaces'
  BY <1>2 DEF Opened, Apply, PublishStream, publishVars, Delivery
<1>3. ASSUME NEW d \in Delivery, AppendUpdate(d)
      PROVE  ForwardPlaces'
  <2>1. Len(updateLog) + 1 \in Nat
    BY DEF ForwardQueues
  <2>2. CASE /\ handler' = [handler EXCEPT ![d] = "appended"]
             /\ got' = [got EXCEPT ![d] = Len(updateLog) + 1]
             /\ UNCHANGED <<pendingForwardAcks, ackSeq, publishVars, doc>>
    BY <2>1, <2>2 DEF publishVars
  <2>3. CASE handler' = [handler EXCEPT ![d] = "failing"]
             /\ UNCHANGED <<pendingForwardAcks, ackSeq, publishVars, doc, got>>
    BY <2>3 DEF publishVars
  <2> QED BY <1>3, <2>2, <2>3, Zenon DEF AppendUpdate
<1>4. ASSUME NEW d \in Delivery, Answer(d)
      PROVE  ForwardPlaces'
  BY <1>4 DEF Answer, publishVars
<1>5. CASE HandleAck
  <2>1. Head(acks) \in Ack
    BY <1>5 DEF HandleAck, ForwardQueues
  <2>2. Head(acks).request \in Request /\ Head(acks).seq \in Nat
    BY <2>1 DEF Ack
  <2> QED BY <1>5, <2>2 DEF HandleAck, publishVars
<1>6. CASE Receive
  <2>1. Head(requests) \in Delivery
    BY <1>6 DEF Receive, ForwardQueues
  <2> QED BY <1>6, <2>1 DEF Receive, publishVars
<1>7. CASE LoseRequest \/ LoseAck \/ OwnerCrash
  BY <1>7 DEF LoseRequest, LoseAck, OwnerCrash, publishVars
<1> QED BY <1>1, <1>2, <1>3, <1>4, <1>5, <1>6, <1>7, <1>8 DEF ForwardNext

LEMMA ForwardTypesStay ==
  ASSUME ForwardTypeOK, Numbered, ForwardNext
  PROVE  ForwardTypeOK'
<1>1. ForwardPlaces' /\ ForwardQueues'
  BY TypesAreParts, QueuesStay, ForwardPlacesStay
<1>2. up' \in BOOLEAN /\ forwardTrouble' \in Nat
  BY TypesAreParts, UpStays
<1> QED BY <1>1, <1>2 DEF ForwardTypeOK, ForwardPlaces, ForwardQueues

LEMMA ForwardStays ==
  ASSUME ForwardIInv, [ForwardNext]_forwardVars
  PROVE  ForwardIInv'
<1>1. CASE UNCHANGED forwardVars
  <2>1. rows' = rows /\ merged' = merged
    BY <1>1 DEF forwardVars, rows, merged
  <2>2. ForwardTypeOK' = ForwardTypeOK
    BY <1>1 DEF forwardVars, ForwardTypeOK
  <2> QED BY <1>1, <2>1, <2>2 DEF forwardVars, ForwardIInv, Numbered, HandlerDid, AnswersTrue,
                                  ClientsTold
<1>2. CASE ForwardNext
  <2>1. ForwardTypeOK /\ ForwardTypeOK'
    BY <1>2, ForwardTypesStay DEF ForwardIInv
  <2>2. (\A r \in Request : rows[r] \subseteq rows'[r]) /\ merged \subseteq merged'
    BY <1>2, <2>1, FactsStay
  <2>3. acks \in Seq(Ack) /\ \A i \in DOMAIN acks : acks[i].request \in Request
    <3>1. acks \in Seq(Ack)
      BY <2>1, TypesAreParts DEF ForwardQueues
    <3>2. \A i \in DOMAIN acks : acks[i] \in Ack
      BY <3>1
    <3> QED BY <3>1, <3>2 DEF Ack
  <2> USE DEF ForwardIInv
  <2>4. HandlerDid'
    <3> SUFFICES ASSUME NEW q \in Delivery
                 PROVE  /\ handler'[q] \in {"appended", "publishing", "answering"}
                             => got'[q] \in rows'[q[1]]
                        /\ handler'[q] \in {"publishing", "answering"} => q[1] \in merged'
      BY DEF HandlerDid
    <3> USE DEF HandlerDid, ForwardTypeOK, HandlerGoes
    <3>1. ASSUME NEW d \in Delivery, AppendUpdate(d)
          PROVE  /\ handler'[q] \in {"appended", "publishing", "answering"}
                      => got'[q] \in rows'[q[1]]
                 /\ handler'[q] \in {"publishing", "answering"} => q[1] \in merged'
      <4>1. CASE /\ handler' = [handler EXCEPT ![d] = "appended"]
                 /\ updateLog' = Append(updateLog, d[1])
                 /\ got' = [got EXCEPT ![d] = Len(updateLog) + 1]
        <5>1. Len(updateLog) + 1 \in rows'[d[1]]
          BY <2>1, <4>1, RowsStay, Deliveries
        <5> QED BY <2>1, <2>2, <4>1, <5>1, Deliveries
      <4>2. CASE handler' = [handler EXCEPT ![d] = "failing"] /\ got' = got
        BY <2>1, <2>2, <4>2, Deliveries
      <4> QED BY <3>1, <4>1, <4>2 DEF AppendUpdate
    <3>2. ASSUME NEW d \in Delivery, Apply(d)
          PROVE  /\ handler'[q] \in {"appended", "publishing", "answering"}
                      => got'[q] \in rows'[q[1]]
                 /\ handler'[q] \in {"publishing", "answering"} => q[1] \in merged'
      <4>1. handler' = [handler EXCEPT ![d] = "publishing"] => d[1] \in merged'
        BY <2>1, <3>2, Deliveries DEF Apply, merged
      <4> QED BY <2>1, <2>2, <3>2, <4>1, Deliveries DEF Apply
    <3>3. CASE /\ got'[q] = got[q] \/ handler'[q] = "no"
               /\ handler'[q] \in {handler[q], "no", "opening", "appending", "failing"}
                  \/ (handler[q] = "publishing" /\ handler'[q] = "answering")
      BY <2>2, <3>3, Deliveries
    <3>4. DOMAIN handler = Delivery /\ DOMAIN got = Delivery /\ requests \in Seq(Delivery)
      BY <2>1
    <3>5. ASSUME NEW d \in Delivery, Opened(d) \/ PublishStream(d) \/ Answer(d)
          PROVE  /\ got'[q] = got[q] \/ handler'[q] = "no"
                 /\ handler'[q] \in {handler[q], "no", "opening", "appending", "failing"}
                    \/ (handler[q] = "publishing" /\ handler'[q] = "answering")
      BY ONLY <3>4, <3>5, q \in Delivery DEF Opened, PublishStream, Answer, HandlerGoes
    <3>6. ASSUME Receive \/ OwnerCrash
          PROVE  /\ got'[q] = got[q] \/ handler'[q] = "no"
                 /\ handler'[q] \in {handler[q], "no", "opening", "appending", "failing"}
      <4>1. requests # << >> => Head(requests) \in Delivery
        BY <3>4
      <4> QED BY ONLY <3>4, <3>6, <4>1, q \in Delivery DEF Receive, OwnerCrash, HandlerGoes
    <3>7. \/ \E d \in Delivery : AppendUpdate(d) \/ Apply(d)
          \/ \E d \in Delivery : Opened(d) \/ PublishStream(d) \/ Answer(d)
          \/ Receive \/ OwnerCrash \/ (got' = got /\ handler' = handler)
      BY ONLY <1>2, Zenon DEF ForwardNext, ForwardWriteToOwner, Published, ForwardTimeout,
         RedisPublishes, Resend, HandleAck, LoseRequest, LoseAck
    <3> QED BY <3>1, <3>2, <3>3, <3>5, <3>6, <3>7
  <2>5. AnswersTrue'
    <3>1. ASSUME acks' = acks PROVE AnswersTrue'
      BY <2>2, <2>3, <3>1 DEF AnswersTrue
    <3>2. ASSUME acks # << >>, acks' = Tail(acks) PROVE AnswersTrue'
      BY <2>2, <2>3, <3>2, TailOfAcks DEF AnswersTrue
    <3>3. ASSUME NEW d \in Delivery, Answer(d) PROVE AnswersTrue'
      <4> DEFINE a == IF handler[d] = "failing" THEN AckOf(d[1], FALSE, 0)
                                                ELSE AckOf(d[1], TRUE, got[d])
      <4>1. a.request = d[1] /\ (a.success => handler[d] = "answering" /\ a.seq = got[d])
        BY <3>3 DEF Answer, AckOf
      <4>2. a.success => a.seq \in rows[d[1]] /\ d[1] \in merged
        BY <4>1, Deliveries DEF HandlerDid
      <4>3. a \in Ack
        BY <2>1, Deliveries DEF Ack, AckOf, ForwardTypeOK
      <4>4. acks' = Append(acks, a)
        BY <3>3 DEF Answer
      <4> HIDE DEF a
      <4>5. \A i \in DOMAIN acks' : acks'[i] = a \/ (i \in DOMAIN acks /\ acks'[i] = acks[i])
        BY <2>3, <4>3, <4>4
      <4> QED BY <2>2, <2>3, <4>1, <4>2, <4>5, Deliveries DEF AnswersTrue
    <3>4. acks' = acks \/ (acks # << >> /\ acks' = Tail(acks)) \/ \E d \in Delivery : Answer(d)
      BY ONLY <1>2, Zenon DEF ForwardNext, ForwardWriteToOwner, Published, ForwardTimeout,
         RedisPublishes, Resend, Opened, PublishStream, AppendUpdate, Apply, HandleAck, Receive,
         LoseRequest, LoseAck, OwnerCrash
    <3> QED BY <3>1, <3>2, <3>3, <3>4
  <2>6. ClientsTold'
    <3>1. CASE HandleAck
      <4>1. 1 \in DOMAIN acks /\ Head(acks) = acks[1] /\ acks[1].request \in Request
        BY <2>3, <3>1, TailOfAcks DEF HandleAck
      <4>2. acks[1].success => acks[1].seq \in rows'[acks[1].request]
                               /\ acks[1].request \in merged'
        BY <2>2, <4>1 DEF AnswersTrue
      <4> DEFINE h == Head(acks)
      <4>3. pendingForwardAcks \in [Request -> {"unsent", "waiting", "acked", "failed"}]
            /\ ackSeq \in [Request -> Nat]
        BY <2>1, TypesAreParts DEF ForwardPlaces
      <4>4. CASE pendingForwardAcks[h.request] # "waiting"
        BY <2>2, <3>1, <4>4 DEF HandleAck, ClientsTold
      <4>5. CASE pendingForwardAcks[h.request] = "waiting" /\ ~h.success
        BY <2>2, <3>1, <4>1, <4>3, <4>5 DEF HandleAck, ClientsTold
      <4>6. CASE pendingForwardAcks[h.request] = "waiting" /\ h.success
        <5>1. h.seq \in rows'[h.request] /\ h.request \in merged'
          BY <4>1, <4>2, <4>6
        <5>2. /\ pendingForwardAcks' = [pendingForwardAcks EXCEPT ![h.request] = "acked"]
              /\ ackSeq' = [ackSeq EXCEPT ![h.request] = h.seq]
          BY <3>1, <4>6 DEF HandleAck
        <5> HIDE DEF h
        <5> QED BY <2>2, <4>3, <5>1, <5>2 DEF ClientsTold
      <4> QED BY <4>4, <4>5, <4>6
    <3>2. CASE ~HandleAck
      <4>1. /\ ackSeq' = ackSeq
            /\ \A r \in Request : pendingForwardAcks'[r] = "acked"
                                    => pendingForwardAcks[r] = "acked"
        <5>1. /\ ackSeq' = ackSeq
              /\ \/ pendingForwardAcks' = pendingForwardAcks
                 \/ \E r \in Request : ForwardWriteToOwner(r) \/ Published(r) \/ ForwardTimeout(r)
                                       \/ Resend(r)
          BY ONLY <1>2, <3>2, Zenon DEF ForwardNext, ForwardWriteToOwner, Published,
             ForwardTimeout, RedisPublishes, Resend, Opened, PublishStream, AppendUpdate, Apply,
             Answer, Receive, LoseRequest, LoseAck, OwnerCrash
        <5>2. DOMAIN pendingForwardAcks = Request
          BY <2>1 DEF ForwardTypeOK
        <5>3. ASSUME NEW r \in Request,
                     ForwardWriteToOwner(r) \/ Published(r) \/ ForwardTimeout(r) \/ Resend(r),
                     NEW p \in Request, pendingForwardAcks'[p] = "acked"
              PROVE  pendingForwardAcks[p] = "acked"
          BY ONLY <5>2, <5>3 DEF ForwardWriteToOwner, Published, ForwardTimeout, Resend
        <5> QED BY <5>1, <5>3
      <4> QED BY <2>2, <4>1 DEF ClientsTold
    <3> QED BY <3>1, <3>2
  <2>7. Numbered'
    <3>1. ASSUME NEW r \in Request,
                 ForwardWriteToOwner(r) \/ Published(r) \/ RedisPublishes(r) \/ Resend(r)
          PROVE  Numbered'
      <4>1. /\ 1 \in Copy /\ \A p \in Request : sends[p] \in Copy /\ sends[p] < MaxSends
                                                       => sends[p] + 1 \in Copy
            /\ DOMAIN sends = Request /\ DOMAIN reply = Request
        BY <2>1, MaxSendsAssumption DEF ForwardTypeOK, Copy
      <4> SUFFICES ASSUME NEW p \in Request, reply'[p] # "none" PROVE sends'[p] \in Copy
        BY DEF Numbered
      <4> QED BY ONLY Numbered, <3>1, <4>1, p \in Request, reply'[p] # "none"
              DEF Numbered, ForwardWriteToOwner, Published, RedisPublishes, Resend, publishVars
    <3>2. \/ \E r \in Request : ForwardWriteToOwner(r) \/ Published(r) \/ RedisPublishes(r)
                                \/ Resend(r)
          \/ UNCHANGED publishVars
      BY ONLY <1>2, Zenon DEF ForwardNext, ForwardTimeout, Opened, PublishStream, AppendUpdate,
         Apply, Answer, HandleAck, Receive, LoseRequest, LoseAck, OwnerCrash
    <3> QED BY <3>1, <3>2 DEF Numbered, publishVars
  <2> QED BY <2>1, <2>4, <2>5, <2>6, <2>7
<1> QED BY <1>1, <1>2

\* The variables keep their types.
THEOREM ForwardTypes == ForwardSpec => []ForwardTypeOK
<1>1. ForwardIInv => ForwardTypeOK
  BY DEF ForwardIInv
<1> QED BY <1>1, ForwardStarts, ForwardStays, PTL DEF ForwardSpec

\* forwardWriteToOwner() and handleForwardedWriteRequest(): an acknowledgement
\* names the write's own row, and the living owner has it in its document.
THEOREM ForwardedIsDurable == ForwardSpec => []AckedIsDurable
<1>1. ForwardIInv => AckedIsDurable
  BY DEF ForwardIInv, ClientsTold, AckedIsDurable, rows, merged
<1> QED BY <1>1, ForwardStarts, ForwardStays, PTL DEF ForwardSpec

---------------------------------------------------------------------------
(* The forwarding implements RemoteWrite. *)

\* The copies that Redis has dealt with, or that ioredis gave up.
issued == {d \in Delivery : \/ d[2] < sends[d[1]]
                            \/ d[2] = sends[d[1]] /\ reply[d[1]] # "sent"}

\* A copy is in one place: not sent yet, once in the channel, or with the handler.
OneCopy ==
  /\ \A i, j \in DOMAIN requests : requests[i] = requests[j] => i = j
  /\ \A i \in DOMAIN requests : handler[requests[i]] = "no" /\ requests[i] \in issued
  /\ \A d \in Delivery : handler[d] # "no" => d \in issued
  /\ \A r \in Request : pendingForwardAcks[r] = "unsent" => reply[r] = "none" /\ sends[r] = 0

RemoteIInv == ForwardIInv /\ OneCopy

LEMMA TailOfRequests ==
  ASSUME requests \in Seq(Delivery), requests # << >>, requests' = Tail(requests)
  PROVE  /\ 1 \in DOMAIN requests /\ Head(requests) = requests[1] /\ requests[1] \in Delivery
         /\ \A i \in DOMAIN requests' :
              i + 1 \in DOMAIN requests /\ i + 1 # 1 /\ requests'[i] = requests[i + 1]
         /\ \A i \in DOMAIN requests \ {1} :
              i - 1 \in DOMAIN requests' /\ requests'[i - 1] = requests[i]
<1>1. DOMAIN requests = 1..Len(requests) /\ Len(requests) \in Nat \ {0}
  OBVIOUS
<1>2. DOMAIN requests' = 1..(Len(requests) - 1)
  OBVIOUS
<1>3. \A i \in 1..(Len(requests) - 1) : requests'[i] = requests[i + 1]
  OBVIOUS
<1>4. Head(requests) = requests[1] /\ requests[1] \in Delivery
  OBVIOUS
<1>5. \A i \in DOMAIN requests \ {1} : i - 1 \in DOMAIN requests' /\ (i - 1) + 1 = i
  BY <1>1, <1>2
<1> QED BY <1>1, <1>2, <1>3, <1>4, <1>5

LEMMA OneMoreRequest ==
  ASSUME requests \in Seq(Delivery), NEW d \in Delivery, requests' = Append(requests, d)
  PROVE  /\ DOMAIN requests' = DOMAIN requests \cup {Len(requests) + 1}
         /\ requests'[Len(requests) + 1] = d /\ Len(requests) + 1 \notin DOMAIN requests
         /\ \A i \in DOMAIN requests : requests'[i] = requests[i]
<1>1. DOMAIN requests = 1..Len(requests) /\ Len(requests) \in Nat
  OBVIOUS
<1>2. DOMAIN requests' = 1..(Len(requests) + 1)
  OBVIOUS
<1>3. requests'[Len(requests) + 1] = d
  OBVIOUS
<1>4. \A i \in DOMAIN requests : requests'[i] = requests[i]
  OBVIOUS
<1> QED BY <1>1, <1>2, <1>3, <1>4

LEMMA OneCopyStays ==
  ASSUME RemoteIInv, ForwardNext
  PROVE  OneCopy'
<1>1. /\ requests \in Seq(Delivery) /\ DOMAIN handler = Delivery
      /\ DOMAIN sends = Request /\ DOMAIN reply = Request /\ DOMAIN pendingForwardAcks = Request
      /\ \A r \in Request : sends[r] \in Nat
      /\ \A i \in DOMAIN requests : requests[i] \in Delivery
      /\ \A d \in Delivery : d[2] \in Nat /\ d[2] > 0
  BY Deliveries, MaxSendsAssumption DEF RemoteIInv, ForwardIInv, ForwardTypeOK, Copy
<1> USE DEF RemoteIInv
<1>2. ASSUME NEW r \in Request, ForwardWriteToOwner(r) \/ Published(r) \/ Resend(r)
      PROVE  OneCopy'
  <2>1. /\ requests' = requests /\ handler' = handler
        /\ \A p \in Request \ {r} : sends'[p] = sends[p] /\ reply'[p] = reply[p]
                                    /\ pendingForwardAcks'[p] = pendingForwardAcks[p]
    BY <1>1, <1>2 DEF ForwardWriteToOwner, Published, Resend, publishVars
  <2>2. pendingForwardAcks'[r] = "unsent" => reply'[r] = "none" /\ sends'[r] = 0
    BY <1>1, <1>2 DEF ForwardWriteToOwner, Published, Resend, publishVars, OneCopy
  <2>3. ASSUME NEW d \in issued PROVE d \in issued'
    <3>1. CASE d[1] # r
      BY <2>1, <2>3, <3>1, Deliveries DEF issued
    <3>2. CASE d[1] = r
      <4>1. CASE ForwardWriteToOwner(r)
        BY <1>1, <2>3, <3>2, <4>1 DEF ForwardWriteToOwner, OneCopy, issued
      <4>2. CASE Published(r)
        BY <1>1, <2>3, <3>2, <4>2 DEF Published, issued
      <4>3. CASE Resend(r)
        BY <1>1, <2>3, <3>2, <4>3 DEF Resend, issued
      <4> QED BY <1>2, <4>1, <4>2, <4>3
    <3> QED BY <3>1, <3>2
  <2> QED BY <1>1, <2>1, <2>2, <2>3 DEF OneCopy
<1>3. ASSUME NEW r \in Request, RedisPublishes(r) PROVE OneCopy'
  <2> DEFINE e == <<r, sends[r]>>
  <2>1. /\ reply[r] = "sent" /\ sends' = sends /\ handler' = handler
        /\ pendingForwardAcks' = pendingForwardAcks
        /\ reply' = [reply EXCEPT ![r] = "reached"] \/ reply' = [reply EXCEPT ![r] = "missed"]
        /\ requests' = requests \/ requests' = Append(requests, e)
    BY <1>3 DEF RedisPublishes
  <2>2. e \in Delivery /\ e \notin issued /\ e \in issued'
    BY <1>1, <2>1, Deliveries DEF ForwardIInv, Numbered, issued
  <2>3. issued \subseteq issued'
    BY <1>1, <2>1, Deliveries DEF issued
  <2>4. handler[e] = "no" /\ \A i \in DOMAIN requests : requests[i] # e
    BY <2>2 DEF OneCopy
  <2>5. \A p \in Request : pendingForwardAcks'[p] = "unsent" => reply'[p] = "none" /\ sends'[p] = 0
    BY <1>1, <2>1 DEF OneCopy
  <2> HIDE DEF e
  <2>6. CASE requests' = requests
    BY <1>1, <2>1, <2>3, <2>5, <2>6 DEF OneCopy
  <2>7. CASE requests' = Append(requests, e)
    <3> DEFINE n == Len(requests) + 1
    <3>1. /\ DOMAIN requests' = DOMAIN requests \cup {n} /\ requests'[n] = e
          /\ \A i \in DOMAIN requests : requests'[i] = requests[i] /\ requests[i] # e
      BY <1>1, <2>2, <2>4, <2>7, OneMoreRequest
    <3> HIDE DEF n
    <3>2. \A i, j \in DOMAIN requests' : requests'[i] = requests'[j] => i = j
      BY <3>1 DEF OneCopy
    <3>3. \A i \in DOMAIN requests' : handler'[requests'[i]] = "no" /\ requests'[i] \in issued'
      BY <1>1, <2>1, <2>2, <2>3, <2>4, <3>1 DEF OneCopy
    <3> QED BY <2>1, <2>3, <2>5, <3>2, <3>3 DEF OneCopy
  <2> QED BY <2>1, <2>6, <2>7
<1>4. ASSUME requests # << >>, requests' = Tail(requests), UNCHANGED <<pendingForwardAcks, sends, reply>>,
             \/ handler' = handler
             \/ handler' = [handler EXCEPT ![Head(requests)] = "opening"]
      PROVE  OneCopy'
  <2>1. issued' = issued
    BY <1>4 DEF issued
  <2>2. \A i \in DOMAIN requests' : requests'[i] # requests[1]
    BY <1>1, <1>4, TailOfRequests DEF OneCopy
  <2>3. \A i, j \in DOMAIN requests' : requests'[i] = requests'[j] => i = j
    <3> SUFFICES ASSUME NEW i \in DOMAIN requests', NEW j \in DOMAIN requests',
                        requests'[i] = requests'[j]
                 PROVE  i = j
      OBVIOUS
    <3>1. i + 1 = j + 1
      BY <1>1, <1>4, TailOfRequests DEF OneCopy
    <3>2. i \in Nat /\ j \in Nat
      BY <1>1, <1>4
    <3> QED BY <3>1, <3>2
  <2> QED BY <1>1, <1>4, <2>1, <2>2, <2>3, TailOfRequests DEF OneCopy
<1>5. ASSUME UNCHANGED <<sends, reply>>, requests' \in {requests, << >>},
             \A r \in Request : pendingForwardAcks'[r] = "unsent" => pendingForwardAcks[r] = "unsent",
             \A d \in Delivery : handler'[d] # "no" => handler[d] # "no"
      PROVE  OneCopy'
  <2>1. issued' = issued
    BY <1>5 DEF issued
  <2> QED BY <1>1, <1>5, <2>1 DEF OneCopy
<1>6. ASSUME NEW d \in Delivery,
             Opened(d) \/ AppendUpdate(d) \/ Apply(d) \/ PublishStream(d) \/ Answer(d)
      PROVE  OneCopy'
  <2>1. /\ UNCHANGED <<sends, reply, requests, pendingForwardAcks>>
        /\ \A e \in Delivery : handler'[e] # "no" => handler[e] # "no"
    BY ONLY <1>1, <1>6 DEF Opened, AppendUpdate, Apply, PublishStream, Answer, HandlerGoes,
            publishVars
  <2> QED BY <1>5, <2>1
<1>7. ASSUME (\E r \in Request : ForwardTimeout(r)) \/ HandleAck \/ LoseAck \/ OwnerCrash
      PROVE  OneCopy'
  <2>1. \A r \in Request : pendingForwardAcks'[r] = "unsent" => pendingForwardAcks[r] = "unsent"
    BY ONLY <1>1, <1>7 DEF ForwardTimeout, HandleAck, LoseAck, OwnerCrash
  <2>2. \A d \in Delivery : handler'[d] # "no" => handler[d] # "no"
    BY ONLY <1>1, <1>7 DEF ForwardTimeout, HandleAck, LoseAck, OwnerCrash
  <2>3. UNCHANGED <<sends, reply>> /\ requests' \in {requests, << >>}
    BY ONLY <1>7, Zenon DEF ForwardTimeout, HandleAck, LoseAck, OwnerCrash, publishVars
  <2> QED BY <1>5, <2>1, <2>2, <2>3
<1>8. CASE Receive \/ LoseRequest
  BY <1>4, <1>8 DEF Receive, LoseRequest, HandlerGoes, publishVars
<1> QED BY <1>2, <1>3, <1>6, <1>7, <1>8 DEF ForwardNext

LEMMA RemoteStarts == ForwardInit => RemoteIInv
BY ForwardStarts DEF ForwardInit, RemoteIInv, OneCopy

LEMMA RemoteStays ==
  ASSUME RemoteIInv, [ForwardNext]_forwardVars
  PROVE  RemoteIInv'
<1>1. ForwardIInv'
  BY ForwardStays DEF RemoteIInv
<1>2. CASE UNCHANGED forwardVars
  BY <1>1, <1>2 DEF forwardVars, RemoteIInv, OneCopy, issued
<1> QED BY <1>1, <1>2, OneCopyStays DEF RemoteIInv

\* What the client is told once the write has its outcome.
Says(r) == IF Outcome(r) = "acked" THEN ackSeq[r] ELSE 0

\* Copies are lost, or nothing happens that the promise speaks of.
LEMMA LosesCopies ==
  ASSUME \A r \in Request : Outcome(r)' = Outcome(r) /\ Says(r)' = Says(r),
         Underway' \subseteq Underway, updateLog' = updateLog
  PROVE  Remote!Next
<1>1. /\ [r \in Request |-> Outcome(r)]' = [r \in Request |-> Outcome(r)]
      /\ [r \in Request |-> Says(r)]' = [r \in Request |-> Says(r)]
  OBVIOUS
<1>2. Underway' = Underway \ (Underway \ Underway')
  OBVIOUS
<1> QED BY <1>1, <1>2 DEF Says, Remote!Lose, Remote!Next

\* A write gets its outcome.
LEMMA Decided ==
  ASSUME NEW r \in Request, Outcome(r) \in {"unsent", "waiting"},
         \/ Outcome(r)' = "failed"
         \/ Outcome(r) = "waiting" /\ Outcome(r)' = "acked" /\ ackSeq'[r] \in rows[r],
         \A p \in Request \ {r} : Outcome(p)' = Outcome(p) /\ Says(p)' = Says(p),
         Underway' \subseteq Underway, updateLog' = updateLog
  PROVE  Remote!Next
<1> DEFINE o == [p \in Request |-> Outcome(p)]
           t == [p \in Request |-> Says(p)]
<1>1. o' = [o EXCEPT ![r] = Outcome(r)'] /\ o[r] = Outcome(r)
  OBVIOUS
<1>2. \E lost \in SUBSET Underway : Underway' = Underway \ lost
  <2>1. Underway' = Underway \ (Underway \ Underway')
    OBVIOUS
  <2> QED BY <2>1
<1>3. CASE Outcome(r)' = "failed"
  <2>1. Says(r) = 0 /\ Says(r)' = 0
    BY <1>3 DEF Says
  <2>2. t' = t
    BY <2>1
  <2> HIDE DEF o, t
  <2>3. Remote!Fail(r)
    BY <1>1, <1>2, <1>3, <2>2 DEF Remote!Fail, o, t, Says
  <2> QED BY <2>3 DEF Remote!Next
<1>4. CASE Outcome(r) = "waiting" /\ Outcome(r)' = "acked" /\ ackSeq'[r] \in rows[r]
  <2>1. Says(r)' = ackSeq'[r]
    BY <1>4 DEF Says
  <2>2. t' = [t EXCEPT ![r] = ackSeq'[r]]
    BY <2>1
  <2>3. ackSeq'[r] \in DOMAIN updateLog /\ updateLog[ackSeq'[r]] = r
    BY <1>4 DEF rows
  <2>4. Remote!Succeed(r)
    BY <1>1, <1>2, <1>4, <2>2, <2>3 DEF Remote!Succeed, Says
  <2> QED BY <2>4 DEF Remote!Next
<1> QED BY <1>3, <1>4

\* The types that the steps below need.
LEMMA RemotePlaces ==
  ASSUME RemoteIInv
  PROVE  /\ requests \in Seq(Delivery) /\ DOMAIN handler = Delivery
         /\ DOMAIN sends = Request /\ DOMAIN reply = Request
         /\ DOMAIN pendingForwardAcks = Request /\ DOMAIN ackSeq = Request
         /\ \A r \in Request :
              /\ sends[r] \in Nat /\ (reply[r] # "none" => sends[r] \in Copy)
              /\ pendingForwardAcks[r] \in {"unsent", "waiting", "acked", "failed"}
              /\ pendingForwardAcks[r] = "acked" => ackSeq[r] \in rows[r]
         /\ \A i \in DOMAIN requests : requests[i] \in Delivery
         /\ \A c \in Copy : c \in Nat /\ c > 0
BY MaxSendsAssumption DEF RemoteIInv, ForwardIInv, ForwardTypeOK, Numbered, ClientsTold, Copy

\* What is neither sent again nor put into the channel or a handler stays out.
LEMMA NoCopyReturns ==
  ASSUME requests' = requests, handler' = handler,
         \A d \in Delivery :
           reply'[d[1]] # "none" /\ (d[2] > sends'[d[1]] \/ (d[2] = sends'[d[1]] /\ reply'[d[1]] = "sent"))
           => d \in Underway
  PROVE  Underway' \subseteq Underway
BY DEF Underway

LEMMA SendIsRemote ==
  ASSUME RemoteIInv, NEW r \in Request, ForwardWriteToOwner(r)
  PROVE  Remote!Next
<1>1. pendingForwardAcks[r] = "unsent" /\ reply[r] = "none" /\ Outcome(r) = "unsent"
  BY DEF ForwardWriteToOwner, RemoteIInv, OneCopy, Outcome
<1>2. CASE pendingForwardAcks' = [pendingForwardAcks EXCEPT ![r] = "failed"] /\ UNCHANGED publishVars
  <2>1. Outcome(r)' = "failed" /\ \A p \in Request \ {r} : Outcome(p)' = Outcome(p) /\ Says(p)' = Says(p)
    BY <1>2, RemotePlaces DEF Outcome, Says, ForwardWriteToOwner, publishVars
  <2>2. Underway' \subseteq Underway /\ updateLog' = updateLog
    BY <1>2 DEF Underway, ForwardWriteToOwner, publishVars
  <2> QED BY <1>1, <2>1, <2>2, Decided
<1>3. CASE /\ pendingForwardAcks' = [pendingForwardAcks EXCEPT ![r] = "waiting"]
           /\ sends' = [sends EXCEPT ![r] = 1] /\ reply' = [reply EXCEPT ![r] = "sent"]
  <2>1. /\ ackSeq' = ackSeq /\ updateLog' = updateLog
        /\ requests' = requests /\ handler' = handler
    BY DEF ForwardWriteToOwner
  <2>2. Outcome(r)' = "waiting" /\ Says(r)' = 0 /\ Says(r) = 0
        /\ \A p \in Request \ {r} : Outcome(p)' = Outcome(p) /\ Says(p)' = Says(p)
    BY <1>1, <1>3, <2>1, RemotePlaces DEF Outcome, Says
  <2>3. Underway' = Underway \cup ({r} \X Copy)
    <3>1. ASSUME NEW d \in Delivery PROVE d \in Underway' <=> d \in Underway \/ d[1] = r
      BY <1>1, <1>3, <2>1, RemotePlaces, Deliveries DEF Underway
    <3>2. \A d \in Delivery : d[1] = r <=> d \in {r} \X Copy
      BY DEF Delivery
    <3>3. {r} \X Copy \subseteq Delivery /\ Underway \subseteq Delivery /\ Underway' \subseteq Delivery
      BY DEF Delivery, Underway
    <3> QED BY <3>1, <3>2, <3>3
  <2> DEFINE o == [p \in Request |-> Outcome(p)]
             t == [p \in Request |-> Says(p)]
  <2>4. o' = [o EXCEPT ![r] = "waiting"] /\ t' = t /\ o[r] = "unsent"
    BY <1>1, <2>2
  <2>5. Remote!Send(r)
    BY <2>1, <2>3, <2>4 DEF Remote!Send, Says
  <2> QED BY <2>5 DEF Remote!Next
<1> QED BY <1>2, <1>3 DEF ForwardWriteToOwner

LEMMA PublishedIsRemote ==
  ASSUME RemoteIInv, NEW r \in Request, Published(r) \/ ForwardTimeout(r) \/ Resend(r)
  PROVE  Remote!Next
<1>1. /\ requests' = requests /\ handler' = handler /\ ackSeq' = ackSeq /\ updateLog' = updateLog
      /\ \A p \in Request \ {r} : /\ sends'[p] = sends[p] /\ reply'[p] = reply[p]
                                  /\ pendingForwardAcks'[p] = pendingForwardAcks[p]
  BY RemotePlaces DEF Published, ForwardTimeout, Resend, publishVars
<1>2. \A p \in Request \ {r} : Outcome(p)' = Outcome(p) /\ Says(p)' = Says(p)
  BY <1>1 DEF Outcome, Says
<1>3. Underway' \subseteq Underway
  <2> SUFFICES ASSUME NEW d \in Delivery, reply'[d[1]] # "none",
                      d[2] > sends'[d[1]] \/ (d[2] = sends'[d[1]] /\ reply'[d[1]] = "sent")
               PROVE  d \in Underway
    BY <1>1, NoCopyReturns
  <2>1. d[1] \in Request /\ d[2] \in Nat /\ sends[d[1]] \in Nat
    BY Deliveries, RemotePlaces
  <2>2. CASE d[1] # r
    BY <1>1, <2>1, <2>2 DEF Underway
  <2>3. CASE d[1] = r
    BY <2>1, <2>3, RemotePlaces DEF Underway, Published, ForwardTimeout, Resend, publishVars
  <2> QED BY <2>2, <2>3
<1>4. \/ Outcome(r)' = Outcome(r) /\ Says(r)' = Says(r)
      \/ Outcome(r) = "waiting" /\ Outcome(r)' = "failed"
      \/ Outcome(r) = "waiting" /\ Outcome(r)' = "acked" /\ pendingForwardAcks[r] = "acked"
  <2>1. reply[r] # "none" => pendingForwardAcks[r] # "unsent"
    BY DEF RemoteIInv, OneCopy
  <2>2. CASE Published(r)
    BY <1>1, <2>1, <2>2, RemotePlaces DEF Published, Outcome, Says
  <2>3. CASE ForwardTimeout(r)
    BY <1>1, <2>3, RemotePlaces DEF ForwardTimeout, Outcome, Says, publishVars
  <2>4. CASE Resend(r)
    BY <1>1, <2>1, <2>4, RemotePlaces DEF Resend, Outcome, Says
  <2> QED BY <2>2, <2>3, <2>4
<1>5. CASE Outcome(r)' = Outcome(r) /\ Says(r)' = Says(r)
  BY <1>1, <1>2, <1>3, <1>5, LosesCopies
<1>6. CASE Outcome(r) = "waiting" /\ Outcome(r)' = "failed"
  BY <1>1, <1>2, <1>3, <1>6, Decided
<1>7. CASE Outcome(r) = "waiting" /\ Outcome(r)' = "acked" /\ pendingForwardAcks[r] = "acked"
  BY <1>1, <1>2, <1>3, <1>7, RemotePlaces, Decided
<1> QED BY <1>4, <1>5, <1>6, <1>7

LEMMA RedisIsRemote ==
  ASSUME RemoteIInv, NEW r \in Request, RedisPublishes(r)
  PROVE  Remote!Next
<1> DEFINE e == <<r, sends[r]>>
<1>1. /\ reply[r] = "sent" /\ UNCHANGED <<pendingForwardAcks, ackSeq, sends, handler, updateLog>>
      /\ reply' = [reply EXCEPT ![r] = "reached"] \/ reply' = [reply EXCEPT ![r] = "missed"]
      /\ requests' = requests \/ requests' = Append(requests, e)
  BY DEF RedisPublishes
<1>2. \A p \in Request : Outcome(p)' = Outcome(p) /\ Says(p)' = Says(p)
  BY <1>1, RemotePlaces DEF Outcome, Says
<1>3. e \in Delivery /\ e \in Underway
  BY <1>1, RemotePlaces, Deliveries DEF Underway
<1>4. \A i \in DOMAIN requests' : requests'[i] = e \/ \E j \in DOMAIN requests : requests[j] = requests'[i]
  BY <1>1, <1>3, RemotePlaces, OneMoreRequest
<1>5. Underway' \subseteq Underway
  <2> SUFFICES ASSUME NEW d \in Delivery, d \in Underway' PROVE d \in Underway
    BY DEF Underway
  <2> HIDE DEF e
  <2>1. CASE handler'[d] \in {"opening", "appending"}
    BY <1>1, <2>1 DEF Underway
  <2>2. CASE \E i \in DOMAIN requests' : requests'[i] = d
    BY <1>3, <1>4, <2>2 DEF Underway
  <2>3. CASE reply'[d[1]] # "none" /\ (d[2] > sends'[d[1]] \/ (d[2] = sends'[d[1]] /\ reply'[d[1]] = "sent"))
    BY <1>1, <2>3, RemotePlaces, Deliveries DEF Underway
  <2> QED BY <2>1, <2>2, <2>3 DEF Underway
<1> QED BY <1>1, <1>2, <1>5, LosesCopies

\* A copy that a handler has is nowhere else: it gets its row, and only once.
LEMMA AppendIsRemote ==
  ASSUME RemoteIInv, NEW d \in Delivery, AppendUpdate(d)
  PROVE  Remote!Next
<1>1. /\ handler[d] = "appending"
      /\ handler' = [handler EXCEPT ![d] = "appended"] \/ handler' = [handler EXCEPT ![d] = "failing"]
      /\ updateLog' = updateLog \/ updateLog' = Append(updateLog, d[1])
      /\ UNCHANGED <<pendingForwardAcks, ackSeq, sends, reply, requests>>
  BY DEF AppendUpdate, HandlerGoes, publishVars
<1>2. \A p \in Request : Outcome(p)' = Outcome(p) /\ Says(p)' = Says(p)
  BY <1>1 DEF Outcome, Says
<1>3. Underway' = Underway \ {d} /\ d \in Underway
  <2>1. d \in issued /\ \A i \in DOMAIN requests : requests[i] # d
    BY <1>1 DEF RemoteIInv, OneCopy
  <2>2. d[2] \in Nat /\ sends[d[1]] \in Nat
    BY Deliveries, RemotePlaces
  <2>3. d \notin Underway'
    BY <1>1, <2>1, <2>2, RemotePlaces DEF Underway, issued
  <2>4. \A x \in Delivery \ {d} : x \in Underway' <=> x \in Underway
    BY <1>1, RemotePlaces DEF Underway
  <2>5. Underway \subseteq Delivery /\ Underway' \subseteq Delivery /\ d \in Underway
    BY <1>1 DEF Underway
  <2> QED BY <2>3, <2>4, <2>5
<1>4. CASE updateLog' = updateLog
  BY <1>2, <1>3, <1>4, LosesCopies
<1>5. CASE updateLog' = Append(updateLog, d[1])
  <2>1. d[1] \in Request /\ d[2] \in Copy /\ d = <<d[1], d[2]>>
    BY Deliveries
  <2>2. /\ [p \in Request |-> Outcome(p)]' = [p \in Request |-> Outcome(p)]
        /\ [p \in Request |-> Says(p)]' = [p \in Request |-> Says(p)]
    BY <1>2
  <2>3. \E c \in Copy : <<d[1], c>> \in Underway /\ Underway' = Underway \ {<<d[1], c>>}
    BY <1>3, <2>1
  <2>4. Remote!Log(d[1])
    BY <1>5, <2>2, <2>3 DEF Remote!Log, Says
  <2> QED BY <2>1, <2>4 DEF Remote!Next
<1> QED BY <1>1, <1>4, <1>5

LEMMA HandlerIsRemote ==
  ASSUME RemoteIInv, NEW d \in Delivery, Opened(d) \/ Apply(d) \/ PublishStream(d) \/ Answer(d)
  PROVE  Remote!Next
<1>1. /\ UNCHANGED <<pendingForwardAcks, ackSeq, sends, reply, requests, updateLog>>
      /\ \A x \in Delivery : handler'[x] \in {"opening", "appending"}
                               => handler[x] \in {"opening", "appending"}
  BY RemotePlaces DEF Opened, Apply, PublishStream, Answer, HandlerGoes, publishVars
<1>2. \A p \in Request : Outcome(p)' = Outcome(p) /\ Says(p)' = Says(p)
  BY <1>1 DEF Outcome, Says
<1>3. Underway' \subseteq Underway
  BY <1>1 DEF Underway
<1> QED BY <1>1, <1>2, <1>3, LosesCopies

LEMMA ChannelIsRemote ==
  ASSUME RemoteIInv, Receive \/ LoseRequest \/ LoseAck \/ OwnerCrash
  PROVE  Remote!Next
<1>1. UNCHANGED <<pendingForwardAcks, ackSeq, sends, reply, updateLog>>
  BY DEF Receive, LoseRequest, LoseAck, OwnerCrash, publishVars
<1>2. \A p \in Request : Outcome(p)' = Outcome(p) /\ Says(p)' = Says(p)
  BY <1>1 DEF Outcome, Says
<1>3. \A i \in DOMAIN requests' : \E j \in DOMAIN requests : requests[j] = requests'[i]
  <2>1. \/ requests' = requests \/ requests' = << >>
        \/ requests # << >> /\ requests' = Tail(requests)
    BY DEF Receive, LoseRequest, LoseAck, OwnerCrash
  <2> QED BY <2>1, RemotePlaces, TailOfRequests
<1>4. \A d \in Delivery : handler'[d] \in {"opening", "appending"} =>
        handler[d] \in {"opening", "appending"} \/ \E j \in DOMAIN requests : requests[j] = d
  <2>1. CASE Receive
    <3>1. /\ Head(requests) \in Delivery /\ handler' = [handler EXCEPT ![Head(requests)] = "opening"]
          /\ 1 \in DOMAIN requests /\ requests[1] = Head(requests)
      BY <2>1, RemotePlaces, TailOfRequests DEF Receive, HandlerGoes
    <3> QED BY <3>1, RemotePlaces
  <2>2. CASE LoseRequest \/ LoseAck \/ OwnerCrash
    BY <2>2 DEF LoseRequest, LoseAck, OwnerCrash
  <2> QED BY <2>1, <2>2
<1>5. Underway' \subseteq Underway
  BY <1>1, <1>3, <1>4 DEF Underway
<1> QED BY <1>1, <1>2, <1>5, LosesCopies

LEMMA AckIsRemote ==
  ASSUME RemoteIInv, HandleAck
  PROVE  Remote!Next
<1>1. PICK a \in Ack : a = Head(acks) /\ (a.success => a.seq \in rows[a.request])
  <2>1. acks # << >> /\ acks \in Seq(Ack)
    BY DEF HandleAck, RemoteIInv, ForwardIInv, ForwardTypeOK
  <2>2. 1 \in DOMAIN acks /\ Head(acks) = acks[1] /\ acks[1] \in Ack
    BY <2>1
  <2> QED BY <2>2 DEF RemoteIInv, ForwardIInv, AnswersTrue
<1>2. PICK r \in Request : r = a.request
  BY DEF Ack
<1>3. Head(acks) = a /\ r \in Request /\ a.request = r /\ (a.success => a.seq \in rows[r])
  BY <1>1, <1>2
<1>4. UNCHANGED <<sends, reply, requests, handler, updateLog>>
  BY DEF HandleAck, publishVars
<1>5. Underway' \subseteq Underway
  BY <1>4 DEF Underway
<1>6. CASE pendingForwardAcks[r] # "waiting"
  <2>1. pendingForwardAcks' = pendingForwardAcks /\ ackSeq' = ackSeq
    BY <1>3, <1>6 DEF HandleAck
  <2>2. \A p \in Request : Outcome(p)' = Outcome(p) /\ Says(p)' = Says(p)
    BY <1>4, <2>1 DEF Outcome, Says
  <2> QED BY <1>4, <1>5, <2>2, LosesCopies
<1>7. CASE pendingForwardAcks[r] = "waiting"
  <2>1. /\ pendingForwardAcks' = [pendingForwardAcks EXCEPT ![r] =
                                    IF a.success THEN "acked" ELSE "failed"]
        /\ ackSeq' = [ackSeq EXCEPT ![r] = a.seq]
    BY <1>3, <1>7 DEF HandleAck
  <2>2. \A p \in Request \ {r} : Outcome(p)' = Outcome(p) /\ Says(p)' = Says(p)
    BY <1>4, <2>1, RemotePlaces DEF Outcome, Says
  <2>3. Outcome(r) = "waiting" /\ ackSeq'[r] = a.seq
    BY <1>3, <1>7, <2>1, RemotePlaces DEF Outcome
  <2>4. \/ Outcome(r)' = "failed" \/ (Outcome(r)' = "acked" /\ a.success)
        \/ Outcome(r)' = "waiting"
    BY <1>3, <1>4, <2>1, RemotePlaces DEF Outcome
  <2>5. CASE Outcome(r)' = "waiting"
    <3>1. Outcome(r)' = Outcome(r) /\ Says(r)' = Says(r)
      BY <2>3, <2>5 DEF Says
    <3> QED BY <1>4, <1>5, <2>2, <3>1, LosesCopies
  <2>6. CASE Outcome(r)' = "failed" \/ (Outcome(r)' = "acked" /\ a.success)
    BY <1>3, <1>4, <1>5, <2>2, <2>3, <2>6, Decided
  <2> QED BY <2>4, <2>5, <2>6
<1> QED BY <1>6, <1>7

\* forwardWriteToOwner() and handleForwardedWriteRequest(), with ioredis and the
\* channels between them: for any requests and any number of sends, each copy of a
\* write gets into the log at most once, a copy that is nowhere any more never gets
\* in, and the outcome of a write, once it has one, stays and names its row.
THEOREM ForwardingIsRemote == ForwardSpec => ImplementsRemoteWrite
<1>1. ForwardInit => Remote!Init
  <2> SUFFICES ASSUME ForwardInit PROVE Remote!Init
    OBVIOUS
  <2>1. \A r \in Request : Outcome(r) = "unsent"
    BY DEF ForwardInit, Outcome
  <2>2. Underway = {}
    BY Deliveries DEF ForwardInit, Underway
  <2> QED BY <2>1, <2>2 DEF ForwardInit, Remote!Init
<1>2. RemoteIInv /\ [ForwardNext]_forwardVars => [Remote!Next]_Remote!vars
  <2>1. ASSUME RemoteIInv, ForwardNext PROVE Remote!Next
    BY <2>1, SendIsRemote, PublishedIsRemote, RedisIsRemote, AppendIsRemote, HandlerIsRemote,
       ChannelIsRemote, AckIsRemote DEF ForwardNext
  <2>2. ASSUME UNCHANGED forwardVars PROVE UNCHANGED Remote!vars
    BY <2>2 DEF forwardVars, Remote!vars, Outcome, Underway
  <2> QED BY <2>1, <2>2
<1> QED BY <1>1, <1>2, RemoteStarts, RemoteStays, PTL
    DEF ForwardSpec, ImplementsRemoteWrite, Remote!Spec

---------------------------------------------------------------------------
(* ClusterClock *)

LEMMA IdleRequest == Idle \in Requests
BY ClockAssumption DEF Idle, Requests, NotSent

LEMMA ClockStarts == ClockInit => ClockTypeOK
<1>1. ClockInit => mono \in 0..MaxMono /\ skew \in Skews /\ anchor \in Int
  BY ClockAssumption DEF ClockInit
<1>2. ClockInit => hasSynced \in BOOLEAN
  BY DEF ClockInit
<1> QED BY <1>1, <1>2, IdleRequest DEF ClockInit, ClockTypeOK

LEMMA ClockNumbers ==
  ASSUME ClockTypeOK, NEW c \in Caller
  PROVE  /\ mono \in 0..MaxMono /\ anchor \in Int /\ mono + skew \in Int
         /\ sync[c] \in Requests /\ sync[c].time \in Int /\ Midpoint(c) \in Int
<1>1. mono \in 0..MaxMono /\ anchor \in Int /\ mono + skew \in Int
  BY ClockAssumption DEF ClockTypeOK
<1>2. sync[c] \in Requests
  BY DEF ClockTypeOK
<1>3. sync[c].time \in Int /\ sync[c].sent \in Int
  BY <1>2, ClockAssumption DEF Requests, NotSent
<1>4. (mono - sync[c].sent) \div 2 \in Int
  BY <1>1, <1>3, ClockAssumption
<1> QED BY <1>1, <1>2, <1>3, <1>4 DEF Midpoint

LEMMA ClockTypesStay ==
  ASSUME ClockTypeOK, [ClockNext]_clockVars
  PROVE  ClockTypeOK'
<1>1. CASE UNCHANGED clockVars
  BY <1>1 DEF clockVars, ClockTypeOK
<1>2. ASSUME NEW c \in Caller, Send(c) \/ RedisAnswers(c) \/ SyncFails(c)
      PROVE  ClockTypeOK'
  <2>1. [sent |-> mono, answered |-> FALSE, time |-> 0] \in Requests
    <3>1. mono \in NotSent..MaxMono
      BY ClockNumbers, ClockAssumption DEF NotSent
    <3> QED BY <3>1 DEF Requests
  <2>2. [sync[c] EXCEPT !.answered = TRUE, !.time = mono + skew] \in Requests
    BY ClockNumbers DEF Requests
  <2>3. sync' \in [Caller -> Requests]
    BY <1>2, <2>1, <2>2, IdleRequest DEF ClockTypeOK, Send, RedisAnswers, SyncFails
  <2> QED BY <1>2, <2>3 DEF ClockTypeOK, Send, RedisAnswers, SyncFails
<1>3. ASSUME NEW c \in Caller, Reply(c)
      PROVE  ClockTypeOK'
  <2>1. sync' \in [Caller -> Requests]
    BY <1>3, IdleRequest DEF ClockTypeOK, Reply
  <2>2. anchor' \in Int
    <3>1. sync[c].time - Midpoint(c) \in Int
      BY ClockNumbers
    <3> QED BY <1>3, <3>1 DEF ClockTypeOK, Reply
  <2>3. hasSynced' \in BOOLEAN
    BY <1>3 DEF ClockTypeOK, Reply
  <2> QED BY <1>3, <2>1, <2>2, <2>3 DEF ClockTypeOK, Reply
<1>4. CASE ClockTick \/ Failover
  BY <1>4, ClockAssumption DEF ClockTypeOK, ClockTick, Failover
<1> QED BY <1>1, <1>2, <1>3, <1>4 DEF ClockNext

\* The clock's variables keep their types.
THEOREM ClockTypes == ClockSpec => []ClockTypeOK
BY ClockStarts, ClockTypesStay, PTL DEF ClockSpec

\* getClusterTimeMs(): once synchronised it does not go back, whatever Redis
\* answers to however many overlapping requests.
THEOREM TimeNeverBack == ClockSpec => ClockNeverBack
<1>1. ASSUME ClockTypeOK, ClockNext, hasSynced
      PROVE  hasSynced' /\ mono' + anchor' >= mono + anchor
  <2>1. mono \in Int /\ anchor \in Int
    BY <1>1, ClockAssumption DEF ClockTypeOK
  <2>2. ASSUME NEW c \in Caller, Send(c) \/ RedisAnswers(c) \/ SyncFails(c)
        PROVE  hasSynced' /\ mono' + anchor' >= mono + anchor
    <3>1. mono' = mono /\ anchor' = anchor /\ hasSynced'
      BY <1>1, <2>2 DEF Send, RedisAnswers, SyncFails
    <3>2. mono' + anchor' >= mono + anchor
      BY <2>1, <3>1
    <3> QED BY <3>1, <3>2
  <2>3. ASSUME NEW c \in Caller, Reply(c)
        PROVE  hasSynced' /\ mono' + anchor' >= mono + anchor
    <3>1. mono' = mono
      BY <2>3 DEF Reply
    <3>2. hasSynced'
      BY <1>1, <2>3 DEF Reply
    <3>3. \/ anchor' = sync[c].time - Midpoint(c) /\ sync[c].time >= anchor + Midpoint(c)
          \/ anchor' = anchor
      BY <1>1, <2>3 DEF Reply, Adopt
    <3>4. Midpoint(c) \in Int /\ sync[c].time \in Int
      BY <1>1, ClockNumbers
    <3>5. anchor' \in Int /\ anchor' >= anchor
      <4>1. CASE anchor' = anchor
        BY <2>1, <4>1
      <4>2. CASE anchor' = sync[c].time - Midpoint(c) /\ sync[c].time >= anchor + Midpoint(c)
        <5> DEFINE t == sync[c].time
                   m == Midpoint(c)
        <5>1. t \in Int /\ m \in Int /\ anchor' = t - m /\ t >= anchor + m
          BY <3>4, <4>2
        <5> HIDE DEF t, m
        <5> QED BY <2>1, <5>1
      <4> QED BY <3>3, <4>1, <4>2
    <3>6. mono' + anchor' >= mono + anchor
      <4> DEFINE b == anchor'
      <4>1. b \in Int /\ b >= anchor /\ mono' = mono
        BY <3>1, <3>5
      <4> HIDE DEF b
      <4>2. mono + b >= mono + anchor
        BY <2>1, <4>1
      <4> QED BY <4>1, <4>2 DEF b
    <3> QED BY <3>6, <3>2
  <2>4. CASE ClockTick \/ Failover
    <3>1. (mono' = mono \/ mono' = mono + 1) /\ anchor' = anchor
      BY <2>4 DEF ClockTick, Failover
    <3>2. hasSynced'
      BY <1>1, <2>4 DEF ClockTick, Failover
    <3>3. mono' + anchor' >= mono + anchor
      BY <2>1, <3>1
    <3> QED BY <3>2, <3>3
  <2> QED BY <1>1, <2>2, <2>3, <2>4 DEF ClockNext
<1>2. ASSUME ClockTypeOK, [ClockNext]_clockVars
      PROVE  [hasSynced => GetClusterTimeMs' >= GetClusterTimeMs]_clockVars
  BY <1>1, <1>2 DEF GetClusterTimeMs
<1> QED BY <1>2, ClockTypes, PTL DEF ClockSpec, ClockNeverBack

---------------------------------------------------------------------------
(* FailureDrills, DrillReplay *)

FailureKind == {"shutdown", "partition", "delay", "eviction"}
Failure == [host : Host, kind : FailureKind, open : BOOLEAN]
Entries == [host : Host, kind : FailureKind \cup {"storm"}, id : Nat, hosts : Nat,
            stage : {"storming", "armed", "open", "recovering", "closed"}]
ChaosEntry == {e \in Entries : e.stage = "storming" => e.kind = "storm"}
Action == [name : {"kill", "restore", "degrade", "evict", "storm", "redistribute"}, on : Host]
Taped == [does : {"inject", "recover", "scripted"}, host : Host,
          kind : FailureKind \cup {"none"}, tie : BOOLEAN]
\* What may be done again.
Playable(e) == e.does = "inject" => e.kind \in FailureKind
Tapes == {t \in Seq(Taped) : \A i \in DOMAIN t : Playable(t[i])}
Timer == {p \in [at : Nat, of : Tapes] : p.at \in DOMAIN p.of}

\* The types that the steps rest on.
DrillTypes ==
  /\ begun \in 0..MaxStarts /\ engine \in Nat
  /\ spawning \subseteq 1..begun /\ ticking \subseteq 1..begun
  /\ scenario \in Seq(Action) /\ script \in [Call -> Seq(Action)]
  /\ failures \in Seq(Failure)
  /\ chaos \in [Call -> Seq(ChaosEntry)]

\* An engine starts with nothing, and only while its simulation runs.
EngineFresh ==
  /\ engine # 0 => simulation = "running" /\ engine \in (1..begun) \ spawning
  /\ \A s \in Call : s \in spawning \/ s > begun => chaos[s] = << >> /\ s \notin ticking

ReplayTypes ==
  /\ tape \in Tapes /\ traces \subseteq Tapes
  /\ trace \in Tapes /\ index \in Nat
  /\ trace # << >> => trace \in traces
  /\ armed \in Seq(Timer)

\* The condition of ReplayInOrder, which a new trace can only end.
Untied == \A t \in traces : \A i \in DOMAIN t : ~ t[i].tie
OnTape ==
  /\ player \in {"idle", "recording", "replaying", "stepping", "paused", "completed"}
  /\ player \in {"replaying", "stepping", "paused", "completed"} =>
       /\ trace # << >> /\ index \in 0..Len(trace)
       /\ executed = SubSeq(trace, 1, index)
       /\ player = "completed" <=> index = Len(trace)
  /\ armed = IF player = "replaying" THEN Remaining(trace, index) ELSE << >>

DrillPart == DrillTypes /\ EngineFresh /\ TimersMatch
ReplayPart == ReplayTypes /\ (Untied => OnTape)
DrillsIInv == DrillPart /\ ReplayPart

\* Failures are appended and healed, never moved or renamed.
FailuresKept ==
  /\ failures' \in Seq(Failure)
  /\ DOMAIN failures \subseteq DOMAIN failures'
  /\ \A i \in DOMAIN failures :
       failures'[i].host = failures[i].host /\ failures'[i].kind = failures[i].kind

LEMMA AfflictKeeps ==
  ASSUME failures \in Seq(Failure), delays \subseteq DOMAIN failures,
         NEW h \in Host, NEW kind \in FailureKind, NEW timed \in BOOLEAN,
         Afflict(h, kind, timed)
  PROVE  /\ FailuresKept /\ delays' \subseteq DOMAIN failures'
         /\ Len(failures) + 1 \in DOMAIN failures'
         /\ failures'[Len(failures) + 1].host = h
         /\ failures'[Len(failures) + 1].kind = kind
<1> DEFINE f == [host |-> h, kind |-> kind, open |-> TRUE]
<1>1. f \in Failure /\ f.host = h /\ f.kind = kind
  BY DEF Failure
<1>2. failures' = Append(failures, f)
  BY DEF Afflict
<1> HIDE DEF f
<1>3. /\ failures' \in Seq(Failure)
      /\ DOMAIN failures' = 1..(Len(failures) + 1)
      /\ DOMAIN failures = 1..Len(failures)
      /\ \A i \in 1..Len(failures) : failures'[i] = failures[i]
      /\ failures'[Len(failures) + 1] = f
      /\ Len(failures) \in Nat
  BY <1>1, <1>2
<1>4. delays' \subseteq delays \cup {Len(failures) + 1}
  BY DEF Afflict
<1> QED BY <1>1, <1>3, <1>4 DEF FailuresKept

LEMMA ClosedKeeps ==
  ASSUME failures \in Seq(Failure), NEW ids,
         failures' = [i \in DOMAIN failures |->
           IF i \in ids THEN [failures[i] EXCEPT !.open = FALSE] ELSE failures[i]]
  PROVE  FailuresKept /\ DOMAIN failures' = DOMAIN failures
<1>1. \A i \in DOMAIN failures : failures[i] \in Failure
  OBVIOUS
<1>2. \A i \in DOMAIN failures :
        /\ failures'[i] \in Failure
        /\ failures'[i].host = failures[i].host /\ failures'[i].kind = failures[i].kind
  BY <1>1 DEF Failure
<1>3. DOMAIN failures = 1..Len(failures) /\ Len(failures) \in Nat
  OBVIOUS
<1>4. failures' \in Seq(Failure)
  BY <1>2, <1>3
<1> QED BY <1>2, <1>4 DEF FailuresKept

\* While the engine keeps its entries, timers keep what they are for.
LEMMA KeptMatches ==
  ASSUME DrillTypes, TimersMatch, FailuresKept, delays' \subseteq DOMAIN failures',
         engine' = engine, engine # 0 => chaos'[engine] = chaos[engine]
  PROVE  TimersMatch'
<1>1. \A i \in delays' : i \in DOMAIN failures'
  OBVIOUS
<1>2. ASSUME engine # 0, NEW i \in DOMAIN chaos[engine],
             chaos[engine][i].stage = "armed", chaos[engine][i].kind # "storm"
      PROVE  /\ chaos[engine][i].id \in DOMAIN failures'
             /\ failures'[chaos[engine][i].id].host = chaos[engine][i].host
             /\ failures'[chaos[engine][i].id].kind = chaos[engine][i].kind
  BY <1>2 DEF TimersMatch, FailuresKept
<1> QED BY <1>1, <1>2 DEF TimersMatch

\* Nothing but the failures, the hosts and the scripts changes.
LEMMA FailuresStep ==
  ASSUME DrillPart, FailuresKept, delays' \subseteq DOMAIN failures',
         script' \in [Call -> Seq(Action)], UNCHANGED <<startVars, chaosVars>>
  PROVE  DrillPart'
<1>1. DrillTypes' /\ EngineFresh'
  BY DEF DrillPart, DrillTypes, EngineFresh, FailuresKept, startVars, chaosVars
<1>2. TimersMatch'
  BY KeptMatches DEF DrillPart, chaosVars
<1> QED BY <1>1, <1>2 DEF DrillPart

LEMMA InjectStep ==
  ASSUME DrillPart, NEW h \in Host, NEW kind \in FailureKind, NEW timed \in BOOLEAN,
         Afflict(h, kind, timed), script' \in [Call -> Seq(Action)],
         UNCHANGED <<startVars, chaosVars>>
  PROVE  DrillPart'
<1>1. failures \in Seq(Failure) /\ delays \subseteq DOMAIN failures
  BY DEF DrillPart, DrillTypes, TimersMatch
<1>2. FailuresKept /\ delays' \subseteq DOMAIN failures'
  BY <1>1, AfflictKeeps
<1> QED BY <1>2, FailuresStep

LEMMA HealStep ==
  ASSUME DrillPart, NEW ids, NEW h, Heal(ids, h), delays' \subseteq delays,
         script' \in [Call -> Seq(Action)], UNCHANGED <<startVars, chaosVars>>
  PROVE  DrillPart'
<1>1. failures \in Seq(Failure) /\ delays \subseteq DOMAIN failures
  BY DEF DrillPart, DrillTypes, TimersMatch
<1>2. FailuresKept /\ DOMAIN failures' = DOMAIN failures
  BY <1>1, ClosedKeeps DEF Heal
<1> QED BY <1>1, <1>2, FailuresStep

LEMMA PerformStep ==
  ASSUME DrillPart, NEW s \in Call, Perform(s)
  PROVE  DrillPart' /\ Head(script[s]) \in Action
<1> DEFINE a == Head(script[s])
<1>1. script[s] \in Seq(Action) /\ script[s] # << >>
  BY DEF DrillPart, DrillTypes, Perform
<1>2. a \in Action /\ Tail(script[s]) \in Seq(Action)
  BY <1>1
<1>3. script' \in [Call -> Seq(Action)]
  BY <1>2 DEF DrillPart, DrillTypes, Perform
<1>4. UNCHANGED <<startVars, chaosVars>>
  BY DEF Perform
<1>5. CASE Afflict(a.on, "eviction", FALSE)
  <2>1. a.on \in Host
    BY <1>2 DEF Action
  <2>2. "eviction" \in FailureKind /\ FALSE \in BOOLEAN
    BY DEF FailureKind
  <2> HIDE DEF a
  <2>3. DrillPart'
    BY <1>3, <1>4, <1>5, <2>1, <2>2, InjectStep
  <2> QED BY <1>2, <2>3 DEF a
<1>6. CASE UNCHANGED <<failures, delays>>
  <2>1. FailuresKept /\ delays' \subseteq DOMAIN failures'
    BY <1>6 DEF DrillPart, DrillTypes, TimersMatch, FailuresKept
  <2> QED BY <1>2, <1>3, <1>4, <2>1, FailuresStep
<1> QED BY <1>5, <1>6 DEF Perform, Turns

LEMMA StartSteps ==
  ASSUME DrillPart, Begin \/ Halt \/ \E s \in Call : GoOn(s)
  PROVE  DrillPart'
<1> USE DEF DrillPart
<1>1. CASE Begin
  <2>1. begun' \in 0..MaxStarts /\ begun' = begun + 1 /\ begun \in Nat
    BY <1>1, DrillAssumption DEF Begin, DrillTypes
  <2>2. scenario' \in Seq(Action)
    <3>1. PICK h \in Host : scenario' \in Timelines(h)
      BY <1>1 DEF Begin
    <3>2. \A name \in {"kill", "restore", "degrade", "evict", "storm", "redistribute"} :
            Act(name, h) \in Action
      BY DEF Act, Action
    <3> DEFINE k == Act("kill", h)
               r == Act("restore", h)
               d == Act("degrade", h)
               e == Act("evict", h)
               m == Act("storm", h)
               o == Act("redistribute", h)
    <3>3. k \in Action /\ r \in Action /\ d \in Action /\ e \in Action /\ m \in Action
          /\ o \in Action
      BY <3>2
    <3>4. scenario' \in {<< >>, <<k, o, r>>, <<e, d, r>>, <<m, m>>}
      BY <3>1 DEF Timelines
    <3> HIDE DEF k, r, d, e, m, o
    <3>5. <<k, o, r>> \in Seq(Action) /\ <<e, d, r>> \in Seq(Action)
      BY <3>3
    <3>6. <<m, m>> \in Seq(Action) /\ << >> \in Seq(Action)
      BY <3>3
    <3> QED BY <3>4, <3>5, <3>6
  <2>3. failures' = << >> /\ << >> \in Seq(Failure) /\ delays' = {}
    BY <1>1 DEF Begin, Forget
  <2>4. engine' = 0 /\ engine = 0
    BY <1>1 DEF Begin, EngineFresh, chaosVars
  <2>5. DrillTypes'
    BY <1>1, <2>1, <2>2, <2>3 DEF Begin, DrillTypes, chaosVars
  <2>6. EngineFresh'
    BY <1>1, <2>1, <2>4 DEF Begin, EngineFresh, chaosVars, DrillTypes, Call
  <2>7. TimersMatch'
    BY <2>3, <2>4 DEF TimersMatch
  <2> QED BY <2>5, <2>6, <2>7
<1>2. ASSUME NEW s \in Call, GoOn(s) PROVE DrillPart'
  <2>1. DrillTypes'
    BY <1>2 DEF GoOn, DrillTypes, Call
  <2>2. EngineFresh'
    BY <1>2 DEF GoOn, EngineFresh, DrillTypes, Call
  <2>3. chaos'[engine'] = << >>
    BY <1>2 DEF GoOn, EngineFresh
  <2>4. TimersMatch'
    <3>1. DOMAIN chaos'[engine'] = {}
      BY <2>3
    <3>2. \A i \in delays' : i \in DOMAIN failures'
      BY <1>2 DEF GoOn, TimersMatch
    <3> QED BY <3>1, <3>2 DEF TimersMatch
  <2> QED BY <2>1, <2>2, <2>4
<1>3. CASE Halt
  <2>1. failures' = << >> /\ << >> \in Seq(Failure) /\ delays' = {} /\ engine' = 0
    BY <1>3 DEF Halt, Forget
  <2>2. \A t \in Call : /\ Emptied(t) \in Seq(ChaosEntry)
                        /\ chaos[t] = << >> => Emptied(t) = << >>
    <3> TAKE t \in Call
    <3>1. chaos[t] \in Seq(ChaosEntry)
      BY DEF DrillTypes
    <3> DEFINE c(i) == chaos[t][i]
               d(i) == IF c(i).stage = "storming" THEN c(i) ELSE [c(i) EXCEPT !.stage = "closed"]
    <3>2. \A i \in DOMAIN chaos[t] : d(i) \in ChaosEntry
      <4>1. \A i \in DOMAIN chaos[t] : c(i) \in ChaosEntry
        BY <3>1
      <4> QED BY <4>1 DEF ChaosEntry, Entries
    <3> HIDE DEF d
    <3>3. DOMAIN chaos[t] = 1..Len(chaos[t]) /\ Len(chaos[t]) \in Nat
      BY <3>1
    <3>4. [i \in DOMAIN chaos[t] |-> d(i)] \in Seq(ChaosEntry)
      BY <3>2, <3>3
    <3>5. Emptied(t) = [i \in DOMAIN chaos[t] |-> d(i)]
      BY DEF Emptied, d
    <3>6. chaos[t] = << >> => Emptied(t) = << >>
      BY DEF Emptied
    <3> QED BY <3>4, <3>5, <3>6
  <2>3. script' \in [Call -> Seq(Action)]
    BY <1>3 DEF Halt, NoScript
  <2>4. DrillTypes'
    BY <1>3, <2>1, <2>2, <2>3 DEF Halt, DrillTypes
  <2>5. EngineFresh'
    BY <1>3, <2>1, <2>2 DEF Halt, EngineFresh, DrillTypes
  <2>6. TimersMatch'
    BY <2>1 DEF TimersMatch
  <2> QED BY <2>4, <2>5, <2>6
<1> QED BY <1>1, <1>2, <1>3

\* The entry i of an engine goes on to another stage.
LEMMA StageTypes ==
  ASSUME DrillTypes, NEW s \in Call, NEW i \in DOMAIN chaos[s],
         NEW stage \in {"armed", "open", "recovering", "closed"},
         Stage(s, i, stage)
  PROVE  /\ chaos' \in [Call -> Seq(ChaosEntry)]
         /\ \A t \in Call : DOMAIN chaos'[t] = DOMAIN chaos[t]
         /\ \A t \in Call : \A j \in DOMAIN chaos[t] :
              <<t, j>> # <<s, i>> => chaos'[t][j] = chaos[t][j]
         /\ chaos'[s][i].stage = stage /\ chaos'[s][i].kind = chaos[s][i].kind
         /\ chaos[s] # << >>
<1> DEFINE c == [chaos[s][i] EXCEPT !.stage = stage]
           q == [chaos[s] EXCEPT ![i] = c]
<1>1. chaos[s] \in Seq(ChaosEntry) /\ chaos[s][i] \in ChaosEntry /\ chaos[s] # << >>
  BY DEF DrillTypes
<1>2. c \in ChaosEntry /\ c.stage = stage /\ c.kind = chaos[s][i].kind
  BY <1>1 DEF ChaosEntry, Entries
<1>3. chaos' = [chaos EXCEPT ![s] = q]
  BY DEF Stage, DrillTypes
<1> HIDE DEF c
<1>4. q \in Seq(ChaosEntry) /\ DOMAIN q = DOMAIN chaos[s] /\ q[i] = c
      /\ \A j \in DOMAIN chaos[s] : j # i => q[j] = chaos[s][j]
  BY <1>1, <1>2
<1> HIDE DEF q
<1> QED BY <1>1, <1>2, <1>3, <1>4 DEF DrillTypes

LEMMA ChaosSteps ==
  ASSUME DrillPart,
         \/ StartChaos \/ StopChaos
         \/ \E s \in Call : Tick(s)
         \/ \E s \in Call, i \in 1..MaxFailures :
              StormOver(s, i) \/ Recover(s, i) \/ Recovered(s, i)
  PROVE  DrillPart'
<1> USE DEF DrillPart
<1>1. CASE StartChaos
  <2>1. DrillTypes'
    BY <1>1 DEF StartChaos, DrillTypes, EngineFresh, startVars
  <2>2. EngineFresh'
    BY <1>1 DEF StartChaos, DrillTypes, EngineFresh, startVars
  <2>3. TimersMatch'
    BY <1>1 DEF StartChaos, TimersMatch
  <2> QED BY <2>1, <2>2, <2>3
<1>2. CASE StopChaos
  <2>1. engine \in Call /\ engine \in ticking /\ chaos[engine] \in Seq(ChaosEntry)
    BY <1>2, DrillAssumption DEF StopChaos, DrillTypes, Call
  <2> DEFINE c(j) == chaos[engine][j]
             d(j) == IF c(j).stage = "armed" THEN [c(j) EXCEPT !.stage = "open"] ELSE c(j)
             q == [j \in DOMAIN chaos[engine] |-> d(j)]
  <2>2. \A j \in DOMAIN chaos[engine] : d(j) \in ChaosEntry /\ d(j).stage # "armed"
    <3>1. \A j \in DOMAIN chaos[engine] : c(j) \in ChaosEntry
      BY <2>1
    <3> QED BY <3>1 DEF ChaosEntry, Entries
  <2>3. chaos' = [chaos EXCEPT ![engine] = q]
    BY <1>2, <2>1 DEF StopChaos, DrillTypes
  <2> HIDE DEF d
  <2>4. DOMAIN chaos[engine] = 1..Len(chaos[engine]) /\ Len(chaos[engine]) \in Nat
    BY <2>1
  <2>5. q \in Seq(ChaosEntry)
    BY <2>2, <2>4
  <2>6. \A j \in DOMAIN q : q[j].stage # "armed"
    BY <2>2
  <2> HIDE DEF q
  <2>7. DrillTypes'
    BY <1>2, <2>1, <2>3, <2>5 DEF StopChaos, DrillTypes, startVars
  <2>8. EngineFresh'
    BY <1>2, <2>1, <2>3 DEF StopChaos, DrillTypes, EngineFresh, startVars
  <2>9. chaos'[engine'] = q
    BY <1>2, <2>1, <2>3 DEF StopChaos, DrillTypes
  <2>10. TimersMatch'
    BY <1>2, <2>6, <2>9 DEF StopChaos, TimersMatch
  <2> QED BY <2>7, <2>8, <2>10
<1>3. ASSUME NEW s \in Call, Tick(s) PROVE DrillPart'
  <2>1. s \in ticking /\ engine' = engine /\ UNCHANGED <<startVars, script, ticking>>
    BY <1>3 DEF Tick
  <2>2. PICK h \in Eligible :
          \/ \E kind \in Injected :
               /\ Afflict(h, kind, FALSE)
               /\ chaos' = [chaos EXCEPT ![s] =
                              Append(@, Entry(h, kind, Len(failures) + 1, "armed"))]
          \/ /\ Turns(h, "healthy")
             /\ chaos' = [chaos EXCEPT ![s] = Append(@, Entry(h, "storm", 0, "storming"))]
    BY <1>3 DEF Tick
  <2>3. h \in Host /\ begun \in Nat /\ failures \in Seq(Failure) /\ Len(failures) \in Nat
        /\ delays \subseteq DOMAIN failures /\ chaos[s] \in Seq(ChaosEntry)
    BY DEF Eligible, DrillTypes, TimersMatch
  <2>4. PICK e \in ChaosEntry :
          /\ chaos' = [chaos EXCEPT ![s] = Append(chaos[s], e)]
          /\ FailuresKept /\ delays' \subseteq DOMAIN failures'
          /\ e.stage = "armed" /\ e.kind # "storm" =>
               /\ e.id \in DOMAIN failures'
               /\ failures'[e.id].host = e.host /\ failures'[e.id].kind = e.kind
    <3>1. CASE Turns(h, "healthy") /\ chaos' = [chaos EXCEPT ![s] = Append(@, Entry(h, "storm", 0, "storming"))]
      <4> DEFINE e == Entry(h, "storm", 0, "storming")
      <4>1. e \in ChaosEntry /\ e.stage = "storming"
        BY <2>3 DEF Entry, ChaosEntry, Entries
      <4>2. FailuresKept /\ delays' \subseteq DOMAIN failures'
        BY <2>3, <3>1 DEF Turns, FailuresKept
      <4>3. chaos' = [chaos EXCEPT ![s] = Append(chaos[s], e)]
        BY <3>1 DEF DrillTypes
      <4> HIDE DEF e
      <4> QED BY <4>1, <4>2, <4>3
    <3>2. CASE \E kind \in Injected :
                 /\ Afflict(h, kind, FALSE)
                 /\ chaos' = [chaos EXCEPT ![s] =
                                Append(@, Entry(h, kind, Len(failures) + 1, "armed"))]
      <4>1. PICK kind \in Injected :
                 /\ Afflict(h, kind, FALSE)
                 /\ chaos' = [chaos EXCEPT ![s] =
                                Append(@, Entry(h, kind, Len(failures) + 1, "armed"))]
        BY <3>2
      <4>2. kind \in FailureKind /\ FALSE \in BOOLEAN
        BY DrillAssumption DEF FailureKind
      <4> DEFINE e == Entry(h, kind, Len(failures) + 1, "armed")
      <4>3. e \in ChaosEntry /\ e.id = Len(failures) + 1 /\ e.host = h /\ e.kind = kind
        BY <2>3, <4>2 DEF Entry, ChaosEntry, Entries
      <4>4. /\ FailuresKept /\ delays' \subseteq DOMAIN failures'
            /\ Len(failures) + 1 \in DOMAIN failures'
            /\ failures'[Len(failures) + 1].host = h
            /\ failures'[Len(failures) + 1].kind = kind
        BY <2>3, <4>1, <4>2, AfflictKeeps
      <4>5. chaos' = [chaos EXCEPT ![s] = Append(chaos[s], e)]
        BY <4>1 DEF DrillTypes
      <4> HIDE DEF e
      <4> QED BY <4>3, <4>4, <4>5
    <3> QED BY <2>2, <3>1, <3>2
  <2> DEFINE q == Append(chaos[s], e)
  <2>5. q \in Seq(ChaosEntry) /\ DOMAIN q = 1..(Len(chaos[s]) + 1) /\ Len(chaos[s]) \in Nat
        /\ DOMAIN chaos[s] = 1..Len(chaos[s])
        /\ q[Len(chaos[s]) + 1] = e
        /\ \A j \in DOMAIN chaos[s] : q[j] = chaos[s][j]
    BY <2>3
  <2> HIDE DEF q
  <2>6. chaos' = [chaos EXCEPT ![s] = q]
    BY <2>4 DEF q
  <2>7. DrillTypes'
    BY <2>1, <2>4, <2>5, <2>6 DEF DrillTypes, startVars, FailuresKept
  <2>8. EngineFresh'
    BY <2>1, <2>6 DEF EngineFresh, startVars, DrillTypes
  <2>9. CASE engine = s
    <3>1. chaos'[engine'] = q
      BY <2>1, <2>6, <2>9 DEF DrillTypes
    <3>2. ASSUME NEW j \in DOMAIN q, q[j].stage = "armed", q[j].kind # "storm"
          PROVE  /\ q[j].id \in DOMAIN failures'
                 /\ failures'[q[j].id].host = q[j].host /\ failures'[q[j].id].kind = q[j].kind
      <4>1. CASE j \in DOMAIN chaos[s]
        <5>1. engine # 0
          BY <2>9 DEF Call
        <5>2. q[j] = chaos[engine][j] /\ j \in DOMAIN chaos[engine]
          BY <2>5, <2>9, <4>1
        <5>3. /\ q[j].id \in DOMAIN failures
              /\ failures[q[j].id].host = q[j].host /\ failures[q[j].id].kind = q[j].kind
          BY <3>2, <5>1, <5>2 DEF TimersMatch
        <5> HIDE DEF TimersMatch
        <5> QED BY <2>4, <5>3 DEF FailuresKept
      <4>2. CASE j = Len(chaos[s]) + 1
        BY <2>4, <2>5, <3>2, <4>2
      <4> QED BY <2>5, <4>1, <4>2
    <3> QED BY <2>4, <3>1, <3>2, <2>7, <2>8 DEF TimersMatch
  <2>10. CASE engine # s
    <3>1. engine # 0 => chaos'[engine] = chaos[engine]
      BY <2>6, <2>10
    <3>2. TimersMatch'
      BY <2>1, <2>4, <3>1, KeptMatches
    <3> QED BY <2>7, <2>8, <3>2
  <2> QED BY <2>9, <2>10
<1>4. ASSUME NEW s \in Call, NEW i \in 1..MaxFailures,
             StormOver(s, i) \/ Recover(s, i) \/ Recovered(s, i)
      PROVE  DrillPart'
  <2>1. i \in DOMAIN chaos[s] /\ UNCHANGED <<startVars, script, delays, engine, ticking>>
    BY <1>4 DEF StormOver, Recovered, Recover
  <2>2. FailuresKept /\ DOMAIN failures' = DOMAIN failures
    <3>1. CASE UNCHANGED failures
      BY <3>1 DEF FailuresKept, DrillTypes
    <3>2. CASE Recover(s, i)
      <4> DEFINE ids == {chaos[s][i].id} \cap Open
      <4>1. failures' = [j \in DOMAIN failures |->
              IF j \in ids THEN [failures[j] EXCEPT !.open = FALSE] ELSE failures[j]]
        BY <3>2 DEF Recover
      <4>2. failures \in Seq(Failure)
        BY DEF DrillTypes
      <4> HIDE DEF ids
      <4> QED BY <4>1, <4>2, ClosedKeeps
    <3> QED BY <1>4, <3>1, <3>2 DEF StormOver, Recovered
  <2>3. PICK stage \in {"armed", "recovering", "closed"} :
          Stage(s, i, stage) /\ (stage = "armed" => chaos[s][i].stage = "storming")
    BY <1>4 DEF StormOver, Recovered, Recover
  <2>4. /\ chaos' \in [Call -> Seq(ChaosEntry)]
        /\ \A t \in Call : DOMAIN chaos'[t] = DOMAIN chaos[t]
        /\ \A t \in Call : \A j \in DOMAIN chaos[t] :
             <<t, j>> # <<s, i>> => chaos'[t][j] = chaos[t][j]
        /\ chaos'[s][i].stage = stage /\ chaos'[s][i].kind = chaos[s][i].kind
        /\ chaos[s] # << >>
    BY <2>1, <2>3, StageTypes
  <2>5. stage = "armed" => chaos[s][i].kind = "storm"
    <3>1. chaos[s][i] \in ChaosEntry
      BY <2>1 DEF DrillTypes
    <3> QED BY <2>3, <3>1 DEF ChaosEntry
  <2>6. DrillTypes'
    BY <2>1, <2>2, <2>4 DEF DrillTypes, FailuresKept, startVars
  <2>7. EngineFresh'
    <3>1. chaos' = [chaos EXCEPT ![s] = chaos'[s]]
      BY <2>3 DEF Stage, DrillTypes
    <3> QED BY <2>1, <2>4, <3>1 DEF EngineFresh, startVars
  <2>8. TimersMatch'
    <3>1. \A j \in delays' : j \in DOMAIN failures'
      BY <2>1, <2>2 DEF TimersMatch
    <3>2. ASSUME engine # 0, NEW j \in DOMAIN chaos'[engine],
                 chaos'[engine][j].stage = "armed", chaos'[engine][j].kind # "storm"
          PROVE  /\ chaos'[engine][j].id \in DOMAIN failures'
                 /\ failures'[chaos'[engine][j].id].host = chaos'[engine][j].host
                 /\ failures'[chaos'[engine][j].id].kind = chaos'[engine][j].kind
      <4>1. engine \in Call
        BY <3>2, DrillAssumption DEF EngineFresh, DrillTypes, Call
      <4>2. j \in DOMAIN chaos[engine] /\ <<engine, j>> # <<s, i>>
        BY <2>4, <2>5, <3>2, <4>1
      <4>3. chaos'[engine][j] = chaos[engine][j]
        BY <2>4, <4>1, <4>2
      <4> QED BY <2>2, <3>2, <4>2, <4>3 DEF TimersMatch, FailuresKept
    <3> QED BY <2>1, <3>1, <3>2 DEF TimersMatch
  <2> QED BY <2>6, <2>7, <2>8
<1> QED BY <1>1, <1>2, <1>3, <1>4

LEMMA RemainingTimers ==
  ASSUME NEW t \in Tapes, NEW k \in 0..Len(t)
  PROVE  /\ Remaining(t, k) \in Seq(Timer) /\ Len(Remaining(t, k)) = Len(t) - k
         /\ \A j \in 1..(Len(t) - k) : Remaining(t, k)[j] = [at |-> k + j, of |-> t]
<1>1. t \in Seq(Taped) /\ Len(t) \in Nat /\ DOMAIN t = 1..Len(t) /\ k \in Nat
      /\ Len(t) - k \in Nat
  BY DEF Tapes
<1>2. \A j \in 1..(Len(t) - k) : k + j \in DOMAIN t /\ k + j \in Nat
  BY <1>1
<1>3. \A j \in 1..(Len(t) - k) : [at |-> k + j, of |-> t] \in Timer
  BY <1>2 DEF Timer
<1> QED BY <1>1, <1>3 DEF Remaining

\* What changes the recording only.
LEMMA TapeStep ==
  ASSUME ReplayPart, tape' \in Tapes, UNCHANGED <<player, playVars>>
  PROVE  ReplayPart'
BY DEF ReplayPart, ReplayTypes, Untied, OnTape, playVars

LEMMA RecordedStep ==
  ASSUME ReplayPart, NEW does \in {"inject", "recover", "scripted"}, NEW h \in Host,
         NEW kind \in FailureKind \cup {"none"}, does = "inject" => kind \in FailureKind,
         Recorded(does, h, kind)
  PROVE  ReplayPart'
<1>1. UNCHANGED <<player, playVars>>
  BY DEF Recorded
<1>2. tape' \in Tapes
  <2>1. CASE tape' = tape
    BY <2>1 DEF ReplayPart, ReplayTypes
  <2>2. ASSUME NEW tie \in BOOLEAN, tape' = Append(tape, TapeEvent(does, h, kind, tie))
        PROVE  tape' \in Tapes
    <3> DEFINE e == TapeEvent(does, h, kind, tie)
    <3>1. e \in Taped /\ Playable(e)
      BY DEF TapeEvent, Taped, Playable
    <3> HIDE DEF e
    <3>2. tape \in Seq(Taped) /\ \A i \in DOMAIN tape : Playable(tape[i])
      BY DEF ReplayPart, ReplayTypes, Tapes
    <3>3. tape' = Append(tape, e)
      BY <2>2 DEF e
    <3>4. /\ tape' \in Seq(Taped) /\ DOMAIN tape' = 1..(Len(tape) + 1)
          /\ DOMAIN tape = 1..Len(tape) /\ Len(tape) \in Nat
          /\ tape'[Len(tape) + 1] = e
          /\ \A i \in DOMAIN tape : tape'[i] = tape[i]
      BY <3>1, <3>2, <3>3
    <3>5. \A i \in DOMAIN tape' : i \in DOMAIN tape \/ i = Len(tape) + 1
      BY <3>4
    <3> QED BY <3>1, <3>2, <3>4, <3>5 DEF Tapes
  <2> QED BY <2>1, <2>2 DEF Recorded
<1> QED BY <1>1, <1>2, TapeStep

\* Requests about recordings and replays, the steps apart.
LEMMA PlayerSteps ==
  ASSUME ReplayPart,
         \/ StartRecording \/ StopRecording \/ Halted
         \/ StopReplay \/ PauseReplay \/ ResumeReplay
         \/ \E h \in Host : ImportTrace(h)
         \/ \E t \in traces, mode \in {"continuous", "step"} : StartReplay(t, mode)
  PROVE  ReplayPart'
<1> USE DEF ReplayPart
<1>0. << >> \in Tapes /\ << >> \in Seq(Timer)
  BY DEF Tapes
<1>1. CASE StartRecording
  <2>1. ReplayTypes'
    BY <1>0, <1>1 DEF StartRecording, ReplayTypes, playVars
  <2>2. Untied' => OnTape'
    BY <1>1 DEF StartRecording, OnTape, Untied, playVars
  <2> QED BY <2>1, <2>2
<1>2. CASE StopRecording
  <2>1. ReplayTypes'
    BY <1>2 DEF StopRecording, ReplayTypes
  <2>2. Untied' => OnTape'
    BY <1>2 DEF StopRecording, OnTape, Untied
  <2> QED BY <2>1, <2>2
<1>3. ASSUME NEW h \in Host, ImportTrace(h) PROVE ReplayPart'
  <2>1. Imported(h) \in Tapes
    <3> DEFINE a == TapeEvent("inject", h, "delay", FALSE)
               b == TapeEvent("recover", h, "delay", FALSE)
               c == TapeEvent("inject", h, "shutdown", FALSE)
    <3>1. /\ a \in Taped /\ b \in Taped /\ c \in Taped
          /\ Playable(a) /\ Playable(b) /\ Playable(c)
      BY DEF TapeEvent, Taped, Playable, FailureKind
    <3>2. Imported(h) = <<a, b, c>>
      BY DEF Imported
    <3> HIDE DEF a, b, c
    <3>3. <<a, b, c>> \in Seq(Taped) /\ \A i \in DOMAIN <<a, b, c>> : Playable(<<a, b, c>>[i])
      BY <3>1
    <3> QED BY <3>2, <3>3 DEF Tapes
  <2>2. ReplayTypes'
    BY <1>3, <2>1 DEF ImportTrace, ReplayTypes
  <2>3. Untied' => OnTape'
    BY <1>3 DEF ImportTrace, OnTape, Untied
  <2> QED BY <2>2, <2>3
<1>4. CASE Halted
  <2>1. ReplayTypes'
    BY <1>0, <1>4 DEF Halted, ReplayTypes
  <2>2. Untied' => OnTape'
    BY <1>4 DEF Halted, OnTape
  <2> QED BY <2>1, <2>2
<1>5. ASSUME NEW t \in traces, NEW mode, StartReplay(t, mode) PROVE ReplayPart'
  <2>1. t \in Tapes /\ t \in Seq(Taped) /\ t # << >> /\ Len(t) \in Nat \ {0} /\ 0 \in 0..Len(t)
    BY <1>5 DEF StartReplay, ReplayTypes, Tapes
  <2>2. Remaining(t, 0) \in Seq(Timer)
    BY <2>1, RemainingTimers
  <2>3. armed \in Seq(Timer)
    BY DEF ReplayTypes
  <2>4. armed \o Remaining(t, 0) \in Seq(Timer) /\ << >> \o Remaining(t, 0) = Remaining(t, 0)
    BY <2>2, <2>3
  <2>5. ReplayTypes'
    BY <1>5, <2>1, <2>3, <2>4 DEF StartReplay, ReplayTypes
  <2>6. SubSeq(t, 1, 0) = << >>
    BY <2>1
  <2>7. Untied' => OnTape'
    <3>1. Untied' => Untied
      BY <1>5 DEF StartReplay, Untied
    <3>2. Untied => armed = << >>
      BY <1>5 DEF StartReplay, OnTape
    <3> QED BY <1>5, <2>1, <2>4, <2>6, <3>1, <3>2 DEF StartReplay, OnTape
  <2> QED BY <2>5, <2>7
<1>6. CASE StopReplay
  <2>1. ReplayTypes'
    BY <1>0, <1>6 DEF StopReplay, ReplayTypes
  <2>2. Untied' => OnTape'
    BY <1>6 DEF StopReplay, OnTape
  <2> QED BY <2>1, <2>2
<1>7. CASE PauseReplay
  <2>1. ReplayTypes'
    BY <1>0, <1>7 DEF PauseReplay, ReplayTypes
  <2>2. Untied' => OnTape'
    BY <1>7 DEF PauseReplay, OnTape, Untied
  <2> QED BY <2>1, <2>2
<1>8. CASE ResumeReplay
  <2>1. armed \in Seq(Timer) /\ trace \in Tapes /\ index \in Nat
    BY DEF ReplayTypes
  <2>2. Remaining(trace, index) \in Seq(Timer)
    <3>1. CASE index \in 0..Len(trace)
      BY <2>1, <3>1, RemainingTimers
    <3>2. CASE index \notin 0..Len(trace)
      <4>1. trace \in Seq(Taped) /\ Len(trace) \in Nat
        BY <2>1 DEF Tapes
      <4>2. 1..(Len(trace) - index) = 1..0
        BY <2>1, <3>2, <4>1
      <4>3. Remaining(trace, index) = [j \in 1..0 |-> [at |-> index + j, of |-> trace]]
        BY <4>2 DEF Remaining
      <4> QED BY <4>3
    <3> QED BY <3>1, <3>2
  <2>3. armed \o Remaining(trace, index) \in Seq(Timer)
        /\ << >> \o Remaining(trace, index) = Remaining(trace, index)
    BY <2>1, <2>2
  <2>4. ReplayTypes'
    BY <1>8, <2>3 DEF ResumeReplay, ReplayTypes
  <2>5. Untied' => OnTape'
    BY <1>8, <2>3 DEF ResumeReplay, OnTape, Untied
  <2> QED BY <2>4, <2>5
<1> QED BY <1>1, <1>2, <1>3, <1>4, <1>5, <1>6, <1>7, <1>8


\* A step of a replay does to the hosts what an admin can do.
LEMMA ExecutesDrill ==
  ASSUME DrillPart, NEW e \in Taped, Playable(e), Executes(e)
  PROVE  DrillPart'
<1>1. e.host \in Host /\ (e.does = "inject" => e.kind \in FailureKind)
  BY DEF Taped, Playable
<1>2. script' \in [Call -> Seq(Action)] /\ UNCHANGED <<startVars, chaosVars>>
  BY DEF Executes, DrillPart, DrillTypes
<1>3. CASE e.does = "inject" /\ Afflict(e.host, e.kind, FALSE)
  <2>1. FALSE \in BOOLEAN
    OBVIOUS
  <2> QED BY <1>1, <1>2, <1>3, <2>1, InjectStep
<1>4. CASE Heal(OpenOn(e.host), e.host) /\ UNCHANGED delays
  <2>1. delays' \subseteq delays
    BY <1>4
  <2> QED BY <1>2, <1>4, <2>1, HealStep
<1>5. CASE UNCHANGED <<health, failures, delays>>
  <2>1. FailuresKept /\ delays' \subseteq DOMAIN failures'
    BY <1>5 DEF DrillPart, DrillTypes, TimersMatch, FailuresKept
  <2> QED BY <1>2, <2>1, FailuresStep
<1> QED BY <1>3, <1>4, <1>5 DEF Executes

\* The event after `index` is done: what OnTape says of the index after it.
LEMMA OneMore ==
  ASSUME NEW t \in Tapes, NEW k \in Nat, k + 1 \in DOMAIN t
  PROVE  /\ t[k + 1] \in Taped /\ Playable(t[k + 1])
         /\ k + 1 \in 0..Len(t)
         /\ Append(SubSeq(t, 1, k), t[k + 1]) = SubSeq(t, 1, k + 1)
<1>1. t \in Seq(Taped) /\ Len(t) \in Nat /\ DOMAIN t = 1..Len(t) /\ Playable(t[k + 1])
  BY DEF Tapes
<1>2. t[k + 1] \in Taped /\ k + 1 \in 0..Len(t)
  BY <1>1
<1> DEFINE a == Append(SubSeq(t, 1, k), t[k + 1])
           b == SubSeq(t, 1, k + 1)
<1>3. SubSeq(t, 1, k) \in Seq(Taped) /\ Len(SubSeq(t, 1, k)) = k
      /\ \A i \in 1..k : SubSeq(t, 1, k)[i] = t[i]
  BY <1>1, <1>2
<1>4. b \in Seq(Taped) /\ Len(b) = k + 1 /\ \A i \in 1..(k + 1) : b[i] = t[i]
  BY <1>1, <1>2
<1>5. a \in Seq(Taped) /\ Len(a) = k + 1 /\ \A i \in 1..(k + 1) : a[i] = t[i]
  BY <1>2, <1>3
<1> HIDE DEF a, b
<1>6. a = b
  BY <1>4, <1>5
<1> QED BY <1>1, <1>2, <1>6 DEF a, b

LEMMA StepForwardStep ==
  ASSUME DrillsIInv, StepForward
  PROVE  DrillsIInv'
<1> DEFINE e == trace[index + 1]
<1>1. trace \in Tapes /\ trace \in Seq(Taped) /\ index \in Nat /\ index + 1 \in DOMAIN trace
  BY DEF DrillsIInv, ReplayPart, ReplayTypes, Tapes, StepForward
<1>2. /\ e \in Taped /\ Playable(e) /\ index + 1 \in 0..Len(trace)
      /\ Append(SubSeq(trace, 1, index), e) = SubSeq(trace, 1, index + 1)
  BY <1>1, OneMore
<1>3. DrillPart'
  BY <1>2, ExecutesDrill DEF DrillsIInv, StepForward
<1> HIDE DEF e
<1>4. UNCHANGED <<tape, traces, trace, armed>> /\ executed' = Append(executed, e)
      /\ index' = index + 1 /\ player \in {"stepping", "paused"}
      /\ player' = IF index + 1 = Len(trace) THEN "completed" ELSE player
  BY DEF StepForward, Executes, e
<1>5. ReplayTypes'
  BY <1>1, <1>4 DEF DrillsIInv, ReplayPart, ReplayTypes
<1>6. Untied' => OnTape'
  BY <1>1, <1>2, <1>4 DEF DrillsIInv, ReplayPart, OnTape, Untied
<1> QED BY <1>3, <1>5, <1>6 DEF DrillsIInv, ReplayPart

\* Without ties the timers fire in order, and a timer that is not the first
\* waits for it.
LEMMA FirstIsDue ==
  ASSUME ReplayPart, Untied, NEW k \in Due
  PROVE  k = 1 /\ player = "replaying" /\ index + 1 \in DOMAIN trace
<1>1. trace \in Tapes /\ trace \in Seq(Taped) /\ index \in Nat /\ Len(trace) \in Nat
  BY DEF ReplayPart, ReplayTypes, Tapes
<1>2. k \in DOMAIN armed
  BY DEF Due
<1>3. player = "replaying"
  BY <1>2 DEF ReplayPart, OnTape
<1>4. armed = Remaining(trace, index) /\ index \in 0..Len(trace) /\ trace \in traces
  BY <1>3 DEF ReplayPart, ReplayTypes, OnTape
<1>5. Len(trace) - index \in Nat
  BY <1>1, <1>4
<1>6. /\ DOMAIN armed = 1..(Len(trace) - index)
      /\ \A j \in 1..(Len(trace) - index) : armed[j].at = index + j /\ armed[j].of = trace
  BY <1>4 DEF Remaining
<1>7. k \in 1..(Len(trace) - index) /\ index + k \in DOMAIN trace /\ index + 1 \in DOMAIN trace
  BY <1>1, <1>2, <1>4, <1>5, <1>6
<1>8. ASSUME k # 1 PROVE FALSE
  <2>1. 1 \in 1..(k - 1) /\ 1 \in 1..(Len(trace) - index)
    BY <1>5, <1>7, <1>8
  <2>2. \A i \in (armed[1].at + 1)..armed[k].at : armed[k].of[i].tie
    BY <2>1 DEF Due
  <2>3. index + k \in (armed[1].at + 1)..armed[k].at
    BY <1>1, <1>6, <1>7, <1>8, <2>1
  <2>4. trace[index + k].tie
    BY <1>6, <1>7, <2>2, <2>3
  <2> QED BY <1>4, <1>7, <2>4 DEF Untied
<1> QED BY <1>3, <1>7, <1>8

LEMMA FireStep ==
  ASSUME DrillsIInv, NEW k, Fire(k)
  PROVE  DrillsIInv'
<1> DEFINE i == armed[k].at
           of == armed[k].of
           e == of[i]
           rest == SubSeq(armed, 1, k - 1) \o SubSeq(armed, k + 1, Len(armed))
<1>1. k \in Due /\ k \in DOMAIN armed /\ armed \in Seq(Timer)
  BY DEF Fire, Due, DrillsIInv, ReplayPart, ReplayTypes
<1>2. armed[k] \in Timer /\ k \in 1..Len(armed) /\ Len(armed) \in Nat
  BY <1>1
<1>3. of \in Tapes /\ i \in DOMAIN of /\ i \in Nat
  BY <1>2 DEF Timer
<1>4. e \in Taped /\ Playable(e)
  <2> HIDE DEF i, of
  <2> QED BY <1>3 DEF Tapes
<1>5. armed' = rest /\ rest \in Seq(Timer)
  <2>1. SubSeq(armed, 1, k - 1) \in Seq(Timer) /\ SubSeq(armed, k + 1, Len(armed)) \in Seq(Timer)
    BY <1>1, <1>2
  <2>2. rest \in Seq(Timer)
    BY <2>1
  <2> HIDE DEF rest
  <2> QED BY <2>2 DEF Fire, rest
<1>6. \/ /\ player = "replaying" /\ Executes(e) /\ index' = i
         /\ player' = IF i = Len(of) THEN "completed" ELSE player
      \/ /\ player # "replaying"
         /\ UNCHANGED <<player, tape, traces, trace, index, executed, drillVars>>
  BY DEF Fire
<1> HIDE DEF e, i, of, rest
<1>7. DrillPart'
  <2>1. CASE Executes(e)
    BY <1>4, <2>1, ExecutesDrill DEF DrillsIInv
  <2>2. CASE UNCHANGED drillVars
    BY <2>2 DEF DrillsIInv, DrillPart, DrillTypes, EngineFresh, TimersMatch, drillVars
  <2> QED BY <1>6, <2>1, <2>2
<1>8. UNCHANGED <<tape, traces, trace>> /\ index' \in Nat
  BY <1>3, <1>6 DEF Executes, DrillsIInv, ReplayPart, ReplayTypes
<1>9. ReplayTypes'
  BY <1>5, <1>8 DEF DrillsIInv, ReplayPart, ReplayTypes
<1>10. ASSUME Untied' PROVE OnTape'
  <2>1. Untied
    BY <1>8, <1>10 DEF Untied
  <2>2. k = 1 /\ player = "replaying" /\ index + 1 \in DOMAIN trace
    BY <1>1, <2>1, FirstIsDue DEF DrillsIInv
  <2>3. /\ trace \in Tapes /\ trace \in Seq(Taped) /\ index \in Nat /\ Len(trace) \in Nat
        /\ armed = Remaining(trace, index) /\ index \in 0..Len(trace)
        /\ executed = SubSeq(trace, 1, index) /\ trace # << >>
    BY <2>1, <2>2 DEF DrillsIInv, ReplayPart, ReplayTypes, OnTape, Tapes
  <2>4. /\ Len(armed) = Len(trace) - index
        /\ \A j \in 1..(Len(trace) - index) : armed[j] = [at |-> index + j, of |-> trace]
    BY <2>3, RemainingTimers
  <2>5. 1 \in 1..(Len(trace) - index)
    BY <2>2, <2>3
  <2>6. i = index + 1 /\ of = trace /\ e = trace[index + 1]
    BY <2>2, <2>4, <2>5 DEF i, of, e
  <2>7. rest = Remaining(trace, index + 1)
    <3>1. index + 1 \in 0..Len(trace)
      BY <2>2, <2>3
    <3>2. /\ Remaining(trace, index + 1) \in Seq(Timer)
          /\ Len(Remaining(trace, index + 1)) = Len(trace) - (index + 1)
          /\ \A j \in 1..(Len(trace) - (index + 1)) :
               Remaining(trace, index + 1)[j] = [at |-> index + 1 + j, of |-> trace]
      BY <2>3, <3>1, RemainingTimers
    <3>3. rest = SubSeq(armed, 1, 0) \o SubSeq(armed, 2, Len(armed))
      BY <2>2 DEF rest
    <3>4. SubSeq(armed, 1, 0) = << >>
      BY <1>1
    <3>5. rest = SubSeq(armed, 2, Len(armed))
      BY <1>1, <3>3, <3>4
    <3>6. /\ Len(rest) = Len(armed) - 1
          /\ \A j \in 1..(Len(armed) - 1) : rest[j] = armed[j + 1]
      BY <1>1, <1>2, <2>5, <2>4, <3>5
    <3>7. \A j \in 1..(Len(trace) - (index + 1)) :
            rest[j] = Remaining(trace, index + 1)[j]
      <4> TAKE j \in 1..(Len(trace) - (index + 1))
      <4>1. j \in 1..(Len(armed) - 1) /\ j + 1 \in 1..(Len(trace) - index)
            /\ index + (j + 1) = index + 1 + j
        BY <2>3, <2>4
      <4> QED BY <2>4, <3>2, <3>6, <4>1
    <3>8. Len(rest) = Len(Remaining(trace, index + 1))
      <4>1. Len(rest) = Len(trace) - index - 1
        BY <2>3, <2>4, <3>6
      <4>2. Len(Remaining(trace, index + 1)) = Len(trace) - (index + 1)
        BY <3>2
      <4> HIDE DEF Remaining
      <4> QED BY <2>3, <4>1, <4>2
    <3> DEFINE r == Remaining(trace, index + 1)
    <3>9. rest \in Seq(Timer) /\ r \in Seq(Timer) /\ Len(rest) = Len(r)
          /\ \A j \in 1..Len(r) : rest[j] = r[j]
      BY <1>5, <3>2, <3>7, <3>8
    <3> HIDE DEF r
    <3>10. rest = r
      BY <3>9
    <3> QED BY <3>10 DEF r
  <2>8. /\ index + 1 \in 0..Len(trace)
        /\ Append(SubSeq(trace, 1, index), trace[index + 1]) = SubSeq(trace, 1, index + 1)
    BY <2>2, <2>3, OneMore
  <2>9. /\ executed' = SubSeq(trace, 1, index + 1) /\ index' = index + 1
        /\ player' = IF index + 1 = Len(trace) THEN "completed" ELSE "replaying"
    BY <1>6, <2>2, <2>3, <2>6, <2>8 DEF Executes
  <2>10. CASE index + 1 = Len(trace)
    <3>1. Len(Remaining(trace, index + 1)) = 0 /\ Remaining(trace, index + 1) \in Seq(Timer)
      BY <2>3, <2>8, <2>10, RemainingTimers
    <3>2. Remaining(trace, index + 1) = << >>
      BY <3>1
    <3>3. armed' = << >> /\ player' = "completed"
      BY <1>5, <2>7, <2>9, <2>10, <3>2
    <3>4. trace' # << >> /\ index' \in 0..Len(trace') /\ index' = Len(trace')
          /\ executed' = SubSeq(trace', 1, index')
      BY <1>8, <2>3, <2>8, <2>9, <2>10
    <3> QED BY <3>3, <3>4 DEF OnTape
  <2>11. CASE index + 1 # Len(trace)
    <3>1. armed' = Remaining(trace', index') /\ player' = "replaying"
      BY <1>5, <1>8, <2>7, <2>9, <2>11
    <3>2. trace' # << >> /\ index' \in 0..Len(trace') /\ index' # Len(trace')
          /\ executed' = SubSeq(trace', 1, index')
      BY <1>8, <2>3, <2>8, <2>9, <2>11
    <3> QED BY <3>1, <3>2 DEF OnTape
  <2> QED BY <2>10, <2>11
<1> QED BY <1>7, <1>9, <1>10 DEF DrillsIInv, ReplayPart


LEMMA DrillsInitially ==
  ASSUME DrillsInit PROVE DrillsIInv
<1>1. << >> \in Tapes /\ << >> \in Seq(Timer) /\ << >> \in Seq(Failure)
      /\ << >> \in Seq(Action) /\ << >> \in Seq(ChaosEntry)
  BY DEF Tapes
<1>2. DrillTypes /\ TimersMatch
  BY <1>1, DrillAssumption DEF DrillsInit, DrillInit, DrillTypes, TimersMatch, NoScript
<1>3. EngineFresh
  BY DEF DrillsInit, DrillInit, EngineFresh
<1>4. ReplayPart
  BY <1>1 DEF DrillsInit, ReplayInit, ReplayPart, ReplayTypes, OnTape
<1> QED BY <1>2, <1>3, <1>4 DEF DrillsIInv, DrillPart

\* The replay engine is not concerned.
LEMMA ReplayIdle ==
  ASSUME ReplayPart, UNCHANGED replayVars
  PROVE  ReplayPart'
BY DEF replayVars, ReplayPart, ReplayTypes, Untied, OnTape

\* Nor are the hosts.
LEMMA DrillIdle ==
  ASSUME DrillPart, UNCHANGED drillVars
  PROVE  DrillPart'
BY DEF DrillPart, DrillTypes, EngineFresh, TimersMatch, drillVars

\* What an admin asks for.
LEMMA AsksStep ==
  ASSUME DrillsIInv, Asks
  PROVE  DrillsIInv'
<1> USE DEF DrillsIInv
<1>1. CASE (Begin \/ StartChaos \/ StopChaos) /\ UNCHANGED replayVars
  BY <1>1, StartSteps, ChaosSteps, ReplayIdle
<1>2. CASE Halted
  BY <1>2, StartSteps, PlayerSteps DEF Halted
<1>3. ASSUME NEW h \in Host, NEW kind \in Injected, NEW timed \in BOOLEAN,
             InjectNow(h, kind, timed)
      PROVE  DrillsIInv'
  <2>1. kind \in FailureKind /\ "inject" \in {"inject", "recover", "scripted"}
    BY DrillAssumption DEF FailureKind
  <2>2. script' \in [Call -> Seq(Action)]
    BY <1>3 DEF InjectNow, Inject, DrillPart, DrillTypes
  <2>3. DrillPart'
    BY <1>3, <2>1, <2>2, InjectStep DEF InjectNow, Inject
  <2>4. ReplayPart'
    BY <1>3, <2>1, RecordedStep DEF InjectNow
  <2> QED BY <2>3, <2>4
<1>4. ASSUME NEW i \in 1..MaxFailures, ResolveNow(i) PROVE DrillsIInv'
  <2>1. failures[i] \in Failure
    BY <1>4 DEF ResolveNow, Resolve, Open, DrillPart, DrillTypes
  <2>2. failures[i].host \in Host /\ failures[i].kind \in FailureKind
        /\ "recover" \in {"inject", "recover", "scripted"}
    BY <2>1 DEF Failure
  <2>3. script' \in [Call -> Seq(Action)] /\ delays' \subseteq delays
    BY <1>4 DEF ResolveNow, Resolve, DrillPart, DrillTypes
  <2>4. DrillPart'
    BY <1>4, <2>3, HealStep DEF ResolveNow, Resolve
  <2>5. ReplayPart'
    BY <1>4, <2>2, RecordedStep DEF ResolveNow
  <2> QED BY <2>4, <2>5
<1>5. CASE \/ StartRecording \/ StopRecording \/ StopReplay \/ PauseReplay \/ ResumeReplay
           \/ \E t \in traces, mode \in {"continuous", "step"} : StartReplay(t, mode)
  <2>1. UNCHANGED drillVars
    BY <1>5 DEF StartRecording, StopRecording, StopReplay, PauseReplay, ResumeReplay, StartReplay
  <2> QED BY <1>5, <2>1, PlayerSteps, DrillIdle
<1>6. CASE StepForward
  BY <1>6, StepForwardStep
<1> QED BY <1>1, <1>2, <1>3, <1>4, <1>5, <1>6 DEF Asks

\* What goes on by itself.
LEMMA RunsStep ==
  ASSUME DrillsIInv, Runs
  PROVE  DrillsIInv'
<1> USE DEF DrillsIInv
<1>1. CASE /\ \/ \E s \in Call : GoOn(s) \/ Tick(s)
              \/ \E s \in Call, i \in 1..MaxFailures :
                   StormOver(s, i) \/ Recover(s, i) \/ Recovered(s, i)
           /\ UNCHANGED replayVars
  BY <1>1, StartSteps, ChaosSteps, ReplayIdle
<1>2. ASSUME NEW i \in 1..MaxFailures, DelayOver(i), UNCHANGED replayVars
      PROVE  DrillsIInv'
  <2>1. script' \in [Call -> Seq(Action)] /\ delays' \subseteq delays
    BY <1>2 DEF DelayOver, DrillPart, DrillTypes
  <2>2. DrillPart'
    BY <1>2, <2>1, HealStep DEF DelayOver
  <2> QED BY <1>2, <2>2, ReplayIdle
<1>3. ASSUME NEW s \in Call, Performed(s) PROVE DrillsIInv'
  <2>1. DrillPart' /\ Head(script[s]) \in Action
    BY <1>3, PerformStep DEF Performed
  <2>2. Head(script[s]).on \in Host /\ "scripted" \in {"inject", "recover", "scripted"}
        /\ "none" \in FailureKind \cup {"none"}
    BY <2>1 DEF Action
  <2>3. Recorded("scripted", Head(script[s]).on, "none")
    BY <1>3 DEF Performed
  <2>4. ReplayPart'
    BY <2>2, <2>3, RecordedStep
  <2> QED BY <2>1, <2>4
<1>4. ASSUME NEW k, Fire(k) PROVE DrillsIInv'
  BY <1>4, FireStep
<1> QED BY <1>1, <1>2, <1>3, <1>4 DEF Runs

LEMMA DrillsStay ==
  ASSUME DrillsIInv, [DrillsNext]_drillsVars
  PROVE  DrillsIInv'
<1>1. CASE Asks
  BY <1>1, AsksStep
<1>2. CASE Runs
  BY <1>2, RunsStep
<1>3. ASSUME NEW h \in Host, ImportTrace(h) PROVE DrillsIInv'
  BY <1>3, PlayerSteps, DrillIdle DEF ImportTrace, DrillsIInv
<1>4. CASE UNCHANGED drillsVars
  BY <1>4, ReplayIdle, DrillIdle DEF drillsVars, DrillsIInv
<1> QED BY <1>1, <1>2, <1>3, <1>4 DEF DrillsNext

\* A drill never mixes up its failures and its recording: the timers of a
\* failure and of a chaos entry resolve what they were armed for in
\* FailureInjector and ChaosEngine, and ReplayEngine does the events of its
\* trace once each and in order, for any number of hosts, simulations and
\* failures and any recording.
THEOREM DrillsSafe == DrillsSpec => []DrillsOnTrack
<1>1. DrillsInit => DrillsIInv
  BY DrillsInitially
<1>2. DrillsIInv => DrillsOnTrack
  BY DEF DrillsIInv, DrillPart, ReplayPart, DrillsOnTrack, ReplayInOrder, OnTape, Untied
<1> QED BY <1>1, <1>2, DrillsStay, PTL DEF DrillsSpec

\* What the timers and the recordings do not depend on.
DrillBooks ==
  /\ simulation \in {"idle", "starting", "running", "stopped"}
  /\ health \in [Host -> {"healthy", "degraded", "partitioned", "down"}]
  /\ Len(failures) <= MaxFailures
HealthBooks ==
  /\ health' \in [Host -> {"healthy", "degraded", "partitioned", "down"}]
  /\ Len(failures') <= MaxFailures
PlayerBooks ==
  /\ player \in {"idle", "recording", "replaying", "stepping", "paused", "completed"}
  /\ Len(tape) <= MaxTape

LEMMA AfflictBooks ==
  ASSUME DrillBooks, failures \in Seq(Failure), NEW h \in Host, NEW kind \in FailureKind, NEW timed,
         Afflict(h, kind, timed)
  PROVE  HealthBooks
<1>1. Inflicted(kind) \in {"degraded", "partitioned", "down"}
  BY DEF Inflicted, FailureKind
<1>2. health' = [health EXCEPT ![h] = Inflicted(kind)] /\ Len(failures) < MaxFailures
      /\ Len(failures') = Len(failures) + 1 /\ Len(failures) \in Nat
  BY DEF Afflict
<1>3. Len(failures') <= MaxFailures
  BY <1>2, DrillAssumption
<1> QED BY <1>1, <1>2, <1>3 DEF DrillBooks, HealthBooks

LEMMA ResolvedBooks ==
  ASSUME DrillBooks, failures \in Seq(Failure),
         NEW ids, failures' = [i \in DOMAIN failures |->
                                 IF i \in ids THEN [failures[i] EXCEPT !.open = FALSE] ELSE failures[i]],
         health' = health \/ \E h : health' = [health EXCEPT ![h] = "healthy"]
  PROVE  HealthBooks
<1>1. Len(failures') = Len(failures)
  OBVIOUS
<1> QED BY <1>1 DEF DrillBooks, HealthBooks

LEMMA RestBooks ==
  ASSUME DrillBooks, failures' = failures \/ failures' = << >>,
         \/ health' = health \/ health' = AllHealthy
         \/ \E s \in {"healthy", "degraded", "partitioned", "down"} : \E h : health' = [health EXCEPT ![h] = s]
  PROVE  HealthBooks
<1>1. Len(<< >>) <= MaxFailures
  BY DrillAssumption
<1> QED BY <1>1 DEF DrillBooks, HealthBooks, AllHealthy

LEMMA RecordedBooks ==
  ASSUME PlayerBooks, tape \in Tapes, NEW does, NEW h, NEW kind, Recorded(does, h, kind)
  PROVE  PlayerBooks'
<1>1. player' = player
  BY DEF Recorded
<1>2. Len(tape') <= MaxTape
  <2>1. CASE tape' = tape
    BY <2>1 DEF PlayerBooks
  <2>2. CASE Len(tape) < MaxTape /\ \E tie : tape' = Append(tape, TapeEvent(does, h, kind, tie))
    <3>1. Len(tape') = Len(tape) + 1 /\ Len(tape) \in Nat
      BY <2>2 DEF Tapes
    <3> QED BY <2>2, <3>1, ReplayAssumption
  <2> QED BY <2>1, <2>2 DEF Recorded
<1> QED BY <1>1, <1>2 DEF PlayerBooks

LEMMA PerformBooks ==
  ASSUME DrillBooks, DrillPart, NEW s \in Call, Perform(s)
  PROVE  HealthBooks
<1> DEFINE a == Head(script[s])
<1>1. a.on \in Host /\ "eviction" \in FailureKind /\ failures \in Seq(Failure)
  BY PerformStep DEF Action, FailureKind, DrillPart, DrillTypes
<1>2. CASE Afflict(a.on, "eviction", FALSE)
  BY <1>1, <1>2, AfflictBooks
<1>3. CASE \E state \in {"down", "healthy", "degraded"} : Turns(a.on, state)
  BY <1>3, RestBooks DEF Turns
<1>4. CASE UNCHANGED failures /\ (health' = AllHealthy \/ health' = health)
  BY <1>4, RestBooks
<1> QED BY <1>2, <1>3, <1>4 DEF Perform

LEMMA ExecutesBooks ==
  ASSUME DrillBooks, DrillPart, NEW e \in Taped, Playable(e), Executes(e)
  PROVE  HealthBooks /\ UNCHANGED <<simulation, tape>>
<1>1. e.host \in Host /\ (e.does = "inject" => e.kind \in FailureKind) /\ failures \in Seq(Failure)
  BY DEF Taped, Playable, DrillPart, DrillTypes
<1>2. UNCHANGED <<simulation, tape>>
  BY DEF Executes, startVars
<1>3. CASE e.does = "inject" /\ Afflict(e.host, e.kind, FALSE)
  BY <1>1, <1>2, <1>3, AfflictBooks
<1>4. CASE Heal(OpenOn(e.host), e.host)
  BY <1>1, <1>2, <1>4, ResolvedBooks DEF Heal
<1>5. CASE UNCHANGED <<health, failures>>
  BY <1>2, <1>5, RestBooks
<1> QED BY <1>1, <1>3, <1>4, <1>5 DEF Executes

LEMMA AsksBooks ==
  ASSUME DrillBooks, PlayerBooks, DrillsIInv, Asks
  PROVE  DrillBooks' /\ PlayerBooks'
<1>0. /\ failures \in Seq(Failure) /\ Len(<< >>) <= MaxTape
      /\ \A does, h, kind : Recorded(does, h, kind) => PlayerBooks'
  <2>1. failures \in Seq(Failure) /\ Len(<< >>) <= MaxTape
    BY ReplayAssumption DEF DrillsIInv, DrillPart, DrillTypes
  <2>2. ASSUME NEW does, NEW h, NEW kind, Recorded(does, h, kind) PROVE PlayerBooks'
    BY <2>2, RecordedBooks DEF DrillsIInv, ReplayPart, ReplayTypes
  <2> QED BY <2>1, <2>2
<1>1. CASE (Begin \/ StartChaos \/ StopChaos) /\ UNCHANGED replayVars
  <2>1. HealthBooks
    BY <1>1, RestBooks DEF Begin, Forget, StartChaos, StopChaos
  <2>2. simulation' = simulation \/ simulation' = "starting"
    BY <1>1 DEF Begin, StartChaos, StopChaos, startVars
  <2> QED BY <1>1, <2>1, <2>2 DEF DrillBooks, HealthBooks, PlayerBooks, replayVars
<1>2. CASE Halted
  <2>1. HealthBooks
    BY <1>2, RestBooks DEF Halted, Halt, Forget
  <2>2. simulation' = "stopped" /\ player' = "idle" /\ tape' = << >>
    BY <1>2 DEF Halted, Halt
  <2> QED BY <1>0, <2>1, <2>2 DEF DrillBooks, HealthBooks, PlayerBooks
<1>3. ASSUME NEW h \in Host, NEW kind \in Injected, NEW timed \in BOOLEAN, InjectNow(h, kind, timed)
      PROVE  DrillBooks' /\ PlayerBooks'
  <2>1. kind \in FailureKind /\ Afflict(h, kind, timed) /\ simulation' = simulation
    BY <1>3, DrillAssumption DEF InjectNow, Inject, startVars, FailureKind
  <2>2. HealthBooks
    BY <1>0, <2>1, AfflictBooks
  <2> QED BY <1>0, <1>3, <2>1, <2>2 DEF InjectNow, DrillBooks, HealthBooks
<1>4. ASSUME NEW i, ResolveNow(i) PROVE DrillBooks' /\ PlayerBooks'
  <2>1. Heal({i}, failures[i].host) /\ simulation' = simulation
    BY <1>4 DEF ResolveNow, Resolve, startVars
  <2>2. HealthBooks
    BY <1>0, <2>1, ResolvedBooks DEF Heal
  <2> QED BY <1>0, <1>4, <2>1, <2>2 DEF ResolveNow, DrillBooks, HealthBooks
<1>5. CASE StartRecording \/ StopRecording \/ StopReplay \/ PauseReplay \/ ResumeReplay
             \/ \E t \in traces, mode \in {"continuous", "step"} : StartReplay(t, mode)
  BY <1>0, <1>5 DEF StartRecording, StopRecording, StopReplay, PauseReplay, ResumeReplay, StartReplay,
                    DrillBooks, PlayerBooks, drillVars
<1>6. CASE StepForward
  <2>1. trace[index + 1] \in Taped /\ Playable(trace[index + 1])
    BY <1>6 DEF DrillsIInv, ReplayPart, ReplayTypes, Tapes, StepForward
  <2>2. HealthBooks /\ UNCHANGED <<simulation, tape>>
    BY <1>6, <2>1, ExecutesBooks DEF StepForward, DrillsIInv
  <2>3. player' = player \/ player' = "completed"
    BY <1>6 DEF StepForward
  <2> QED BY <2>2, <2>3 DEF DrillBooks, HealthBooks, PlayerBooks
<1> QED BY <1>1, <1>2, <1>3, <1>4, <1>5, <1>6 DEF Asks

LEMMA RunsBooks ==
  ASSUME DrillBooks, PlayerBooks, DrillsIInv, Runs
  PROVE  DrillBooks' /\ PlayerBooks'
<1>0. failures \in Seq(Failure)
  BY DEF DrillsIInv, DrillPart, DrillTypes
<1>1. CASE UNCHANGED replayVars /\ \E s \in Call : GoOn(s) \/ Tick(s)
  <2>1. PICK s \in Call : GoOn(s) \/ Tick(s)
    BY <1>1
  <2>2. CASE GoOn(s)
    BY <1>1, <2>2 DEF GoOn, DrillBooks, PlayerBooks, replayVars
  <2>3. CASE Tick(s)
    <3>1. PICK h \in Host : Turns(h, "healthy") \/ \E kind \in FailureKind : Afflict(h, kind, FALSE)
      BY <2>3, DrillAssumption DEF Tick, Eligible, FailureKind
    <3>2. HealthBooks
      BY <1>0, <3>1, AfflictBooks, RestBooks DEF Turns
    <3>3. simulation' = simulation
      BY <2>3 DEF Tick, startVars
    <3> QED BY <1>1, <3>2, <3>3 DEF DrillBooks, HealthBooks, PlayerBooks, replayVars
  <2> QED BY <2>1, <2>2, <2>3
<1>2. CASE /\ UNCHANGED replayVars
           /\ \E s \in Call, i \in 1..MaxFailures : StormOver(s, i) \/ Recover(s, i) \/ Recovered(s, i)
  <2>1. PICK s \in Call, i \in 1..MaxFailures : StormOver(s, i) \/ Recover(s, i) \/ Recovered(s, i)
    BY <1>2
  <2>2. HealthBooks
    <3>1. CASE UNCHANGED <<health, failures>>
      BY <3>1, RestBooks
    <3>2. CASE Recover(s, i)
      BY <1>0, <3>2, ResolvedBooks DEF Recover
    <3> QED BY <2>1, <3>1, <3>2 DEF StormOver, Recovered
  <2>3. simulation' = simulation
    BY <2>1 DEF StormOver, Recover, Recovered, startVars
  <2> QED BY <1>2, <2>2, <2>3 DEF DrillBooks, HealthBooks, PlayerBooks, replayVars
<1>3. ASSUME UNCHANGED replayVars, NEW i, DelayOver(i) PROVE DrillBooks' /\ PlayerBooks'
  <2>1. HealthBooks
    BY <1>0, <1>3, ResolvedBooks DEF DelayOver, Heal
  <2> QED BY <1>3, <2>1 DEF DelayOver, startVars, DrillBooks, HealthBooks, PlayerBooks, replayVars
<1>4. ASSUME NEW s \in Call, Performed(s) PROVE DrillBooks' /\ PlayerBooks'
  <2>1. HealthBooks
    BY <1>4, PerformBooks DEF Performed, DrillsIInv
  <2>2. simulation' = simulation
    BY <1>4 DEF Performed, Perform, startVars
  <2>3. PlayerBooks'
    BY <1>4, RecordedBooks DEF Performed, DrillsIInv, ReplayPart, ReplayTypes
  <2> QED BY <2>1, <2>2, <2>3 DEF DrillBooks, HealthBooks
<1>5. ASSUME NEW k \in DOMAIN armed, Fire(k) PROVE DrillBooks' /\ PlayerBooks'
  <2>1. CASE player # "replaying" /\ UNCHANGED <<player, tape, drillVars>>
    BY <2>1 DEF DrillBooks, PlayerBooks, drillVars
  <2>2. CASE Executes(armed[k].of[armed[k].at])
    <3> DEFINE e == armed[k].of[armed[k].at]
    <3>1. armed[k] \in Timer
      BY DEF DrillsIInv, ReplayPart, ReplayTypes
    <3>2. e \in Taped /\ Playable(e)
      BY <3>1 DEF Timer, Tapes
    <3>3. HealthBooks /\ UNCHANGED <<simulation, tape>>
      BY <2>2, <3>2, ExecutesBooks DEF DrillsIInv
    <3>4. player' = player \/ player' = "completed"
      BY <1>5 DEF Fire
    <3> QED BY <3>3, <3>4 DEF DrillBooks, HealthBooks, PlayerBooks
  <2> QED BY <1>5, <2>1, <2>2 DEF Fire
<1> QED BY <1>1, <1>2, <1>3, <1>4, <1>5 DEF Runs

\* ClusterSimulator, FailureInjector, ChaosEngine and ReplayEngine: states, hosts,
\* failures, timers and recordings have their types and keep to their limits.
THEOREM DrillsTypes == DrillsSpec => []DrillsTypeOK
<1> DEFINE Books == DrillBooks /\ PlayerBooks
<1>1. DrillsInit => Books
  BY DrillAssumption, ReplayAssumption
     DEF DrillsInit, DrillInit, ReplayInit, AllHealthy, DrillBooks, PlayerBooks
<1>2. Books /\ DrillsIInv /\ [DrillsNext]_drillsVars => Books'
  <2> SUFFICES ASSUME DrillBooks, PlayerBooks, DrillsIInv, [DrillsNext]_drillsVars
               PROVE  DrillBooks' /\ PlayerBooks'
    OBVIOUS
  <2>1. CASE \E h \in Host : ImportTrace(h)
    BY <2>1 DEF ImportTrace, DrillBooks, PlayerBooks, drillVars
  <2>2. CASE UNCHANGED drillsVars
    BY <2>2 DEF drillsVars, drillVars, replayVars, DrillBooks, PlayerBooks
  <2> QED BY <2>1, <2>2, AsksBooks, RunsBooks DEF DrillsNext
<1>3. Books /\ DrillsIInv => DrillsTypeOK
  <2> SUFFICES ASSUME DrillBooks, PlayerBooks, DrillsIInv PROVE DrillsTypeOK
    OBVIOUS
  <2>1. /\ begun \in 0..MaxStarts /\ spawning \subseteq 1..begun /\ ticking \subseteq 1..begun
        /\ failures \in Seq(Failure) /\ index \in Nat
    BY DEF DrillsIInv, DrillPart, DrillTypes, ReplayPart, ReplayTypes
  <2>2. engine \in 0..begun
    BY <2>1, DrillAssumption DEF DrillsIInv, DrillPart, DrillTypes, EngineFresh
  <2>3. DOMAIN failures = 1..Len(failures) /\ delays \subseteq Nat
    BY <2>1 DEF DrillsIInv, DrillPart, TimersMatch
  <2> QED BY <2>1, <2>2, <2>3 DEF DrillBooks, PlayerBooks, DrillsTypeOK
<1> QED BY <1>1, <1>2, <1>3, DrillsInitially, DrillsStay, PTL DEF DrillsSpec

---------------------------------------------------------------------------
(* MCCluster *)

\* The components together, as they are run: a behaviour of one of them leaves the
\* others alone, so that each keeps its own specification.
LEMMA EachKeepsItsOwn ==
  Spec => MembershipSpec /\ ForwardSpec /\ ClockSpec /\ DrillsSpec
<1>1. Init => MembershipInit /\ ForwardInit /\ ClockInit /\ DrillsInit
  BY DEF Init
<1>2. [Next]_<<scene, membershipVars, forwardVars, clockVars, drillsVars>>
        => /\ [MembershipNext]_membershipVars /\ [ForwardNext]_forwardVars
           /\ [ClockNext]_clockVars /\ [DrillsNext]_drillsVars
  BY DEF Next
<1> QED BY <1>1, <1>2, PTL DEF Spec, MembershipSpec, ForwardSpec, ClockSpec, DrillsSpec

\* The types of the four components together.
THEOREM ClusterTypesHold == Spec => []TypeOK
<1>1. MembershipSpec /\ ForwardSpec /\ ClockSpec /\ DrillsSpec => []TypeOK
  BY MembershipTypes, ForwardTypes, ClockTypes, DrillsTypes, PTL DEF TypeOK
<1> QED BY <1>1, EachKeepsItsOwn

\* The refinement of RemoteWrite, as the run checks it: forwarding goes on as if it
\* were alone.
THEOREM ForwardsInTheCluster == Spec => ForwardsRemotely
<1>1. ForwardSpec => Remote!Init /\ [][Remote!Next]_(Remote!vars)
  BY ForwardingIsRemote DEF ImplementsRemoteWrite, Remote!Spec
<1>2. [Remote!Next]_(Remote!vars)
        => [scene = "forward" => Remote!Next \/ UNCHANGED Remote!vars]_forwardVars
  BY DEF Remote!vars
<1>3. Remote!Init /\ [][Remote!Next]_(Remote!vars) => ForwardsRemotely
  BY <1>2, PTL DEF ForwardsRemotely
<1> QED BY <1>1, <1>3, EachKeepsItsOwn
=============================================================================
