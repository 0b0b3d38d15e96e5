-------------------------- MODULE Reconciliation --------------------------
(***************************************************************************)
(* redisReconciliation.ts for one file: after a reconnect a node           *)
(* broadcasts the state vector of its document, every node that has the    *)
(* file answers with what the vector lacks, and the answer is merged.      *)
(* A Yjs document is a set of items <<client, clock>> and a delete set;    *)
(* an item beyond a gap is kept as pending: it is not in the state vector, *)
(* but it is in an encoded diff.                                           *)
(***************************************************************************)
EXTENDS Naturals, FiniteSets

CONSTANTS
  Peer,       \* the nodes
  Author,     \* Yjs client ids
  MaxClock,   \* bound on the items of a client
  MaxLosses,  \* bound on lost updates and messages
  MaxRounds   \* bound on the reconciliation rounds, and on closed rooms

ASSUME ReconcileAssumption == MaxClock \in Nat

VARIABLES
  items,      \* rooms.get(fileId) at each node: its items
  deleted,    \* and its delete set
  holds,      \* the nodes that have the room
  life,       \* which room object of a node that is
  written,    \* the items that each client has produced
  stored,     \* ydoc_state
  asked,      \* sv_request messages on their way
  answers,    \* sv_response messages on their way
  losses, rounds

reconcileVars == <<items, deleted, holds, life, written, stored, asked, answers,
                   losses, rounds>>

Item == Author \X (1..MaxClock)
Loss == losses < MaxLosses /\ losses' = losses + 1
Round == rounds < MaxRounds /\ rounds' = rounds + 1

\* Fault: the vector ends at the latest item, whatever is missing before it.
StateVectorAtMax(have) ==
  [a \in Author |-> CHOOSE k \in 0..MaxClock :
     /\ k = 0 \/ <<a, k>> \in have
     /\ \A j \in k + 1 .. MaxClock : <<a, j>> \notin have]

\* Y.encodeStateVector(): per client the end of the gapless prefix.
StateVector(have) ==
  [a \in Author |->
     Cardinality({k \in 1..MaxClock : \A j \in 1..k : <<a, j>> \in have})]

\* Y.encodeStateAsUpdate(doc, vector) carries all of the delete set.
DiffItems(have, vector) == {i \in have : i[2] > vector[i[1]]}

ReconcileInit ==
  /\ items = [n \in Peer |-> {}] /\ deleted = [n \in Peer |-> {}]
  /\ holds = {} /\ life = [n \in Peer |-> 0]
  /\ written = [a \in Author |-> 0]
  /\ stored = [items |-> {}, deleted |-> {}]
  /\ asked = {} /\ answers = {} /\ losses = 0 /\ rounds = 0

---------------------------------------------------------------------------
(* The rooms, as far as reconciliation needs them *)

OpenRoom(n) ==
  /\ n \notin holds /\ holds' = holds \cup {n}
  /\ items' = [items EXCEPT ![n] = stored.items]
  /\ deleted' = [deleted EXCEPT ![n] = stored.deleted]
  /\ UNCHANGED <<life, written, stored, asked, answers, losses, rounds>>

\* The last client leaves: saveYdocState() replaces the column.
CloseRoom(n) ==
  /\ Round /\ n \in holds /\ holds' = holds \ {n}
  /\ stored' = [items |-> items[n], deleted |-> deleted[n]]
  /\ items' = [items EXCEPT ![n] = {}] /\ deleted' = [deleted EXCEPT ![n] = {}]
  /\ life' = [life EXCEPT ![n] = @ + 1]
  /\ UNCHANGED <<written, asked, answers, losses>>

\* An update of a client; one whose log append fails is dropped, and the next
\* one of that client arrives beyond the gap.
Edit(n, a) ==
  /\ n \in holds /\ written[a] < MaxClock
  /\ written' = [written EXCEPT ![a] = @ + 1]
  /\ \/ items' = [items EXCEPT ![n] = @ \cup {<<a, written[a] + 1>>}]
        /\ UNCHANGED losses
     \/ UNCHANGED items /\ Loss
  /\ UNCHANGED <<deleted, holds, life, stored, asked, answers, rounds>>

Erase(n, i) ==
  /\ n \in holds /\ i \in items[n] \ deleted[n] /\ i[2] <= StateVector(items[n])[i[1]]
  /\ deleted' = [deleted EXCEPT ![n] = @ \cup {i}]
  /\ UNCHANGED <<items, holds, life, written, stored, asked, answers, losses, rounds>>

\* An entry of the room's stream arrives, in any order and with any gaps.
StreamUpdate(m, n, i) ==
  /\ {m, n} \subseteq holds
  /\ i \in items[m] \ items[n]
  /\ items' = [items EXCEPT ![n] = @ \cup {i}]
  /\ UNCHANGED <<deleted, holds, life, written, stored, asked, answers, losses, rounds>>

---------------------------------------------------------------------------
(* The round *)

\* _triggerReconciliation(): nothing to ask without a room.
TriggerReconciliation(n) ==
  /\ Round /\ n \in holds
  /\ asked' = asked \cup {[to |-> m, from |-> n, life |-> life[n],
                           vector |-> StateVector(items[n])] : m \in Peer \ {n}}
  /\ UNCHANGED <<items, deleted, holds, life, written, stored, answers, losses>>

\* Only an empty diff is not sent; the delete set is part of it.
WorthSending(n, diff) == diff # {} \/ deleted[n] # {}

\* handleReconcileRequest(): no answer without the room or without a diff.
\* `whole` and `wholeDeleted` are history: what the node had.
HandleReconcileRequest(q) ==
  /\ q \in asked /\ asked' = asked \ {q}
  /\ LET diff == DiffItems(items[q.to], q.vector)
     IN  answers' = IF q.to \in holds /\ WorthSending(q.to, diff)
                    THEN answers \cup {[to |-> q.from, from |-> q.to, life |-> q.life,
                           diff |-> diff, whole |-> items[q.to],
                           erased |-> deleted[q.to]]}
                    ELSE answers
  /\ UNCHANGED <<items, deleted, holds, life, written, stored, losses, rounds>>

\* applyReconcileResponse(): into the room the node has by now.
ApplyReconcileResponse(p) ==
  /\ p \in answers /\ answers' = answers \ {p}
  /\ IF p.to \in holds
     THEN /\ items' = [items EXCEPT ![p.to] = @ \cup p.diff]
          /\ deleted' = [deleted EXCEPT ![p.to] = @ \cup p.erased]
     ELSE UNCHANGED <<items, deleted>>
  /\ UNCHANGED <<holds, life, written, stored, asked, losses, rounds>>

LoseReconcileMessage ==
  /\ Loss
  /\ \/ \E q \in asked : asked' = asked \ {q} /\ UNCHANGED answers
     \/ \E p \in answers : answers' = answers \ {p} /\ UNCHANGED asked
  /\ UNCHANGED <<items, deleted, holds, life, written, stored, rounds>>

ReconcileNext ==
  \/ \E n \in Peer :
       \/ OpenRoom(n) \/ CloseRoom(n) \/ TriggerReconciliation(n)
       \/ \E a \in Author : Edit(n, a)
       \/ \E i \in Item : Erase(n, i)
       \/ \E m \in Peer, i \in Item : StreamUpdate(m, n, i)
  \/ \E q \in asked : HandleReconcileRequest(q)
  \/ \E p \in answers : ApplyReconcileResponse(p)
  \/ LoseReconcileMessage

ReconcileSpec == ReconcileInit /\ [][ReconcileNext]_reconcileVars

---------------------------------------------------------------------------
Vector == [Author -> 0..MaxClock]

ReconcileTypeOK ==
  /\ items \in [Peer -> SUBSET Item] /\ deleted \in [Peer -> SUBSET Item]
  /\ holds \subseteq Peer /\ life \in [Peer -> Nat]
  /\ written \in [Author -> 0..MaxClock]
  /\ \A q \in asked : q.to \in Peer /\ q.from \in Peer /\ q.vector \in Vector
  /\ \A p \in answers : p.diff \subseteq p.whole /\ p.whole \subseteq Item

\* An answer merged into the room that asked brings it everything the answering
\* node had, deletions and items behind a gap included, although it carries only
\* what the state vector lacks and updates went on meanwhile.
RequesterCatchesUp ==
  [][\A p \in answers \ answers' :
       losses' = losses /\ p.to \in holds /\ life[p.to] = p.life =>
         p.whole \subseteq items'[p.to] /\ p.erased \subseteq deleted'[p.to]]_reconcileVars
=============================================================================
