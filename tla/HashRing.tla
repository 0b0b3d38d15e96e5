------------------------------ MODULE HashRing ------------------------------
(***************************************************************************)
(* ConsistentHashRing: which node owns a room.  The CRC32 values are       *)
(* constants; no two virtual nodes are taken to collide.                   *)
(***************************************************************************)
EXTENDS Integers, Sequences, SequencesExt, FiniteSets
CONSTANTS
  Node,     \* randomUUID() of each process
  Room,     \* file ids
  VNodes,   \* crc32(nodeId#i): the positions of a node's virtual nodes
  KeyHash,  \* crc32(roomId)
  NoNode    \* undefined

ASSUME NoNodeAssumption == NoNode \notin Node
ASSUME HashAssumption ==
  /\ IsFiniteSet(Node)
  /\ VNodes \in [Node -> SUBSET Nat] /\ KeyHash \in [Room -> Nat]
  /\ \A n \in Node : VNodes[n] # {} /\ IsFiniteSet(VNodes[n])
  /\ \A m, n \in Node : m # n => VNodes[m] \cap VNodes[n] = {}

ByHash(v, w) == v.hash < w.hash

VNodesOf(n) == {[hash |-> h, node |-> n] : h \in VNodes[n]}

\* The sort: k-th comes the virtual node with k - 1 before it.
Sorted(vnodes) ==
  [k \in 1..Cardinality(vnodes) |->
     CHOOSE v \in vnodes : Cardinality({w \in vnodes : ByHash(w, v)}) = k - 1]

AddNode(ring, n) == Sorted(ToSet(ring) \cup VNodesOf(n))

\* The filter: what is kept, in its order.
RemoveNode(ring, n) ==
  LET kept == {i \in DOMAIN ring : ring[i].node # n}
  IN  [k \in 1..Cardinality(kept) |->
         ring[CHOOSE i \in kept : Cardinality({j \in kept : j < i}) = k - 1]]

Rebuild(nodes) == FoldSet(LAMBDA n, ring : AddNode(ring, n), << >>, nodes)

\* Fault: the search excludes the middle of the interval on both sides.
LowerBoundSkips(ring, key) ==
  LET search[range \in (0..Len(ring)) \X (-1..Len(ring))] ==
        LET lo == range[1]  hi == range[2]  mid == (lo + hi) \div 2
        IN  IF lo >= hi THEN lo
            ELSE IF ring[mid + 1].hash < key THEN search[<<mid + 1, hi>>]
                                             ELSE search[<<lo, mid - 1>>]
  IN  search[<<0, Len(ring)>>]

\* The binary search of getOwner(): the index of the first virtual node at or
\* after the key, counted from 0.
LowerBound(ring, key) ==
  LET search[range \in (0..Len(ring)) \X (0..Len(ring))] ==
        LET lo == range[1]  hi == range[2]  mid == (lo + hi) \div 2
        IN  IF lo >= hi THEN lo
            ELSE IF ring[mid + 1].hash < key THEN search[<<mid + 1, hi>>]
                                             ELSE search[<<lo, mid>>]
  IN  search[<<0, Len(ring)>>]

GetOwner(ring, r) ==
  IF ring = << >> THEN NoNode
  ELSE LET i == LowerBound(ring, KeyHash[r])
       IN  ring[(IF i >= Len(ring) THEN 0 ELSE i) + 1].node

ComputeOwnership(ring) ==
  [r \in {r \in Room : GetOwner(ring, r) # NoNode} |-> GetOwner(ring, r)]

\* The transfers of computeRebalance().
Transfers(ring, ownership) ==
  {[room |-> r, from |-> ownership[r], to |-> GetOwner(ring, r)] :
     r \in {r \in DOMAIN ownership : GetOwner(ring, r) \notin {NoNode, ownership[r]}}}

---------------------------------------------------------------------------
\* The owner by definition: the node of the nearest virtual node clockwise.
Clockwise(nodes, r) ==
  LET all == UNION {VNodes[n] : n \in nodes}
      after == {h \in all : h >= KeyHash[r]}
      next == IF after = {} THEN all ELSE after
      first == CHOOSE h \in next : \A g \in next : h <= g
  IN  CHOOSE n \in nodes : first \in VNodes[n]

\* The binary search finds the nearest virtual node clockwise, a ring that grew
\* and shrunk by a node is the rebuilt one, and a node that joins or leaves moves
\* no room between two others.
IsConsistent(nodes) ==
  LET ring == Rebuild(nodes)
  IN  /\ \A r \in Room : GetOwner(ring, r) = Clockwise(nodes, r)
      /\ \A n \in Node \ nodes :
           /\ RemoveNode(AddNode(ring, n), n) = ring
           /\ \A t \in Transfers(AddNode(ring, n), ComputeOwnership(ring)) :
                t.to = n
           /\ \A t \in Transfers(ring, ComputeOwnership(AddNode(ring, n))) :
                t.from = n

\* The sets of nodes whose ring is consistent; as a union TLC computes it once.
ConsistentSets ==
  UNION {IF nodes = {} \/ IsConsistent(nodes) THEN {nodes} ELSE {} : nodes \in SUBSET Node}
=============================================================================
