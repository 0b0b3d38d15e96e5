---------------------------- MODULE NodesProofs ----------------------------
(***************************************************************************)
(* Theorems about what several nodes share: the creation lock of a room,   *)
(* the readers of a mirror, and documents that are reconciled.  They hold  *)
(* for any number of nodes and readers.                                    *)
(***************************************************************************)
EXTENDS RoomCreation, EdgeMirrors, Reconciliation, FiniteSetTheorems, TLAPS

---------------------------------------------------------------------------
(* RoomCreation *)

Holding == {"loading", "releasing", "failing"}

\* A node that is past SET NX has the lock, unless it expired under it.
HolderHasLock ==
  \A n \in Server : creating[n] \in Holding /\ n \notin overrun => lock = n

CreationIInv == CreationTypeOK /\ HolderHasLock

LEMMA CreationStarts == CreationInit => CreationIInv
BY NobodyAssumption
   DEF CreationInit, CreationIInv, CreationTypeOK, HolderHasLock, Holding

LEMMA CreationStays ==
  ASSUME CreationIInv, [CreationNext]_creationVars
  PROVE  CreationIInv'
<1> USE NobodyAssumption
    DEF CreationIInv, CreationTypeOK, HolderHasLock, Holding, Advances, CreationTrouble
<1>1. CASE UNCHANGED creationVars
  BY <1>1 DEF creationVars
<1>2. ASSUME NEW n \in Server, NEW client \in BOOLEAN, GetOrCreate(n, client)
      PROVE  CreationIInv'
  BY <1>2 DEF GetOrCreate
<1>3. ASSUME NEW n \in Server, Acquire(n) \/ AcquireUnheard(n)
      PROVE  CreationIInv'
  BY <1>3 DEF Acquire, AcquireUnheard
<1>4. ASSUME NEW n \in Server, GiveUp(n) \/ RoomLoaded(n) \/ LoadFails(n)
      PROVE  CreationIInv'
  BY <1>4 DEF GiveUp, RoomLoaded, LoadFails
<1>5. ASSUME NEW n \in Server, Release(n)
      PROVE  CreationIInv'
  BY <1>5 DEF Release, DeleteOwnLock
<1>6. ASSUME NEW n \in Server, DeleteRoom(n) \/ Invalidate(n) \/ Dies(n)
      PROVE  CreationIInv'
  BY <1>6 DEF DeleteRoom, Invalidate, Dies
<1>7. CASE LockExpires
  BY <1>7 DEF LockExpires
<1> QED BY <1>1, <1>2, <1>3, <1>4, <1>5, <1>6, <1>7 DEF CreationNext

\* The variables keep their types, and only a node with a room has users in it.
THEOREM CreationTypes == CreationSpec => []CreationTypeOK
<1>1. CreationIInv => CreationTypeOK
  BY DEF CreationIInv
<1> QED BY <1>1, CreationStarts, CreationStays, PTL DEF CreationSpec

\* acquireLock() and _releaseLock() of every node: while a node runs the factory
\* of a room no other one does, except after its lock expired under it.
THEOREM OneLoader == CreationSpec => []LoadsExclusive
<1>1. CreationIInv => LoadsExclusive
  BY DEF CreationIInv, HolderHasLock, Holding, LoadsExclusive
<1> QED BY <1>1, CreationStarts, CreationStays, PTL DEF CreationSpec

---------------------------------------------------------------------------
(* EdgeMirrors.  The argument counts: the readers that are in the mirror   *)
(* and have not left are at most readerCount, so a mirror is evicted only  *)
(* when nobody is in it.                                                   *)

Inside == {r \in Reader : step[r] \in {"registering", "in"} /\ r \notin departed}

\* Without a race one reader builds at a time, and only when there is no mirror.
OneBuilder ==
  /\ \A r, s \in Building : r = s
  /\ Building # {} => mirror = NoMirror

InTheMirror ==
  \A r \in Inside : /\ mirror # NoMirror /\ joined[r] = mirror
                    /\ step[r] = "in" => r \in conns[mirror]

Counted ==
  /\ IsFiniteSet(Inside)
  /\ mirror # NoMirror => Cardinality(Inside) <= readerCount

Calm == OneBuilder /\ InTheMirror /\ Counted

\* The room that the map names is not destroyed, and idle only when it is empty.
MirrorKept ==
  mirror # NoMirror =>
    /\ mirrorState[mirror] \in {"active", "idle"}
    /\ mirrorState[mirror] = "idle" => conns[mirror] = {}

MirrorPolled == mirror # NoMirror => polled

MirrorPlaces ==
  /\ step \in [Reader -> {"away", "building", "registering", "in", "refused"}]
  /\ departed \subseteq Reader /\ joined \in [Reader -> Reader \cup {NoMirror}]
  /\ mirror \in Reader \cup {NoMirror} /\ readerCount \in Nat
  /\ mirrorState \in [Reader -> {"unborn", "active", "idle", "destroying"}]
  /\ conns \in [Reader -> SUBSET Reader]

MirrorIInv ==
  /\ MirrorPlaces /\ polled \in BOOLEAN /\ raced \in BOOLEAN
  /\ MirrorPolled /\ MirrorKept
  /\ ~raced => Calm

LEMMA MirrorStarts == MirrorInit => MirrorIInv
<1> SUFFICES ASSUME MirrorInit PROVE MirrorIInv
  OBVIOUS
<1>1. MirrorPlaces /\ MirrorPolled /\ MirrorKept
  BY DEF MirrorInit, MirrorPlaces, MirrorPolled, MirrorKept
<1>2. polled \in BOOLEAN /\ raced \in BOOLEAN
  BY DEF MirrorInit
<1>3. Building = {} /\ Inside = {} /\ mirror = NoMirror
  BY DEF MirrorInit, Building, Inside
<1>4. Calm
  BY <1>3, FS_EmptySet DEF Calm, OneBuilder, InTheMirror, Counted
<1> QED BY <1>1, <1>2, <1>4 DEF MirrorIInv

LEMMA MirrorPlacesStay ==
  ASSUME MirrorPlaces, MirrorNext
  PROVE  MirrorPlaces'
<1> USE DEF MirrorPlaces, Enter
<1>1. ASSUME NEW r \in Reader, FindMirror(r)
      PROVE  MirrorPlaces'
  BY <1>1 DEF FindMirror
<1>2. ASSUME NEW r \in Reader, BuildMirror(r) \/ BuildFails(r)
      PROVE  MirrorPlaces'
  BY <1>2 DEF BuildMirror, BuildFails
<1>3. ASSUME NEW r \in Reader, MirrorBuilt(r)
      PROVE  MirrorPlaces'
  BY <1>3 DEF MirrorBuilt
<1>4. ASSUME NEW r \in Reader, AddConnection(r)
      PROVE  MirrorPlaces'
  BY <1>4 DEF AddConnection
<1>5. ASSUME NEW r \in Reader, Leave(r)
      PROVE  MirrorPlaces'
  BY <1>5 DEF Leave, Decremented
<1>6. CASE EvictIdleMirror
  BY <1>6 DEF EvictIdleMirror
<1> QED BY <1>1, <1>2, <1>3, <1>4, <1>5, <1>6 DEF MirrorNext

LEMMA MirrorFlagsStay ==
  ASSUME MirrorNext, polled \in BOOLEAN, raced \in BOOLEAN, MirrorPolled
  PROVE  polled' \in BOOLEAN /\ raced' \in BOOLEAN /\ MirrorPolled'
<1> USE DEF MirrorNext, FindMirror, BuildMirror, MirrorBuilt, BuildFails, AddConnection, Leave,
            EvictIdleMirror, Enter
<1>1. polled' = polled \/ polled' = TRUE \/ polled' = FALSE
  BY Zenon
<1>2. raced' = raced \/ raced' = (raced \/ Building # {})
  BY Zenon
<1>3. raced' \in BOOLEAN
  BY <1>2, Zenon
<1>4. (polled' = polled /\ mirror' = mirror) \/ polled' = TRUE \/ mirror' = NoMirror
  BY Zenon
<1>5. MirrorPolled'
  <2>1. CASE polled' = polled /\ mirror' = mirror
    BY <2>1, Zenon DEF MirrorPolled
  <2>2. CASE polled' = TRUE
    BY <2>2 DEF MirrorPolled
  <2>3. CASE mirror' = NoMirror
    BY <2>3, Zenon DEF MirrorPolled
  <2> QED BY <1>4, <2>1, <2>2, <2>3, Zenon
<1> QED BY <1>1, <1>3, <1>5, Zenon

LEMMA MirrorKeptStays ==
  ASSUME MirrorPlaces, MirrorKept, MirrorNext
  PROVE  MirrorKept'
<1> USE NoMirrorAssumption DEF MirrorPlaces, Enter, MirrorKept
<1>1. ASSUME NEW r \in Reader, FindMirror(r) \/ BuildMirror(r) \/ BuildFails(r)
      PROVE  MirrorKept'
  BY <1>1 DEF FindMirror, BuildMirror, BuildFails
<1>2. ASSUME NEW r \in Reader, MirrorBuilt(r)
      PROVE  MirrorKept'
  BY <1>2 DEF MirrorBuilt
<1>3. ASSUME NEW r \in Reader, AddConnection(r)
      PROVE  MirrorKept'
  BY <1>3 DEF AddConnection
<1>4. ASSUME NEW r \in Reader, Leave(r)
      PROVE  MirrorKept'
  BY <1>4 DEF Leave
<1>5. CASE EvictIdleMirror
  BY <1>5 DEF EvictIdleMirror
<1> QED BY <1>1, <1>2, <1>3, <1>4, <1>5 DEF MirrorNext

LEMMA CalmStays ==
  ASSUME MirrorPlaces, Calm, MirrorNext, ~raced'
  PROVE  Calm'
<1> USE NoMirrorAssumption DEF MirrorPlaces, Calm
<1>1. ASSUME NEW r \in Reader, FindMirror(r)
      PROVE  Calm'
  <2>1. Building' = Building /\ r \notin Inside /\ Inside' = Inside \cup {r}
    BY <1>1 DEF FindMirror, Enter, Building, Inside
  <2>2. OneBuilder'
    BY <1>1, <2>1 DEF FindMirror, Enter, OneBuilder
  <2>3. InTheMirror'
    BY <1>1, <2>1 DEF FindMirror, Enter, InTheMirror, Inside
  <2>4. Cardinality(Inside') = Cardinality(Inside) + 1 /\ IsFiniteSet(Inside')
    BY <2>1, FS_AddElement DEF Counted
  <2>5. Counted'
    BY <1>1, <2>4, FS_CardinalityType DEF FindMirror, Enter, Counted
  <2> QED BY <2>2, <2>3, <2>5
<1>2. ASSUME NEW r \in Reader, BuildMirror(r)
      PROVE  Calm'
  <2>1. Building = {}
    BY <1>2 DEF BuildMirror
  <2>2. Building' = {r} /\ Inside' = Inside
    BY <1>2, <2>1 DEF BuildMirror, Building, Inside
  <2> QED BY <1>2, <2>2 DEF BuildMirror, OneBuilder, InTheMirror, Inside, Counted
<1>3. ASSUME NEW r \in Reader, MirrorBuilt(r)
      PROVE  Calm'
  <2>1. Building = {r} /\ mirror = NoMirror
    BY <1>3 DEF MirrorBuilt, Building, OneBuilder
  <2>2. Inside = {}
    BY <2>1 DEF InTheMirror
  <2>3. Building' = {} /\ Inside' \in {{}, {r}}
    BY <1>3, <2>1, <2>2 DEF MirrorBuilt, Enter, Building, Inside
  <2>4. OneBuilder' /\ InTheMirror'
    BY <1>3, <2>3 DEF MirrorBuilt, Enter, OneBuilder, InTheMirror
  <2>5. IsFiniteSet(Inside') /\ Cardinality(Inside') <= 1
    <3>1. CASE Inside' = {}
      <4>1. IsFiniteSet({}) /\ Cardinality({}) = 0
        BY FS_EmptySet, Zenon
      <4> QED BY <3>1, <4>1
    <3>2. CASE Inside' = {r}
      <4>1. IsFiniteSet({r}) /\ Cardinality({r}) = 1
        BY FS_Singleton, Zenon
      <4> QED BY <3>2, <4>1
    <3> QED BY <2>3, <3>1, <3>2
  <2>6. readerCount' = 1
    BY <1>3 DEF MirrorBuilt, Enter
  <2> QED BY <2>4, <2>5, <2>6 DEF Counted
<1>4. ASSUME NEW r \in Reader, BuildFails(r)
      PROVE  Calm'
  <2>1. Building' \subseteq Building /\ Inside' = Inside
    BY <1>4 DEF BuildFails, Building, Inside
  <2>2. OneBuilder' /\ InTheMirror'
    BY <1>4, <2>1 DEF BuildFails, OneBuilder, InTheMirror, Inside
  <2> QED BY <1>4, <2>1, <2>2 DEF BuildFails, Counted
<1>5. ASSUME NEW r \in Reader, AddConnection(r)
      PROVE  Calm'
  <2>1. Building' = Building /\ Inside' = Inside
    BY <1>5 DEF AddConnection, Building, Inside
  <2>2. OneBuilder'
    BY <1>5, <2>1 DEF AddConnection, OneBuilder
  <2>3. InTheMirror'
    <3> SUFFICES ASSUME NEW q \in Inside
                 PROVE  /\ mirror # NoMirror /\ joined[q] = mirror
                        /\ step'[q] = "in" => q \in conns'[mirror]
      BY <1>5, <2>1 DEF AddConnection, InTheMirror
    <3>1. mirror \in Reader /\ joined[q] = mirror /\ q \in Reader
      BY DEF InTheMirror, Inside
    <3>2. CASE q = r
      BY <1>5, <3>1, <3>2 DEF AddConnection
    <3>3. CASE q # r
      BY <1>5, <3>1, <3>3 DEF AddConnection, InTheMirror
    <3> QED BY <3>1, <3>2, <3>3
  <2> QED BY <1>5, <2>1, <2>2, <2>3 DEF AddConnection, Counted
<1>6. ASSUME NEW r \in Reader, Leave(r)
      PROVE  Calm'
  <2>1. Building' = Building /\ Inside' = Inside \ {r}
    BY <1>6 DEF Leave, Building, Inside
  <2>2. OneBuilder'
    BY <1>6, <2>1 DEF Leave, OneBuilder
  <2>3. InTheMirror'
    BY <1>6, <2>1 DEF Leave, InTheMirror, Inside
  <2>4. CASE r \in Inside
    <3>1. mirror # NoMirror /\ readerCount' = Decremented
      BY <1>6, <2>4 DEF Leave, InTheMirror, Inside
    <3>2. IsFiniteSet(Inside') /\ Cardinality(Inside') = Cardinality(Inside) - 1
      BY <2>1, <2>4, FS_RemoveElement DEF Counted
    <3>3. Cardinality(Inside) \in Nat /\ Cardinality(Inside) <= readerCount
      BY <3>1, FS_CardinalityType DEF Counted
    <3>4. Cardinality(Inside') \in Nat
      BY <3>2, FS_CardinalityType
    <3>5. Cardinality(Inside') <= readerCount'
      BY <3>1, <3>2, <3>3, <3>4 DEF Decremented
    <3> QED BY <2>2, <2>3, <3>2, <3>5 DEF Counted
  <2>5. CASE r \notin Inside
    <3>1. Inside' = Inside /\ readerCount' = readerCount /\ mirror' = mirror
      BY <1>6, <2>1, <2>5 DEF Leave, Inside
    <3> QED BY <2>2, <2>3, <3>1 DEF Counted
  <2> QED BY <2>4, <2>5
<1>7. CASE EvictIdleMirror
  <2>1. IsFiniteSet(Inside) /\ Cardinality(Inside) = 0
    BY <1>7, FS_CardinalityType DEF EvictIdleMirror, NoReaderCounted, Counted
  <2>2. Inside = {}
    BY <2>1, FS_EmptySet
  <2>3. Building' = Building /\ Inside' = Inside
    BY <1>7 DEF EvictIdleMirror, Building, Inside
  <2> QED BY <1>7, <2>2, <2>3 DEF EvictIdleMirror, OneBuilder, InTheMirror, Counted
<1> QED BY <1>1, <1>2, <1>3, <1>4, <1>5, <1>6, <1>7 DEF MirrorNext

LEMMA MirrorStays ==
  ASSUME MirrorIInv, [MirrorNext]_mirrorVars
  PROVE  MirrorIInv'
<1>1. CASE UNCHANGED mirrorVars
  <2>1. UNCHANGED <<polled, raced>> /\ UNCHANGED <<step, departed, joined, mirror, readerCount,
                                                  mirrorState, conns>>
    BY <1>1, Zenon DEF mirrorVars
  <2>2. MirrorPlaces' = MirrorPlaces /\ MirrorKept' = MirrorKept /\ Inside' = Inside
        /\ Building' = Building
    BY <2>1 DEF MirrorPlaces, MirrorKept, Inside, Building
  <2>3. (~raced' => Calm') /\ MirrorPolled'
    BY <2>1, <2>2, Zenon DEF MirrorIInv, Calm, OneBuilder, InTheMirror, Counted, MirrorPolled
  <2> QED BY <2>1, <2>2, <2>3, Zenon DEF MirrorIInv
<1>2. CASE MirrorNext
  <2>1. MirrorPlaces' /\ MirrorKept'
    BY <1>2, MirrorPlacesStay, MirrorKeptStays DEF MirrorIInv
  <2>2. polled' \in BOOLEAN /\ raced' \in BOOLEAN /\ MirrorPolled'
    BY <1>2, MirrorFlagsStay DEF MirrorIInv
  <2>3. ~raced' => ~raced
    BY <1>2, Zenon DEF MirrorNext, FindMirror, BuildMirror, MirrorBuilt, BuildFails,
       AddConnection, Leave, EvictIdleMirror
  <2>4. ~raced' => Calm'
    BY <1>2, <2>3, CalmStays DEF MirrorIInv
  <2> QED BY <2>1, <2>2, <2>4 DEF MirrorIInv
<1> QED BY <1>1, <1>2

\* The variables keep their types.
THEOREM MirrorTypes == MirrorSpec => []MirrorTypeOK
<1>1. MirrorIInv => MirrorTypeOK
  BY Zenon DEF MirrorIInv, MirrorPlaces, MirrorTypeOK
<1> QED BY <1>1, MirrorStarts, MirrorStays, PTL DEF MirrorSpec

\* EdgeMirrorManager: without two builders at once, every reader with an open
\* socket is in the mirror that stream updates reach, however many readers come,
\* go and close while the mirror is built or evicted.
THEOREM ReadersServed == MirrorSpec => []MirrorServesReaders
<1>1. MirrorIInv => MirrorServesReaders
  <2> SUFFICES ASSUME MirrorIInv, ~raced, NEW r \in Reader, step[r] = "in", r \notin departed
               PROVE  Served(r)
    BY DEF MirrorServesReaders
  <2>1. r \in Inside /\ InTheMirror
    BY DEF Inside, MirrorIInv, Calm
  <2>2. mirror # NoMirror /\ joined[r] = mirror /\ r \in conns[mirror]
    BY <2>1 DEF InTheMirror
  <2>3. mirrorState[mirror] = "active"
    BY <2>2 DEF MirrorIInv, MirrorKept
  <2>4. polled
    BY <2>2 DEF MirrorIInv, MirrorPolled
  <2> QED BY <2>2, <2>3, <2>4 DEF Served
<1> QED BY <1>1, MirrorStarts, MirrorStays, PTL DEF MirrorSpec

---------------------------------------------------------------------------
(* Reconciliation *)

\* A state vector covers only what the document has.
LEMMA VectorCovered ==
  ASSUME NEW have \in SUBSET Item
  PROVE  /\ StateVector(have) \in Vector
         /\ \A i \in Item : i[2] <= StateVector(have)[i[1]] => i \in have
<1> USE ReconcileAssumption
<1> DEFINE P(a) == {k \in 1..MaxClock : \A j \in 1..k : <<a, j>> \in have}
<1>1. ASSUME NEW a \in Author
      PROVE  /\ IsFiniteSet(P(a)) /\ Cardinality(P(a)) \in 0..MaxClock
             /\ \A k \in 1..MaxClock : k <= Cardinality(P(a)) => k \in P(a)
  <2>1. IsFiniteSet(1..MaxClock) /\ Cardinality(1..MaxClock) = MaxClock
    BY FS_Interval
  <2>2. IsFiniteSet(P(a)) /\ Cardinality(P(a)) <= MaxClock
    BY <2>1, FS_Subset
  <2>3. Cardinality(P(a)) \in Nat
    BY <2>2, FS_CardinalityType
  <2>4. ASSUME NEW k \in 1..MaxClock, k \notin P(a)
        PROVE  Cardinality(P(a)) < k
    <3>1. PICK j \in 1..k : <<a, j>> \notin have
      BY <2>4
    <3>2. P(a) \subseteq 1..(k - 1)
      BY <3>1
    <3>3. IsFiniteSet(1..(k - 1)) /\ Cardinality(1..(k - 1)) = k - 1
      BY FS_Interval
    <3>4. Cardinality(P(a)) <= k - 1
      BY <3>2, <3>3, FS_Subset
    <3> HIDE DEF P
    <3> QED BY <3>4, <2>3
  <2> HIDE DEF P
  <2> QED BY <2>2, <2>3, <2>4
<1>2. StateVector(have) = [a \in Author |-> Cardinality(P(a))]
  BY DEF StateVector
<1>3. ASSUME NEW i \in Item, i[2] <= StateVector(have)[i[1]]
      PROVE  i \in have
  <2>1. i[1] \in Author /\ i[2] \in 1..MaxClock /\ i = <<i[1], i[2]>>
    BY DEF Item
  <2>2. i[2] \in P(i[1])
    BY <1>1, <1>2, <1>3, <2>1
  <2> QED BY <2>1, <2>2
<1> QED BY <1>1, <1>2, <1>3 DEF Vector

ReconcilePlaces ==
  /\ items \in [Peer -> SUBSET Item] /\ deleted \in [Peer -> SUBSET Item]
  /\ holds \subseteq Peer /\ life \in [Peer -> Nat]
  /\ written \in [Author -> 0..MaxClock] /\ losses \in Nat
  /\ stored \in [items : SUBSET Item, deleted : SUBSET Item]
  /\ asked \subseteq [to : Peer, from : Peer, life : Nat, vector : Vector]
  /\ answers \subseteq [to : Peer, from : Peer, life : Nat, diff : SUBSET Item,
                        whole : SUBSET Item, erased : SUBSET Item]

\* As long as the room that asked is there, it has what its vector covers ...
AskerHas(q) ==
  /\ q.life <= life[q.from]
  /\ q.life = life[q.from] =>
       q.from \in holds /\ \A i \in Item : i[2] <= q.vector[i[1]] => i \in items[q.from]

\* ... so the diff completes what the answering node had.
DiffCompletes(p) ==
  /\ p.diff \subseteq p.whole /\ p.life <= life[p.to]
  /\ p.life = life[p.to] => p.to \in holds /\ p.whole \subseteq items[p.to] \cup p.diff

ReconcileIInv ==
  /\ ReconcilePlaces
  /\ \A q \in asked : AskerHas(q)
  /\ \A p \in answers : DiffCompletes(p)

LEMMA ReconcileStarts == ReconcileInit => ReconcileIInv
BY ReconcileAssumption DEF ReconcileInit, ReconcileIInv, ReconcilePlaces

\* The room keeps its items and its life, or has gone and has a later one.
LEMMA RoomsOnlyGrow ==
  ASSUME ReconcileIInv, ReconcilePlaces', UNCHANGED <<asked, answers>>,
         \A n \in Peer : \/ life'[n] = life[n] /\ items[n] \subseteq items'[n]
                            /\ (n \in holds => n \in holds')
                         \/ life'[n] = life[n] /\ n \notin holds
                         \/ life'[n] > life[n]
  PROVE  ReconcileIInv'
<1>1. ASSUME NEW q \in asked PROVE AskerHas(q)'
  <2>1. q.from \in Peer /\ q.life \in Nat
    BY DEF ReconcileIInv, ReconcilePlaces
  <2>2. AskerHas(q) /\ life[q.from] \in Nat /\ life'[q.from] \in Nat
    BY <2>1 DEF ReconcileIInv, ReconcilePlaces
  <2> QED BY <2>1, <2>2 DEF AskerHas
<1>2. ASSUME NEW p \in answers PROVE DiffCompletes(p)'
  <2>1. p.to \in Peer /\ p.life \in Nat
    BY DEF ReconcileIInv, ReconcilePlaces
  <2>2. DiffCompletes(p) /\ life[p.to] \in Nat /\ life'[p.to] \in Nat
    BY <2>1 DEF ReconcileIInv, ReconcilePlaces
  <2> QED BY <2>1, <2>2 DEF DiffCompletes
<1> QED BY <1>1, <1>2 DEF ReconcileIInv

LEMMA ReconcileStays ==
  ASSUME ReconcileIInv, [ReconcileNext]_reconcileVars
  PROVE  ReconcileIInv'
<1> USE ReconcileAssumption DEF ReconcilePlaces
<1>0. ReconcilePlaces
  BY DEF ReconcileIInv
<1>1. CASE UNCHANGED reconcileVars
  BY <1>1, <1>0, RoomsOnlyGrow DEF reconcileVars
<1>2. ASSUME NEW n \in Peer, OpenRoom(n)
      PROVE  ReconcileIInv'
  BY <1>2, <1>0, RoomsOnlyGrow DEF OpenRoom
<1>3. ASSUME NEW n \in Peer, CloseRoom(n)
      PROVE  ReconcileIInv'
  <2>1. ReconcilePlaces'
    BY <1>3, <1>0 DEF CloseRoom
  <2>2. \A m \in Peer : \/ life'[m] = life[m] /\ items[m] \subseteq items'[m]
                           /\ (m \in holds => m \in holds')
                        \/ life'[m] > life[m]
    BY <1>3, <1>0 DEF CloseRoom
  <2> QED BY <1>3, <2>1, <2>2, RoomsOnlyGrow DEF CloseRoom
<1>4. ASSUME NEW n \in Peer, NEW a \in Author, Edit(n, a)
      PROVE  ReconcileIInv'
  <2>1. <<a, written[a] + 1>> \in Item /\ written[a] + 1 \in 0..MaxClock
    BY <1>4, <1>0 DEF Edit, Item
  <2>2. ReconcilePlaces'
    BY <1>4, <1>0, <2>1 DEF Edit, Loss
  <2>3. \A m \in Peer : items[m] \subseteq items'[m]
    BY <1>4, <1>0 DEF Edit
  <2> QED BY <1>4, <2>2, <2>3, RoomsOnlyGrow DEF Edit
<1>5. ASSUME NEW n \in Peer, NEW i \in Item, Erase(n, i)
      PROVE  ReconcileIInv'
  BY <1>5, <1>0, RoomsOnlyGrow DEF Erase
<1>6. ASSUME NEW m \in Peer, NEW n \in Peer, NEW i \in Item, StreamUpdate(m, n, i)
      PROVE  ReconcileIInv'
  BY <1>6, <1>0, RoomsOnlyGrow DEF StreamUpdate
<1>7. ASSUME NEW n \in Peer, TriggerReconciliation(n)
      PROVE  ReconcileIInv'
  <2> DEFINE new == {[to |-> m, from |-> n, life |-> life[n],
                      vector |-> StateVector(items[n])] : m \in Peer \ {n}}
  <2>1. StateVector(items[n]) \in Vector
        /\ \A i \in Item : i[2] <= StateVector(items[n])[i[1]] => i \in items[n]
    BY <1>0, VectorCovered
  <2>2. n \in holds /\ asked' = asked \cup new
        /\ UNCHANGED <<items, deleted, holds, life, written, stored, answers, losses>>
    BY <1>7 DEF TriggerReconciliation
  <2>3. ReconcilePlaces'
    BY <1>0, <2>1, <2>2
  <2>4. ASSUME NEW q \in asked' PROVE AskerHas(q)'
    <3>1. CASE q \in asked
      BY <2>2, <3>1 DEF ReconcileIInv, AskerHas
    <3>2. CASE q \in new
      <4>1. q.from = n /\ q.life = life[n] /\ q.vector = StateVector(items[n])
        BY <3>2
      <4> QED BY <4>1, <1>0, <2>1, <2>2 DEF AskerHas
    <3> QED BY <2>2, <3>1, <3>2
  <2>5. \A p \in answers' : DiffCompletes(p)'
    BY <2>2 DEF ReconcileIInv, DiffCompletes
  <2> QED BY <2>3, <2>4, <2>5 DEF ReconcileIInv
<1>8. ASSUME NEW q \in asked, HandleReconcileRequest(q)
      PROVE  ReconcileIInv'
  <2> DEFINE diff == DiffItems(items[q.to], q.vector)
             new == [to |-> q.from, from |-> q.to, life |-> q.life, diff |-> diff,
                     whole |-> items[q.to], erased |-> deleted[q.to]]
  <2>1. answers' \subseteq answers \cup {new} /\ asked' \subseteq asked
        /\ UNCHANGED <<items, deleted, holds, life, written, stored, losses>>
    BY <1>8 DEF HandleReconcileRequest
  <2>2. q.to \in Peer /\ q.from \in Peer /\ q.life \in Nat /\ q.vector \in Vector
    BY <1>0
  <2>3. items[q.to] \subseteq Item /\ diff \subseteq items[q.to]
    BY <1>0, <2>2 DEF DiffItems
  <2>4. new \in [to : Peer, from : Peer, life : Nat, diff : SUBSET Item,
                 whole : SUBSET Item, erased : SUBSET Item]
    BY <1>0, <2>2, <2>3
  <2>5. ReconcilePlaces'
    BY <1>0, <2>1, <2>4
  <2>6. AskerHas(q)
    BY DEF ReconcileIInv
  <2>7. ASSUME NEW i \in items[q.to], i \notin diff
        PROVE  i \in Item /\ i[2] <= q.vector[i[1]]
    <3>1. i \in Item /\ i[1] \in Author /\ i[2] \in Nat
      BY <2>3 DEF Item
    <3>2. q.vector[i[1]] \in Nat
      BY <2>2, <3>1 DEF Vector
    <3> QED BY <2>7, <3>1, <3>2 DEF DiffItems
  <2>8. DiffCompletes(new)
    BY <2>3, <2>6, <2>7 DEF DiffCompletes, AskerHas
  <2>9. \A p \in answers' : DiffCompletes(p)'
    BY <2>1, <2>8 DEF ReconcileIInv, DiffCompletes
  <2>10. \A r \in asked' : AskerHas(r)'
    BY <2>1 DEF ReconcileIInv, AskerHas
  <2> QED BY <2>5, <2>9, <2>10 DEF ReconcileIInv
<1>9. ASSUME NEW p \in answers, ApplyReconcileResponse(p)
      PROVE  ReconcileIInv'
  <2>1. p.to \in Peer /\ p.diff \subseteq Item /\ p.erased \subseteq Item
    BY <1>0
  <2>2. ReconcilePlaces' /\ \A n \in Peer : items[n] \subseteq items'[n]
    BY <1>9, <1>0, <2>1 DEF ApplyReconcileResponse
  <2>3. answers' \subseteq answers /\ UNCHANGED <<asked, holds, life>>
    BY <1>9 DEF ApplyReconcileResponse
  <2>4. ASSUME NEW q \in asked' PROVE AskerHas(q)'
    <3>1. AskerHas(q) /\ q.from \in Peer
      BY <1>0, <2>3 DEF ReconcileIInv
    <3> QED BY <3>1, <2>2, <2>3 DEF AskerHas
  <2>5. ASSUME NEW r \in answers' PROVE DiffCompletes(r)'
    <3>1. DiffCompletes(r) /\ r.to \in Peer
      BY <1>0, <2>3 DEF ReconcileIInv
    <3> QED BY <3>1, <2>2, <2>3 DEF DiffCompletes
  <2> QED BY <2>2, <2>4, <2>5 DEF ReconcileIInv
<1>10. CASE LoseReconcileMessage
  <2>1. asked' \subseteq asked /\ answers' \subseteq answers /\ losses' = losses + 1
        /\ UNCHANGED <<items, deleted, holds, life, written, stored>>
    BY <1>10 DEF LoseReconcileMessage, Loss
  <2> QED BY <1>0, <2>1 DEF ReconcileIInv, AskerHas, DiffCompletes
<1> QED
  BY <1>1, <1>2, <1>3, <1>4, <1>5, <1>6, <1>7, <1>8, <1>9, <1>10 DEF ReconcileNext

\* The documents, vectors and messages keep their types.
THEOREM ReconcileTypes == ReconcileSpec => []ReconcileTypeOK
<1>1. ReconcileIInv => ReconcileTypeOK
  BY DEF ReconcileIInv, ReconcilePlaces, DiffCompletes, ReconcileTypeOK
<1> QED BY <1>1, ReconcileStarts, ReconcileStays, PTL DEF ReconcileSpec

\* handleReconcileRequest() and applyReconcileResponse(): an answer that reaches
\* the room that asked completes it, for any number of nodes, edits and rounds.
THEOREM AnswerCompletes == ReconcileSpec => RequesterCatchesUp
<1> DEFINE Complete ==
      \A p \in answers \ answers' :
        losses' = losses /\ p.to \in holds /\ life[p.to] = p.life =>
          p.whole \subseteq items'[p.to] /\ p.erased \subseteq deleted'[p.to]
<1>1. ASSUME ReconcileIInv, [ReconcileNext]_reconcileVars
      PROVE  [Complete]_reconcileVars
  <2>1. SUFFICES ASSUME NEW p \in answers \ answers', losses' = losses, p.to \in holds,
                        life[p.to] = p.life
                 PROVE  p.whole \subseteq items'[p.to] /\ p.erased \subseteq deleted'[p.to]
    OBVIOUS
  <2>2. ApplyReconcileResponse(p)
    <3>1. losses \in Nat
      BY <1>1 DEF ReconcileIInv, ReconcilePlaces
    <3>2. ~LoseReconcileMessage
      BY <2>1, <3>1 DEF LoseReconcileMessage, Loss
    <3> QED BY <1>1, <2>1, <3>2
            DEF ReconcileNext, reconcileVars, OpenRoom, CloseRoom, TriggerReconciliation, Edit,
                Erase, StreamUpdate, HandleReconcileRequest, ApplyReconcileResponse
  <2>3. p.to \in Peer /\ DiffCompletes(p)
    BY <1>1 DEF ReconcileIInv, ReconcilePlaces
  <2> QED BY <1>1, <2>1, <2>2, <2>3
          DEF ReconcileIInv, ReconcilePlaces, ApplyReconcileResponse, DiffCompletes
<1> QED BY <1>1, ReconcileStarts, ReconcileStays, PTL DEF ReconcileSpec, RequesterCatchesUp
=============================================================================
