------------------------ MODULE StreamReplicationProofs ------------------------
(***************************************************************************)
(* What StreamReplication guarantees of every mirror, for any number of      *)
(* mirrors, any batch size and any length of the stream.                     *)
(***************************************************************************)
EXTENDS StreamReplication, WellFoundedInduction, SequenceTheorems, TLAPS

-----------------------------------------------------------------------------
(* The entries in a sequence of sets *)

\* Entries added at the end.
LEMMA AllAppend ==
  ASSUME NEW X, NEW s \in Seq(SUBSET X), NEW e \in SUBSET X
  PROVE  All(Append(s, e)) = All(s) \cup e
<1> DEFINE a == Append(s, e)
<1>1. /\ DOMAIN a = 1..Len(s) + 1 /\ DOMAIN s = 1..Len(s) /\ Len(s) \in Nat
      /\ \A i \in 1..Len(s) : a[i] = s[i]
      /\ a[Len(s) + 1] = e
  OBVIOUS
<1> HIDE DEF a
<1>2. \A i \in DOMAIN a : i \in DOMAIN s \/ i = Len(s) + 1
  BY <1>1
<1> QED BY <1>1, <1>2 DEF All, a

\* The first set taken off.
LEMMA AllTail ==
  ASSUME NEW X, NEW s \in Seq(SUBSET X), s # <<>>
  PROVE  All(s) = Head(s) \cup All(Tail(s))
<1> DEFINE t == Tail(s)
<1>1. /\ DOMAIN s = 1..Len(s) /\ DOMAIN t = 1..Len(s) - 1 /\ Len(s) \in Nat \ {0}
      /\ \A i \in 1..Len(s) - 1 : t[i] = s[i + 1]
      /\ Head(s) = s[1]
  OBVIOUS
<1> HIDE DEF t
<1>2. All(t) \subseteq All(s)
  <2> SUFFICES ASSUME NEW i \in DOMAIN t PROVE t[i] \subseteq All(s)
    BY DEF All
  <2>1. i + 1 \in DOMAIN s /\ s[i + 1] = t[i]
    BY <1>1
  <2> QED BY <2>1 DEF All
<1>3. All(s) \subseteq Head(s) \cup All(t)
  <2> SUFFICES ASSUME NEW i \in DOMAIN s, i # 1 PROVE s[i] \subseteq All(t)
    BY <1>1 DEF All
  <2>1. i - 1 \in DOMAIN t /\ t[i - 1] = s[i]
    BY <1>1
  <2> QED BY <2>1 DEF All
<1>4. Head(s) \subseteq All(s)
  BY <1>1 DEF All
<1> QED BY <1>2, <1>3, <1>4 DEF t

\* One sequence after another.
LEMMA AllConcat ==
  ASSUME NEW X, NEW s \in Seq(SUBSET X), NEW t \in Seq(SUBSET X)
  PROVE  All(s \o t) = All(s) \cup All(t)
<1> DEFINE a == s \o t
<1>1. /\ DOMAIN s = 1..Len(s) /\ DOMAIN t = 1..Len(t) /\ Len(s) \in Nat /\ Len(t) \in Nat
      /\ DOMAIN a = 1..Len(s) + Len(t)
      /\ \A i \in 1..Len(s) : a[i] = s[i]
      /\ \A i \in 1..Len(t) : a[Len(s) + i] = t[i]
  OBVIOUS
<1> HIDE DEF a
<1>2. All(a) \subseteq All(s) \cup All(t)
  <2> SUFFICES ASSUME NEW i \in DOMAIN a PROVE a[i] \subseteq All(s) \cup All(t)
    BY DEF All
  <2>1. CASE i <= Len(s)
    <3>1. i \in DOMAIN s /\ a[i] = s[i]
      BY <1>1, <2>1
    <3> QED BY <3>1 DEF All
  <2>2. CASE ~(i <= Len(s))
    <3>1. i - Len(s) \in DOMAIN t /\ a[i] = t[i - Len(s)]
      <4>1. i - Len(s) \in 1..Len(t) /\ Len(s) + (i - Len(s)) = i
        BY <1>1, <2>2
      <4> QED BY <4>1, <1>1
    <3> QED BY <3>1 DEF All
  <2> QED BY <2>1, <2>2
<1>3. All(s) \subseteq All(a)
  <2> SUFFICES ASSUME NEW i \in DOMAIN s PROVE s[i] \subseteq All(a)
    BY DEF All
  <2>1. i \in DOMAIN a /\ a[i] = s[i]
    BY <1>1
  <2> QED BY <2>1 DEF All
<1>4. All(t) \subseteq All(a)
  <2> SUFFICES ASSUME NEW i \in DOMAIN t PROVE t[i] \subseteq All(a)
    BY DEF All
  <2>1. Len(s) + i \in DOMAIN a /\ a[Len(s) + i] = t[i]
    BY <1>1
  <2> QED BY <2>1 DEF All
<1> QED BY <1>2, <1>3, <1>4 DEF a

\* No set, and one set.
LEMMA AllOne ==
  ASSUME NEW X, NEW e \in SUBSET X
  PROVE  /\ <<>> \in Seq(SUBSET X) /\ All(<<>>) = {}
         /\ <<e>> \in Seq(SUBSET X) /\ All(<<e>>) = e
<1>1. <<>> \in Seq(SUBSET X) /\ All(<<>>) = {}
  BY DEF All
<1>2. <<e>> \in Seq(SUBSET X) /\ DOMAIN <<e>> = {1} /\ <<e>>[1] = e
  OBVIOUS
<1>3. All(<<e>>) = e
  BY <1>2 DEF All
<1> QED BY <1>1, <1>2, <1>3

\* The first k sets, and the rest.
LEMMA AllSplit ==
  ASSUME NEW X, NEW s \in Seq(SUBSET X), NEW k \in DOMAIN s
  PROVE  /\ SubSeq(s, k + 1, Len(s)) \in Seq(SUBSET X)
         /\ All(s) = (UNION {s[j] : j \in 1..k}) \cup All(SubSeq(s, k + 1, Len(s)))
<1> DEFINE r == SubSeq(s, k + 1, Len(s))
<1>1. /\ DOMAIN s = 1..Len(s) /\ Len(s) \in Nat /\ k \in 1..Len(s)
      /\ \A j \in 1..Len(s) : s[j] \in SUBSET X
  OBVIOUS
<1>2. /\ DOMAIN r = 1..Len(s) - k
      /\ \A i \in 1..Len(s) - k : r[i] = s[k + i]
  <2>1. Len(r) = Len(s) - k /\ \A i \in 1..Len(s) - k : r[i] = s[(k + 1) + i - 1]
    BY <1>1
  <2>2. DOMAIN r = 1..Len(s) - k
    BY <1>1, <2>1
  <2>3. \A i \in 1..Len(s) - k : (k + 1) + i - 1 = k + i
    BY <1>1
  <2> QED BY <2>1, <2>2, <2>3
<1>3. r \in Seq(SUBSET X)
  BY <1>1
<1> HIDE DEF r
<1>4. All(r) \subseteq All(s)
  <2> SUFFICES ASSUME NEW i \in DOMAIN r PROVE r[i] \subseteq All(s)
    BY DEF All
  <2>1. k + i \in DOMAIN s /\ r[i] = s[k + i]
    BY <1>1, <1>2
  <2> QED BY <2>1 DEF All
<1>5. UNION {s[j] : j \in 1..k} \subseteq All(s)
  BY <1>1 DEF All
<1>6. All(s) \subseteq (UNION {s[j] : j \in 1..k}) \cup All(r)
  <2> SUFFICES ASSUME NEW i \in DOMAIN s, ~(i \in 1..k) PROVE s[i] \subseteq All(r)
    BY DEF All
  <2>1. i - k \in DOMAIN r /\ r[i - k] = s[i]
    <3>1. i - k \in 1..Len(s) - k /\ k + (i - k) = i
      BY <1>1
    <3> QED BY <3>1, <1>2
  <2> QED BY <2>1 DEF All
<1> QED BY <1>3, <1>4, <1>5, <1>6 DEF r

\* shouldApply() ends at the last of the entries it takes: there is one.
LEMMA LargestExists ==
  ASSUME NEW N \in Nat, NEW S \in SUBSET (1..N), S # {}
  PROVE  \E i \in S : \A j \in S : j <= i
<1> DEFINE D == {N - i : i \in S}
<1>1. D \subseteq Nat /\ D # {}
  OBVIOUS
<1>2. PICK d \in D : \A e \in D : ~(<<e, d>> \in OpToRel(<, Nat))
  BY <1>1, NatLessThanWellFounded, WFMin
<1>3. \A e \in D : ~(e < d)
  BY <1>1, <1>2 DEF OpToRel
<1>4. PICK i \in S : d = N - i
  OBVIOUS
<1>5. ASSUME NEW j \in S PROVE j <= i
  <2>1. N - j \in D
    OBVIOUS
  <2> QED BY <2>1, <1>3, <1>4
<1> QED BY <1>5

-----------------------------------------------------------------------------
(* The invariant *)

\* A node without a group has received nothing, and nobody is ahead of the cursor.
Held(n) == All(pending[n]) \cup All(replies[n]) \cup acks[n] \cup lost[n]
Delivered(n) ==
  /\ cursor[n] = NoGroup => Held(n) = {} /\ hwm[n] = 0
  /\ cursor[n] # NoGroup => Held(n) \subseteq 1..cursor[n] /\ hwm[n] \in 0..cursor[n]

\* The entries delivered since the mirror was set up that it still lacks.
Missing(n) ==
  {i \in Ids : base[n] < i /\ i <= cursor[n] /\ trimmed < i /\ stream[i] \notin copy[n]}

\* What the mirror lacks and the mark has not passed stays pending ...
StaysPending(n) == \A i \in Missing(n) : hwm[n] < i => i \in All(pending[n])

\* ... because only what was worked off is acknowledged.
AckedIsPast(n) == \A i \in Missing(n) \cap acks[n] : i <= hwm[n]

\* An entry that was never lost is on its way, ahead of every later one.
AheadIn(s, i) ==
  \E k \in DOMAIN s : i \in s[k] /\ \A j \in 1..(k - 1) : \A h \in s[j] : h < i
InOrder(n) == \A i \in Missing(n) \ lost[n] : hwm[n] < i /\ AheadIn(replies[n], i)

Accounts(n) == StaysPending(n) /\ AckedIsPast(n) /\ InOrder(n)
Safety == \A n \in Mirrors : Delivered(n) /\ (Serves(n) => Accounts(n))
IInv == TypeOK /\ Safety

\* The same entries are missing, or fewer, and the rest is as it was.
LEMMA AccountsKept ==
  ASSUME NEW n, Accounts(n), Missing(n)' \subseteq Missing(n),
         hwm'[n] = hwm[n], All(pending[n]) \subseteq All(pending'[n]),
         acks'[n] \subseteq acks[n], replies'[n] = replies[n], lost'[n] = lost[n]
  PROVE  Accounts(n)'
<1>1. StaysPending(n)'
  BY DEF Accounts, StaysPending
<1>2. AckedIsPast(n)'
  BY DEF Accounts, AckedIsPast
<1>3. InOrder(n)'
  BY DEF Accounts, InOrder
<1> QED BY <1>1, <1>2, <1>3 DEF Accounts

\* A mirror that was just set up lacks nothing.
LEMMA AccountsFresh ==
  ASSUME NEW n, Missing(n)' = {}
  PROVE  Accounts(n)'
BY DEF Accounts, StaysPending, AckedIsPast, InOrder

\* One more reply, of entries after all that the mark and the earlier replies reach,
\* or of entries that were there already.
LEMMA AheadAppend ==
  ASSUME NEW s \in Seq(SUBSET Nat), NEW e \in SUBSET Nat, NEW i \in Nat,
         AheadIn(s, i) \/ (i \in e /\ \A h \in All(s) : h < i)
  PROVE  AheadIn(Append(s, e), i)
<1> DEFINE a == Append(s, e)
<1>1. /\ DOMAIN a = 1..Len(s) + 1 /\ DOMAIN s = 1..Len(s) /\ Len(s) \in Nat
      /\ \A j \in 1..Len(s) : a[j] = s[j]
      /\ a[Len(s) + 1] = e
  OBVIOUS
<1> HIDE DEF a
<1>2. CASE AheadIn(s, i)
  <2>1. PICK k \in DOMAIN s : i \in s[k] /\ \A j \in 1..(k - 1) : \A h \in s[j] : h < i
    BY <1>2 DEF AheadIn
  <2>2. k \in DOMAIN a /\ a[k] = s[k] /\ \A j \in 1..(k - 1) : a[j] = s[j]
    BY <1>1
  <2> QED BY <2>1, <2>2 DEF AheadIn, a
<1>3. CASE i \in e /\ \A h \in All(s) : h < i
  <2>1. Len(s) + 1 \in DOMAIN a /\ (Len(s) + 1) - 1 = Len(s)
    BY <1>1
  <2>2. \A j \in 1..Len(s) : \A h \in a[j] : h < i
    BY <1>1, <1>3 DEF All
  <2> QED BY <1>1, <1>3, <2>1, <2>2 DEF AheadIn, a
<1> QED BY <1>2, <1>3

\* The first reply taken off.
LEMMA AheadTail ==
  ASSUME NEW s \in Seq(SUBSET Nat), s # <<>>, NEW i \in Nat, AheadIn(s, i), i \notin Head(s)
  PROVE  AheadIn(Tail(s), i) /\ \A h \in Head(s) : h < i
<1> DEFINE t == Tail(s)
<1>1. /\ DOMAIN s = 1..Len(s) /\ DOMAIN t = 1..Len(s) - 1 /\ Len(s) \in Nat \ {0}
      /\ \A j \in 1..Len(s) - 1 : t[j] = s[j + 1]
      /\ Head(s) = s[1]
  OBVIOUS
<1> HIDE DEF t
<1>2. PICK k \in DOMAIN s : i \in s[k] /\ \A j \in 1..(k - 1) : \A h \in s[j] : h < i
  BY DEF AheadIn
<1>3. k # 1 /\ 1 \in 1..(k - 1)
  BY <1>1, <1>2
<1>4. k - 1 \in DOMAIN t /\ t[k - 1] = s[k]
  BY <1>1, <1>3
<1>5. ASSUME NEW j \in 1..((k - 1) - 1), NEW h \in t[j] PROVE h < i
  <2>1. j + 1 \in 1..(k - 1) /\ t[j] = s[j + 1]
    BY <1>1
  <2> QED BY <2>1, <1>2
<1>6. AheadIn(t, i)
  BY <1>2, <1>4, <1>5 DEF AheadIn
<1> QED BY <1>1, <1>2, <1>3, <1>6 DEF t

-----------------------------------------------------------------------------
(* The steps on one node's entries *)

\* What XREADGROUP answers with comes after the cursor, and nothing is left out but
\* what is trimmed.
LEMMA ReadRange ==
  ASSUME TypeOK, NEW n \in Mirrors, cursor[n] # NoGroup, From(n) <= Len(stream)
  PROVE  /\ UpTo(n) \in Ids /\ cursor[n] \in Nat /\ cursor[n] < UpTo(n)
         /\ From(n)..UpTo(n) \in SUBSET Ids
         /\ \A i \in From(n)..UpTo(n) : cursor[n] < i
         /\ \A i \in Ids : cursor[n] < i /\ i <= UpTo(n) /\ trimmed < i => i \in From(n)..UpTo(n)
<1>1. cursor[n] \in Nat /\ trimmed \in Nat /\ Len(stream) \in Nat /\ BatchSize \in Nat \ {0}
  BY StreamAssumption DEF TypeOK, Ids
<1>2. From(n) \in Nat /\ cursor[n] < From(n)
      /\ From(n) = (IF cursor[n] < trimmed THEN trimmed + 1 ELSE cursor[n] + 1)
  BY <1>1 DEF From
<1>3. UpTo(n) \in Nat /\ From(n) <= UpTo(n) /\ UpTo(n) <= Len(stream)
  BY <1>1, <1>2 DEF UpTo
<1> QED BY <1>1, <1>2, <1>3 DEF Ids

\* A claim keeps pending what is not trimmed, and adds nothing.
LEMMA ClaimPending ==
  ASSUME TypeOK, NEW n \in Mirrors, NEW k \in DOMAIN pending[n]
  PROVE  /\ Claimed(n, k) \in SUBSET Ids /\ Claimed(n, k) \subseteq All(pending[n])
         /\ Reclaimed(n, k) \in Seq(SUBSET Ids)
         /\ All(Reclaimed(n, k)) \subseteq All(pending[n])
         /\ All(pending[n]) \ 1..trimmed \subseteq All(Reclaimed(n, k))
<1> DEFINE p == pending[n]
           first == UNION {p[j] : j \in 1..k}
           rest == Idle(n, k) \ Claimed(n, k)
           r == IF rest = {} THEN <<>> ELSE <<rest>>
           later == SubSeq(p, k + 1, Len(p))
           Sets == Seq(SUBSET Ids)
<1>1. p \in Seq(SUBSET Ids)
  BY DEF TypeOK
<1>2. later \in Seq(SUBSET Ids) /\ All(p) = first \cup All(later)
  BY <1>1, AllSplit
<1>3. Idle(n, k) = first \ 1..trimmed /\ Claimed(n, k) \subseteq Idle(n, k)
  BY DEF Idle, Claimed
<1>4. first \subseteq Ids
  <2>1. \A j \in 1..k : p[j] \in SUBSET Ids
    BY <1>1
  <2> QED BY <2>1
<1>5. rest \in SUBSET Ids /\ Claimed(n, k) \in SUBSET Ids
  BY <1>3, <1>4
<1>6. r \in Sets /\ All(r) = rest
  BY <1>5, AllOne
<1>7. <<Claimed(n, k)>> \in Sets /\ All(<<Claimed(n, k)>>) = Claimed(n, k)
  BY <1>5, AllOne
<1>8. Reclaimed(n, k) = r \o later \o <<Claimed(n, k)>>
  BY DEF Reclaimed
<1> HIDE DEF r, later, first, rest
<1>9. r \o later \in Sets /\ All(r \o later) = rest \cup All(later)
  BY <1>2, <1>6, AllConcat
<1>10. Reclaimed(n, k) \in Sets /\ All(Reclaimed(n, k)) = rest \cup All(later) \cup Claimed(n, k)
  <2> DEFINE a == r \o later
             b == <<Claimed(n, k)>>
  <2>1. a \in Sets /\ b \in Sets /\ Reclaimed(n, k) = a \o b
    BY <1>2, <1>6, <1>7, <1>8, <1>9
  <2>2. All(a) = rest \cup All(later) /\ All(b) = Claimed(n, k)
    BY <1>7, <1>9
  <2> HIDE DEF a, b
  <2>3. a \in Seq(SUBSET Ids) /\ b \in Seq(SUBSET Ids)
    BY <2>1
  <2>4. a \o b \in Seq(SUBSET Ids)
    BY <2>3
  <2>5. All(a \o b) = All(a) \cup All(b)
    BY <2>3, AllConcat
  <2> QED BY <2>1, <2>2, <2>4, <2>5
<1>11. rest \cup Claimed(n, k) = first \ 1..trimmed
  BY <1>3 DEF rest
<1> QED BY <1>2, <1>5, <1>10, <1>11, <1>3

\* XACK takes exactly the acknowledged entries off.
LEMMA LeftPending ==
  ASSUME TypeOK, NEW n \in Mirrors
  PROVE  Left(n) \in Seq(SUBSET Ids) /\ All(Left(n)) = All(pending[n]) \ acks[n]
<1> DEFINE p == pending[n]
           f == [k \in DOMAIN p |-> p[k] \ acks[n]]
<1>1. p \in Seq(SUBSET Ids)
  BY DEF TypeOK
<1>2. DOMAIN p = 1..Len(p) /\ Len(p) \in Nat /\ \A k \in DOMAIN p : p[k] \in SUBSET Ids
  BY <1>1
<1>3. f \in Seq(SUBSET Ids)
  <2>1. f \in [1..Len(p) -> SUBSET Ids]
    BY <1>2
  <2> QED BY <2>1, <1>2, IsASeq
<1>4. All(f) = All(p) \ acks[n]
  <2>1. DOMAIN f = DOMAIN p /\ \A k \in DOMAIN p : f[k] = p[k] \ acks[n]
    OBVIOUS
  <2> HIDE DEF f, p
  <2> QED BY <2>1 DEF All
<1>5. CASE All(p) \subseteq acks[n]
  <2>1. Left(n) = <<>> /\ All(<<>>) = {} /\ <<>> \in Seq(SUBSET Ids)
    BY <1>5 DEF Left, All
  <2> QED BY <2>1, <1>5
<1>6. CASE ~(All(p) \subseteq acks[n])
  BY <1>3, <1>4, <1>6 DEF Left
<1> QED BY <1>5, <1>6

\* The entries worked off, and where the mark stops.
LEMMA ProcessMark ==
  ASSUME TypeOK, NEW n \in Mirrors, Process(n)
  PROVE  LET S == Head(replies[n])  new == Fresh(n, S) IN
         /\ S \in SUBSET Ids /\ new = {i \in S : i > hwm[n]}
         /\ hwm[n] \in Nat
         /\ hwm'[n] = IF new = {} THEN hwm[n] ELSE CHOOSE i \in new : \A j \in new : j <= i
         /\ new = {} => hwm'[n] = hwm[n]
         /\ new # {} => hwm'[n] \in new /\ \A j \in new : j <= hwm'[n]
         /\ hwm'[n] \in Ids \cup {0} /\ hwm[n] <= hwm'[n]
<1> DEFINE S == Head(replies[n])
           new == Fresh(n, S)
<1>1. S \in SUBSET Ids
  BY DEF TypeOK, Process
<1>2. new = {i \in S : i > hwm[n]} /\ new \in SUBSET Ids
  BY <1>1 DEF Fresh
<1>3. hwm[n] \in Nat /\ hwm[n] \in Ids \cup {0} /\ Len(stream) \in Nat
  BY DEF TypeOK, Ids
<1>4. hwm'[n] = IF new = {} THEN hwm[n] ELSE CHOOSE i \in new : \A j \in new : j <= i
  BY DEF Process, TypeOK
<1>5. new # {} => \E i \in new : \A j \in new : j <= i
  BY <1>2, <1>3, LargestExists DEF Ids
<1> HIDE DEF new
<1>6. new # {} => hwm'[n] \in new /\ \A j \in new : j <= hwm'[n]
  BY <1>4, <1>5
<1>7. hwm'[n] \in Ids \cup {0} /\ hwm[n] <= hwm'[n]
  <2>1. CASE new = {}
    BY <2>1, <1>3, <1>4
  <2>2. CASE new # {}
    <3>1. hwm'[n] \in S /\ hwm'[n] > hwm[n] /\ hwm'[n] \in Ids
      BY <2>2, <1>1, <1>2, <1>6
    <3>2. hwm'[n] \in Nat
      BY <3>1, <1>3 DEF Ids
    <3> QED BY <3>1, <3>2, <1>3
  <2> QED BY <2>1, <2>2
<1> QED BY <1>1, <1>2, <1>3, <1>4, <1>6, <1>7 DEF new

-----------------------------------------------------------------------------
(* Types *)

LEMMA InitInv == Init => IInv
<1> SUFFICES ASSUME Init PROVE IInv
  OBVIOUS
<1>1. TypeOK
  BY StreamAssumption DEF Init, TypeOK, Docs, Ids
<1>2. ASSUME NEW n \in Mirrors PROVE Delivered(n) /\ ~Serves(n)
  <2>1. cursor[n] = NoGroup /\ hwm[n] = 0 /\ mirror[n] = "absent"
        /\ pending[n] = <<>> /\ replies[n] = <<>> /\ acks[n] = {} /\ lost[n] = {}
    BY <1>2 DEF Init
  <2>2. Held(n) = {}
    BY <2>1 DEF Held, All
  <2> QED BY <2>1, <2>2 DEF Delivered, Serves
<1> QED BY <1>1, <1>2 DEF IInv, Safety

\* A longer stream has the ids it had.
LEMMA TypesGrow ==
  ASSUME TypeOK, NEW u \in Updates, stream' = Append(stream, u)
  PROVE  /\ stream' \in Seq(Updates) /\ Len(stream') = Len(stream) + 1
         /\ Ids \subseteq Ids' /\ Seq(SUBSET Ids) \subseteq Seq(SUBSET Ids')
         /\ \A i \in Ids : stream'[i] = stream[i]
<1>1. stream \in Seq(Updates) /\ Len(stream) \in Nat
  BY DEF TypeOK
<1>2. /\ stream' \in Seq(Updates) /\ Len(stream') = Len(stream) + 1
      /\ \A i \in Ids : stream'[i] = stream[i]
  BY <1>1 DEF Ids
<1>3. Ids \subseteq Ids'
  BY <1>1, <1>2 DEF Ids
<1>4. Seq(SUBSET Ids) \subseteq Seq(SUBSET Ids')
  <2> DEFINE P == SUBSET Ids
             Q == SUBSET (Ids')
  <2>1. P \subseteq Q
    BY <1>3
  <2> HIDE DEF P, Q
  <2>2. Seq(P) \subseteq Seq(Q)
    BY <2>1, SeqMonotonic
  <2> QED BY <2>2 DEF P, Q
<1> QED BY <1>2, <1>3, <1>4

LEMMA TypeInductive == TypeOK /\ [Next]_vars => TypeOK'
<1> SUFFICES ASSUME TypeOK, [Next]_vars PROVE TypeOK'
  OBVIOUS
<1> USE DEF TypeOK
<1> DEFINE Sets == Seq(SUBSET Ids)
<1>a. /\ Len(stream) \in Nat /\ 0 \in Ids \cup {0} /\ <<>> \in Sets
      /\ \A n \in Mirrors : cursor[n] # NoGroup => cursor[n] \in Ids \cup {0}
  OBVIOUS
<1>b. stream' = stream => Ids' = Ids
  BY DEF Ids
<1>c. \A s \in Sets, e \in SUBSET Ids : Append(s, e) \in Sets
  OBVIOUS
<1>1. ASSUME NEW u \in Updates, Write(u) PROVE TypeOK'
  BY <1>1, <1>b DEF Write, nodes, Docs
<1>2. ASSUME XAddFails PROVE TypeOK'
  BY <1>2, <1>b DEF XAddFails, nodes
<1>3. ASSUME NEW again \in BOOLEAN, XAdd(again) PROVE TypeOK'
  <2>1. Head(outbox) \in Updates /\ outbox' \in Seq(Updates)
    BY <1>3 DEF XAdd
  <2>2. /\ stream' \in Seq(Updates) /\ Len(stream') = Len(stream) + 1
        /\ Ids \subseteq Ids' /\ Sets \subseteq Seq(SUBSET Ids')
    BY <1>3, <2>1, TypesGrow DEF XAdd
  <2>3. trimmed' \in 0..Len(stream')
    BY <1>3, <1>a, <2>2 DEF XAdd
  <2>4. UNCHANGED nodes /\ doc' = doc
    BY <1>3 DEF XAdd
  <2>5. pending' \in [Mirrors -> Seq(SUBSET Ids')] /\ replies' \in [Mirrors -> Seq(SUBSET Ids')]
    BY <2>2, <2>4 DEF nodes
  <2>6. /\ mirror' \in [Mirrors -> {"absent", "loading", "registered"}]
        /\ copy' \in [Mirrors -> Docs]
        /\ cursor' \in [Mirrors -> {NoGroup} \cup Ids' \cup {0}]
        /\ acks' \in [Mirrors -> SUBSET Ids'] /\ lost' \in [Mirrors -> SUBSET Ids']
        /\ hwm' \in [Mirrors -> Ids' \cup {0}] /\ base' \in [Mirrors -> Ids' \cup {0}]
        /\ stale' \in [Mirrors -> BOOLEAN] /\ failures' \in Nat
    BY <2>2, <2>4 DEF nodes
  <2> QED BY <2>1, <2>2, <2>3, <2>4, <2>5, <2>6
<1>4. ASSUME NEW n \in Mirrors, ReadState(n) PROVE TypeOK'
  BY <1>4, <1>b DEF ReadState, owner, Docs
<1>5. ASSUME NEW n \in Mirrors, Register(n) PROVE TypeOK'
  BY <1>5, <1>a, <1>b DEF Register, owner
<1>6. ASSUME NEW n \in Mirrors, CreateGroup(n) PROVE TypeOK'
  <2>1. Len(stream) \in Ids \cup {0}
    BY <1>a DEF Ids
  <2> QED BY <1>6, <1>b, <2>1 DEF CreateGroup, owner
<1>7. ASSUME NEW n \in Mirrors, Evict(n) PROVE TypeOK'
  BY <1>7, <1>a, <1>b DEF Evict, owner, Docs
<1>8. ASSUME NEW n \in Mirrors, Restart(n) PROVE TypeOK'
  BY <1>8, <1>a, <1>b DEF Restart, owner, Docs
<1>9. ASSUME NEW n \in Mirrors, ReadNew(n) PROVE TypeOK'
  <2>1. UpTo(n) \in Ids /\ From(n)..UpTo(n) \in SUBSET Ids
    BY <1>9, ReadRange DEF ReadNew
  <2> QED BY <1>9, <1>b, <1>c, <2>1 DEF ReadNew, owner
<1>10. ASSUME NEW n \in Mirrors, Process(n) PROVE TypeOK'
  <2> DEFINE S == Head(replies[n])
             new == Fresh(n, S)
  <2>1. S \in SUBSET Ids /\ new \in SUBSET Ids /\ hwm'[n] \in Ids \cup {0}
    BY <1>10, ProcessMark
  <2>2. Tail(replies[n]) \in Sets
    BY <1>10 DEF Process
  <2>3. copy[n] \cup {stream[i] : i \in new} \in Docs
    <3>1. \A i \in new : stream[i] \in Updates
      BY <2>1 DEF Ids
    <3> QED BY <3>1 DEF Docs
  <2>4. hwm' \in [Mirrors -> Ids \cup {0}]
    <3>1. PICK h : hwm' = [hwm EXCEPT ![n] = h]
      BY <1>10 DEF Process
    <3>2. h \in Ids \cup {0}
      BY <2>1, <3>1
    <3> QED BY <3>1, <3>2
  <2>5. copy' \in [Mirrors -> Docs] /\ acks' \in [Mirrors -> SUBSET Ids]
        /\ replies' \in [Mirrors -> Sets]
    <3> HIDE DEF new, Sets
    <3> QED BY <1>10, <2>1, <2>2, <2>3 DEF Process, new, Sets
  <2> QED BY <1>10, <1>b, <2>4, <2>5 DEF Process, owner
<1>11. ASSUME NEW n \in Mirrors, Ack(n) PROVE TypeOK'
  BY <1>11, <1>b, LeftPending DEF Ack, owner
<1>12. ASSUME NEW n \in Mirrors, NEW k \in DOMAIN pending[n], Claim(n, k) PROVE TypeOK'
  <2>1. Claimed(n, k) \in SUBSET Ids /\ Reclaimed(n, k) \in Sets
    BY ClaimPending
  <2> QED BY <1>12, <1>b, <1>c, <2>1 DEF Claim, owner
<1>13. ASSUME NEW n \in Mirrors, NEW resend \in BOOLEAN, Drop(n, resend) PROVE TypeOK'
  <2>1. All(replies[n]) \in SUBSET Ids
    <3>1. \A j \in DOMAIN replies[n] : replies[n][j] \in SUBSET Ids
      OBVIOUS
    <3> QED BY <3>1 DEF All
  <2> QED BY <1>13, <1>a, <1>b, <2>1 DEF Drop, owner
<1>14. ASSUME UNCHANGED vars PROVE TypeOK'
  BY <1>14, <1>b DEF vars, owner
<1> QED
  BY <1>1, <1>2, <1>3, <1>4, <1>5, <1>6, <1>7, <1>8, <1>9, <1>10, <1>11, <1>12, <1>13, <1>14
  DEF Next

-----------------------------------------------------------------------------
(* The invariant is inductive *)

\* A cursor is the number of an entry, or 0.
LEMMA CursorNat ==
  ASSUME TypeOK, NEW n \in Mirrors, cursor[n] # NoGroup
  PROVE  cursor[n] \in Nat /\ cursor[n] <= Len(stream)
<1>1. cursor[n] \in {NoGroup} \cup Ids \cup {0} /\ Len(stream) \in Nat
  BY DEF TypeOK
<1> QED BY <1>1 DEF Ids

\* The invariant of one node.
Node(n) == Delivered(n) /\ (Serves(n) => Accounts(n))

\* A step of the owner or of another node.
SameNode(n) ==
  /\ mirror'[n] = mirror[n] /\ copy'[n] = copy[n] /\ cursor'[n] = cursor[n]
  /\ pending'[n] = pending[n] /\ replies'[n] = replies[n] /\ acks'[n] = acks[n]
  /\ hwm'[n] = hwm[n] /\ base'[n] = base[n] /\ lost'[n] = lost[n]

\* The log grows or is trimmed, or nothing happens: no entry is missing that was not.
LEMMA NodeKept ==
  ASSUME IInv, NEW n \in Mirrors, SameNode(n),
         \/ UNCHANGED owner \/ \E u \in Updates : Write(u)
         \/ XAddFails \/ \E again \in BOOLEAN : XAdd(again)
  PROVE  Node(n)'
<1>1. TypeOK /\ Delivered(n) /\ (Serves(n) => Accounts(n))
  BY DEF IInv, Safety
<1>2. Delivered(n)'
  BY <1>1 DEF SameNode, Delivered, Held
<1>3. /\ \A i \in Ids' : i \in Ids => stream'[i] = stream[i]
      /\ Len(stream) \in Nat /\ Len(stream') \in Nat /\ Len(stream) <= Len(stream')
      /\ trimmed \in Nat /\ trimmed' \in Nat /\ trimmed <= trimmed'
  <2>1. Len(stream) \in Nat /\ trimmed \in Nat
    BY <1>1 DEF TypeOK
  <2>2. CASE UNCHANGED <<stream, trimmed>>
    BY <2>1, <2>2
  <2>3. ASSUME NEW again \in BOOLEAN, XAdd(again) PROVE <1>3
    <3>1. Head(outbox) \in Updates
      BY <1>1, <2>3 DEF TypeOK, XAdd
    <3>2. /\ Len(stream') = Len(stream) + 1 /\ \A i \in Ids : stream'[i] = stream[i]
      BY <1>1, <2>3, <3>1, TypesGrow DEF XAdd
    <3>3. trimmed' \in trimmed..Len(stream)
      BY <2>3 DEF XAdd
    <3> QED BY <2>1, <3>2, <3>3
  <2> QED BY <2>2, <2>3 DEF owner, Write, XAddFails
<1>4. ASSUME Serves(n)' PROVE Accounts(n)'
  <2>1. Serves(n) /\ Accounts(n)
    BY <1>1, <1>4 DEF Serves, SameNode
  <2>2. cursor[n] \in Nat /\ cursor[n] <= Len(stream)
    BY <1>1, <2>1, CursorNat DEF Serves
  <2>3. Missing(n)' \subseteq Missing(n)
    <3> SUFFICES ASSUME NEW i \in Missing(n)' PROVE i \in Missing(n)
      OBVIOUS
    <3>1. /\ i \in Ids' /\ base[n] < i /\ i <= cursor[n] /\ trimmed' < i
          /\ stream'[i] \notin copy[n]
      BY DEF Missing, SameNode
    <3>2. i \in Ids /\ trimmed < i
      BY <1>3, <2>2, <3>1 DEF Ids
    <3> QED BY <1>3, <3>1, <3>2 DEF Missing
  <2> QED BY <2>1, <2>3, AccountsKept DEF SameNode
<1> QED BY <1>2, <1>4 DEF Node

\* Setting a mirror up, and giving it up.
LEMMA LifeKeeps ==
  ASSUME IInv, NEW n \in Mirrors,
         ReadState(n) \/ Register(n) \/ CreateGroup(n) \/ Evict(n) \/ Restart(n)
  PROVE  Node(n)'
<1>1. TypeOK /\ Delivered(n) /\ (Serves(n) => Accounts(n)) /\ Len(stream) \in Nat
  BY DEF IInv, Safety, TypeOK
<1>2. CASE ReadState(n)
  <2>1. ~Serves(n)'
    BY <1>1, <1>2 DEF ReadState, Serves, TypeOK
  <2> QED BY <1>1, <1>2, <2>1 DEF ReadState, Node, Delivered, Held
<1>3. CASE Register(n)
  <2>1. /\ base'[n] = (IF cursor[n] = NoGroup THEN 0 ELSE cursor[n])
        /\ cursor' = cursor /\ lost'[n] = {}
    BY <1>1, <1>3 DEF Register, TypeOK
  <2>2. Delivered(n)'
    BY <1>1, <1>3, <2>1 DEF Register, Delivered, Held
  <2>3. ASSUME Serves(n)' PROVE Accounts(n)'
    <3>1. base'[n] = cursor'[n] /\ cursor'[n] \in Nat
      BY <1>1, <2>1, <2>3, CursorNat DEF Serves
    <3>2. Missing(n)' = {}
      BY <1>1, <1>3, <3>1 DEF Missing, Ids, Register, owner
    <3> QED BY <3>2, AccountsFresh
  <2> QED BY <2>2, <2>3 DEF Node
<1>4. CASE CreateGroup(n)
  <2>1. base'[n] = Len(stream) /\ cursor'[n] = Len(stream) /\ cursor[n] = NoGroup
        /\ UNCHANGED <<owner, pending, replies, acks, hwm, lost>>
    BY <1>1, <1>4 DEF CreateGroup, TypeOK
  <2>2. Delivered(n)'
    <3>1. Held(n)' = {} /\ hwm'[n] = 0
      BY <1>1, <2>1 DEF Delivered, Held
    <3>2. hwm'[n] \in 0..cursor'[n] /\ cursor'[n] # NoGroup
      BY <1>1, <2>1, <3>1, StreamAssumption
    <3> QED BY <3>1, <3>2 DEF Delivered
  <2>3. Missing(n)' = {}
    BY <1>1, <2>1 DEF Missing, Ids, owner
  <2> QED BY <2>2, <2>3, AccountsFresh DEF Node
<1>5. CASE Evict(n)
  <2>1. ~Serves(n)'
    BY <1>1, <1>5 DEF Evict, Serves, TypeOK
  <2>2. /\ hwm'[n] = 0 /\ lost'[n] = {}
        /\ UNCHANGED <<cursor, pending, replies, acks>>
    BY <1>1, <1>5 DEF Evict, TypeOK
  <2>3. Held(n)' \subseteq Held(n)
    BY <2>2 DEF Held
  <2>4. cursor[n] # NoGroup => 0 \in 0..cursor[n]
    BY <1>1, CursorNat
  <2>5. Delivered(n)'
    BY <1>1, <2>2, <2>3, <2>4 DEF Delivered
  <2> QED BY <2>1, <2>5 DEF Node
<1>6. CASE Restart(n)
  <2>1. /\ cursor'[n] = NoGroup /\ hwm'[n] = 0 /\ lost'[n] = {} /\ acks'[n] = {}
        /\ pending'[n] = <<>> /\ replies'[n] = <<>> /\ mirror'[n] = "absent"
    BY <1>1, <1>6 DEF Restart, TypeOK
  <2>2. Held(n)' = {} /\ ~Serves(n)'
    BY <2>1 DEF Held, All, Serves
  <2> QED BY <2>1, <2>2 DEF Node, Delivered
<1> QED BY <1>2, <1>3, <1>4, <1>5, <1>6

\* XREADGROUP moves the cursor, and what it passes is in the reply or trimmed.
LEMMA ReadKeeps ==
  ASSUME IInv, NEW n \in Mirrors, ReadNew(n)
  PROVE  Node(n)'
<1> DEFINE C == From(n)..UpTo(n)
<1>1. TypeOK /\ Delivered(n) /\ (Serves(n) => Accounts(n))
  BY DEF IInv, Safety
<1>2. /\ UpTo(n) \in Ids /\ cursor[n] \in Nat /\ cursor[n] < UpTo(n)
      /\ C \in SUBSET Ids /\ \A i \in C : cursor[n] < i /\ i <= UpTo(n)
      /\ \A i \in Ids : cursor[n] < i /\ i <= UpTo(n) /\ trimmed < i => i \in C
      /\ cursor[n] # NoGroup
  BY <1>1, ReadRange DEF ReadNew
<1>3. pending[n] \in Seq(SUBSET Ids) /\ replies[n] \in Seq(SUBSET Ids)
  BY <1>1 DEF TypeOK
<1>4. /\ pending'[n] = Append(pending[n], C) /\ replies'[n] = Append(replies[n], C)
      /\ cursor'[n] = UpTo(n) /\ UNCHANGED <<owner, mirror, copy, acks, hwm, base, lost>>
  BY <1>1 DEF ReadNew, TypeOK
<1> HIDE DEF C
<1>5. All(pending'[n]) = All(pending[n]) \cup C /\ All(replies'[n]) = All(replies[n]) \cup C
  <2>1. All(Append(pending[n], C)) = All(pending[n]) \cup C
    BY <1>2, <1>3, AllAppend
  <2>2. All(Append(replies[n], C)) = All(replies[n]) \cup C
    BY <1>2, <1>3, AllAppend
  <2> QED BY <1>4, <2>1, <2>2
<1>6. Held(n) \subseteq 1..cursor[n] /\ hwm[n] \in 0..cursor[n]
  BY <1>1, <1>2 DEF Delivered
<1>7. UpTo(n) \in Nat /\ Ids \subseteq 1..Len(stream) /\ Len(stream) \in Nat
  BY <1>1, <1>2 DEF Ids, TypeOK
<1>8. Delivered(n)'
  <2>1. Held(n)' = Held(n) \cup C
    BY <1>4, <1>5 DEF Held
  <2>2. C \subseteq 1..UpTo(n) /\ 1..cursor[n] \subseteq 1..UpTo(n)
    BY <1>2, <1>7
  <2>3. hwm'[n] \in 0..UpTo(n)
    BY <1>2, <1>4, <1>6, <1>7
  <2>4. UpTo(n) # NoGroup
    BY <1>7, StreamAssumption
  <2> QED BY <1>4, <1>6, <2>1, <2>2, <2>3, <2>4 DEF Delivered
<1>9. ASSUME Serves(n)' PROVE Accounts(n)'
  <2>1. Accounts(n)
    BY <1>1, <1>2, <1>4, <1>9 DEF Serves
  <2>2. ASSUME NEW i \in Missing(n)', i \notin C PROVE i \in Missing(n)
    <3>1. /\ i \in Ids /\ base[n] < i /\ i <= UpTo(n) /\ trimmed < i /\ stream[i] \notin copy[n]
      BY <1>4, <2>2 DEF Missing, Ids, owner
    <3>2. i <= cursor[n]
      BY <1>2, <1>7, <2>2, <3>1
    <3> QED BY <3>1, <3>2 DEF Missing
  <2>3. \A i \in C : hwm[n] < i /\ \A h \in Held(n) : h < i
    BY <1>2, <1>6, <1>7
  <2>4. StaysPending(n)'
    BY <1>4, <1>5, <2>1, <2>2 DEF Accounts, StaysPending
  <2>5. AckedIsPast(n)'
    <3> SUFFICES ASSUME NEW i \in Missing(n)', i \in acks[n] PROVE i <= hwm[n]
      BY <1>4 DEF AckedIsPast
    <3>1. i \notin C
      BY <1>2, <1>6, <1>7, <2>3 DEF Held
    <3> QED BY <2>1, <2>2, <3>1 DEF Accounts, AckedIsPast
  <2>6. ASSUME NEW i \in Missing(n)', i \notin lost[n]
        PROVE  hwm[n] < i /\ AheadIn(replies'[n], i)
    <3>1. i \in Nat /\ replies[n] \in Seq(SUBSET Nat) /\ C \in SUBSET Nat
      <4>1. i \in Ids
        BY <1>2, <2>2 DEF Missing
      <4>2. SUBSET Ids \subseteq SUBSET Nat /\ Ids \subseteq Nat
        BY DEF Ids
      <4> QED BY <1>2, <1>3, <4>1, <4>2, SeqMonotonic
    <3>2. CASE i \in C
      <4>1. hwm[n] < i /\ \A h \in All(replies[n]) : h < i
        BY <2>3, <3>2 DEF Held
      <4>2. AheadIn(Append(replies[n], C), i)
        BY <3>1, <3>2, <4>1, AheadAppend
      <4> QED BY <1>4, <4>1, <4>2
    <3>3. CASE i \notin C
      <4>1. hwm[n] < i /\ AheadIn(replies[n], i)
        BY <2>1, <2>2, <2>6, <3>3 DEF Accounts, InOrder
      <4> QED BY <1>4, <3>1, <4>1, AheadAppend
    <3> QED BY <3>2, <3>3
  <2>7. InOrder(n)'
    BY <1>4, <2>6 DEF InOrder
  <2> QED BY <2>4, <2>5, <2>7 DEF Accounts
<1> QED BY <1>8, <1>9 DEF Node

\* XAUTOCLAIM gives back what is pending, behind the replies on their way.
LEMMA ClaimKeeps ==
  ASSUME IInv, NEW n \in Mirrors, NEW k \in DOMAIN pending[n], Claim(n, k)
  PROVE  Node(n)'
<1> DEFINE C == Claimed(n, k)
<1>1. TypeOK /\ Delivered(n) /\ (Serves(n) => Accounts(n))
  BY DEF IInv, Safety
<1>2. /\ C \in SUBSET Ids /\ C \subseteq All(pending[n])
      /\ All(Reclaimed(n, k)) \subseteq All(pending[n])
      /\ All(pending[n]) \ 1..trimmed \subseteq All(Reclaimed(n, k))
  BY <1>1, ClaimPending
<1>3. /\ pending'[n] = Reclaimed(n, k) /\ replies'[n] = Append(replies[n], C)
      /\ UNCHANGED <<owner, mirror, copy, cursor, acks, hwm, base, lost>>
  BY <1>1 DEF Claim, TypeOK
<1>4. replies[n] \in Seq(SUBSET Ids)
  BY <1>1 DEF TypeOK
<1> HIDE DEF C
<1>5. All(replies'[n]) = All(replies[n]) \cup C
  BY <1>2, <1>3, <1>4, AllAppend
<1>6. Delivered(n)'
  <2>1. Held(n)' \subseteq Held(n)
    BY <1>2, <1>3, <1>5 DEF Held
  <2> QED BY <1>1, <1>3, <2>1 DEF Delivered
<1>7. ASSUME Serves(n)' PROVE Accounts(n)'
  <2>1. Accounts(n) /\ Missing(n)' = Missing(n)
    BY <1>1, <1>3, <1>7 DEF Serves, Missing, Ids, owner
  <2>2. StaysPending(n)'
    <3> SUFFICES ASSUME NEW i \in Missing(n), hwm[n] < i PROVE i \in All(pending'[n])
      BY <1>3, <2>1 DEF StaysPending
    <3>1. i \in All(pending[n]) /\ i \notin 1..trimmed
      BY <2>1, <1>1 DEF Accounts, StaysPending, Missing, TypeOK, Ids
    <3> QED BY <1>2, <1>3, <3>1
  <2>3. AckedIsPast(n)'
    BY <1>3, <2>1 DEF Accounts, AckedIsPast
  <2>4. InOrder(n)'
    <3> SUFFICES ASSUME NEW i \in Missing(n), i \notin lost[n]
                 PROVE  hwm[n] < i /\ AheadIn(replies'[n], i)
      BY <1>3, <2>1 DEF InOrder
    <3>1. SUBSET Ids \subseteq SUBSET Nat /\ Ids \subseteq Nat
      BY DEF Ids
    <3>2. i \in Nat /\ replies[n] \in Seq(SUBSET Nat) /\ C \in SUBSET Nat
      BY <1>2, <1>4, <3>1, SeqMonotonic DEF Missing
    <3>3. hwm[n] < i /\ AheadIn(replies[n], i)
      BY <2>1 DEF Accounts, InOrder
    <3> QED BY <1>3, <3>2, <3>3, AheadAppend
  <2> QED BY <2>2, <2>3, <2>4 DEF Accounts
<1> QED BY <1>6, <1>7 DEF Node

\* A reply is worked off: what is new is applied, what the mark skips was lost.
LEMMA ProcessKeeps ==
  ASSUME IInv, NEW n \in Mirrors, Process(n)
  PROVE  Node(n)'
<1> DEFINE S == Head(replies[n])
           new == Fresh(n, S)
<1>1. TypeOK /\ Delivered(n) /\ (Serves(n) => Accounts(n))
  BY DEF IInv, Safety
<1>2. /\ S \in SUBSET Ids /\ new = {i \in S : i > hwm[n]} /\ hwm[n] \in Nat
      /\ new = {} => hwm'[n] = hwm[n]
      /\ new # {} => hwm'[n] \in new
      /\ hwm'[n] \in Ids \cup {0} /\ hwm[n] <= hwm'[n]
  BY <1>1, ProcessMark
<1>3. /\ acks'[n] = acks[n] \cup S /\ replies'[n] = Tail(replies[n])
      /\ UNCHANGED <<owner, mirror, cursor, pending, base, lost>>
  BY <1>1 DEF Process, TypeOK
<1>4. mirror[n] = "registered" => copy'[n] = copy[n] \cup {stream[i] : i \in new}
  BY <1>1 DEF Process, TypeOK
<1>5. replies[n] \in Seq(SUBSET Ids) /\ replies[n] # <<>>
  BY <1>1 DEF Process, TypeOK
<1> HIDE DEF new, S
<1>6. All(replies[n]) = S \cup All(replies'[n])
  BY <1>3, <1>5, AllTail DEF S
<1>7. Delivered(n)'
  <2>1. Held(n)' = Held(n) /\ S \subseteq Held(n)
    BY <1>3, <1>6 DEF Held
  <2>2. CASE cursor[n] = NoGroup
    <3>1. hwm'[n] = hwm[n]
      BY <1>1, <1>2, <2>1, <2>2 DEF Delivered
    <3> QED BY <1>1, <1>3, <2>1, <2>2, <3>1 DEF Delivered
  <2>3. CASE cursor[n] # NoGroup
    <3>1. hwm'[n] \in 0..cursor[n]
      <4>1. Held(n) \subseteq 1..cursor[n] /\ hwm[n] \in 0..cursor[n] /\ cursor[n] \in Nat
        BY <1>1, <2>3, CursorNat DEF Delivered
      <4>2. hwm'[n] = hwm[n] \/ hwm'[n] \in S
        BY <1>2
      <4> QED BY <4>1, <4>2, <2>1
    <3> QED BY <1>1, <1>3, <2>1, <2>3, <3>1 DEF Delivered
  <2> QED BY <2>2, <2>3
<1>8. ASSUME Serves(n)' PROVE Accounts(n)'
  <2>1. Accounts(n) /\ copy'[n] = copy[n] \cup {stream[i] : i \in new}
    BY <1>1, <1>3, <1>4, <1>8 DEF Serves
  <2>2. Missing(n)' \subseteq Missing(n) /\ Missing(n)' \cap new = {}
    BY <1>3, <2>1 DEF Missing, Ids, owner
  <2>3. Missing(n)' \subseteq Nat
    BY <1>3 DEF Missing, Ids, owner
  <2>4. hwm'[n] \in Nat
    BY <1>2 DEF Ids
  <2>5. StaysPending(n)'
    <3> SUFFICES ASSUME NEW i \in Missing(n)', hwm'[n] < i PROVE i \in All(pending[n])
      BY <1>3 DEF StaysPending
    <3>1. hwm[n] < i
      BY <1>2, <2>3, <2>4
    <3> QED BY <2>1, <2>2, <3>1 DEF Accounts, StaysPending
  <2>6. AckedIsPast(n)'
    <3> SUFFICES ASSUME NEW i \in Missing(n)', i \in acks[n] \cup S PROVE i <= hwm'[n]
      BY <1>3 DEF AckedIsPast
    <3>1. i <= hwm[n]
      <4>1. CASE i \in S
        BY <1>2, <2>2, <2>3, <4>1
      <4>2. CASE i \in acks[n]
        BY <2>1, <2>2, <4>2 DEF Accounts, AckedIsPast
      <4> QED BY <4>1, <4>2
    <3> QED BY <1>2, <2>3, <2>4, <3>1
  <2>7. InOrder(n)'
    <3> SUFFICES ASSUME NEW i \in Missing(n)', i \notin lost[n]
                 PROVE  hwm'[n] < i /\ AheadIn(replies'[n], i)
      BY <1>3 DEF InOrder
    <3>1. i \in Nat /\ i \notin new /\ hwm[n] < i /\ AheadIn(replies[n], i)
      BY <2>1, <2>2, <2>3 DEF Accounts, InOrder
    <3>2. i \notin S
      BY <1>2, <3>1
    <3>3. SUBSET Ids \subseteq SUBSET Nat
      BY DEF Ids
    <3>4. replies[n] \in Seq(SUBSET Nat)
      BY <1>5, <3>3, SeqMonotonic
    <3>5. AheadIn(replies'[n], i) /\ \A h \in S : h < i
      BY <1>3, <1>5, <3>1, <3>2, <3>4, AheadTail DEF S
    <3> QED BY <1>2, <3>1, <3>5
  <2> QED BY <2>5, <2>6, <2>7 DEF Accounts
<1> QED BY <1>7, <1>8 DEF Node

\* An acknowledgement takes away only what the mark has passed.
LEMMA AckKeeps ==
  ASSUME IInv, NEW n \in Mirrors, Ack(n)
  PROVE  Node(n)'
<1>1. TypeOK /\ Delivered(n) /\ (Serves(n) => Accounts(n))
  BY DEF IInv, Safety
<1>2. /\ pending'[n] = Left(n) /\ acks'[n] = {}
      /\ UNCHANGED <<owner, mirror, copy, cursor, replies, hwm, base, lost>>
  BY <1>1 DEF Ack, TypeOK
<1>3. All(pending'[n]) = All(pending[n]) \ acks[n]
  BY <1>1, <1>2, LeftPending
<1>4. Delivered(n)'
  <2>1. Held(n)' \subseteq Held(n)
    BY <1>2, <1>3 DEF Held
  <2> QED BY <1>1, <1>2, <2>1 DEF Delivered
<1>5. ASSUME Serves(n)' PROVE Accounts(n)'
  <2>1. Accounts(n) /\ Missing(n)' = Missing(n) /\ hwm[n] \in Nat
    BY <1>1, <1>2, <1>5 DEF Serves, Missing, Ids, owner, TypeOK
  <2>2. StaysPending(n)'
    <3> SUFFICES ASSUME NEW i \in Missing(n), hwm[n] < i PROVE i \in All(pending[n]) \ acks[n]
      BY <1>2, <1>3, <2>1 DEF StaysPending
    <3>1. i \in Nat
      BY DEF Missing, Ids
    <3> QED BY <2>1, <3>1 DEF Accounts, StaysPending, AckedIsPast
  <2>3. AckedIsPast(n)' /\ InOrder(n)'
    BY <1>2, <2>1 DEF Accounts, AckedIsPast, InOrder
  <2> QED BY <2>2, <2>3 DEF Accounts
<1> QED BY <1>4, <1>5 DEF Node

\* What was on its way when the connection broke is counted as lost.
LEMMA DropKeeps ==
  ASSUME IInv, NEW n \in Mirrors, NEW resend \in BOOLEAN, Drop(n, resend)
  PROVE  Node(n)'
<1>1. TypeOK /\ Delivered(n) /\ (Serves(n) => Accounts(n))
  BY DEF IInv, Safety
<1>2. /\ replies'[n] = <<>> /\ lost'[n] = lost[n] \cup All(replies[n])
      /\ acks'[n] \subseteq acks[n]
      /\ UNCHANGED <<owner, mirror, copy, cursor, pending, hwm, base>>
  BY <1>1 DEF Drop, TypeOK
<1>3. Delivered(n)'
  <2>1. Held(n)' \subseteq Held(n)
    BY <1>2 DEF Held, All
  <2> QED BY <1>1, <1>2, <2>1 DEF Delivered
<1>4. ASSUME Serves(n)' PROVE Accounts(n)'
  <2>1. Accounts(n) /\ Missing(n)' = Missing(n)
    BY <1>1, <1>2, <1>4 DEF Serves, Missing, Ids, owner
  <2>2. StaysPending(n)' /\ AckedIsPast(n)'
    BY <1>2, <2>1 DEF Accounts, StaysPending, AckedIsPast
  <2>3. Missing(n) \subseteq lost'[n]
    BY <1>2, <2>1 DEF Accounts, InOrder, AheadIn, All
  <2> QED BY <1>2, <2>1, <2>2, <2>3 DEF Accounts, InOrder
<1> QED BY <1>3, <1>4 DEF Node

\* Each step keeps the invariant of every node.
LEMMA SafetyInductive == IInv /\ [Next]_vars => Safety'
<1> SUFFICES ASSUME IInv, [Next]_vars, NEW m \in Mirrors PROVE Node(m)'
  BY DEF Safety, Node
<1>a. TypeOK
  BY DEF IInv
<1>1. ASSUME \/ \E u \in Updates : Write(u)
             \/ XAddFails \/ \E again \in BOOLEAN : XAdd(again)
      PROVE  Node(m)'
  <2>1. SameNode(m)
    BY <1>1 DEF Write, XAddFails, XAdd, nodes, SameNode
  <2> QED BY <1>1, <2>1, NodeKept
<1>2. ASSUME NEW n \in Mirrors,
             ReadState(n) \/ Register(n) \/ CreateGroup(n) \/ Evict(n) \/ Restart(n)
      PROVE  Node(m)'
  <2>1. CASE m = n
    BY <1>2, <2>1, LifeKeeps
  <2>2. CASE m # n
    <3>1. SameNode(m) /\ UNCHANGED owner
      BY <1>2, <1>a, <2>2
      DEF ReadState, Register, CreateGroup, Evict, Restart, SameNode, TypeOK
    <3> QED BY <3>1, NodeKept
  <2> QED BY <2>1, <2>2
<1>3. ASSUME NEW n \in Mirrors, ReadNew(n) PROVE Node(m)'
  <2>1. m # n => SameNode(m) /\ UNCHANGED owner
    BY <1>3, <1>a DEF ReadNew, SameNode, TypeOK
  <2> QED BY <1>3, <2>1, ReadKeeps, NodeKept
<1>4. ASSUME NEW n \in Mirrors, Process(n) PROVE Node(m)'
  <2>1. m # n => SameNode(m) /\ UNCHANGED owner
    BY <1>4, <1>a DEF Process, SameNode, TypeOK
  <2> QED BY <1>4, <2>1, ProcessKeeps, NodeKept
<1>5. ASSUME NEW n \in Mirrors, Ack(n) PROVE Node(m)'
  <2>1. m # n => SameNode(m) /\ UNCHANGED owner
    BY <1>5, <1>a DEF Ack, SameNode, TypeOK
  <2> QED BY <1>5, <2>1, AckKeeps, NodeKept
<1>6. ASSUME NEW n \in Mirrors, NEW k \in DOMAIN pending[n], Claim(n, k) PROVE Node(m)'
  <2>1. m # n => SameNode(m) /\ UNCHANGED owner
    BY <1>6, <1>a DEF Claim, SameNode, TypeOK
  <2> QED BY <1>6, <2>1, ClaimKeeps, NodeKept
<1>7. ASSUME NEW n \in Mirrors, NEW resend \in BOOLEAN, Drop(n, resend) PROVE Node(m)'
  <2>1. m # n => SameNode(m) /\ UNCHANGED owner
    BY <1>7, <1>a DEF Drop, SameNode, TypeOK
  <2> QED BY <1>7, <2>1, DropKeeps, NodeKept
<1>8. ASSUME UNCHANGED vars PROVE Node(m)'
  <2>1. SameNode(m) /\ UNCHANGED owner
    BY <1>8 DEF vars, SameNode
  <2> QED BY <2>1, NodeKept
<1> QED
  BY <1>1, <1>2, <1>3, <1>4, <1>5, <1>6, <1>7, <1>8 DEF Next

-----------------------------------------------------------------------------
(* Theorems *)

\* Init establishes the invariant and every step keeps it.
THEOREM Invariance == Spec => []IInv
<1>1. IInv /\ [Next]_vars => IInv'
  BY TypeInductive, SafetyInductive DEF IInv
<1> QED BY <1>1, InitInv, PTL DEF Spec

\* Only entries of the stream are delivered, pending, acknowledged or marked, however
\* polls, claims and failures interleave (StreamConsumerLoop).
THEOREM TypesHold == Spec => []TypeOK
<1>1. IInv => TypeOK
  BY DEF IInv
<1> QED BY <1>1, Invariance, PTL

\* An entry that a serving mirror lacks was trimmed, or lost with a reply and passed
\* by the mark, or is still to come (StreamIdempotencyGuard.shouldApply()).
THEOREM LossIsAccounted == Spec => []LossAccounted
<1>1. ASSUME IInv PROVE LossAccounted
  <2> SUFFICES ASSUME NEW n \in Mirrors, Serves(n), NEW i \in Ids, base[n] < i,
                      stream[i] \notin copy[n], ~(i > cursor[n]), i \notin 1..trimmed
               PROVE  \/ i \in All(replies[n])
                      \/ i \in All(pending[n]) /\ i > hwm[n]
                      \/ i \in lost[n] /\ i <= hwm[n]
    <3>1. (\A m \in Mirrors : base[m] \in Nat) /\ \A j \in Ids : j \in Nat
      BY <1>1 DEF IInv, TypeOK, Ids
    <3> QED BY <3>1 DEF LossAccounted, Gone
  <2>1. TypeOK /\ Accounts(n)
    BY <1>1 DEF IInv, Safety
  <2>2. i \in Nat /\ cursor[n] \in Nat /\ trimmed \in Nat /\ hwm[n] \in Nat
    <3>1. hwm[n] \in Ids \cup {0} /\ trimmed \in 0..Len(stream) /\ Len(stream) \in Nat
      BY <2>1 DEF TypeOK
    <3> QED BY <2>1, <3>1, CursorNat DEF Ids, Serves
  <2>3. i \in Missing(n)
    BY <2>2 DEF Missing, Ids
  <2>4. CASE i \in lost[n]
    BY <2>1, <2>2, <2>3, <2>4 DEF Accounts, StaysPending
  <2>5. CASE i \notin lost[n]
    BY <2>1, <2>3, <2>5 DEF Accounts, InOrder, AheadIn, All
  <2> QED BY <2>4, <2>5
<1> QED BY <1>1, Invariance, PTL

=============================================================================
