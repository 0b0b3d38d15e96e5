---------------------------- MODULE AccessProofs ----------------------------
(***************************************************************************)
(* Theorems about who may come in, write and stay: the seats and slots of  *)
(* SessionGate, the write right of WriteAccess after a revocation, the     *)
(* rooms of a deleted folder in WorkspaceFiles, and the cookie of          *)
(* SessionTokens.  They hold for any number of sockets, users, folders,    *)
(* files, tabs and tokens.                                                 *)
(***************************************************************************)
EXTENDS SessionGate, WriteAccess, WorkspaceFiles, SessionTokens, FiniteSetTheorems, TLAPS

---------------------------------------------------------------------------
(* SessionGate *)

Stages == {"new", "admitted", "verifying", "joining", "in", "torn", "closed"}
Slots == {c \in Socket : authAt[c] \in {"verifying", "joining"}}

GatePlaces ==
  /\ account \in [Socket -> Account] /\ authAt \in [Socket -> Stages]
  /\ hungUp \subseteq Socket /\ early \subseteq Socket
  /\ seats \in [Account -> SUBSET Socket]

GateCounts == tokens \in 0..Capacity /\ failures \in Nat

SlotsHeld == IsFiniteSet(Slots) /\ auths = Cardinality(Slots)

\* Who hung up while the token was verified is remembered until Guard 2.
EarlyKnown == \A c \in Socket : authAt[c] = "verifying" /\ c \in hungUp => c \in early

SeatsFinite == \A u \in Account : IsFiniteSet(seats[u])

GateIInv ==
  /\ GatePlaces /\ GateCounts /\ breaker \in BOOLEAN
  /\ SlotsHeld /\ EarlyKnown /\ SeatsFinite /\ SeatsExact

LEMMA GateStarts == GateInit => GateIInv
<1> SUFFICES ASSUME GateInit PROVE GateIInv
  OBVIOUS
<1>1. GatePlaces /\ EarlyKnown
  BY DEF GateInit, GatePlaces, EarlyKnown, Stages
<1>2. GateCounts /\ breaker \in BOOLEAN
  <2>1. tokens \in 0..Capacity /\ failures = 0
    BY GateAssumption DEF GateInit
  <2>2. breaker \in BOOLEAN
    BY DEF GateInit
  <2> QED BY <2>1, <2>2 DEF GateCounts
<1>3. IsFiniteSet({}) /\ Cardinality({}) = 0
  BY FS_EmptySet, Zenon
<1>4. Slots = {} /\ \A u \in Account : seats[u] = {} /\ Seated(u) = {}
  BY DEF GateInit, Slots, Seated
<1>5. SlotsHeld /\ SeatsFinite
  BY <1>3, <1>4 DEF GateInit, SlotsHeld, SeatsFinite
<1>6. SeatsExact
  <2> SUFFICES ASSUME NEW u \in Account
               PROVE  /\ Cardinality(seats[u]) <= MaxSeats
                      /\ Seated(u) \ hungUp \subseteq seats[u]
                      /\ seats[u] \subseteq (Seated(u) \ hungUp) \cup early
    BY DEF SeatsExact
  <2> QED BY <1>3, <1>4, GateAssumption
<1> QED BY <1>1, <1>2, <1>5, <1>6 DEF GateIInv

LEMMA GatePlacesStay ==
  ASSUME GatePlaces, GateNext
  PROVE  GatePlaces'
<1> USE DEF GatePlaces, Moves, Stages
<1>1. ASSUME NEW c \in Socket, Admit(c) \/ BeginAuth(c) \/ Deny(c) \/ EnterRoom(c) \/ JoinFails(c)
      PROVE  GatePlaces'
  BY <1>1 DEF Admit, BeginAuth, Deny, EnterRoom, JoinFails
<1>2. ASSUME NEW c \in Socket, TakeSeat(c)
      PROVE  GatePlaces'
  BY <1>2 DEF TakeSeat
<1>3. ASSUME NEW c \in Socket, HangUp(c)
      PROVE  GatePlaces'
  BY <1>3 DEF HangUp
<1>4. CASE Refill \/ CloseBreaker
  BY <1>4 DEF Refill, CloseBreaker
<1> QED BY <1>1, <1>2, <1>3, <1>4 DEF GateNext

LEMMA GateCountsStay ==
  ASSUME GateCounts, breaker \in BOOLEAN, GateNext
  PROVE  GateCounts' /\ breaker' \in BOOLEAN
<1> USE DEF GateNext, Admit, BeginAuth, Deny, EnterRoom, JoinFails, TakeSeat, HangUp, Refill,
            CloseBreaker, DbFailure
<1>1. \/ tokens' = tokens \/ (tokens >= 1 /\ tokens' = tokens - 1)
      \/ (tokens < Capacity /\ tokens' = tokens + 1)
  BY Zenon
<1>2. failures' = failures \/ failures' = failures + 1 \/ failures' = 0
  BY Zenon
<1>3. breaker' = breaker \/ breaker' = (breaker \/ failures + 1 >= Threshold) \/ breaker' = FALSE
  BY Zenon
<1>4. breaker' \in BOOLEAN
  BY <1>3, Zenon
<1>5. GateCounts'
  <2>1. tokens' \in 0..Capacity
    BY <1>1, GateAssumption DEF GateCounts
  <2>2. failures' \in Nat
    BY <1>2 DEF GateCounts
  <2> QED BY <2>1, <2>2 DEF GateCounts
<1> QED BY <1>4, <1>5

\* An authentication takes one slot and gives it back.
LEMMA SlotsStay ==
  ASSUME GatePlaces, SlotsHeld, GateNext
  PROVE  SlotsHeld'
<1> USE DEF GatePlaces, Moves, Stages
<1>1. \A c \in Socket : c \notin Slots =>
        IsFiniteSet(Slots \cup {c}) /\ Cardinality(Slots \cup {c}) = auths + 1
  BY FS_AddElement DEF SlotsHeld
<1>2. \A c \in Slots : IsFiniteSet(Slots \ {c}) /\ Cardinality(Slots \ {c}) = auths - 1
  BY FS_RemoveElement DEF SlotsHeld
<1>3. ASSUME NEW c \in Socket, Admit(c) \/ HangUp(c)
      PROVE  SlotsHeld'
  <2>1. Slots' = Slots /\ auths' = auths
    BY <1>3 DEF Admit, HangUp, Slots
  <2> QED BY <2>1 DEF SlotsHeld
<1>4. ASSUME NEW c \in Socket, BeginAuth(c)
      PROVE  SlotsHeld'
  <2>1. c \notin Slots
    BY <1>4 DEF BeginAuth, Slots
  <2>2. CASE auths' = auths /\ authAt' = [authAt EXCEPT ![c] = "closed"]
    <3>1. Slots' = Slots
      BY <2>1, <2>2 DEF Slots
    <3> QED BY <2>2, <3>1 DEF SlotsHeld
  <2>3. CASE auths' = auths + 1 /\ authAt' = [authAt EXCEPT ![c] = "verifying"]
    <3>1. Slots' = Slots \cup {c}
      BY <2>3 DEF Slots
    <3> QED BY <1>1, <2>1, <2>3, <3>1 DEF SlotsHeld
  <2> QED BY <1>4, <2>2, <2>3 DEF BeginAuth
<1>5. ASSUME NEW c \in Socket, Deny(c) \/ EnterRoom(c) \/ JoinFails(c)
      PROVE  SlotsHeld'
  <2>1. c \in Slots /\ Slots' = Slots \ {c} /\ auths' = auths - 1
    BY <1>5 DEF Deny, EnterRoom, JoinFails, Slots
  <2> QED BY <1>2, <2>1 DEF SlotsHeld
<1>6. ASSUME NEW c \in Socket, TakeSeat(c)
      PROVE  SlotsHeld'
  <2>1. CASE auths' = auths /\ authAt[c] = "verifying"
             /\ authAt' = [authAt EXCEPT ![c] = "joining"]
    <3>1. Slots' = Slots
      BY <2>1 DEF Slots
    <3> QED BY <2>1, <3>1 DEF SlotsHeld
  <2>2. CASE auths' = auths - 1 /\ authAt[c] = "verifying"
             /\ authAt' = [authAt EXCEPT ![c] = "closed"]
    <3>1. c \in Slots /\ Slots' = Slots \ {c}
      BY <2>2 DEF Slots
    <3> QED BY <1>2, <2>2, <3>1 DEF SlotsHeld
  <2> QED BY <1>6, <2>1, <2>2 DEF TakeSeat
<1>7. CASE Refill \/ CloseBreaker
  <2>1. Slots' = Slots /\ auths' = auths
    BY <1>7 DEF Refill, CloseBreaker, Slots
  <2> QED BY <2>1 DEF SlotsHeld
<1> QED BY <1>3, <1>4, <1>5, <1>6, <1>7 DEF GateNext

LEMMA EarlyStays ==
  ASSUME GatePlaces, EarlyKnown, GateNext
  PROVE  EarlyKnown'
<1> USE DEF GatePlaces, Moves, Stages, EarlyKnown
<1>1. ASSUME NEW c \in Socket, Admit(c) \/ Deny(c) \/ EnterRoom(c) \/ JoinFails(c) \/ TakeSeat(c)
      PROVE  EarlyKnown'
  BY <1>1 DEF Admit, Deny, EnterRoom, JoinFails, TakeSeat
<1>2. ASSUME NEW c \in Socket, BeginAuth(c)
      PROVE  EarlyKnown'
  BY <1>2 DEF BeginAuth
<1>3. ASSUME NEW c \in Socket, HangUp(c)
      PROVE  EarlyKnown'
  BY <1>3 DEF HangUp
<1>4. CASE Refill \/ CloseBreaker
  BY <1>4 DEF Refill, CloseBreaker
<1> QED BY <1>1, <1>2, <1>3, <1>4 DEF GateNext

LEMMA SeatsStay ==
  ASSUME GatePlaces, EarlyKnown, SeatsFinite, SeatsExact, GateNext
  PROVE  SeatsFinite' /\ SeatsExact'
<1> USE DEF GatePlaces, Stages
<1>1. ASSUME UNCHANGED <<seats, hungUp, early>>, \A u \in Account : Seated(u)' = Seated(u)
      PROVE  SeatsFinite' /\ SeatsExact'
  BY <1>1 DEF SeatsFinite, SeatsExact
<1>2. ASSUME NEW c \in Socket, Admit(c) \/ BeginAuth(c) \/ Deny(c) \/ EnterRoom(c) \/ JoinFails(c)
      PROVE  SeatsFinite' /\ SeatsExact'
  <2>1. UNCHANGED <<seats, hungUp, early>>
    BY <1>2 DEF Admit, BeginAuth, Deny, EnterRoom, JoinFails
  <2>2. \A u \in Account : Seated(u)' = Seated(u)
    BY <1>2 DEF Admit, BeginAuth, Deny, EnterRoom, JoinFails, Moves, Seated
  <2> QED BY <1>1, <2>1, <2>2
<1>3. ASSUME NEW c \in Socket, TakeSeat(c)
      PROVE  SeatsFinite' /\ SeatsExact'
  <2>1. authAt[c] = "verifying" /\ UNCHANGED <<account, hungUp, early>>
    BY <1>3 DEF TakeSeat, Moves
  <2>2. CASE authAt' = [authAt EXCEPT ![c] = "closed"] /\ seats' = seats
    <3>1. \A u \in Account : Seated(u)' = Seated(u)
      BY <2>1, <2>2 DEF Seated
    <3> QED BY <1>1, <2>1, <2>2, <3>1
  <2>3. CASE /\ HasSeat(c) /\ authAt' = [authAt EXCEPT ![c] = "joining"]
             /\ seats' = [seats EXCEPT ![account[c]] = @ \cup {c}]
    <3> PICK v \in Account : v = account[c]
      OBVIOUS
    <3>1. v \in Account /\ IsFiniteSet(seats[v]) /\ Cardinality(seats[v]) \in Nat
          /\ Cardinality(seats[v]) < MaxSeats
      BY <2>3, FS_CardinalityType DEF SeatsFinite, HasSeat
    <3>2. IsFiniteSet(seats[v] \cup {c}) /\ Cardinality(seats[v] \cup {c}) <= MaxSeats
      <4>1. IsFiniteSet(seats[v] \cup {c})
            /\ (Cardinality(seats[v] \cup {c}) = Cardinality(seats[v])
                \/ Cardinality(seats[v] \cup {c}) = Cardinality(seats[v]) + 1)
        BY <3>1, FS_AddElement
      <4> QED BY <3>1, <4>1, GateAssumption
    <3>3. Seated(v)' = Seated(v) \cup {c} /\ \A u \in Account \ {v} : Seated(u)' = Seated(u)
      BY <2>1, <2>3 DEF Seated
    <3>4. seats'[v] = seats[v] \cup {c} /\ \A u \in Account \ {v} : seats'[u] = seats[u]
      BY <2>3, <3>1
    <3>5. c \in hungUp => c \in early
      BY <2>1 DEF EarlyKnown
    <3>6. SeatsFinite'
      BY <3>2, <3>4 DEF SeatsFinite
    <3>7. ASSUME NEW u \in Account
          PROVE  /\ Cardinality(seats'[u]) <= MaxSeats
                 /\ Seated(u)' \ hungUp' \subseteq seats'[u]
                 /\ seats'[u] \subseteq (Seated(u)' \ hungUp') \cup early'
      <4>1. /\ Cardinality(seats[u]) <= MaxSeats
            /\ Seated(u) \ hungUp \subseteq seats[u]
            /\ seats[u] \subseteq (Seated(u) \ hungUp) \cup early
        BY DEF SeatsExact
      <4>2. CASE u = v
        BY <2>1, <3>2, <3>3, <3>4, <3>5, <4>1, <4>2
      <4>3. CASE u # v
        BY <2>1, <3>3, <3>4, <4>1, <4>3
      <4> QED BY <4>2, <4>3
    <3> QED BY <3>6, <3>7 DEF SeatsExact
  <2> QED BY <1>3, <2>2, <2>3 DEF TakeSeat, Moves
<1>4. ASSUME NEW c \in Socket, HangUp(c)
      PROVE  SeatsFinite' /\ SeatsExact'
  <2>1. ASSUME NEW u \in Account
        PROVE  /\ IsFiniteSet(seats'[u]) /\ Cardinality(seats'[u]) <= MaxSeats
               /\ Seated(u)' \ hungUp' \subseteq seats'[u]
               /\ seats'[u] \subseteq (Seated(u)' \ hungUp') \cup early'
    <3>1. /\ IsFiniteSet(seats[u]) /\ Cardinality(seats[u]) <= MaxSeats
          /\ Seated(u) \ hungUp \subseteq seats[u]
          /\ seats[u] \subseteq (Seated(u) \ hungUp) \cup early
      BY DEF SeatsExact, SeatsFinite
    <3>2. Seated(u)' = Seated(u) /\ hungUp' = hungUp \cup {c} /\ early \subseteq early'
      BY <1>4 DEF HangUp, Seated
    <3>3. CASE seats'[u] = seats[u]
      <4>1. CASE c \notin seats[u]
        BY <3>1, <3>2, <3>3, <4>1
      <4>2. CASE c \in seats[u]
        <5>1. c \in Seated(u) => account[c] = u /\ authAt[c] \in {"joining", "in", "torn"}
          BY DEF Seated
        <5>2. c \notin Seated(u)
          BY <1>4, <3>3, <4>2, <5>1 DEF HangUp, Freed
        <5> QED BY <3>1, <3>2, <3>3, <5>2
      <4> QED BY <4>1, <4>2
    <3>4. CASE seats'[u] = seats[u] \ {c}
      <4>1. IsFiniteSet(seats[u] \ {c}) /\ Cardinality(seats[u] \ {c}) <= Cardinality(seats[u])
            /\ Cardinality(seats[u] \ {c}) \in Nat /\ Cardinality(seats[u]) \in Nat
        <5>1. CASE c \in seats[u]
          <6>1. IsFiniteSet(seats[u] \ {c})
                /\ Cardinality(seats[u] \ {c}) = Cardinality(seats[u]) - 1
            BY <3>1, <5>1, FS_RemoveElement
          <6>2. Cardinality(seats[u] \ {c}) \in Nat /\ Cardinality(seats[u]) \in Nat
            BY <3>1, <6>1, FS_CardinalityType
          <6> QED BY <6>1, <6>2
        <5>2. CASE c \notin seats[u]
          <6>1. seats[u] \ {c} = seats[u] /\ Cardinality(seats[u]) \in Nat
            BY <3>1, <5>2, FS_CardinalityType
          <6> QED BY <3>1, <6>1
        <5> QED BY <5>1, <5>2
      <4> QED BY <3>1, <3>2, <3>4, <4>1, GateAssumption
    <3>5. seats'[u] = seats[u] \/ seats'[u] = seats[u] \ {c}
      BY <1>4 DEF HangUp, Freed
    <3> QED BY <3>3, <3>4, <3>5
  <2> QED BY <2>1 DEF SeatsFinite, SeatsExact
<1>5. CASE Refill \/ CloseBreaker
  <2>1. \A u \in Account : Seated(u)' = Seated(u)
    BY <1>5 DEF Refill, CloseBreaker, Seated
  <2> QED BY <1>1, <1>5, <2>1 DEF Refill, CloseBreaker
<1> QED BY <1>2, <1>3, <1>4, <1>5 DEF GateNext

LEMMA GateStays ==
  ASSUME GateIInv, [GateNext]_gateVars
  PROVE  GateIInv'
<1>1. CASE UNCHANGED gateVars
  <2>1. UNCHANGED <<account, tokens, authAt, hungUp, seats, auths, failures, early>>
        /\ breaker' = breaker
    BY <1>1, Zenon DEF gateVars
  <2>2. Slots' = Slots /\ \A u \in Account : Seated(u)' = Seated(u)
    BY <2>1 DEF Slots, Seated
  <2>3. GatePlaces' /\ GateCounts' /\ EarlyKnown' /\ SeatsFinite'
    BY <2>1, Zenon DEF GateIInv, GatePlaces, GateCounts, EarlyKnown, SeatsFinite
  <2>4. SlotsHeld' /\ SeatsExact'
    BY <2>1, <2>2 DEF GateIInv, SlotsHeld, SeatsExact
  <2> QED BY <2>1, <2>3, <2>4, Zenon DEF GateIInv
<1>2. CASE GateNext
  <2>1. GatePlaces' /\ SlotsHeld' /\ EarlyKnown'
    BY <1>2, GatePlacesStay, SlotsStay, EarlyStays DEF GateIInv
  <2>2. GateCounts' /\ breaker' \in BOOLEAN
    BY <1>2, GateCountsStay DEF GateIInv
  <2>3. SeatsFinite' /\ SeatsExact'
    BY <1>2, SeatsStay DEF GateIInv
  <2> QED BY <2>1, <2>2, <2>3 DEF GateIInv
<1> QED BY <1>1, <1>2

\* The variables keep their types.
THEOREM GateTypes == GateSpec => []GateTypeOK
<1>1. GateIInv => GateTypeOK
  <2> SUFFICES ASSUME GateIInv PROVE GateTypeOK
    OBVIOUS
  <2>1. auths \in Nat
    BY FS_CardinalityType DEF GateIInv, SlotsHeld
  <2> QED BY <2>1, Zenon DEF GateIInv, GatePlaces, GateCounts, Stages, GateTypeOK
<1> QED BY <1>1, GateStarts, GateStays, PTL DEF GateSpec

\* handleAuthMessage() and handleDisconnect(): the seats of a user are the open
\* sockets that passed Guard 2, and at most MAX_SESSIONS_PER_USER.
THEOREM NoSeatLost == GateSpec => []SeatsExact
<1>1. GateIInv => SeatsExact
  BY DEF GateIInv
<1> QED BY <1>1, GateStarts, GateStays, PTL DEF GateSpec

\* authInProgress counts the authentications under way and no other.
THEOREM NoSlotLost == GateSpec => []SlotsReturned
<1>1. GateIInv => SlotsReturned
  BY DEF GateIInv, SlotsHeld, Slots, SlotsReturned
<1> QED BY <1>1, GateStarts, GateStays, PTL DEF GateSpec

---------------------------------------------------------------------------
(* WriteAccess.  A role that was read is as good as the database says, or a*)
(* hook is on its way to the sockets.                                      *)

Check == [id : Nat, folder : Folder, link : Link, got : Role,
          at : {"confirming", "rereading", "restoring"}]

\* The folders whose files the user may write to, or is about to be stopped from.
Writable == {f \in Folder : dbRole[f] = "editor" \/ \E h \in hooks : h.folder = f}

ReadIsGood ==
  \A c \in Link \ missed :
    linkAt[c] = "reading" /\ readRole[c] = "editor" => folderOf[c] \in Writable

RereadIsGood ==
  \A k \in checks :
    k.at = "restoring" /\ k.got = "editor" /\ k.link \notin doubled
      => folderOf[k.link] \in Writable

RoleIsGood ==
  \A c \in Link \ (missed \cup doubled) :
    Live(c) /\ role[c] = "editor" => folderOf[c] \in Writable

AccessPlaces ==
  /\ folderOf \in [Link -> Folder] /\ dbRole \in [Folder -> Role]
  /\ linkAt \in [Link -> {"new", "reading", "open", "closing", "closed"}]
  /\ readRole \in [Link -> Role] /\ role \in [Link -> Role]
  /\ revoked \subseteq Link /\ missed \subseteq Link /\ doubled \subseteq Link
  /\ hooks \subseteq [id : Nat, folder : Folder] /\ changes \in Nat

AccessIInv ==
  AccessPlaces /\ checks \subseteq Check /\ ReadIsGood /\ RereadIsGood /\ RoleIsGood

LEMMA AccessStarts == AccessInit => AccessIInv
BY DEF AccessInit, AccessIInv, AccessPlaces, ReadIsGood, RereadIsGood, RoleIsGood, Live, Role

\* What the steps of a check leave of it.
LEMMA CheckGoesOn ==
  ASSUME NEW k \in Check, NEW r \in Role
  PROVE  /\ [k EXCEPT !.at = "rereading"] \in Check
         /\ [k EXCEPT !.at = "rereading"].at = "rereading"
         /\ [k EXCEPT !.at = "restoring", !.got = r] \in Check
         /\ [k EXCEPT !.at = "restoring", !.got = r].got = r
         /\ [k EXCEPT !.at = "restoring", !.got = r].link = k.link
BY DEF Check

LEMMA AccessPlacesStay ==
  ASSUME AccessPlaces, checks \subseteq Check, AccessNext
  PROVE  AccessPlaces'
<1> USE DEF AccessPlaces
<1>1. ASSUME NEW c \in Link, ReadRole(c) \/ OpenLink(c) \/ LinkCloses(c)
      PROVE  AccessPlaces'
  BY <1>1 DEF ReadRole, OpenLink, LinkCloses
<1>2. ASSUME NEW f \in Folder, NEW r \in Role, ChangeRole(f, r)
      PROVE  AccessPlaces'
  BY <1>2 DEF ChangeRole
<1>3. ASSUME NEW h \in hooks, DisconnectUserFromFolder(h)
      PROVE  AccessPlaces'
  <2>1. {k.link : k \in checks} \subseteq Link
    BY DEF Check
  <2>2. doubled' \subseteq Link
    BY <1>3, <2>1 DEF DisconnectUserFromFolder
  <2>3. role' \in [Link -> Role] /\ revoked' \subseteq Link /\ missed' \subseteq Link
    BY <1>3 DEF DisconnectUserFromFolder, Live, Role
  <2>4. hooks' \subseteq hooks /\ UNCHANGED <<folderOf, dbRole, linkAt, readRole, changes>>
    BY <1>3 DEF DisconnectUserFromFolder
  <2> QED BY <2>2, <2>3, <2>4
<1>4. ASSUME NEW k \in checks, HandlePermissionRevoked(k)
      PROVE  AccessPlaces'
  BY <1>4 DEF HandlePermissionRevoked, Live, Role
<1>5. ASSUME NEW k \in checks, UndoRevocation(k) \/ RereadRole(k) \/ CheckFails(k)
      PROVE  AccessPlaces'
  BY <1>5 DEF UndoRevocation, RereadRole, CheckFails
<1>6. ASSUME NEW k \in checks, RestoreRole(k)
      PROVE  AccessPlaces'
  <2>1. k.got \in Role /\ k.link \in Link
    BY DEF Check
  <2> QED BY <1>6, <2>1 DEF RestoreRole, Restored
<1> QED BY <1>1, <1>2, <1>3, <1>4, <1>5, <1>6 DEF AccessNext

LEMMA ChecksStay ==
  ASSUME AccessPlaces, checks \subseteq Check, AccessNext
  PROVE  checks' \subseteq Check
<1>1. ASSUME NEW h \in hooks, DisconnectUserFromFolder(h)
      PROVE  checks' \subseteq Check
  <2>1. \A c \in Link : [id |-> h.id, folder |-> h.folder, link |-> c,
                         at |-> "confirming", got |-> "none"] \in Check
    BY DEF Check, AccessPlaces, Role
  <2> QED BY <1>1, <2>1 DEF DisconnectUserFromFolder
<1>2. ASSUME NEW k \in checks, UndoRevocation(k) \/ RereadRole(k)
      PROVE  checks' \subseteq Check
  <2>1. k \in Check /\ dbRole[folderOf[k.link]] \in Role /\ "none" \in Role
    BY DEF Check, AccessPlaces, Role
  <2>2. CASE UndoRevocation(k)
    <3> DEFINE j == [k EXCEPT !.at = "rereading"]
    <3>1. j \in Check
      BY <2>1, CheckGoesOn
    <3>2. checks' = (checks \ {k}) \cup {j}
      BY <2>2 DEF UndoRevocation
    <3> HIDE DEF j
    <3> QED BY <3>1, <3>2
  <2>3. CASE RereadRole(k)
    <3> DEFINE j == [k EXCEPT !.at = "restoring", !.got = dbRole[folderOf[k.link]]]
    <3>1. j \in Check
      BY <2>1, CheckGoesOn
    <3>2. checks' = (checks \ {k}) \cup {j}
      BY <2>3 DEF RereadRole
    <3> HIDE DEF j
    <3> QED BY <3>1, <3>2
  <2> QED BY <1>2, <2>2, <2>3
<1>3. ASSUME NEW k \in checks, HandlePermissionRevoked(k) \/ RestoreRole(k) \/ CheckFails(k)
      PROVE  checks' \subseteq Check
  BY <1>3 DEF HandlePermissionRevoked, RestoreRole, CheckFails
<1>4. ASSUME checks' = checks PROVE checks' \subseteq Check
  BY <1>4
<1> QED BY <1>1, <1>2, <1>3, <1>4 DEF AccessNext, ReadRole, OpenLink, LinkCloses, ChangeRole

LEMMA RolesStayGood ==
  ASSUME AccessIInv, AccessNext
  PROVE  ReadIsGood' /\ RereadIsGood' /\ RoleIsGood'
<1> USE DEF AccessIInv, AccessPlaces
<1>1. ASSUME NEW c \in Link, ReadRole(c)
      PROVE  ReadIsGood' /\ RereadIsGood' /\ RoleIsGood'
  <2>1. Writable' = Writable
    BY <1>1 DEF ReadRole, Writable
  <2>2. ReadIsGood'
    BY <1>1, <2>1 DEF ReadRole, ReadIsGood, Writable
  <2> QED BY <1>1, <2>1, <2>2 DEF ReadRole, RereadIsGood, RoleIsGood, Live
<1>2. ASSUME NEW c \in Link, OpenLink(c)
      PROVE  ReadIsGood' /\ RereadIsGood' /\ RoleIsGood'
  <2>1. Writable' = Writable
    BY <1>2 DEF OpenLink, Writable
  <2> QED BY <1>2, <2>1 DEF OpenLink, ReadIsGood, RereadIsGood, RoleIsGood, Live
<1>3. ASSUME NEW c \in Link, LinkCloses(c)
      PROVE  ReadIsGood' /\ RereadIsGood' /\ RoleIsGood'
  <2>1. Writable' = Writable
    BY <1>3 DEF LinkCloses, Writable
  <2> QED BY <1>3, <2>1 DEF LinkCloses, ReadIsGood, RereadIsGood, RoleIsGood, Live
<1>4. ASSUME NEW f \in Folder, NEW r \in Role, ChangeRole(f, r)
      PROVE  ReadIsGood' /\ RereadIsGood' /\ RoleIsGood'
  <2>1. Writable \subseteq Writable'
    <3>1. CASE r = "editor"
      BY <1>4, <3>1 DEF ChangeRole, Writable
    <3>2. CASE r # "editor"
      <4>1. hooks' = hooks \cup {[id |-> changes', folder |-> f]}
            /\ dbRole' = [dbRole EXCEPT ![f] = r]
        BY <1>4, <3>2 DEF ChangeRole
      <4>2. \E h \in hooks' : h.folder = f
        <5> DEFINE n == [id |-> changes', folder |-> f]
        <5>1. n \in hooks' /\ n.folder = f
          BY <4>1
        <5> HIDE DEF n
        <5> QED BY <5>1
      <4> QED BY <4>1, <4>2 DEF Writable
    <3> QED BY <3>1, <3>2
  <2>2. UNCHANGED <<folderOf, linkAt, readRole, role, checks, missed, doubled>>
    BY <1>4 DEF ChangeRole
  <2> QED BY <2>1, <2>2 DEF ReadIsGood, RereadIsGood, RoleIsGood, Live
<1>5. ASSUME NEW h \in hooks, DisconnectUserFromFolder(h)
      PROVE  ReadIsGood' /\ RereadIsGood' /\ RoleIsGood'
  <2>1. ReadIsGood'
    BY <1>5 DEF DisconnectUserFromFolder, ReadIsGood
  <2>2. RereadIsGood'
    <3> SUFFICES ASSUME NEW k \in checks', k.at = "restoring", k.link \notin doubled'
                 PROVE  FALSE
      BY DEF RereadIsGood
    <3>1. k \in checks
      BY <1>5 DEF DisconnectUserFromFolder
    <3> QED BY <1>5, <3>1 DEF DisconnectUserFromFolder
  <2>3. RoleIsGood'
    BY <1>5 DEF DisconnectUserFromFolder, RoleIsGood, Live
  <2> QED BY <2>1, <2>2, <2>3
<1>6. ASSUME NEW k \in checks, HandlePermissionRevoked(k)
      PROVE  ReadIsGood' /\ RereadIsGood' /\ RoleIsGood'
  <2>1. Writable' = Writable
    BY <1>6 DEF HandlePermissionRevoked, Writable
  <2> QED BY <1>6, <2>1 DEF HandlePermissionRevoked, ReadIsGood, RereadIsGood, RoleIsGood, Live
<1>7. ASSUME NEW k \in checks, UndoRevocation(k)
      PROVE  ReadIsGood' /\ RereadIsGood' /\ RoleIsGood'
  <2>1. Writable' = Writable
    BY <1>7 DEF UndoRevocation, Writable
  <2>2. \A j \in checks' : j \in checks \/ j.at = "rereading"
    <3> DEFINE i == [k EXCEPT !.at = "rereading"]
    <3>1. k \in Check /\ "none" \in Role
      BY DEF Role
    <3>2. i.at = "rereading"
      BY <3>1, CheckGoesOn
    <3>3. checks' = (checks \ {k}) \cup {i}
      BY <1>7 DEF UndoRevocation
    <3> HIDE DEF i
    <3> QED BY <3>2, <3>3
  <2>3. UNCHANGED <<folderOf, linkAt, readRole, role, missed, doubled>>
    BY <1>7 DEF UndoRevocation
  <2> QED BY <2>1, <2>2, <2>3 DEF ReadIsGood, RereadIsGood, RoleIsGood, Live
<1>8. ASSUME NEW k \in checks, RereadRole(k)
      PROVE  ReadIsGood' /\ RereadIsGood' /\ RoleIsGood'
  <2>1. Writable' = Writable
    BY <1>8 DEF RereadRole, Writable
  <2>2. k.link \in Link
    BY DEF Check
  <2>3. \A j \in checks' : j \in checks \/ (j.got = dbRole[folderOf[k.link]] /\ j.link = k.link)
    <3> DEFINE r == dbRole[folderOf[k.link]]
               i == [k EXCEPT !.at = "restoring", !.got = r]
    <3>1. k \in Check /\ r \in Role
      BY <2>2
    <3>2. i.got = r /\ i.link = k.link
      BY <3>1, CheckGoesOn
    <3>3. checks' = (checks \ {k}) \cup {i}
      BY <1>8 DEF RereadRole
    <3> HIDE DEF i
    <3> QED BY <3>2, <3>3
  <2>4. UNCHANGED <<folderOf, dbRole, linkAt, readRole, role, missed, doubled>>
    BY <1>8 DEF RereadRole
  <2>5. RereadIsGood'
    BY <2>1, <2>2, <2>3, <2>4 DEF RereadIsGood, Writable
  <2> QED BY <2>1, <2>4, <2>5 DEF ReadIsGood, RoleIsGood, Live
<1>9. ASSUME NEW k \in checks, RestoreRole(k)
      PROVE  ReadIsGood' /\ RereadIsGood' /\ RoleIsGood'
  <2>1. Writable' = Writable
    BY <1>9 DEF RestoreRole, Writable
  <2>2. k.at = "restoring" /\ k.link \in Link
    BY <1>9 DEF RestoreRole, Check
  <2> QED BY <1>9, <2>1, <2>2 DEF RestoreRole, Restored, ReadIsGood, RereadIsGood, RoleIsGood, Live
<1>10. ASSUME NEW k \in checks, CheckFails(k)
      PROVE  ReadIsGood' /\ RereadIsGood' /\ RoleIsGood'
  <2>1. Writable' = Writable
    BY <1>10 DEF CheckFails, Writable
  <2> QED BY <1>10, <2>1 DEF CheckFails, ReadIsGood, RereadIsGood, RoleIsGood, Live
<1> QED BY <1>1, <1>2, <1>3, <1>4, <1>5, <1>6, <1>7, <1>8, <1>9, <1>10 DEF AccessNext

LEMMA AccessStays ==
  ASSUME AccessIInv, [AccessNext]_accessVars
  PROVE  AccessIInv'
<1>1. CASE UNCHANGED accessVars
  BY <1>1 DEF accessVars, AccessIInv, AccessPlaces, ReadIsGood, RereadIsGood, RoleIsGood,
              Live, Writable
<1>2. CASE AccessNext
  BY <1>2, AccessPlacesStay, ChecksStay, RolesStayGood DEF AccessIInv
<1> QED BY <1>1, <1>2

\* The variables keep their types.
THEOREM AccessTypes == AccessSpec => []AccessTypeOK
<1>1. AccessIInv => AccessTypeOK
  BY DEF AccessIInv, AccessPlaces, Check, AccessTypeOK
<1> QED BY <1>1, AccessStarts, AccessStays, PTL DEF AccessSpec

\* disconnectUserFromFolder(): once the hook of a revocation has run, no socket
\* writes on the strength of a role that the user no longer has, except a socket
\* that was authenticating or that two hooks were at work on.
THEOREM RevocationReaches == AccessSpec => []RevocationHolds
<1>1. AccessIInv => RevocationHolds
  BY DEF AccessIInv, AccessPlaces, RoleIsGood, RevocationHolds, CanWrite, Writable
<1> QED BY <1>1, AccessStarts, AccessStays, PTL DEF AccessSpec

---------------------------------------------------------------------------
(* WorkspaceFiles.  Only the owner gets as far as listing the files of the *)
(* folder, so one deletion is under way at most, and what it has listed    *)
(* with what it could not see is all there is to close.                    *)

OwnerOp == {"purge", "share", "drop"}

\* The persons whose request was granted as the owner's.
Acting == {p \in Person : \/ Stage(p, "allowed") /\ ask[p].op \in OwnerOp
                         \/ Stage(p, "listed")}
Dropping == {p \in Person : Stage(p, "removed")}

FilesPlaces ==
  /\ roleOf \in [Person -> {"owner", "editor", "viewer", "none"}]
  /\ file \in [Doc -> {"absent", "here", "trashed", "purged", "gone"}]
  /\ inRoom \in [Doc -> SUBSET Person]
  /\ unseen \subseteq Doc

OneOwner == \A p, q \in Person : roleOf[p] = "owner" /\ roleOf[q] = "owner" => p = q

ActingOwns == \A p \in Acting : folderHere /\ roleOf[p] = "owner"

NoFolderNobody ==
  /\ ~folderHere => \A p \in Person : roleOf[p] = "none"
  /\ folderHere => Dropping = {} /\ \A d \in Doc : file[d] # "gone"

OneDrops == \A p, q \in Dropping : p = q

ListIsFull ==
  /\ \A p \in Person : Stage(p, "listed") => FilesOfFolder \subseteq ask[p].listed \cup unseen
  /\ \A p \in Dropping, d \in Doc : file[d] = "gone" => d \in ask[p].listed \cup unseen

FilesIInv ==
  /\ FilesPlaces /\ folderHere \in BOOLEAN /\ ask \in [Person -> Asks]
  /\ OneOwner /\ ActingOwns /\ NoFolderNobody /\ OneDrops /\ ListIsFull
  /\ RoomsOfFolderClosed

LEMMA FilesStart == FilesInit => FilesIInv
<1> SUFFICES ASSUME FilesInit PROVE FilesIInv
  OBVIOUS
<1>1. FilesPlaces /\ OneOwner
  BY DEF FilesInit, FilesPlaces, OneOwner
<1>2. NoAsk \in Asks /\ NoAsk.stage = "none"
  BY DEF NoAsk, Asks, FileOp, FolderOp
<1>3. ask \in [Person -> Asks] /\ \A p \in Person : ask[p].stage = "none"
  BY <1>2 DEF FilesInit
<1>4. Acting = {} /\ Dropping = {} /\ \A p \in Person : ~Stage(p, "listed")
  BY <1>3 DEF Acting, Dropping, Stage
<1>5. \A d \in Doc : file[d] # "gone"
  BY DEF FilesInit
<1>6. ActingOwns /\ OneDrops /\ ListIsFull /\ RoomsOfFolderClosed
  BY <1>4, <1>5 DEF ActingOwns, OneDrops, ListIsFull, RoomsOfFolderClosed
<1>7. folderHere = TRUE
  BY DEF FilesInit
<1> QED BY <1>1, <1>3, <1>4, <1>5, <1>6, <1>7 DEF FilesIInv, NoFolderNobody

\* What a request goes on with.
LEMMA AskTurns ==
  ASSUME ask \in [Person -> Asks], NEW p \in Person,
         NEW n \in {"none", "asked", "found", "refused", "allowed", "listed", "removed"},
         Turn(p, n)
  PROVE  /\ ask' \in [Person -> Asks]
         /\ \A q \in Person \ {p} : ask'[q] = ask[q]
         /\ ask'[p].stage = n /\ ask'[p].op = ask[p].op /\ ask'[p].doc = ask[p].doc
         /\ ask'[p].listed = ask[p].listed
<1>1. ask[p] \in Asks
  OBVIOUS
<1> DEFINE a == [ask[p] EXCEPT !.stage = n]
<1>2. a \in Asks /\ a.stage = n /\ a.op = ask[p].op /\ a.doc = ask[p].doc
      /\ a.listed = ask[p].listed
  BY <1>1 DEF Asks
<1>3. ask' = [ask EXCEPT ![p] = a]
  BY DEF Turn
<1> HIDE DEF a
<1> QED BY <1>2, <1>3

LEMMA AskEnds ==
  ASSUME ask \in [Person -> Asks], NEW p \in Person, Answered(p)
  PROVE  /\ ask' \in [Person -> Asks]
         /\ \A q \in Person \ {p} : ask'[q] = ask[q]
         /\ ask'[p].stage = "none"
<1>1. NoAsk \in Asks /\ NoAsk.stage = "none"
  BY DEF NoAsk, Asks, FileOp, FolderOp
<1> QED BY <1>1 DEF Answered

\* A request that does not act as the owner's can come and go.
LEMMA OthersCome ==
  ASSUME FilesIInv, NEW p \in Person, ask' \in [Person -> Asks],
         \A q \in Person \ {p} : ask'[q] = ask[q],
         ask'[p].stage \in {"none", "asked", "found", "refused"},
         ask[p].stage # "removed",
         UNCHANGED <<folderHere, roleOf, file, inRoom, unseen>>
  PROVE  FilesIInv'
<1>1. Acting' \subseteq Acting /\ Dropping' = Dropping
  BY DEF Acting, Dropping, Stage
<1>2. FilesPlaces' /\ OneOwner' /\ OneDrops' /\ folderHere' \in BOOLEAN
  BY <1>1 DEF FilesIInv, FilesPlaces, OneOwner, OneDrops
<1>3. ActingOwns'
  BY <1>1 DEF FilesIInv, ActingOwns
<1>4. NoFolderNobody'
  BY <1>1 DEF FilesIInv, NoFolderNobody
<1>5. \A q \in Person : (q # p /\ ask'[q] = ask[q]) \/ ~Stage(q, "listed")'
  BY DEF Stage
<1>6. p \notin Dropping
  BY DEF Dropping, Stage
<1>7. ListIsFull'
  BY <1>1, <1>5, <1>6 DEF FilesIInv, ListIsFull, Stage, FilesOfFolder, Dropping
<1>8. RoomsOfFolderClosed'
  BY <1>1 DEF FilesIInv, RoomsOfFolderClosed, Dropping
<1> QED BY <1>2, <1>3, <1>4, <1>7, <1>8 DEF FilesIInv

\* A request that ends may move files in and out of the trash, open and close
\* rooms, and give roles to others than the owner.
LEMMA OneEnds ==
  ASSUME FilesIInv, NEW p \in Person, ask[p].stage = "allowed", Answered(p),
         folderHere' = folderHere, FilesPlaces', OneOwner',
         \A q \in Acting : roleOf[q] = "owner" => roleOf'[q] = "owner" \/ q = p,
         ~folderHere => roleOf' = roleOf,
         \A d \in Doc : file'[d] = "gone" <=> file[d] = "gone",
         unseen \subseteq unseen',
         (\E q \in Person : Stage(q, "listed"))
            => FilesOfFolder' \subseteq FilesOfFolder \cup unseen',
         \A d \in Doc : file[d] = "gone" => inRoom'[d] \subseteq inRoom[d] \/ d \in unseen'
  PROVE  FilesIInv'
<1>1. /\ ask' \in [Person -> Asks]
      /\ \A q \in Person \ {p} : ask'[q] = ask[q]
      /\ ask'[p].stage = "none"
  BY AskEnds DEF FilesIInv
<1>2. Acting' \subseteq Acting \ {p} /\ Dropping' = Dropping
  BY <1>1 DEF Acting, Dropping, Stage
<1>3. folderHere' \in BOOLEAN /\ OneDrops' /\ ActingOwns' /\ NoFolderNobody'
  <2>1. folderHere' \in BOOLEAN
    BY DEF FilesIInv
  <2>2. OneDrops'
    BY <1>2 DEF FilesIInv, OneDrops
  <2>3. ActingOwns'
    BY <1>2 DEF FilesIInv, ActingOwns, Acting
  <2>4. NoFolderNobody'
    BY <1>2 DEF FilesIInv, NoFolderNobody
  <2> QED BY <2>1, <2>2, <2>3, <2>4
<1>4. ListIsFull'
  <2>1. ASSUME NEW q \in Person, Stage(q, "listed")'
        PROVE  FilesOfFolder' \subseteq ask'[q].listed \cup unseen'
    <3>1. q # p /\ ask'[q] = ask[q] /\ Stage(q, "listed")
      BY <1>1, <2>1 DEF Stage
    <3>2. FilesOfFolder \subseteq ask[q].listed \cup unseen
      BY <3>1 DEF FilesIInv, ListIsFull
    <3>3. FilesOfFolder' \subseteq FilesOfFolder \cup unseen'
      BY <3>1
    <3> QED BY <3>1, <3>2, <3>3
  <2>2. ASSUME NEW q \in Dropping', NEW d \in Doc, file'[d] = "gone"
        PROVE  d \in ask'[q].listed \cup unseen'
    <3>1. q \in Dropping /\ q # p /\ q \in Person
      BY <1>1, <1>2, <2>2 DEF Dropping, Stage
    <3>2. ask'[q] = ask[q] /\ file[d] = "gone"
      BY <1>1, <2>2, <3>1
    <3>3. d \in ask[q].listed \cup unseen
      BY <3>1, <3>2 DEF FilesIInv, ListIsFull
    <3> QED BY <3>2, <3>3
  <2> QED BY <2>1, <2>2 DEF ListIsFull
<1>5. RoomsOfFolderClosed'
  <2> SUFFICES ASSUME NEW d \in Doc, file'[d] = "gone", inRoom'[d] # {}, d \notin unseen'
               PROVE  \E q \in Person : Stage(q, "removed")'
    BY DEF RoomsOfFolderClosed
  <2>1. file[d] = "gone" /\ inRoom[d] # {} /\ d \notin unseen
    OBVIOUS
  <2>2. Dropping # {}
    BY <2>1 DEF FilesIInv, RoomsOfFolderClosed, Dropping
  <2> QED BY <1>2, <2>2 DEF Dropping
<1> QED BY <1>1, <1>3, <1>4, <1>5 DEF FilesIInv

LEMMA RequestsStay ==
  ASSUME FilesIInv, NEW p \in Person, Ask(p) \/ FindFolder(p) \/ Refusal(p)
  PROVE  FilesIInv'
<1> USE DEF FilesIInv
<1>1. CASE Ask(p)
  <2>1. NoAsk \in Asks
    BY DEF NoAsk, Asks, FileOp, FolderOp
  <2>2. \E a \in Asks : a.stage \in {"asked", "found"} /\ ask' = [ask EXCEPT ![p] = a]
    <3>1. ASSUME NEW o \in FileOp, NEW d \in Doc,
                 ask' = [ask EXCEPT ![p] = [NoAsk EXCEPT !.op = o, !.doc = {d}, !.stage = "asked"]]
          PROVE  \E a \in Asks : a.stage \in {"asked", "found"} /\ ask' = [ask EXCEPT ![p] = a]
      <4> DEFINE a == [NoAsk EXCEPT !.op = o, !.doc = {d}, !.stage = "asked"]
      <4>1. a \in Asks /\ a.stage = "asked"
        BY <2>1 DEF Asks
      <4>2. ask' = [ask EXCEPT ![p] = a]
        BY <3>1
      <4> HIDE DEF a
      <4> QED BY <4>1, <4>2
    <3>2. ASSUME NEW o \in FolderOp,
                 ask' = [ask EXCEPT ![p] = [NoAsk EXCEPT !.op = o, !.stage = "found"]]
          PROVE  \E a \in Asks : a.stage \in {"asked", "found"} /\ ask' = [ask EXCEPT ![p] = a]
      <4> DEFINE a == [NoAsk EXCEPT !.op = o, !.stage = "found"]
      <4>1. a \in Asks /\ a.stage = "found"
        BY <2>1 DEF Asks
      <4>2. ask' = [ask EXCEPT ![p] = a]
        BY <3>2
      <4> HIDE DEF a
      <4> QED BY <4>1, <4>2
    <3> QED BY <1>1, <3>1, <3>2 DEF Ask
  <2>3. PICK a \in Asks : a.stage \in {"asked", "found"} /\ ask' = [ask EXCEPT ![p] = a]
    BY <2>2
  <2>5. /\ ask' \in [Person -> Asks] /\ ask'[p].stage \in {"asked", "found"}
        /\ \A q \in Person \ {p} : ask'[q] = ask[q]
    BY <2>3
  <2>6. ask[p].stage = "none" /\ UNCHANGED <<folderHere, roleOf, file, inRoom, unseen>>
    BY <1>1 DEF Ask, Stage
  <2> QED BY <2>5, <2>6, OthersCome
<1>2. CASE FindFolder(p)
  <2>1. PICK n \in {"found", "refused"} : Turn(p, n)
    BY <1>2 DEF FindFolder
  <2>2. ask[p].stage = "asked" /\ UNCHANGED <<folderHere, roleOf, file, inRoom, unseen>>
    BY <1>2 DEF FindFolder, Stage
  <2> QED BY <2>1, <2>2, AskTurns, OthersCome
<1>3. CASE Refusal(p)
  <2>1. ask[p].stage = "refused" /\ UNCHANGED <<folderHere, roleOf, file, inRoom, unseen>>
        /\ Answered(p)
    BY <1>3 DEF Refusal, Stage
  <2> QED BY <2>1, AskEnds, OthersCome
<1> QED BY <1>1, <1>2, <1>3

LEMMA OwnersGranted ==
  ASSUME FilesIInv, NEW p \in Person, CheckRole(p)
  PROVE  FilesIInv'
<1>1. ask[p].stage = "found" /\ UNCHANGED <<folderHere, roleOf, file, inRoom, unseen>>
  BY DEF CheckRole, Stage
<1>2. CASE Turn(p, "refused")
  BY <1>1, <1>2, AskTurns, OthersCome DEF FilesIInv
<1>3. CASE Turn(p, "allowed") /\ roleOf[p] \in Entitled(ask[p].op)
  <2>1. /\ ask' \in [Person -> Asks]
        /\ \A q \in Person \ {p} : ask'[q] = ask[q]
        /\ ask'[p].stage = "allowed" /\ ask'[p].op = ask[p].op
    BY <1>3, AskTurns DEF FilesIInv
  <2>2. Dropping' = Dropping /\ Acting' \subseteq Acting \cup {p}
    BY <1>1, <2>1 DEF Acting, Dropping, Stage
  <2>3. p \in Acting' => roleOf[p] = "owner"
    <3> SUFFICES ASSUME ask[p].op \in OwnerOp PROVE roleOf[p] = "owner"
      BY <2>1 DEF Acting, Stage
    <3>1. Entitled(ask[p].op) = {"owner"}
      BY DEF OwnerOp, Entitled
    <3> QED BY <1>3, <3>1
  <2>4. p \in Acting' => folderHere
    BY <2>3 DEF FilesIInv, NoFolderNobody
  <2>5. ActingOwns'
    BY <1>1, <2>2, <2>3, <2>4 DEF FilesIInv, ActingOwns
  <2>6. OneOwner' /\ NoFolderNobody' /\ OneDrops' /\ FilesPlaces' /\ folderHere' \in BOOLEAN
    BY <1>1, <2>2 DEF FilesIInv, OneOwner, NoFolderNobody, OneDrops, FilesPlaces
  <2>7. \A q \in Person : (q # p /\ ask'[q] = ask[q]) \/ ~Stage(q, "listed")'
    BY <2>1 DEF Stage
  <2>8. p \notin Dropping
    BY <1>1 DEF Dropping, Stage
  <2>9. ListIsFull'
    BY <1>1, <2>1, <2>2, <2>7, <2>8 DEF FilesIInv, ListIsFull, Stage, FilesOfFolder, Dropping
  <2>10. RoomsOfFolderClosed'
    BY <1>1, <2>2 DEF FilesIInv, RoomsOfFolderClosed, Dropping
  <2> QED BY <2>1, <2>5, <2>6, <2>9, <2>10 DEF FilesIInv
<1> QED BY <1>2, <1>3 DEF CheckRole

LEMMA FileOpsStay ==
  ASSUME FilesIInv, NEW p \in Person,
         Trash(p) \/ Restore(p) \/ Purge(p) \/ Create(p) \/ JoinFile(p) \/ Share(p)
  PROVE  FilesIInv'
<1>1. ask[p].stage = "allowed" /\ Answered(p) /\ folderHere' = folderHere
  BY DEF Trash, Restore, Purge, Create, JoinFile, Share, Allowed, Stage
<1> USE DEF FilesPlaces
<1>2. FilesPlaces
  BY DEF FilesIInv
<1>3. CASE Trash(p) \/ Restore(p) \/ Purge(p)
  <2>1. UNCHANGED <<roleOf, inRoom, unseen>>
    BY <1>3 DEF Trash, Restore, Purge
  <2>2. FilesPlaces' /\ (\A d \in Doc : file'[d] = "gone" <=> file[d] = "gone")
        /\ FilesOfFolder' \subseteq FilesOfFolder
    BY <1>2, <1>3 DEF Trash, Restore, Purge, FilesOfFolder
  <2>3. OneOwner'
    BY <2>1 DEF FilesIInv, OneOwner
  <2> QED BY <1>1, <2>1, <2>2, <2>3, OneEnds
<1>4. CASE Create(p)
  <2>1. UNCHANGED <<roleOf, inRoom>> /\ unseen \subseteq unseen'
    BY <1>4 DEF Create
  <2>2. OneOwner'
    BY <2>1 DEF FilesIInv, OneOwner
  <2>3. CASE UNCHANGED <<file, unseen>>
    <3>1. FilesPlaces' /\ FilesOfFolder' = FilesOfFolder
      BY <1>2, <2>1, <2>3 DEF FilesOfFolder
    <3> QED BY <1>1, <2>1, <2>2, <2>3, <3>1, OneEnds
  <2>4. CASE \E d \in Doc : /\ file[d] = "absent"
                            /\ file' = [file EXCEPT ![d] = "here"]
                            /\ unseen' = IF \E q \in Person : Stage(q, "listed")
                                        THEN unseen \cup {d} ELSE unseen
    <3>1. PICK d \in Doc : /\ file[d] = "absent"
                          /\ file' = [file EXCEPT ![d] = "here"]
                          /\ unseen' = IF \E q \in Person : Stage(q, "listed")
                                      THEN unseen \cup {d} ELSE unseen
      BY <2>4
    <3>2. FilesPlaces' /\ (\A e \in Doc : file'[e] = "gone" <=> file[e] = "gone")
      BY <1>2, <2>1, <3>1
    <3>3. (\E q \in Person : Stage(q, "listed")) => FilesOfFolder' \subseteq FilesOfFolder \cup unseen'
      BY <1>2, <3>1 DEF FilesOfFolder
    <3> QED BY <1>1, <2>1, <2>2, <3>2, <3>3, OneEnds
  <2> QED BY <1>4, <2>3, <2>4 DEF Create
<1>5. CASE JoinFile(p)
  <2>1. UNCHANGED <<roleOf, file>> /\ unseen' = unseen \cup {d \in ask[p].doc : file[d] = "gone"}
        /\ inRoom' = [d \in Doc |-> IF d \in ask[p].doc THEN inRoom[d] \cup {p} ELSE inRoom[d]]
    BY <1>5 DEF JoinFile
  <2>2. ask[p].doc \subseteq Doc
    BY DEF FilesIInv, Asks
  <2>3. FilesPlaces' /\ FilesOfFolder' = FilesOfFolder
    BY <1>2, <2>1, <2>2 DEF FilesOfFolder
  <2>4. OneOwner'
    BY <2>1 DEF FilesIInv, OneOwner
  <2>5. \A d \in Doc : file[d] = "gone" => inRoom'[d] \subseteq inRoom[d] \/ d \in unseen'
    BY <1>2, <2>1
  <2> QED BY <1>1, <2>1, <2>3, <2>4, <2>5, OneEnds
<1>6. CASE Share(p)
  <2>1. UNCHANGED <<file, inRoom, unseen>>
    BY <1>6 DEF Share
  <2>2. PICK q \in Person \ {p}, r \in {"editor", "viewer", "none"} :
          roleOf' = IF folderHere THEN [roleOf EXCEPT ![q] = r] ELSE roleOf
    BY <1>6 DEF Share
  <2>3. FilesPlaces' /\ FilesOfFolder' = FilesOfFolder
    BY <1>2, <2>1, <2>2 DEF FilesOfFolder
  <2>4. OneOwner'
    BY <1>2, <2>2 DEF FilesIInv, OneOwner
  <2>5. p \in Acting
    BY <1>6 DEF Share, Allowed, Acting, OwnerOp
  <2>6. \A s \in Acting : s = p
    BY <2>5 DEF FilesIInv, ActingOwns, OneOwner, Acting
  <2>7. ~folderHere => roleOf' = roleOf
    BY <2>2
  <2> QED BY <1>1, <2>1, <2>3, <2>4, <2>6, <2>7, OneEnds
<1> QED BY <1>3, <1>4, <1>5, <1>6

LEMMA LeavingStays ==
  ASSUME FilesIInv, NEW p \in Person, NEW d \in Doc, LeaveFile(p, d)
  PROVE  FilesIInv'
<1>1. UNCHANGED <<folderHere, roleOf, file, ask, unseen>>
      /\ \A e \in Doc : inRoom'[e] \subseteq inRoom[e]
  BY DEF LeaveFile, FilesIInv, FilesPlaces
<1>2. FilesPlaces'
  BY DEF LeaveFile, FilesIInv, FilesPlaces
<1>3. OneOwner' /\ OneDrops' /\ ActingOwns' /\ NoFolderNobody' /\ ListIsFull'
  BY <1>1 DEF FilesIInv, OneOwner, OneDrops, ActingOwns, NoFolderNobody, ListIsFull,
              Acting, Dropping, Stage, FilesOfFolder
<1>4. RoomsOfFolderClosed'
  BY <1>1 DEF FilesIInv, RoomsOfFolderClosed, Stage
<1> QED BY <1>1, <1>2, <1>3, <1>4 DEF FilesIInv

LEMMA DeletionStays ==
  ASSUME FilesIInv, NEW p \in Person,
         ListFiles(p) \/ RemoveFolder(p) \/ CloseRooms(p) \/ LogFails(p)
  PROVE  FilesIInv'
<1>1. CASE ListFiles(p)
  <2>1. ask[p] \in Asks /\ FilesOfFolder \in SUBSET Doc
    BY DEF FilesIInv, FilesOfFolder
  <2> DEFINE a == [ask[p] EXCEPT !.stage = "listed", !.listed = FilesOfFolder]
  <2>2. a \in Asks /\ a.stage = "listed" /\ a.listed = FilesOfFolder
    BY <2>1 DEF Asks
  <2>3. ask' = [ask EXCEPT ![p] = a]
    BY <1>1 DEF ListFiles
  <2> HIDE DEF a
  <2>4. ask' \in [Person -> Asks] /\ ask'[p].stage = "listed" /\ ask'[p].listed = FilesOfFolder
        /\ \A q \in Person \ {p} : ask'[q] = ask[q]
    BY <2>2, <2>3 DEF FilesIInv
  <2>5. UNCHANGED <<folderHere, roleOf, file, inRoom, unseen>> /\ ask[p].stage = "allowed"
        /\ p \in Acting
    BY <1>1 DEF ListFiles, Allowed, Stage, Acting, OwnerOp
  <2>6. Acting' \subseteq Acting /\ Dropping' = Dropping /\ FilesOfFolder' = FilesOfFolder
    BY <2>4, <2>5 DEF Acting, Dropping, Stage, FilesOfFolder
  <2>7. FilesPlaces' /\ OneOwner' /\ OneDrops' /\ ActingOwns' /\ NoFolderNobody'
    BY <2>5, <2>6 DEF FilesIInv, FilesPlaces, OneOwner, OneDrops, ActingOwns, NoFolderNobody
  <2>8. ListIsFull'
    <3>1. ASSUME NEW q \in Person, Stage(q, "listed")'
          PROVE  FilesOfFolder' \subseteq ask'[q].listed \cup unseen'
      <4>1. CASE q = p
        BY <2>4, <2>6, <4>1
      <4>2. CASE q # p
        BY <2>4, <2>5, <2>6, <3>1, <4>2 DEF FilesIInv, ListIsFull, Stage
      <4> QED BY <4>1, <4>2
    <3>2. \A q \in Dropping' : q # p /\ ask'[q] = ask[q]
      BY <2>4, <2>5, <2>6 DEF Dropping, Stage
    <3> QED BY <2>5, <2>6, <3>1, <3>2 DEF FilesIInv, ListIsFull
  <2>9. RoomsOfFolderClosed'
    BY <2>5, <2>6 DEF FilesIInv, RoomsOfFolderClosed, Dropping
  <2> QED BY <2>4, <2>5, <2>7, <2>8, <2>9 DEF FilesIInv
<1>2. CASE RemoveFolder(p)
  <2>1. /\ ask' \in [Person -> Asks]
        /\ \A q \in Person \ {p} : ask'[q] = ask[q]
        /\ ask'[p].stage = "removed" /\ ask'[p].listed = ask[p].listed
    BY <1>2, AskTurns DEF FilesIInv, RemoveFolder
  <2>2. p \in Acting /\ ask[p].stage = "listed"
    BY <1>2 DEF RemoveFolder, Acting, Stage
  <2>3. folderHere /\ (\A q \in Acting : q = p) /\ Dropping = {} /\ \A d \in Doc : file[d] # "gone"
    BY <2>2 DEF FilesIInv, ActingOwns, OneOwner, NoFolderNobody, Acting
  <2>4. Acting' = {} /\ Dropping' = {p}
    BY <2>1, <2>3 DEF Acting, Dropping, Stage
  <2>5. /\ folderHere' = FALSE /\ roleOf' = [q \in Person |-> "none"]
        /\ file' = [d \in Doc |-> IF file[d] \in {"here", "trashed"} THEN "gone" ELSE file[d]]
        /\ UNCHANGED <<inRoom, unseen>>
    BY <1>2 DEF RemoveFolder
  <2>6. FilesPlaces' /\ OneOwner' /\ OneDrops' /\ ActingOwns' /\ NoFolderNobody'
    BY <2>4, <2>5 DEF FilesIInv, FilesPlaces, OneOwner, OneDrops, ActingOwns, NoFolderNobody
  <2>7. ListIsFull'
    <3>1. FilesOfFolder \subseteq ask[p].listed \cup unseen
      BY <2>2 DEF FilesIInv, ListIsFull, Stage
    <3>2. \A d \in Doc : file'[d] = "gone" => d \in FilesOfFolder
      BY <2>3, <2>5 DEF FilesIInv, FilesPlaces, FilesOfFolder
    <3>3. \A q \in Person : ~Stage(q, "listed")'
      BY <2>4 DEF Acting
    <3> QED BY <2>1, <2>4, <2>5, <3>1, <3>2, <3>3 DEF ListIsFull
  <2>8. RoomsOfFolderClosed'
    BY <2>4 DEF RoomsOfFolderClosed, Dropping
  <2> QED BY <2>1, <2>5, <2>6, <2>7, <2>8 DEF FilesIInv
<1>3. CASE CloseRooms(p) \/ LogFails(p)
  <2>1. Answered(p) /\ p \in Dropping /\ UNCHANGED <<folderHere, roleOf, file>>
        /\ unseen \subseteq unseen'
    BY <1>3 DEF CloseRooms, LogFails, Stage, Dropping
  <2>2. /\ ask' \in [Person -> Asks]
        /\ \A q \in Person \ {p} : ask'[q] = ask[q]
        /\ ask'[p].stage = "none"
    BY <2>1, AskEnds DEF FilesIInv
  <2>3. Acting' \subseteq Acting /\ Dropping' = {}
    BY <2>1, <2>2 DEF FilesIInv, OneDrops, Acting, Dropping, Stage
  <2>4. ~folderHere /\ Acting = {}
    BY <2>1 DEF FilesIInv, NoFolderNobody, ActingOwns
  <2>5. ask[p].listed \subseteq Doc
    BY <2>1 DEF FilesIInv, Asks, Dropping
  <2>6. FilesPlaces'
    BY <1>3, <2>5 DEF FilesIInv, FilesPlaces, CloseRooms, LogFails
  <2>7. OneOwner' /\ OneDrops' /\ ActingOwns' /\ NoFolderNobody'
    BY <2>1, <2>3, <2>4 DEF FilesIInv, OneOwner, OneDrops, ActingOwns, NoFolderNobody
  <2>8. ListIsFull'
    BY <2>3, <2>4 DEF ListIsFull, Acting
  <2>9. RoomsOfFolderClosed'
    <3> SUFFICES ASSUME NEW d \in Doc, file'[d] = "gone"
                 PROVE  inRoom'[d] = {} \/ d \in unseen'
      BY DEF RoomsOfFolderClosed
    <3>1. d \in ask[p].listed \cup unseen
      BY <2>1 DEF FilesIInv, ListIsFull
    <3> QED BY <1>3, <2>1, <3>1 DEF CloseRooms, LogFails
  <2> QED BY <2>1, <2>2, <2>6, <2>7, <2>8, <2>9 DEF FilesIInv
<1> QED BY <1>1, <1>2, <1>3

LEMMA FilesStay ==
  ASSUME FilesIInv, [FilesNext]_fileVars
  PROVE  FilesIInv'
<1>1. CASE UNCHANGED fileVars
  <2>1. UNCHANGED <<folderHere, roleOf, file, inRoom, ask, unseen>>
    BY <1>1, Zenon DEF fileVars
  <2> QED BY <2>1, Zenon DEF FilesIInv, FilesPlaces, OneOwner, ActingOwns, NoFolderNobody, OneDrops,
         ListIsFull, RoomsOfFolderClosed, Acting, Dropping, Stage, FilesOfFolder
<1>2. CASE FilesNext
  BY <1>2, RequestsStay, OwnersGranted, FileOpsStay, LeavingStays, DeletionStays DEF FilesNext
<1> QED BY <1>1, <1>2

\* The variables keep their types.
THEOREM FilesTypes == FilesSpec => []FilesTypeOK
<1>1. FilesIInv => FilesTypeOK
  BY Zenon DEF FilesIInv, FilesPlaces, FilesTypeOK
<1> QED BY <1>1, FilesStart, FilesStay, PTL DEF FilesSpec

\* DELETE /api/folders/:folderId and closeRoomsForFolder(): when the deletion of
\* a folder is over, nobody is in the room of a file that went with it, except
\* where the list could not know of the file or of the join.
THEOREM FolderRoomsClosed == FilesSpec => []RoomsOfFolderClosed
<1>1. FilesIInv => RoomsOfFolderClosed
  BY DEF FilesIInv
<1> QED BY <1>1, FilesStart, FilesStay, PTL DEF FilesSpec

---------------------------------------------------------------------------
(* SessionTokens.  A token in a reply that is under way, or was lost, has  *)
(* never been a cookie, so nobody can have revoked it.                     *)

Requesting == Visitor \X Kind

\* The replies with a Set-Cookie, and the requests that carry a cookie.
Delivering == {p \in Requesting : call[p].heir # NoTicket}
Carrying == {p \in Requesting : call[p].stage \in {"sent", "locked"}}

TokenPlaces ==
  /\ tokenRow \in [Ticket -> {"unused", "live", "revoked"}]
  /\ chainOf \in [Ticket -> Ticket] /\ jar \in Ticket \cup {NoTicket}
  /\ call \in [Requesting -> Calls] /\ orphaned \subseteq Ticket

RepliesFormed ==
  /\ \A p \in Delivering : call[p].stage = "answered"
  /\ \A v \in Visitor : /\ <<v, "logout">> \notin Delivering
                        /\ \A kind \in {"refresh", "login"} :
                             AtStage(v, kind, "answered") => <<v, kind>> \in Delivering

HeirsApart == \A p, q \in Delivering : call[p].heir = call[q].heir => p = q

HeirsLive ==
  \A p \in Delivering : /\ tokenRow[call[p].heir] = "live" /\ call[p].heir \notin orphaned
                        /\ call[p].heir # jar
                        /\ \A q \in Carrying : call[q].cookie # call[p].heir

OrphansLive ==
  \A k \in orphaned : /\ tokenRow[k] = "live" /\ k # jar
                      /\ \A q \in Carrying : call[q].cookie # k

CookiesUsed ==
  /\ jar # NoTicket => tokenRow[jar] # "unused"
  /\ \A p \in Carrying : call[p].cookie # NoTicket => tokenRow[call[p].cookie] # "unused"

RowsLocked ==
  /\ \A v \in Visitor : AtStage(v, "refresh", "locked") =>
       /\ call[<<v, "refresh">>].cookie # NoTicket
       /\ tokenRow[call[<<v, "refresh">>].cookie] = "live"
  /\ \A v, w \in Visitor :
       /\ AtStage(v, "refresh", "locked") /\ AtStage(w, "refresh", "locked")
       /\ call[<<v, "refresh">>].cookie = call[<<w, "refresh">>].cookie
       => v = w

\* A chain has one live token at most, and none of it is yet to be made.
OneLive ==
  \A k, l \in Ticket :
    tokenRow[k] = "live" /\ tokenRow[l] = "live" /\ chainOf[k] = chainOf[l] => k = l
UnusedAlone ==
  \A k, l \in Ticket : tokenRow[k] = "unused" /\ chainOf[l] = chainOf[k] => l = k

JarAnswered ==
  jar # NoTicket =>
    \E k \in Ticket : /\ tokenRow[k] = "live" /\ chainOf[k] = chainOf[jar]
                      /\ \/ k = jar \/ k \in orphaned
                         \/ \E p \in Delivering : call[p].heir = k

TokenCore ==
  /\ TokenPlaces /\ RepliesFormed /\ HeirsApart /\ HeirsLive /\ OrphansLive /\ CookiesUsed
  /\ RowsLocked /\ OneLive /\ UnusedAlone /\ JarAnswered

LEMMA TokenStarts == TokenInit => TokenCore
<1> SUFFICES ASSUME TokenInit PROVE TokenCore
  OBVIOUS
<1>1. Quiet \in Calls /\ Quiet.stage = "none" /\ Quiet.heir = NoTicket
  BY DEF Quiet, Calls
<1>2. TokenPlaces
  BY <1>1 DEF TokenInit, TokenPlaces, Requesting
<1>3. \A p \in Requesting : call[p].stage = "none" /\ call[p].heir = NoTicket
  BY <1>1 DEF TokenInit, Requesting
<1>4. \A v \in Visitor, kind \in Kind : <<v, kind>> \in Requesting
  BY DEF Requesting
<1>5. Delivering = {} /\ Carrying = {}
  BY <1>3 DEF Delivering, Carrying
<1>6. \A v \in Visitor, kind \in Kind : AtStage(v, kind, "none")
  BY <1>3, <1>4 DEF AtStage
<1>7. RepliesFormed /\ RowsLocked
  BY <1>5, <1>6 DEF RepliesFormed, RowsLocked, Kind, AtStage
<1>8. HeirsApart /\ HeirsLive /\ OrphansLive /\ CookiesUsed /\ JarAnswered
  BY <1>5 DEF TokenInit, HeirsApart, HeirsLive, OrphansLive, CookiesUsed, JarAnswered
<1>9. OneLive /\ UnusedAlone
  BY DEF TokenInit, OneLive, UnusedAlone
<1> QED BY <1>2, <1>7, <1>8, <1>9 DEF TokenCore

\* A request that brings no token goes on: it may take the cookie along, lock
\* its row, and end.
LEMMA QuietCallsStay ==
  ASSUME TokenCore, NEW p \in Requesting, call' \in [Requesting -> Calls],
         \A q \in Requesting \ {p} : call'[q] = call[q],
         call[p].heir = NoTicket, call'[p].heir = NoTicket,
         p[2] \in {"refresh", "login"} => call'[p].stage # "answered",
         \/ call'[p].stage \notin {"sent", "locked"}
         \/ call'[p].stage = "sent" /\ call'[p].cookie = jar
         \/ /\ call'[p].stage = "locked" /\ call[p].stage = "sent"
            /\ call'[p].cookie = call[p].cookie /\ call[p].cookie # NoTicket
            /\ tokenRow[call[p].cookie] = "live"
            /\ ~RowHeld(call[p].cookie),
         jar' \in {jar, NoTicket},
         UNCHANGED <<tokenRow, chainOf, orphaned>>
  PROVE  TokenCore'
<1> USE DEF TokenCore
<1>1. TokenPlaces' /\ OneLive' /\ UnusedAlone'
  BY TicketAssumption DEF TokenPlaces, OneLive, UnusedAlone
<1>2. Delivering' = Delivering /\ \A q \in Delivering : q # p /\ call'[q] = call[q]
  BY DEF Delivering
<1>3. \A v \in Visitor, kind \in Kind : <<v, kind>> \in Requesting /\ <<v, kind>>[2] = kind
  BY DEF Requesting
<1>4. RepliesFormed'
  <2>1. \A q \in Delivering' : call'[q].stage = "answered"
    BY <1>2 DEF RepliesFormed
  <2>2. ASSUME NEW v \in Visitor
        PROVE  /\ <<v, "logout">> \notin Delivering'
               /\ \A kind \in {"refresh", "login"} :
                    AtStage(v, kind, "answered")' => <<v, kind>> \in Delivering'
    <3>1. <<v, "logout">> \notin Delivering'
      BY <1>2 DEF RepliesFormed
    <3>2. ASSUME NEW kind \in {"refresh", "login"}, call'[<<v, kind>>].stage = "answered"
          PROVE  <<v, kind>> \in Delivering
      <4>1. <<v, kind>> \in Requesting /\ <<v, kind>>[2] = kind
        BY <1>3 DEF Kind
      <4>2. <<v, kind>> # p
        BY <3>2, <4>1
      <4>3. call[<<v, kind>>].stage = "answered"
        BY <3>2, <4>1, <4>2
      <4> QED BY <4>3 DEF RepliesFormed, AtStage
    <3> QED BY <1>2, <3>1, <3>2 DEF AtStage
  <2> QED BY <2>1, <2>2 DEF RepliesFormed
<1>5. HeirsApart'
  BY <1>2 DEF HeirsApart
<1>6. \A q \in Carrying' : \/ q \in Carrying /\ call'[q].cookie = call[q].cookie
                           \/ call'[q].cookie = jar
  BY DEF Carrying
<1>7. HeirsLive'
  <2> SUFFICES ASSUME NEW q \in Delivering
               PROVE  /\ tokenRow[call[q].heir] = "live" /\ call[q].heir \notin orphaned
                      /\ call[q].heir # jar'
                      /\ \A r \in Carrying' : call'[r].cookie # call[q].heir
    BY <1>2 DEF HeirsLive
  <2>1. call[q].heir # NoTicket
    BY DEF Delivering
  <2> QED BY <1>6, <2>1 DEF HeirsLive
<1>8. OrphansLive'
  BY <1>6, TicketAssumption DEF OrphansLive, TokenPlaces
<1>9. CookiesUsed'
  BY <1>6 DEF CookiesUsed
<1>10. RowsLocked'
  <2>1. ASSUME NEW v \in Visitor, call'[<<v, "refresh">>].stage = "locked"
        PROVE  \/ /\ <<v, "refresh">> # p /\ call'[<<v, "refresh">>] = call[<<v, "refresh">>]
               \/ /\ <<v, "refresh">> = p /\ call[p].cookie # NoTicket
                  /\ call'[p].cookie = call[p].cookie
                  /\ tokenRow[call[p].cookie] = "live" /\ ~RowHeld(call[p].cookie)
    BY <1>3, <2>1 DEF Kind
  <2>2. ASSUME NEW v \in Visitor, call'[<<v, "refresh">>].stage = "locked"
        PROVE  /\ call'[<<v, "refresh">>].cookie # NoTicket
               /\ tokenRow[call'[<<v, "refresh">>].cookie] = "live"
    BY <2>1, <2>2 DEF RowsLocked, AtStage
  <2>3. ASSUME NEW v \in Visitor, NEW w \in Visitor,
               call'[<<v, "refresh">>].stage = "locked", call'[<<w, "refresh">>].stage = "locked",
               call'[<<v, "refresh">>].cookie = call'[<<w, "refresh">>].cookie
        PROVE  v = w
    <3>1. CASE <<v, "refresh">> # p /\ <<w, "refresh">> # p
      BY <2>1, <2>3, <3>1 DEF RowsLocked, AtStage
    <3>2. ASSUME NEW x \in Visitor, NEW y \in Visitor, <<x, "refresh">> = p,
                 <<y, "refresh">> # p, call'[<<y, "refresh">>].stage = "locked",
                 call'[<<x, "refresh">>].stage = "locked",
                 call'[<<x, "refresh">>].cookie = call'[<<y, "refresh">>].cookie
          PROVE  FALSE
      <4>1. call[<<y, "refresh">>].stage = "locked"
            /\ call[<<y, "refresh">>].cookie = call'[<<y, "refresh">>].cookie
        BY <2>1, <3>2
      <4>2. ~RowHeld(call[p].cookie) /\ call'[p].cookie = call[p].cookie
        BY <2>1, <3>2
      <4> QED BY <3>2, <4>1, <4>2 DEF RowHeld
    <3>3. CASE <<v, "refresh">> = p /\ <<w, "refresh">> = p
      BY <3>3
    <3> QED BY <2>3, <3>1, <3>2, <3>3
  <2> QED BY <2>2, <2>3 DEF RowsLocked, AtStage
<1>11. JarAnswered'
  BY <1>2, TicketAssumption DEF JarAnswered, TokenPlaces
<1> QED BY <1>1, <1>4, <1>5, <1>7, <1>8, <1>9, <1>10, <1>11

\* A token k is made, for a sign-in or in place of the cookie c, and answered.
Born(v, kind, k, c) ==
  /\ tokenRow[k] = "unused" /\ call[<<v, kind>>].heir = NoTicket
  /\ c # NoTicket => /\ kind = "refresh" /\ AtStage(v, "refresh", "locked")
                     /\ call[<<v, "refresh">>].cookie = c
                     /\ tokenRow'[c] = "revoked"
  /\ call' \in [Requesting -> Calls]
  /\ \A q \in Requesting \ {<<v, kind>>} : call'[q] = call[q]
  /\ call'[<<v, kind>>].stage = "answered" /\ call'[<<v, kind>>].heir = k
  /\ tokenRow' \in [Ticket -> {"unused", "live", "revoked"}] /\ tokenRow'[k] = "live"
  /\ \A l \in Ticket \ {k, c} : tokenRow'[l] = tokenRow[l]
  /\ chainOf' \in [Ticket -> Ticket]
  /\ \A l \in Ticket \ {k} : chainOf'[l] = chainOf[l]
  /\ chainOf'[k] = IF c = NoTicket THEN chainOf[k] ELSE chainOf[c]
  /\ UNCHANGED <<jar, orphaned>>

LEMMA HeirBorn ==
  ASSUME TokenCore, NEW v \in Visitor, NEW kind \in {"refresh", "login"},
         NEW k \in Ticket, NEW c \in Ticket \cup {NoTicket}, Born(v, kind, k, c)
  PROVE  TokenCore'
<1> USE TicketAssumption DEF TokenCore, Born
<1> DEFINE p == <<v, kind>>
<1>1. p \in Requesting /\ \A w \in Visitor, j \in Kind : <<w, j>> \in Requesting
  BY DEF Requesting, Kind
<1>2. \A w \in Visitor, j \in Kind : <<w, j>> = p => w = v /\ j = kind
  OBVIOUS
<1>3. p \notin Delivering /\ Delivering' = Delivering \cup {p}
  BY <1>1, TicketAssumption DEF Delivering
<1>4. Carrying' \subseteq Carrying \ {p}
  BY <1>1 DEF Carrying
<1>5. c # NoTicket => /\ p \in Carrying /\ call[p].cookie = c /\ tokenRow[c] = "live" /\ c \in Ticket
  BY <1>1 DEF Carrying, AtStage, RowsLocked
<1>6. k # NoTicket /\ k # c /\ k # jar /\ k \notin orphaned
  BY <1>5, TicketAssumption DEF CookiesUsed, OrphansLive
<1>7. TokenPlaces'
  BY DEF TokenPlaces
<1>8. RepliesFormed'
  <2>1. \A q \in Delivering' : call'[q].stage = "answered"
    BY <1>3 DEF RepliesFormed, Delivering
  <2>2. ASSUME NEW w \in Visitor
        PROVE  <<w, "logout">> \notin Delivering'
    BY <1>2, <1>3 DEF RepliesFormed, Kind
  <2>3. ASSUME NEW w \in Visitor, NEW j \in {"refresh", "login"}, AtStage(w, j, "answered")'
        PROVE  <<w, j>> \in Delivering'
    <3>1. <<w, j>> \in Requesting
      BY <1>1 DEF Kind
    <3>2. CASE <<w, j>> = p
      BY <1>3, <3>2
    <3>3. CASE <<w, j>> # p
      <4>1. AtStage(w, j, "answered")
        BY <2>3, <3>1, <3>3 DEF AtStage
      <4> QED BY <1>3, <4>1 DEF RepliesFormed
    <3> QED BY <3>2, <3>3
  <2> QED BY <2>1, <2>2, <2>3 DEF RepliesFormed
<1>9. \A q \in Delivering : call'[q] = call[q] /\ call[q].heir \in Ticket /\ call[q].heir # k
                           /\ call[q].heir # c
  <2> SUFFICES ASSUME NEW q \in Delivering
               PROVE  /\ call'[q] = call[q] /\ call[q].heir \in Ticket /\ call[q].heir # k
                      /\ call[q].heir # c
    OBVIOUS
  <2>1. q \in Requesting /\ call[q].heir # NoTicket /\ call[q] \in Calls
    BY DEF Delivering, TokenPlaces
  <2>2. call[q].heir \in Ticket /\ call'[q] = call[q]
    BY <1>3, <2>1 DEF Calls
  <2>3. tokenRow[call[q].heir] = "live" /\ \A r \in Carrying : call[r].cookie # call[q].heir
    BY DEF HeirsLive
  <2> QED BY <1>5, <2>2, <2>3
<1>10. \A q \in Carrying' : call'[q] = call[q] /\ q \in Carrying /\ call[q].cookie # k
  BY <1>4, <1>6 DEF Carrying, CookiesUsed
<1> HIDE DEF p
<1>11. call'[p].heir = k
  BY DEF p
<1>12. HeirsApart'
  BY <1>3, <1>9, <1>11 DEF HeirsApart
<1>13. HeirsLive'
  <2>1. ASSUME NEW q \in Delivering
        PROVE  /\ tokenRow'[call'[q].heir] = "live" /\ call'[q].heir \notin orphaned
               /\ call'[q].heir # jar
               /\ \A r \in Carrying' : call'[r].cookie # call'[q].heir
    BY <1>9, <1>10 DEF HeirsLive
  <2>2. \A r \in Carrying' : call'[r].cookie # k
    BY <1>10
  <2> QED BY <1>3, <1>6, <1>11, <2>1, <2>2 DEF HeirsLive
<1>14. OrphansLive'
  <2> SUFFICES ASSUME NEW o \in orphaned
               PROVE  /\ tokenRow'[o] = "live" /\ o # jar
                      /\ \A q \in Carrying' : call'[q].cookie # o
    BY DEF OrphansLive
  <2>1. o \in Ticket /\ tokenRow[o] = "live" /\ o # k /\ o # c
    BY <1>5, <1>6 DEF OrphansLive, TokenPlaces
  <2> QED BY <1>10, <2>1 DEF OrphansLive
<1>15. \A l \in Ticket : tokenRow'[l] = "unused" => l # k /\ l # c /\ tokenRow[l] = "unused"
  OBVIOUS
<1>16. CookiesUsed'
  <2>1. jar # NoTicket => tokenRow'[jar] # "unused"
    BY <1>15 DEF CookiesUsed, TokenPlaces
  <2>2. ASSUME NEW q \in Carrying', call'[q].cookie # NoTicket
        PROVE  tokenRow'[call'[q].cookie] # "unused"
    <3>1. call[q] \in Calls /\ q \in Carrying /\ call'[q] = call[q]
      BY <1>10 DEF Carrying, TokenPlaces
    <3>2. call[q].cookie \in Ticket
      BY <2>2, <3>1 DEF Calls
    <3> QED BY <1>15, <2>2, <3>1, <3>2 DEF CookiesUsed
  <2> QED BY <2>1, <2>2 DEF CookiesUsed
<1>17. RowsLocked'
  <2>1. ASSUME NEW w \in Visitor, AtStage(w, "refresh", "locked")'
        PROVE  /\ AtStage(w, "refresh", "locked") /\ call'[<<w, "refresh">>] = call[<<w, "refresh">>]
               /\ call[<<w, "refresh">>].cookie \in Ticket \ {k, c}
    <3>1. <<w, "refresh">> \in Requesting
      BY <1>1 DEF Kind
    <3>2. <<w, "refresh">> # p
      BY <2>1 DEF AtStage, p
    <3>3. call'[<<w, "refresh">>] = call[<<w, "refresh">>]
      BY <3>1, <3>2 DEF p
    <3>4. AtStage(w, "refresh", "locked")
      BY <2>1, <3>3 DEF AtStage
    <3>5. /\ call[<<w, "refresh">>].cookie # NoTicket
          /\ tokenRow[call[<<w, "refresh">>].cookie] = "live"
      BY <3>4 DEF RowsLocked
    <3>6. call[<<w, "refresh">>].cookie \in Ticket \cup {NoTicket}
      BY <3>1 DEF TokenPlaces, Calls
    <3>7. call[<<w, "refresh">>].cookie # c
      BY <3>2, <3>4, <3>5 DEF RowsLocked, p
    <3> QED BY <3>3, <3>4, <3>5, <3>6, <3>7
  <2>2. ASSUME NEW w \in Visitor, AtStage(w, "refresh", "locked")'
        PROVE  /\ call'[<<w, "refresh">>].cookie # NoTicket
               /\ tokenRow'[call'[<<w, "refresh">>].cookie] = "live"
    BY <2>1, <2>2 DEF RowsLocked
  <2>3. ASSUME NEW w \in Visitor, NEW x \in Visitor,
               AtStage(w, "refresh", "locked")', AtStage(x, "refresh", "locked")',
               call'[<<w, "refresh">>].cookie = call'[<<x, "refresh">>].cookie
        PROVE  w = x
    BY <2>1, <2>3 DEF RowsLocked
  <2> QED BY <2>2, <2>3 DEF RowsLocked
<1>18. OneLive'
  <2> SUFFICES ASSUME NEW l \in Ticket, NEW m \in Ticket, tokenRow'[l] = "live",
                      tokenRow'[m] = "live", chainOf'[l] = chainOf'[m], l # m
               PROVE  FALSE
    BY DEF OneLive
  <2>1. CASE l # k /\ m # k
    BY <2>1, <1>5 DEF OneLive
  <2>2. ASSUME NEW n \in Ticket, n # k, tokenRow'[n] = "live", chainOf'[n] = chainOf'[k]
        PROVE  FALSE
    <3>1. n # c /\ tokenRow[n] = "live" /\ chainOf'[n] = chainOf[n]
      BY <2>2
    <3>2. CASE c = NoTicket
      BY <2>2, <3>1, <3>2 DEF UnusedAlone
    <3>3. CASE c # NoTicket
      BY <1>5, <2>2, <3>1, <3>3 DEF OneLive
    <3> QED BY <3>2, <3>3
  <2>3. CASE l = k
    BY <2>2, <2>3
  <2>4. CASE m = k
    BY <2>2, <2>4
  <2> QED BY <2>1, <2>3, <2>4
<1>19. UnusedAlone'
  <2> SUFFICES ASSUME NEW l \in Ticket, NEW m \in Ticket, tokenRow'[l] = "unused",
                      chainOf'[m] = chainOf'[l]
               PROVE  m = l
    BY DEF UnusedAlone
  <2>1. l # k /\ tokenRow[l] = "unused" /\ chainOf'[l] = chainOf[l]
    BY <1>15
  <2>2. CASE m # k
    BY <2>1, <2>2 DEF UnusedAlone
  <2>3. CASE m = k
    <3>1. CASE c = NoTicket
      BY <2>1, <2>3, <3>1 DEF UnusedAlone
    <3>2. CASE c # NoTicket
      BY <1>5, <2>1, <2>3, <3>2 DEF UnusedAlone
    <3> QED BY <3>1, <3>2
  <2> QED BY <2>2, <2>3
<1>20. JarAnswered'
  <2> SUFFICES ASSUME jar # NoTicket PROVE JarAnswered'
    BY DEF JarAnswered
  <2>1. PICK m \in Ticket : /\ tokenRow[m] = "live" /\ chainOf[m] = chainOf[jar]
                           /\ \/ m = jar \/ m \in orphaned
                              \/ \E q \in Delivering : call[q].heir = m
    BY DEF JarAnswered
  <2>2. jar \in Ticket \ {k} /\ m # k
    BY <1>6, <2>1 DEF TokenPlaces
  <2>3. CASE m = c
    <3>1. tokenRow'[k] = "live" /\ chainOf'[k] = chainOf'[jar]
      BY <1>5, <2>1, <2>2, <2>3, TicketAssumption
    <3>2. \E q \in Delivering' : call'[q].heir = k
      BY <1>3, <1>11
    <3> QED BY <3>1, <3>2 DEF JarAnswered
  <2>4. CASE m # c
    <3>1. tokenRow'[m] = "live" /\ chainOf'[m] = chainOf'[jar]
      BY <2>1, <2>2, <2>4
    <3>2. (\E q \in Delivering : call[q].heir = m) => \E q \in Delivering' : call'[q].heir = m
      BY <1>3, <1>9
    <3> QED BY <2>1, <3>1, <3>2 DEF JarAnswered
  <2> QED BY <2>3, <2>4
<1> QED BY <1>7, <1>8, <1>12, <1>13, <1>14, <1>16, <1>17, <1>18, <1>19, <1>20

\* A reply arrives and its token is the cookie, or it is lost.
LEMMA HeirDelivered ==
  ASSUME TokenCore, NEW p \in Delivering, call' \in [Requesting -> Calls],
         \A q \in Requesting \ {p} : call'[q] = call[q],
         call'[p].stage = "none", call'[p].heir = NoTicket,
         \/ jar' = call[p].heir /\ orphaned' = orphaned
         \/ jar' = jar /\ orphaned' = orphaned \cup {call[p].heir},
         UNCHANGED <<tokenRow, chainOf>>
  PROVE  TokenCore'
<1> USE DEF TokenCore
<1>1. p \in Requesting /\ call[p].heir \in Ticket /\ tokenRow[call[p].heir] = "live"
  BY DEF Delivering, HeirsLive, TokenPlaces, Calls
<1>2. TokenPlaces' /\ OneLive' /\ UnusedAlone'
  BY <1>1 DEF TokenPlaces, OneLive, UnusedAlone
<1>3. /\ Delivering' = Delivering \ {p}
      /\ \A q \in Delivering' : q \in Requesting /\ call'[q] = call[q] /\ call[q].heir # call[p].heir
  BY <1>1 DEF Delivering, HeirsApart
<1>4. Carrying' \subseteq Carrying /\ \A q \in Carrying' : call'[q] = call[q]
  BY <1>1 DEF Carrying
<1>5. \A v \in Visitor, kind \in Kind : <<v, kind>> \in Requesting
  BY DEF Requesting
<1>6. RepliesFormed'
  <2>1. \A q \in Delivering' : call'[q].stage = "answered"
    BY <1>3 DEF RepliesFormed
  <2>2. \A v \in Visitor : <<v, "logout">> \notin Delivering'
    BY <1>3 DEF RepliesFormed
  <2>3. ASSUME NEW v \in Visitor, NEW kind \in {"refresh", "login"}, AtStage(v, kind, "answered")'
        PROVE  <<v, kind>> \in Delivering'
    <3>1. <<v, kind>> \in Requesting
      BY <1>5 DEF Kind
    <3>2. <<v, kind>> # p
      BY <2>3 DEF AtStage
    <3>3. AtStage(v, kind, "answered")
      BY <2>3, <3>1, <3>2 DEF AtStage
    <3> QED BY <1>3, <3>2, <3>3 DEF RepliesFormed
  <2> QED BY <2>1, <2>2, <2>3 DEF RepliesFormed
<1>7. HeirsApart'
  BY <1>3 DEF HeirsApart
<1>8. HeirsLive'
  BY <1>3, <1>4 DEF HeirsLive
<1>9. OrphansLive'
  BY <1>1, <1>4 DEF OrphansLive, HeirsLive
<1>10. CookiesUsed'
  BY <1>1, <1>4 DEF CookiesUsed
<1>11. RowsLocked'
  <2>1. ASSUME NEW v \in Visitor, AtStage(v, "refresh", "locked")'
        PROVE  AtStage(v, "refresh", "locked") /\ call'[<<v, "refresh">>] = call[<<v, "refresh">>]
    <3>1. <<v, "refresh">> \in Requesting /\ <<v, "refresh">> # p
      BY <1>5, <2>1 DEF Kind, AtStage
    <3> QED BY <2>1, <3>1 DEF AtStage
  <2> QED BY <2>1 DEF RowsLocked
<1>12. JarAnswered'
  <2>1. CASE jar' = call[p].heir
    BY <1>1, <2>1 DEF JarAnswered
  <2>2. CASE jar' = jar /\ orphaned' = orphaned \cup {call[p].heir} /\ jar # NoTicket
    <3>1. PICK m \in Ticket : /\ tokenRow[m] = "live" /\ chainOf[m] = chainOf[jar]
                             /\ \/ m = jar \/ m \in orphaned
                                \/ \E q \in Delivering : call[q].heir = m
      BY <2>2 DEF JarAnswered
    <3>2. (\E q \in Delivering : call[q].heir = m)
            => m \in orphaned' \/ \E q \in Delivering' : call'[q].heir = m
      BY <1>3, <2>2
    <3> QED BY <2>2, <3>1, <3>2 DEF JarAnswered
  <2> QED BY <2>1, <2>2 DEF JarAnswered
<1> QED BY <1>2, <1>6, <1>7, <1>8, <1>9, <1>10, <1>11, <1>12

\* The steps of TokenNext are the three above.
LEMMA TokensStay ==
  ASSUME TokenCore, NEW v \in Visitor, NEW kind \in Kind,
         \/ Refresh(v) \/ LockRow(v) \/ Rotate(v) \/ RollBack(v)
         \/ SignIn(v) \/ Refused(v) \/ SignOut(v) \/ SignedOut(v)
         \/ Granted(v, kind) \/ ReplyLost(v, kind)
  PROVE  TokenCore'
<1> DEFINE r == <<v, "refresh">>
           i == <<v, "login">>
           o == <<v, "logout">>
<1>1. r \in Requesting /\ i \in Requesting /\ o \in Requesting
      /\ r[2] = "refresh" /\ i[2] = "login" /\ o[2] = "logout"
  BY DEF Requesting, Kind
<1>2. call \in [Requesting -> Calls] /\ call[r] \in Calls /\ call[i] \in Calls /\ call[o] \in Calls
  BY <1>1 DEF TokenCore, TokenPlaces
<1>3. \A p \in Requesting : call[p].stage # "answered" => call[p].heir = NoTicket
  BY DEF TokenCore, RepliesFormed, Delivering
<1>4. call[o].heir = NoTicket
  BY <1>1 DEF TokenCore, RepliesFormed, Delivering
<1>5. Quiet \in Calls /\ Quiet.stage = "none" /\ Quiet.heir = NoTicket
  BY DEF Quiet, Calls
<1>6. ASSUME NEW p \in Requesting, NEW n \in {"none", "sent", "locked", "refused", "answered"},
             call' = [call EXCEPT ![p].stage = n]
      PROVE  /\ call' \in [Requesting -> Calls] /\ \A q \in Requesting \ {p} : call'[q] = call[q]
             /\ call'[p].stage = n /\ call'[p].heir = call[p].heir
             /\ call'[p].cookie = call[p].cookie
  <2> DEFINE a == [call[p] EXCEPT !.stage = n]
  <2>1. call[p] \in Calls
    BY <1>2
  <2>2. a \in Calls /\ a.stage = n /\ a.heir = call[p].heir /\ a.cookie = call[p].cookie
    BY <2>1 DEF Calls
  <2>3. call' = [call EXCEPT ![p] = a]
    BY <1>6
  <2> HIDE DEF a
  <2> QED BY <1>2, <2>2, <2>3
<1>7. ASSUME NEW p \in Requesting, NEW a \in Calls, call' = [call EXCEPT ![p] = a]
      PROVE  /\ call' \in [Requesting -> Calls] /\ \A q \in Requesting \ {p} : call'[q] = call[q]
             /\ call'[p] = a
  BY <1>2, <1>7
<1> HIDE DEF r, i, o
<1>8. CASE Refresh(v)
  <2>1. call[r].stage = "none" /\ UNCHANGED <<tokenRow, chainOf, jar, orphaned>>
    BY <1>8 DEF Refresh, AtStage, r
  <2>2. jar \in Ticket \cup {NoTicket}
    BY DEF TokenCore, TokenPlaces
  <2> DEFINE a == [stage |-> "sent", cookie |-> jar, heir |-> NoTicket]
  <2>3. a \in Calls /\ a.stage = "sent" /\ a.cookie = jar /\ a.heir = NoTicket
    BY <2>2 DEF Calls
  <2>4. call' = [call EXCEPT ![r] = a]
    BY <1>8 DEF Refresh, r
  <2> HIDE DEF a
  <2>5. /\ call' \in [Requesting -> Calls] /\ \A q \in Requesting \ {r} : call'[q] = call[q]
        /\ call'[r] = a
    BY <1>1, <1>7, <2>3, <2>4
  <2> QED BY <1>1, <1>3, <2>1, <2>3, <2>5, QuietCallsStay
<1>9. CASE LockRow(v)
  <2>1. call[r].stage = "sent" /\ ~RowHeld(call[r].cookie)
        /\ UNCHANGED <<tokenRow, chainOf, jar, orphaned>>
    BY <1>9 DEF LockRow, r
  <2>2. PICK n \in {"locked", "refused"} :
          /\ call' = [call EXCEPT ![r].stage = n]
          /\ n = "locked" => call[r].cookie # NoTicket /\ tokenRow[call[r].cookie] = "live"
    BY <1>9 DEF LockRow, Step, r
  <2>3. /\ call' \in [Requesting -> Calls] /\ \A q \in Requesting \ {r} : call'[q] = call[q]
        /\ call'[r].stage = n /\ call'[r].heir = call[r].heir /\ call'[r].cookie = call[r].cookie
    BY <1>1, <1>6, <2>2
  <2>4. call[r].heir = NoTicket
    BY <1>1, <1>3, <2>1
  <2> QED BY <1>1, <2>1, <2>2, <2>3, <2>4, QuietCallsStay
<1>10. CASE RollBack(v)
  <2>1. call[r].stage = "locked" /\ UNCHANGED <<tokenRow, chainOf, jar, orphaned>>
        /\ call' = [call EXCEPT ![r].stage = "refused"]
    BY <1>10 DEF RollBack, AtStage, Step, r
  <2>2. /\ call' \in [Requesting -> Calls] /\ \A q \in Requesting \ {r} : call'[q] = call[q]
        /\ call'[r].stage = "refused" /\ call'[r].heir = call[r].heir
    BY <1>1, <1>6, <2>1
  <2>3. call[r].heir = NoTicket
    BY <1>1, <1>3, <2>1
  <2> QED BY <1>1, <2>1, <2>2, <2>3, QuietCallsStay
<1>11. CASE Refused(v)
  <2>1. call[r].stage = "refused" /\ UNCHANGED <<tokenRow, chainOf, jar, orphaned>>
        /\ call' = [call EXCEPT ![r] = Quiet]
    BY <1>11 DEF Refused, AtStage, Ended, r
  <2>2. /\ call' \in [Requesting -> Calls] /\ \A q \in Requesting \ {r} : call'[q] = call[q]
        /\ call'[r] = Quiet
    BY <1>1, <1>5, <1>7, <2>1
  <2> QED BY <1>1, <1>3, <1>5, <2>1, <2>2, QuietCallsStay
<1>12. CASE SignOut(v)
  <2>1. UNCHANGED <<tokenRow, chainOf, jar, orphaned>>
    BY <1>12 DEF SignOut
  <2>2. PICK n \in {"answered", "refused"} : call' = [call EXCEPT ![o].stage = n]
    BY <1>12 DEF SignOut, Step, o
  <2>3. /\ call' \in [Requesting -> Calls] /\ \A q \in Requesting \ {o} : call'[q] = call[q]
        /\ call'[o].stage = n /\ call'[o].heir = call[o].heir
    BY <1>1, <1>6, <2>2
  <2> QED BY <1>1, <1>4, <2>1, <2>3, QuietCallsStay
<1>13. CASE SignedOut(v)
  <2>1. UNCHANGED <<tokenRow, chainOf, orphaned>> /\ jar' \in {jar, NoTicket}
        /\ call' = [call EXCEPT ![o] = Quiet]
    BY <1>13 DEF SignedOut, Ended, o
  <2>2. /\ call' \in [Requesting -> Calls] /\ \A q \in Requesting \ {o} : call'[q] = call[q]
        /\ call'[o] = Quiet
    BY <1>1, <1>5, <1>7, <2>1
  <2> QED BY <1>1, <1>4, <1>5, <2>1, <2>2, QuietCallsStay
<1>14. Unused # {} => Fresh \in Ticket /\ tokenRow[Fresh] = "unused"
  BY DEF Fresh, Unused
<1>15. CASE SignIn(v)
  <2> DEFINE a == [stage |-> "answered", cookie |-> NoTicket, heir |-> Fresh]
  <2>1. call[i].stage = "none" /\ UNCHANGED <<chainOf, jar, orphaned>>
        /\ Unused # {} /\ tokenRow' = [tokenRow EXCEPT ![Fresh] = "live"]
        /\ call' = [call EXCEPT ![i] = a]
    BY <1>15 DEF SignIn, AtStage, i
  <2>2. a \in Calls /\ a.stage = "answered" /\ a.heir = Fresh
    BY <1>14, <2>1 DEF Calls
  <2> HIDE DEF a
  <2>3. PICK k \in Ticket : k = Fresh /\ tokenRow[k] = "unused"
    BY <1>14, <2>1
  <2>4. /\ call' \in [Requesting -> Calls] /\ \A q \in Requesting \ {i} : call'[q] = call[q]
        /\ call'[i] = a
    BY <1>1, <1>7, <2>1, <2>2
  <2>5. /\ tokenRow' \in [Ticket -> {"unused", "live", "revoked"}] /\ tokenRow'[k] = "live"
        /\ \A l \in Ticket \ {k} : tokenRow'[l] = tokenRow[l]
        /\ chainOf' \in [Ticket -> Ticket] /\ chainOf' = chainOf
    BY <2>1, <2>3 DEF TokenCore, TokenPlaces
  <2>6. call[i].heir = NoTicket
    BY <1>1, <1>3, <2>1
  <2>7. /\ call[<<v, "login">>].heir = NoTicket
        /\ \A q \in Requesting \ {<<v, "login">>} : call'[q] = call[q]
        /\ call'[<<v, "login">>].stage = "answered" /\ call'[<<v, "login">>].heir = k
    BY <2>2, <2>3, <2>4, <2>6 DEF i
  <2>8. Born(v, "login", k, NoTicket)
    BY <2>1, <2>3, <2>4, <2>5, <2>7 DEF Born
  <2> QED BY <2>8, HeirBorn
<1>16. CASE Rotate(v)
  <2>1. call[r].stage = "locked" /\ UNCHANGED <<jar, orphaned>> /\ Unused # {}
    BY <1>16 DEF Rotate, r
  <2>2. PICK k \in Ticket : k = Fresh /\ tokenRow[k] = "unused"
    BY <1>14, <2>1
  <2>3. PICK c \in Ticket : c = call[r].cookie /\ tokenRow[c] = "live"
    <3>1. call[r].cookie # NoTicket /\ tokenRow[call[r].cookie] = "live"
      BY <2>1 DEF TokenCore, RowsLocked, AtStage, r
    <3>2. call[r].cookie \in Ticket \cup {NoTicket}
      BY <1>2 DEF Calls
    <3> QED BY <3>1, <3>2
  <2>4. /\ tokenRow' = [tokenRow EXCEPT ![c] = "revoked", ![k] = "live"]
        /\ chainOf' = [chainOf EXCEPT ![k] = chainOf[c]]
        /\ call' = [call EXCEPT ![r].stage = "answered", ![r].heir = k]
    BY <1>16, <2>2, <2>3 DEF Rotate, r
  <2> DEFINE a == [call[r] EXCEPT !.stage = "answered", !.heir = k]
  <2>5. a \in Calls /\ a.stage = "answered" /\ a.heir = k
    BY <1>2 DEF Calls
  <2>6. call' = [call EXCEPT ![r] = a]
    BY <1>1, <1>2, <2>4
  <2> HIDE DEF a
  <2>7. /\ call' \in [Requesting -> Calls] /\ \A q \in Requesting \ {r} : call'[q] = call[q]
        /\ call'[r] = a
    BY <1>1, <1>7, <2>5, <2>6
  <2>8. tokenRow \in [Ticket -> {"unused", "live", "revoked"}] /\ chainOf \in [Ticket -> Ticket]
    BY DEF TokenCore, TokenPlaces
  <2>9. k # c
    BY <2>2, <2>3
  <2>10. /\ tokenRow' \in [Ticket -> {"unused", "live", "revoked"}] /\ tokenRow'[k] = "live"
         /\ \A l \in Ticket \ {k, c} : tokenRow'[l] = tokenRow[l]
         /\ tokenRow'[c] = "revoked"
    BY <2>4, <2>8, <2>9
  <2>11. /\ chainOf' \in [Ticket -> Ticket] /\ \A l \in Ticket \ {k} : chainOf'[l] = chainOf[l]
         /\ chainOf'[k] = chainOf[c]
    BY <2>4, <2>8
  <2>12. call[r].heir = NoTicket
    BY <1>1, <1>3, <2>1
  <2>13. c # NoTicket
    BY TicketAssumption
  <2>14. /\ call[<<v, "refresh">>].heir = NoTicket
         /\ \A q \in Requesting \ {<<v, "refresh">>} : call'[q] = call[q]
         /\ call'[<<v, "refresh">>].stage = "answered" /\ call'[<<v, "refresh">>].heir = k
         /\ AtStage(v, "refresh", "locked") /\ call[<<v, "refresh">>].cookie = c
    BY <2>1, <2>3, <2>5, <2>7, <2>12 DEF r, AtStage
  <2>15. Born(v, "refresh", k, c)
    BY <2>1, <2>2, <2>7, <2>10, <2>11, <2>13, <2>14 DEF Born
  <2> QED BY <2>15, HeirBorn
<1>17. CASE Granted(v, kind) \/ ReplyLost(v, kind)
  <2> DEFINE p == <<v, kind>>
  <2>1. kind \in {"refresh", "login"} /\ AtStage(v, kind, "answered")
        /\ call' = [call EXCEPT ![p] = Quiet] /\ UNCHANGED <<tokenRow, chainOf>>
    BY <1>17 DEF Granted, ReplyLost, Ended
  <2>2. \/ jar' = call[p].heir /\ orphaned' = orphaned
        \/ jar' = jar /\ orphaned' = orphaned \cup {call[p].heir}
    BY <1>17 DEF Granted, ReplyLost
  <2>3. p \in Delivering
    BY <2>1 DEF TokenCore, RepliesFormed
  <2> HIDE DEF p
  <2>4. /\ call' \in [Requesting -> Calls] /\ \A q \in Requesting \ {p} : call'[q] = call[q]
        /\ call'[p] = Quiet
    BY <1>5, <1>7, <2>1, <2>3 DEF Delivering
  <2> QED BY <1>5, <2>1, <2>2, <2>3, <2>4, HeirDelivered
<1> QED BY <1>8, <1>9, <1>10, <1>11, <1>12, <1>13, <1>15, <1>16, <1>17

LEMMA TokenCoreStays ==
  ASSUME TokenCore, [TokenNext]_tokenVars
  PROVE  TokenCore'
<1>1. CASE UNCHANGED tokenVars
  <2>1. UNCHANGED <<tokenRow, chainOf, jar, call, orphaned>>
    BY <1>1, Zenon DEF tokenVars
  <2>2. Delivering' = Delivering /\ Carrying' = Carrying
    BY <2>1 DEF Delivering, Carrying
  <2> QED BY <2>1, <2>2 DEF TokenCore, TokenPlaces, RepliesFormed, AtStage, HeirsApart, HeirsLive,
        OrphansLive, CookiesUsed, RowsLocked, OneLive, UnusedAlone, JarAnswered
<1>2. CASE TokenNext
  <2>1. "refresh" \in Kind
    BY DEF Kind
  <2> QED BY <1>2, <2>1, TokensStay DEF TokenNext
<1> QED BY <1>1, <1>2

\* refresh() of routes/auth.ts and the cookie that the tabs share: a sign-in has
\* one live token, and the browser's cookie is it, or the reply with it is on
\* its way or was lost, for any number of tabs that refresh at once.
THEOREM CookieStaysGood == TokenSpec => []JarIsUsable
<1>1. TokenCore => JarIsUsable
  <2> SUFFICES ASSUME TokenCore PROVE JarIsUsable
    OBVIOUS
  <2>1. OneLive /\ JarAnswered
    BY DEF TokenCore
  <2>2. \A k \in Ticket : (\E p \in Delivering : call[p].heir = k) => k \in InFlight
    BY DEF InFlight, Delivering, Requesting, TokenCore, RepliesFormed
  <2> QED BY <2>1, <2>2 DEF JarIsUsable, OneLive, JarAnswered
<1> QED BY <1>1, TokenStarts, TokenCoreStays, PTL DEF TokenSpec

\* The sign-in of a browser: rows, cookie, access tokens and requests have their
\* types, for any number of tabs, tokens and mishaps.
THEOREM TokenTypes == TokenSpec => []TokenTypeOK
<1> DEFINE Rest == access \in [Visitor -> BOOLEAN] /\ mishaps \in 0..MaxMishaps
<1>1. TokenInit => Rest
  BY TicketAssumption DEF TokenInit
<1>2. Rest /\ [TokenNext]_tokenVars => Rest'
  <2> SUFFICES ASSUME Rest, [TokenNext]_tokenVars PROVE Rest'
    OBVIOUS
  <2>1. mishaps' = mishaps \/ (mishaps < MaxMishaps /\ mishaps' = mishaps + 1)
    <3>1. CASE UNCHANGED tokenVars
      BY <3>1, Zenon DEF tokenVars
    <3>2. ASSUME NEW v \in Visitor,
                 Refresh(v) \/ LockRow(v) \/ Rotate(v) \/ SignIn(v) \/ Refused(v)
                   \/ SignOut(v) \/ SignedOut(v) \/ \E kind \in Kind : Granted(v, kind)
          PROVE  mishaps' = mishaps
      BY <3>2, Zenon DEF Refresh, LockRow, Rotate, SignIn, Refused, SignOut, SignedOut, Granted
    <3>3. ASSUME NEW v \in Visitor, RollBack(v) \/ \E kind \in Kind : ReplyLost(v, kind)
          PROVE  mishaps < MaxMishaps /\ mishaps' = mishaps + 1
      BY <3>3, Zenon DEF RollBack, ReplyLost
    <3> QED BY <3>1, <3>2, <3>3, Zenon DEF TokenNext
  <2>2. access' = access \/ \E v \in Visitor : \E good \in BOOLEAN : access' = [access EXCEPT ![v] = good]
    <3>1. CASE UNCHANGED tokenVars
      BY <3>1, Zenon DEF tokenVars
    <3>2. ASSUME NEW v \in Visitor, NEW kind \in Kind, ReplyLost(v, kind)
          PROVE  \E good \in BOOLEAN : access' = [access EXCEPT ![v] = good]
      <4>1. (kind = "login" /\ access[v]) \in BOOLEAN
        BY Zenon
      <4> QED BY <3>2, <4>1, Zenon DEF ReplyLost
    <3>3. ASSUME NEW v \in Visitor, NEW kind \in Kind, Granted(v, kind)
          PROVE  \E good \in BOOLEAN : access' = [access EXCEPT ![v] = good]
      BY <3>3, Zenon DEF Granted
    <3>4. ASSUME NEW v \in Visitor, Refused(v) \/ SignedOut(v)
          PROVE  \E good \in BOOLEAN : access' = [access EXCEPT ![v] = good]
      BY <3>4, Zenon DEF Refused, SignedOut
    <3>5. ASSUME NEW v \in Visitor,
                 Refresh(v) \/ LockRow(v) \/ Rotate(v) \/ RollBack(v) \/ SignIn(v) \/ SignOut(v)
          PROVE  access' = access
      BY <3>5, Zenon DEF Refresh, LockRow, Rotate, RollBack, SignIn, SignOut
    <3> QED BY <3>1, <3>2, <3>3, <3>4, <3>5, Zenon DEF TokenNext
  <2>3. access' \in [Visitor -> BOOLEAN]
    BY <2>2, Zenon
  <2> QED BY <2>1, <2>3, TicketAssumption
<1>3. TokenCore /\ Rest => TokenTypeOK
  BY DEF TokenCore, TokenPlaces, Requesting, TokenTypeOK
<1> QED BY <1>1, <1>2, <1>3, TokenStarts, TokenCoreStays, PTL DEF TokenSpec
=============================================================================
