---------------------------- MODULE SessionGate ----------------------------
(***************************************************************************)
(* What lets a socket in: the token bucket of handleConnection(), and in   *)
(* handleAuthMessage() the slots for authentications under way, the breaker*)
(* that database failures open, and the sessions a user may hold at once.  *)
(* handleAuthMessage() is split at its awaits.                             *)
(***************************************************************************)
EXTENDS Naturals, FiniteSets

CONSTANTS
  Socket,     \* the sockets that are opened
  Account,    \* the users
  Capacity,   \* bucketCapacity
  MaxSeats,   \* MAX_SESSIONS_PER_USER
  MaxAuths,   \* MAX_AUTH_INFLIGHT
  Threshold   \* DB_FAILURE_THRESHOLD

ASSUME GateAssumption ==
  /\ Capacity \in Nat /\ MaxSeats \in Nat /\ MaxAuths \in Nat /\ Threshold \in Nat

VARIABLES
  account,   \* whom the token of a socket is for
  tokens,    \* tokens
  authAt,    \* how far handleAuthMessage() is
  hungUp,    \* conn.disconnected
  seats,     \* userConnectionCounts
  auths,     \* authInProgress
  failures,  \* dbFailureCount
  breaker,   \* dbBreakerOpen
  early      \* history: sockets that hung up before conn.userId was set

gateVars == <<account, tokens, authAt, hungUp, seats, auths, failures, breaker, early>>

GateInit ==
  /\ account \in [Socket -> Account]
  /\ tokens = Capacity /\ authAt = [c \in Socket |-> "new"] /\ hungUp = {}
  /\ seats = [u \in Account |-> {}] /\ auths = 0
  /\ failures = 0 /\ breaker = FALSE /\ early = {}

Moves(c, from, to) == authAt[c] = from /\ authAt' = [authAt EXCEPT ![c] = to]

\* recordDbFailure()
DbFailure ==
  /\ failures' = failures + 1
  /\ breaker' = (breaker \/ failures + 1 >= Threshold)

---------------------------------------------------------------------------
\* tryAdmit(): a token, or a hint to come back later.
Admit(c) ==
  /\ IF tokens >= 1 THEN Moves(c, "new", "admitted") /\ tokens' = tokens - 1
                    ELSE Moves(c, "new", "closed") /\ UNCHANGED tokens
  /\ UNCHANGED <<account, hungUp, seats, auths, failures, breaker, early>>

Refill ==
  /\ tokens < Capacity /\ tokens' = tokens + 1
  /\ UNCHANGED <<account, authAt, hungUp, seats, auths, failures, breaker, early>>

\* The auth message.
BeginAuth(c) ==
  /\ c \notin hungUp
  /\ IF auths >= MaxAuths \/ breaker
     THEN Moves(c, "admitted", "closed") /\ UNCHANGED auths
     ELSE Moves(c, "admitted", "verifying") /\ auths' = auths + 1
  /\ UNCHANGED <<account, tokens, hungUp, seats, failures, breaker, early>>

\* The token or the role does not let the user in, or the database fails.
Deny(c) ==
  /\ Moves(c, "verifying", "closed") /\ auths' = auths - 1
  /\ DbFailure \/ UNCHANGED <<failures, breaker>>
  /\ UNCHANGED <<account, tokens, hungUp, seats, early>>

\* Fault: the number of sessions is not looked at again after the awaits.
HasSeatStale(c) == TRUE

HasSeat(c) == Cardinality(seats[account[c]]) < MaxSeats

\* Guard 2, the registration and conn.userId, without an await in between.  The
\* socket may have hung up.
TakeSeat(c) ==
  /\ IF HasSeat(c)
     THEN /\ Moves(c, "verifying", "joining")
          /\ seats' = [seats EXCEPT ![account[c]] = @ \cup {c}]
          /\ UNCHANGED auths
     ELSE /\ Moves(c, "verifying", "closed") /\ auths' = auths - 1
          /\ UNCHANGED seats
  /\ UNCHANGED <<account, tokens, hungUp, failures, breaker, early>>

\* The room is there: recordDbSuccess().
EnterRoom(c) ==
  /\ Moves(c, "joining", "in") /\ auths' = auths - 1 /\ failures' = 0
  /\ UNCHANGED <<account, tokens, hungUp, seats, breaker, early>>

\* The socket is closed; its seat is freed when the close event comes.
JoinFails(c) ==
  /\ Moves(c, "joining", "torn") /\ auths' = auths - 1 /\ DbFailure
  /\ UNCHANGED <<account, tokens, hungUp, seats, early>>

\* The seat is freed if conn.userId is set.
Freed(c) == IF authAt[c] \in {"joining", "in", "torn"} THEN {c} ELSE {}

HangUp(c) ==
  /\ authAt[c] \notin {"new", "closed"} /\ c \notin hungUp
  /\ hungUp' = hungUp \cup {c}
  /\ seats' = [seats EXCEPT ![account[c]] = @ \ Freed(c)]
  /\ early' = IF authAt[c] = "verifying" THEN early \cup {c} ELSE early
  /\ UNCHANGED <<account, tokens, authAt, auths, failures, breaker>>

\* DB_BREAKER_COOLDOWN_MS passes.
CloseBreaker ==
  /\ breaker /\ breaker' = FALSE /\ failures' = 0
  /\ UNCHANGED <<account, tokens, authAt, hungUp, seats, auths, early>>

GateNext ==
  \/ \E c \in Socket : \/ Admit(c) \/ BeginAuth(c) \/ Deny(c) \/ TakeSeat(c)
                       \/ EnterRoom(c) \/ JoinFails(c) \/ HangUp(c)
  \/ Refill \/ CloseBreaker

GateSpec == GateInit /\ [][GateNext]_gateVars

---------------------------------------------------------------------------
GateTypeOK ==
  /\ account \in [Socket -> Account] /\ tokens \in 0..Capacity
  /\ authAt \in [Socket -> {"new", "admitted", "verifying", "joining", "in", "torn", "closed"}]
  /\ hungUp \subseteq Socket /\ early \subseteq Socket
  /\ seats \in [Account -> SUBSET Socket]
  /\ auths \in Nat /\ failures \in Nat /\ breaker \in BOOLEAN

Seated(u) == {c \in Socket : account[c] = u /\ authAt[c] \in {"joining", "in", "torn"}}

\* The seats of a user are the open sockets that passed Guard 2, never more than
\* the limit, and any other seat belongs to a socket that hung up while its token
\* was being verified: whatever else fails or closes, no seat is lost or kept.
SeatsExact ==
  \A u \in Account :
    /\ Cardinality(seats[u]) <= MaxSeats
    /\ Seated(u) \ hungUp \subseteq seats[u]
    /\ seats[u] \subseteq (Seated(u) \ hungUp) \cup early

\* An authentication gives its slot back on every way out.
SlotsReturned ==
  auths = Cardinality({c \in Socket : authAt[c] \in {"verifying", "joining"}})
=============================================================================
