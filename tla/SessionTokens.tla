--------------------------- MODULE SessionTokens ---------------------------
(***************************************************************************)
(* The sign-in of one account in one browser: the refresh_tokens table of  *)
(* routes/auth.ts, the cookie all tabs of the browser share, and the       *)
(* TokenManager of each tab (client/src/lib/auth/tokenManager.ts).         *)
(*                                                                         *)
(* The cookie's path is /api/auth/refresh, so only a refresh carries it.   *)
(* Within a tab refreshes are coalesced; between tabs they race, and the   *)
(* browser stores the Set-Cookie of whatever reply arrives last.           *)
(***************************************************************************)
EXTENDS Naturals, FiniteSets

CONSTANTS Visitor,      \* the tabs of the browser
          Ticket,       \* refresh tokens, each generated once
          NoTicket,     \* no cookie
          MaxMishaps    \* failed transactions and lost replies of a behaviour

ASSUME TicketAssumption == NoTicket \notin Ticket /\ MaxMishaps \in Nat

VARIABLES tokenRow,       \* the row of each token: "unused", "live" or "revoked"
          chainOf,      \* the sign-in a token descends from, named by its first token
          jar,          \* the browser's cookie
          access,       \* tab -> whether its TokenManager holds an access token
          call,         \* <<tab, kind>> -> the request under way
          orphaned,     \* tokens whose Set-Cookie got lost
          mishaps

tokenVars == <<tokenRow, chainOf, jar, access, call, orphaned, mishaps>>

Kind == {"refresh", "login", "logout"}
Quiet == [stage |-> "none", cookie |-> NoTicket, heir |-> NoTicket]
Calls == [stage : {"none", "sent", "locked", "refused", "answered"},
          cookie : Ticket \cup {NoTicket}, heir : Ticket \cup {NoTicket}]

\* A generated token differs from every other one; which one it is does not matter.
Unused == {k \in Ticket : tokenRow[k] = "unused"}
Fresh == CHOOSE k \in Unused : TRUE

\* SELECT ... FOR UPDATE: the row belongs to one transaction at a time.
RowHeld(k) == \E w \in Visitor : LET c == call[<<w, "refresh">>]
                                 IN  c.stage = "locked" /\ c.cookie = k

AtStage(v, kind, stage) == call[<<v, kind>>].stage = stage
Step(v, kind, stage) == call' = [call EXCEPT ![<<v, kind>>].stage = stage]
Ended(v, kind) == call' = [call EXCEPT ![<<v, kind>>] = Quiet]

TokenInit ==
  /\ tokenRow = [k \in Ticket |-> "unused"]
  /\ chainOf = [k \in Ticket |-> k]
  /\ jar = NoTicket
  /\ access = [v \in Visitor |-> FALSE]
  /\ call = [p \in Visitor \X Kind |-> Quiet]
  /\ orphaned = {}
  /\ mishaps = 0

-----------------------------------------------------------------------------
\* TokenManager.refresh(), at the start of a page or with an expired access
\* token; a second call of the tab waits for the first.
Refresh(v) ==
  /\ AtStage(v, "refresh", "none")
  /\ call' = [call EXCEPT ![<<v, "refresh">>] =
                [stage |-> "sent", cookie |-> jar, heir |-> NoTicket]]
  /\ UNCHANGED <<tokenRow, chainOf, jar, access, orphaned, mishaps>>

\* Fault: the update of the reuse branch survives the exception.
LockRowRevokes(v) ==
  LET c == call[<<v, "refresh">>]
  IN  /\ c.stage = "sent"
      /\ ~RowHeld(c.cookie)
      /\ Step(v, "refresh",
              IF c.cookie # NoTicket /\ tokenRow[c.cookie] = "live" THEN "locked" ELSE "refused")
      /\ tokenRow' = IF c.cookie # NoTicket /\ tokenRow[c.cookie] = "revoked"
                   THEN [k \in Ticket |-> IF tokenRow[k] = "live" THEN "revoked" ELSE tokenRow[k]]
                   ELSE tokenRow
      /\ UNCHANGED <<chainOf, jar, access, orphaned, mishaps>>

\* The handler reads the row under its lock.  A row that was revoked makes it
\* revoke the other tokens of the user and then throw, and the rollback of
\* withTransaction() undoes that update with the rest: nothing is revoked.
LockRow(v) ==
  LET c == call[<<v, "refresh">>]
  IN  /\ c.stage = "sent"
      /\ ~RowHeld(c.cookie)
      /\ Step(v, "refresh",
              IF c.cookie # NoTicket /\ tokenRow[c.cookie] = "live" THEN "locked" ELSE "refused")
      /\ UNCHANGED <<tokenRow, chainOf, jar, access, orphaned, mishaps>>

\* The heir is inserted, the token revoked in its favour, and both commit.
Rotate(v) ==
  LET c == call[<<v, "refresh">>]
  IN  /\ c.stage = "locked"
      /\ Unused # {}
      /\ tokenRow' = [tokenRow EXCEPT ![c.cookie] = "revoked", ![Fresh] = "live"]
      /\ chainOf' = [chainOf EXCEPT ![Fresh] = chainOf[c.cookie]]
      /\ call' = [call EXCEPT ![<<v, "refresh">>].stage = "answered",
                              ![<<v, "refresh">>].heir = Fresh]
      /\ UNCHANGED <<jar, access, orphaned, mishaps>>

\* A statement of the transaction fails: it is rolled back, the reply is a 500.
RollBack(v) ==
  /\ mishaps < MaxMishaps /\ mishaps' = mishaps + 1
  /\ AtStage(v, "refresh", "locked")
  /\ Step(v, "refresh", "refused")
  /\ UNCHANGED <<tokenRow, chainOf, jar, access, orphaned>>

\* login() or register(): a token of its own, whatever the cookie was.
SignIn(v) ==
  /\ AtStage(v, "login", "none")
  /\ Unused # {}
  /\ tokenRow' = [tokenRow EXCEPT ![Fresh] = "live"]
  /\ call' = [call EXCEPT ![<<v, "login">>] =
                [stage |-> "answered", cookie |-> NoTicket, heir |-> Fresh]]
  /\ UNCHANGED <<chainOf, jar, access, orphaned, mishaps>>

\* A good reply: the browser stores the cookie, the tab its access token.
Granted(v, kind) ==
  /\ kind \in {"refresh", "login"}
  /\ AtStage(v, kind, "answered")
  /\ jar' = call[<<v, kind>>].heir
  /\ access' = [access EXCEPT ![v] = TRUE]
  /\ Ended(v, kind)
  /\ UNCHANGED <<tokenRow, chainOf, orphaned, mishaps>>

\* A refused refresh clears the tab's token and leaves the cookie alone.
Refused(v) ==
  /\ AtStage(v, "refresh", "refused")
  /\ access' = [access EXCEPT ![v] = FALSE]
  /\ Ended(v, "refresh")
  /\ UNCHANGED <<tokenRow, chainOf, jar, orphaned, mishaps>>

\* The reply never arrives, or the page is left before it does.
ReplyLost(v, kind) ==
  /\ mishaps < MaxMishaps /\ mishaps' = mishaps + 1
  /\ kind \in {"refresh", "login"}
  /\ AtStage(v, kind, "answered")
  /\ orphaned' = orphaned \cup {call[<<v, kind>>].heir}
  /\ access' = [access EXCEPT ![v] = kind = "login" /\ access[v]]
  /\ Ended(v, kind)
  /\ UNCHANGED <<tokenRow, chainOf, jar>>

\* logout(): the request has no cookie to revoke; an access token that is still
\* good makes the reply clear the cookie, any other answer leaves it.
SignOut(v) ==
  /\ AtStage(v, "logout", "none")
  /\ \E good \in BOOLEAN : Step(v, "logout", IF good /\ access[v] THEN "answered" ELSE "refused")
  /\ UNCHANGED <<tokenRow, chainOf, jar, access, orphaned, mishaps>>

SignedOut(v) ==
  /\ call[<<v, "logout">>].stage \in {"answered", "refused"}
  /\ jar' = IF AtStage(v, "logout", "answered") THEN NoTicket ELSE jar
  /\ access' = [access EXCEPT ![v] = FALSE]
  /\ Ended(v, "logout")
  /\ UNCHANGED <<tokenRow, chainOf, orphaned, mishaps>>

TokenNext ==
  \E v \in Visitor :
    \/ Refresh(v) \/ LockRow(v) \/ Rotate(v) \/ RollBack(v)
    \/ SignIn(v) \/ Refused(v) \/ SignOut(v) \/ SignedOut(v)
    \/ \E kind \in Kind : Granted(v, kind) \/ ReplyLost(v, kind)

TokenSpec == TokenInit /\ [][TokenNext]_tokenVars

-----------------------------------------------------------------------------
\* Types.
TokenTypeOK ==
  /\ tokenRow \in [Ticket -> {"unused", "live", "revoked"}]
  /\ chainOf \in [Ticket -> Ticket]
  /\ jar \in Ticket \cup {NoTicket}
  /\ access \in [Visitor -> BOOLEAN]
  /\ call \in [Visitor \X Kind -> Calls]
  /\ orphaned \subseteq Ticket
  /\ mishaps \in 0..MaxMishaps

InFlight == {call[p].heir : p \in {q \in Visitor \X Kind : call[q].stage = "answered"}}

\* However the tabs' refreshes, sign-ins and sign-outs overlap, every sign-in
\* has one live token, and the cookie the browser keeps is that token, unless
\* the live one is in a reply still under way or in one that got lost: no
\* interleaving alone leaves the browser with a cookie that is good for nothing.
JarIsUsable ==
  /\ \A k, l \in Ticket :
       tokenRow[k] = "live" /\ tokenRow[l] = "live" /\ chainOf[k] = chainOf[l] => k = l
  /\ jar # NoTicket =>
       \E k \in Ticket : /\ tokenRow[k] = "live" /\ chainOf[k] = chainOf[jar]
                         /\ k = jar \/ k \in InFlight \cup orphaned
=============================================================================
