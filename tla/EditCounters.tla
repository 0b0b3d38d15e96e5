---------------------------- MODULE EditCounters ----------------------------
(***************************************************************************)
(* The edits of one user in one file: the counter that the room keeps, the *)
(* flushes that drain it into edit_sessions, and the session rows that the *)
(* user's tabs start and end.  startSession() is a SELECT and an INSERT    *)
(* that nobody awaits.                                                     *)
(***************************************************************************)
EXTENDS Naturals, Sequences, FiniteSets

CONSTANTS
  Tab,       \* the user's connections to the file
  MaxEdits   \* bound on the edits

ASSUME TabAssumption == IsFiniteSet(Tab) /\ MaxEdits \in Nat

VARIABLES
  tabAt,      \* how far a tab is, and after that its handleDisconnect()
  present,    \* Room.connections
  roomOpen,   \* the room store has the room
  pendingEdits,    \* pendingEdits of that room
  begun,      \* conn.sessionStarted
  starting,   \* startSession() of a tab: "no", "selecting", "inserting"
  flushing,   \* the count that the periodic flush has drained and not stored
  carried,    \* the count that a disconnect has drained and not stored
  lastHere,   \* disconnects that found no other tab of the user
  sessions,   \* edit_sessions: [open, edits] in the order of their creation
  made,       \* history: the edits that trackEdit() counted
  bothStarting     \* history: two startSession() calls were between SELECT and INSERT

counterVars == <<tabAt, present, roomOpen, pendingEdits, begun, starting, flushing,
                 carried, lastHere, sessions, made, bothStarting>>

CounterInit ==
  /\ tabAt = [t \in Tab |-> "away"] /\ present = {} /\ roomOpen = FALSE
  /\ pendingEdits = 0 /\ begun = {} /\ starting = [t \in Tab |-> "no"]
  /\ flushing = 0 /\ carried = [t \in Tab |-> 0] /\ lastHere = {}
  /\ sessions = << >> /\ made = 0 /\ bothStarting = FALSE

Open == {i \in DOMAIN sessions : sessions[i].open}

---------------------------------------------------------------------------
\* A new room has an empty counter.
JoinTab(t) ==
  /\ tabAt[t] = "away" /\ tabAt' = [tabAt EXCEPT ![t] = "in"]
  /\ present' = present \cup {t} /\ roomOpen' = TRUE
  /\ UNCHANGED <<pendingEdits, begun, starting, flushing, carried, lastHere, sessions,
                 made, bothStarting>>

\* The end of handleDataMessage(); the frame goes to the room that the store has.
\* The first one starts the session.
TrackEdit(t) ==
  /\ tabAt[t] = "in" /\ roomOpen /\ made < MaxEdits
  /\ begun' = begun \cup {t}
  /\ starting' = IF t \in begun THEN starting
                 ELSE [starting EXCEPT ![t] = "selecting"]
  /\ pendingEdits' = pendingEdits + 1 /\ made' = made + 1
  /\ UNCHANGED <<tabAt, present, roomOpen, flushing, carried, lastHere, sessions, bothStarting>>

---------------------------------------------------------------------------
(* startSession() *)

SelectSession(t) ==
  /\ starting[t] = "selecting"
  /\ starting' = [starting EXCEPT ![t] = IF Open # {} THEN "no" ELSE "inserting"]
  /\ bothStarting' = (bothStarting \/ (Open = {} /\ \E u \in Tab : starting[u] = "inserting"))
  /\ UNCHANGED <<tabAt, present, roomOpen, pendingEdits, begun, flushing, carried,
                 lastHere, sessions, made>>

InsertSession(t) ==
  /\ starting[t] = "inserting" /\ starting' = [starting EXCEPT ![t] = "no"]
  /\ sessions' = Append(sessions, [open |-> TRUE, edits |-> 0])
  /\ UNCHANGED <<tabAt, present, roomOpen, pendingEdits, begun, flushing, carried,
                 lastHere, made, bothStarting>>

\* The error is logged, and the tab does not try again.
StartFails(t) ==
  /\ starting[t] # "no" /\ starting' = [starting EXCEPT ![t] = "no"]
  /\ UNCHANGED <<tabAt, present, roomOpen, pendingEdits, begun, flushing, carried,
                 lastHere, sessions, made, bothStarting>>

---------------------------------------------------------------------------
(* incrementEditsBy(), with or without success *)

\* Every open session of the user gets the count.
Stored(n) ==
  [i \in DOMAIN sessions |-> IF sessions[i].open
                             THEN [sessions[i] EXCEPT !.edits = @ + n] ELSE sessions[i]]

\* Fault: the counter is read and not cleared.
DrainKeeps == pendingEdits

\* drainPendingEdits(), drainUserPendingEdits()
Drained == 0

\* flushPendingEdits(): one at a time.
BeginFlush ==
  /\ flushing = 0 /\ roomOpen /\ pendingEdits > 0
  /\ flushing' = pendingEdits /\ pendingEdits' = Drained
  /\ UNCHANGED <<tabAt, present, roomOpen, begun, starting, carried, lastHere,
                 sessions, made, bothStarting>>

EndFlush ==
  /\ flushing > 0 /\ flushing' = 0
  /\ sessions' \in {sessions, Stored(flushing)}
  /\ UNCHANGED <<tabAt, present, roomOpen, pendingEdits, begun, starting, carried,
                 lastHere, made, bothStarting>>

---------------------------------------------------------------------------
(* handleDisconnect() *)

\* The user's last tab takes the counter along.  Without the room in the store
\* there is nothing to do.
LeaveTab(t) ==
  /\ tabAt[t] = "in"
  /\ IF ~roomOpen
     THEN /\ tabAt' = [tabAt EXCEPT ![t] = "gone"]
          /\ UNCHANGED <<pendingEdits, carried, lastHere, present>>
     ELSE /\ tabAt' = [tabAt EXCEPT ![t] = "flushing"]
          /\ present' = present \ {t}
          /\ IF present' = {}
             THEN /\ lastHere' = lastHere \cup {t}
                  /\ carried' = [carried EXCEPT ![t] = pendingEdits] /\ pendingEdits' = Drained
             ELSE UNCHANGED <<pendingEdits, carried, lastHere>>
  /\ UNCHANGED <<roomOpen, begun, starting, flushing, sessions, made, bothStarting>>

\* The flush is over; the room is saved if nobody is in it, other users included.
LeaveFlushed(t) ==
  /\ tabAt[t] = "flushing"
  /\ \E next \in {"saving", "ending"} :
       /\ next = "saving" => present = {} /\ roomOpen
       /\ tabAt' = [tabAt EXCEPT ![t] = next]
  /\ carried' = [carried EXCEPT ![t] = 0]
  /\ sessions' \in {sessions, Stored(carried[t])}
  /\ UNCHANGED <<present, roomOpen, pendingEdits, begun, starting, flushing, lastHere,
                 made, bothStarting>>

\* The room goes with its counter, whoever joined while it was saved; if somebody
\* did, destroy() throws and the handler ends here.
LeaveSaved(t) ==
  /\ tabAt[t] = "saving"
  /\ tabAt' = [tabAt EXCEPT ![t] = IF roomOpen /\ present = {} THEN "ending" ELSE "gone"]
  /\ roomOpen' = FALSE /\ present' = {} /\ pendingEdits' = 0
  /\ UNCHANGED <<begun, starting, flushing, carried, lastHere, sessions, made, bothStarting>>

\* endSession() ends every open session of the user, or fails.
LeaveEnded(t) ==
  /\ tabAt[t] = "ending" /\ tabAt' = [tabAt EXCEPT ![t] = "gone"]
  /\ sessions' \in {sessions} \cup
       (IF t \in lastHere \cap begun
        THEN {[i \in DOMAIN sessions |-> [sessions[i] EXCEPT !.open = FALSE]]} ELSE {})
  /\ UNCHANGED <<present, roomOpen, pendingEdits, begun, starting, flushing, carried,
                 lastHere, made, bothStarting>>

CounterNext ==
  \/ \E t \in Tab :
       \/ JoinTab(t) \/ TrackEdit(t)
       \/ SelectSession(t) \/ InsertSession(t) \/ StartFails(t)
       \/ LeaveTab(t) \/ LeaveFlushed(t) \/ LeaveSaved(t) \/ LeaveEnded(t)
  \/ BeginFlush \/ EndFlush

CounterSpec == CounterInit /\ [][CounterNext]_counterVars

---------------------------------------------------------------------------
CounterTypeOK ==
  /\ tabAt \in [Tab -> {"away", "in", "flushing", "saving", "ending", "gone"}]
  /\ present \subseteq Tab /\ begun \subseteq Tab /\ lastHere \subseteq Tab
  /\ roomOpen \in BOOLEAN /\ bothStarting \in BOOLEAN
  /\ pendingEdits \in Nat /\ flushing \in Nat /\ carried \in [Tab -> Nat] /\ made \in Nat
  /\ starting \in [Tab -> {"no", "selecting", "inserting"}]
  /\ sessions \in Seq([open : BOOLEAN, edits : Nat])

\* What f counts for the elements of S, one by one, and for all of its domain.
Units(f, S) == UNION {{x} \X (1..f[x]) : x \in S}
Total(f) == Cardinality(Units(f, DOMAIN f))

\* No edit is counted twice: as long as no two tabs were starting a session at
\* once, the edits in edit_sessions and those still on their way there are never
\* more than the user made, with whatever tabs, flushes and disconnects.
CountedOnce ==
  ~bothStarting =>
    /\ Cardinality(Open) <= 1
    /\ Total([i \in DOMAIN sessions |-> sessions[i].edits]) + pendingEdits + flushing
         + Total(carried) <= made
=============================================================================
