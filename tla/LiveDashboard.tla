--------------------------- MODULE LiveDashboard ---------------------------
(***************************************************************************)
(* The live dashboard of one workspace: the sessions that authenticated    *)
(* sockets register once their folder is known, the subscribers, and the   *)
(* window in which edits collapse into one broadcast.                      *)
(***************************************************************************)
EXTENDS Naturals

CONSTANTS
  Client,   \* sockets with a file of the workspace open, of its owners
  Window    \* DEBOUNCE_MS, in ticks

ASSUME WindowAssumption == Window \in Nat \ {0}

VARIABLES
  clientAt,   \* "away", "open", "closing" (in handleDisconnect()), "closed"
  lookingUp,     \* sockets whose getFolderIdForFile() is under way
  tracked,    \* sessionTracker.sessions
  subs,       \* subscriptions.get(workspace)
  subscribed, \* connToWorkspace
  timer,      \* debounceTimers.get(workspace): ticks left, NoTimer without one
  upToDate,    \* subscribers that were sent the dashboard as it is
  overtaken   \* history: sockets that closed before their folder was known

dashVars == <<clientAt, lookingUp, tracked, subs, subscribed, timer, upToDate, overtaken>>

NoTimer == Window + 1
OpenNow(where) == {c \in Client : where[c] = "open"}

DashInit ==
  /\ clientAt = [c \in Client |-> "away"] /\ lookingUp = {} /\ tracked = {}
  /\ subs = {} /\ subscribed = {} /\ timer = NoTimer /\ upToDate = {} /\ overtaken = {}

\* broadcastSnapshot(): sockets that are not open are skipped.
Broadcast(to, where) == upToDate' = to \cap OpenNow(where)

\* Fault: the pending timer is cancelled and nothing is sent.
CancelOnly(to, where) == timer' = NoTimer /\ upToDate' = {}

\* notifyWorkspaceUpdate(workspace, true)
NotifyNow(to, where) ==
  IF to = {} THEN UNCHANGED timer /\ upToDate' = {}
  ELSE timer' = NoTimer /\ Broadcast(to, where)

---------------------------------------------------------------------------
OpenClient(c) ==
  /\ clientAt[c] = "away" /\ clientAt' = [clientAt EXCEPT ![c] = "open"]
  /\ lookingUp' = lookingUp \cup {c}
  /\ UNCHANGED <<tracked, subs, subscribed, timer, upToDate, overtaken>>

\* createSession(), for a socket that may be closed by now.
FolderFound(c) ==
  /\ c \in lookingUp /\ lookingUp' = lookingUp \ {c}
  /\ tracked' = tracked \cup {c}
  /\ NotifyNow(subs, clientAt)
  /\ overtaken' = IF clientAt[c] = "closed" THEN overtaken \cup {c} ELSE overtaken
  /\ UNCHANGED <<clientAt, subs, subscribed>>

FolderFails(c) ==
  /\ c \in lookingUp /\ lookingUp' = lookingUp \ {c}
  /\ UNCHANGED <<clientAt, tracked, subs, subscribed, timer, upToDate, overtaken>>

\* An update frame; without a session it is dropped.
RecordEdit(c) ==
  /\ clientAt[c] = "open" /\ c \in tracked
  /\ upToDate' = {}
  /\ timer' = IF subs = {} THEN timer ELSE Window
  /\ UNCHANGED <<clientAt, lookingUp, tracked, subs, subscribed, overtaken>>

\* subscribe() drops an earlier subscription first, its timer included.
Subscribe(c) ==
  /\ clientAt[c] = "open" /\ c \in tracked
  /\ subs' = subs \cup {c} /\ subscribed' = subscribed \cup {c}
  /\ timer' = NoTimer /\ Broadcast(subs', clientAt)
  /\ UNCHANGED <<clientAt, lookingUp, tracked, overtaken>>

Close(c) ==
  /\ clientAt[c] = "open" /\ clientAt' = [clientAt EXCEPT ![c] = "closing"]
  /\ upToDate' = upToDate \ {c}
  /\ UNCHANGED <<lookingUp, tracked, subs, subscribed, timer, overtaken>>

\* unsubscribe() cancels the timer when no subscriber remains.
TimerLeft(remaining) == IF remaining = {} THEN NoTimer ELSE timer

\* The end of handleDisconnect(): unsubscribe(), removeSession() and, if there
\* was a session, the broadcast.
Disconnected(c) ==
  /\ clientAt[c] = "closing" /\ clientAt' = [clientAt EXCEPT ![c] = "closed"]
  /\ LET remaining == subs \ {c}
     IN  /\ subs' = remaining /\ subscribed' = subscribed \ {c}
         /\ tracked' = tracked \ {c}
         /\ IF c \in tracked /\ remaining # {}
            THEN timer' = NoTimer /\ Broadcast(remaining, clientAt)
            ELSE /\ timer' = IF c \in subs THEN TimerLeft(remaining) ELSE timer
                 /\ UNCHANGED upToDate
  /\ UNCHANGED <<lookingUp, overtaken>>

WindowTick ==
  /\ timer \in 1..Window /\ timer' = timer - 1
  /\ UNCHANGED <<clientAt, lookingUp, tracked, subs, subscribed, upToDate, overtaken>>

TimerFires ==
  /\ timer = 0 /\ timer' = NoTimer
  /\ Broadcast(subs, clientAt)
  /\ UNCHANGED <<clientAt, lookingUp, tracked, subs, subscribed, overtaken>>

DashNext ==
  \/ \E c \in Client : \/ OpenClient(c) \/ FolderFound(c) \/ FolderFails(c)
                       \/ RecordEdit(c) \/ Subscribe(c) \/ Close(c) \/ Disconnected(c)
  \/ WindowTick \/ TimerFires

DashSpec == DashInit /\ [][DashNext]_dashVars

\* Time passes and due timers fire.
DashFairness == WF_dashVars(WindowTick) /\ WF_dashVars(TimerFires)

---------------------------------------------------------------------------
DashTypeOK ==
  /\ clientAt \in [Client -> {"away", "open", "closing", "closed"}]
  /\ lookingUp \subseteq Client /\ tracked \subseteq Client /\ overtaken \subseteq Client
  /\ subs \subseteq Client /\ subscribed \subseteq Client /\ upToDate \subseteq Client
  /\ timer \in 0..NoTimer

Stale(c) == c \in subs /\ clientAt[c] = "open" /\ c \notin upToDate

\* What the dashboard owes its subscribers is never forgotten: while one of them
\* was not sent the latest state a timer is armed, whoever else unsubscribes or
\* joins; a timer has an audience; and every session shown is one of a socket that
\* is still here, unless it closed while its folder was looked up.
DashboardExact ==
  /\ \A c \in Client : Stale(c) => timer # NoTimer
  /\ timer # NoTimer => subs # {}
  /\ subs = subscribed
  /\ \A c \in tracked : clientAt[c] \in {"open", "closing"} \/ c \in overtaken

\* Once edits pause, every subscriber gets the dashboard as it is.
DashboardCatchesUp ==
  <>[][\A c \in Client : ~RecordEdit(c)]_dashVars =>
    \A c \in Client : Stale(c) ~> ~Stale(c)
=============================================================================
