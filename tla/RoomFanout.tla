------------------------------ MODULE RoomFanout ------------------------------
(***************************************************************************)
(* One room and the browsers that edit it: the handshake of                 *)
(* useCollaboration, the merge of their updates, and broadcastBinary() with *)
(* the backpressure of each socket.                                         *)
(*                                                                          *)
(* A Y.Doc is the set of the updates merged into it, a state vector is the  *)
(* set of the updates it covers, and a diff is a set difference.  A frame   *)
(* counts as one unit of bufferedAmount.  skippedUpdates is kept only as    *)
(* "zero or not", all the code ever asks of it.                             *)
(***************************************************************************)
EXTENDS Naturals, Sequences, FiniteSets

CONSTANTS
  Clients,      \* the browsers
  Editors,      \* those whose role may write; the others are viewers
  Updates,      \* what they may type
  HighWater,    \* BACKPRESSURE_HIGH_WATER, in frames
  None,         \* lastKnownStateVector is not set
  LowWater,     \* BACKPRESSURE_LOW_WATER, in frames
  MaxConnects   \* bound: connections a browser opens

ASSUME FanoutAssumption ==
  /\ Editors \subseteq Clients
  /\ HighWater \in Nat /\ LowWater \in Nat /\ LowWater < HighWater
  /\ MaxConnects \in Nat /\ \A v \in SUBSET Updates : v # None

VARIABLES
  doc,        \* the room's Y.Doc
  appending,  \* client -> the handlers of its updates that await the log append
  typed,      \* all updates made so far
  local,      \* client -> the browser's Y.Doc
  link,       \* client -> "down", "joined" (in the room), "ready" (auth_success
              \*           seen), "closing" (terminated by the server)
  connects,   \* client -> connections opened
  live,       \* client -> the session of its connection is tracked
  inbox,      \* client -> frames on their way to the server
  buffer,     \* client -> frames in the socket on their way to the client
  paused,     \* client -> BackpressureState.paused
  skipped,    \* client -> BackpressureState.skippedUpdates # 0
  lastKnown,  \* client -> BackpressureState.lastKnownStateVector
  overrun     \* client -> updates that hit the high-water mark (history)

sockets == <<link, connects, live, inbox, buffer>>
pressure == <<paused, skipped, lastKnown, overrun>>
vars == <<doc, appending, typed, local, sockets, pressure>>

Docs == SUBSET Updates
Frame == [kind : {"auth", "update", "step1"}, upd : Docs]
Up(u)    == [kind |-> "update", upd |-> u]
Step1(v) == [kind |-> "step1", upd |-> v]
AuthSuccess == [kind |-> "auth", upd |-> {}]

Open(c) == link[c] \in {"joined", "ready"}

Init ==
  /\ doc = {} /\ typed = {}
  /\ appending = [c \in Clients |-> {}]
  /\ local = [c \in Clients |-> {}]
  /\ link = [c \in Clients |-> "down"]
  /\ connects = [c \in Clients |-> 0]
  /\ live = [c \in Clients |-> FALSE]
  /\ inbox = [c \in Clients |-> <<>>]
  /\ buffer = [c \in Clients |-> <<>>]
  /\ paused = [c \in Clients |-> FALSE]
  /\ skipped = [c \in Clients |-> FALSE]
  /\ lastKnown = [c \in Clients |-> None]
  /\ overrun = [c \in Clients |-> {}]

-----------------------------------------------------------------------------
(* broadcastBinary() and sendCatchupDiff() *)

\* Fault: the diff is taken from the room's own state vector.
KnownByTheRoom(c) == doc

Known(c) == IF lastKnown[c] = None THEN {} ELSE lastKnown[c]

\* Fault: the buffer has to be below the low-water mark, which may be zero.
StuckAtMark(c) == paused[c] /\ Len(buffer[c]) >= LowWater

\* Fault: as needsCatchupDiff() of ws/backpressure.ts, which nobody calls.
CatchesUpNever(c) == FALSE

\* isBackpressured() looks at bufferedAmount: what it decides for one socket.
Sends(c)    == ~paused[c] /\ Len(buffer[c]) < HighWater
Pauses(c)   == ~paused[c] /\ Len(buffer[c]) >= HighWater
Resumes(c)  == paused[c] /\ Len(buffer[c]) <= LowWater
Stuck(c)    == paused[c] /\ Len(buffer[c]) > LowWater
CatchesUp(c) == Resumes(c) /\ skipped[c]

\* The frame u leaves for the sockets of to; d is the room's document by then.
\* The sockets of late were paused for BACKPRESSURE_TIMEOUT_MS: terminated.
Broadcast(u, d, to, late) ==
  /\ late \subseteq {c \in to : Stuck(c)}
  /\ buffer' = [c \in Clients |->
       IF c \notin to \/ Pauses(c) \/ Stuck(c) THEN buffer[c]
       ELSE IF CatchesUp(c) THEN Append(Append(buffer[c], Up(d \ Known(c))), Up(u))
       ELSE Append(buffer[c], Up(u))]
  /\ lastKnown' = [c \in Clients |-> IF c \in to /\ CatchesUp(c) THEN d ELSE lastKnown[c]]
  /\ paused' = [c \in Clients |-> IF c \in to THEN Pauses(c) \/ Stuck(c) ELSE paused[c]]
  /\ skipped' = [c \in Clients |->
       IF c \in late \/ c \notin to \/ Sends(c) THEN skipped[c] ELSE Stuck(c)]
  /\ overrun' = [c \in Clients |->
       IF c \in to /\ Pauses(c) THEN overrun[c] \cup u ELSE overrun[c]]
  /\ link' = [c \in Clients |-> IF c \in late THEN "closing" ELSE link[c]]

\* Every open socket but the n-th of c.
Others(c, n) == {d \in Clients : Open(d) /\ (d # c \/ connects[c] # n)}

-----------------------------------------------------------------------------
(* The browser *)

\* connect(): the server authenticated the socket, added it to the room, sent
\* auth_success and the SyncStep1 of the room.
Connect(c) ==
  /\ link[c] = "down" /\ connects[c] < MaxConnects
  /\ link' = [link EXCEPT ![c] = "joined"]
  /\ connects' = [connects EXCEPT ![c] = @ + 1]
  /\ buffer' = [buffer EXCEPT ![c] = <<AuthSuccess, Step1(doc)>>]
  /\ UNCHANGED <<doc, appending, typed, local, live, inbox, pressure>>

\* An editor types.  Without a ready socket the update stays in the browser.
Edit(c, u) ==
  /\ c \in Editors /\ u \notin typed
  /\ typed' = typed \cup {u}
  /\ local' = [local EXCEPT ![c] = @ \cup {u}]
  /\ inbox' = [inbox EXCEPT ![c] = IF link[c] = "ready" THEN Append(@, Up({u})) ELSE @]
  /\ UNCHANGED <<doc, appending, link, connects, live, buffer, pressure>>

\* ws.onmessage: the head of the socket's buffer reaches the browser.
Receive(c) ==
  /\ Open(c) /\ buffer[c] # <<>>
  /\ LET frame == Head(buffer[c]) IN
     /\ link' = [link EXCEPT ![c] = IF frame.kind = "auth" THEN "ready" ELSE @]
     /\ local' = [local EXCEPT ![c] = IF frame.kind = "update" THEN @ \cup frame.upd ELSE @]
     /\ inbox' = [inbox EXCEPT ![c] =
          IF frame.kind = "auth" THEN Append(@, Step1(local[c]))
          ELSE IF frame.kind = "step1" THEN Append(@, Up(local[c] \ frame.upd))
          ELSE @]
  /\ buffer' = [buffer EXCEPT ![c] = Tail(@)]
  /\ UNCHANGED <<doc, appending, typed, connects, live, pressure>>

\* Fault: the state of the socket object stands for the connection.
CloseKept(c) ==
  /\ link[c] # "down"
  /\ link' = [link EXCEPT ![c] = "closed"]
  /\ UNCHANGED <<doc, appending, typed, local, connects, live, inbox, buffer, pressure>>

\* The socket closes; what it held in either direction is lost and the room
\* forgets the connection.  Handlers that already run are not stopped.
Close(c) ==
  /\ link[c] # "down"
  /\ link' = [link EXCEPT ![c] = "down"]
  /\ live' = [live EXCEPT ![c] = FALSE]
  /\ inbox' = [inbox EXCEPT ![c] = <<>>]
  /\ buffer' = [buffer EXCEPT ![c] = <<>>]
  /\ paused' = [paused EXCEPT ![c] = FALSE]
  /\ skipped' = [skipped EXCEPT ![c] = FALSE]
  /\ lastKnown' = [lastKnown EXCEPT ![c] = None]
  /\ overrun' = [overrun EXCEPT ![c] = {}]
  /\ UNCHANGED <<doc, appending, typed, local, connects>>

-----------------------------------------------------------------------------
(* The server *)

\* getFolderIdForFile() answered after the handshake: the session is tracked.
Track(c) ==
  /\ Open(c) /\ ~live[c]
  /\ live' = [live EXCEPT ![c] = TRUE]
  /\ UNCHANGED <<doc, appending, typed, local, link, connects, inbox, buffer, pressure>>

\* handleDataMessage() up to its first await, of a frame whose connection has no
\* live session, whose sender sent too many of them this second, or an update of
\* a viewer (its SyncStep2): dropped.
Drop(c) ==
  /\ Open(c) /\ inbox[c] # <<>>
  /\ inbox' = [inbox EXCEPT ![c] = Tail(@)]
  /\ UNCHANGED <<doc, appending, typed, local, link, connects, live, buffer, pressure>>

\* The same for any other frame.  SyncStep1 is answered past the backpressure.
AnswerStep1(c) ==
  /\ Open(c) /\ live[c] /\ inbox[c] # <<>> /\ Head(inbox[c]).kind = "step1"
  /\ LET sv == Head(inbox[c]).upd IN
     /\ lastKnown' = [lastKnown EXCEPT ![c] = sv]
     /\ buffer' = [buffer EXCEPT ![c] = Append(@, Up(doc \ sv))]
  /\ inbox' = [inbox EXCEPT ![c] = Tail(@)]
  /\ UNCHANGED <<doc, appending, typed, local, link, connects, live, paused, skipped, overrun>>

\* An editor's update starts its append to the log.
StartAppend(c) ==
  /\ c \in Editors /\ Open(c) /\ live[c] /\ inbox[c] # <<>> /\ Head(inbox[c]).kind = "update"
  /\ appending' = [appending EXCEPT ![c] =
                     @ \cup {[conn |-> connects[c], upd |-> Head(inbox[c]).upd]}]
  /\ inbox' = [inbox EXCEPT ![c] = Tail(@)]
  /\ UNCHANGED <<doc, typed, local, link, connects, live, buffer, pressure>>

\* The append returned a row id: applyClientUpdate() merges and broadcasts.
\* Appends of one client may return in any order.
Apply(c, h, late) ==
  /\ h \in appending[c]
  /\ appending' = [appending EXCEPT ![c] = @ \ {h}]
  /\ doc' = doc \cup h.upd
  /\ Broadcast(h.upd, doc \cup h.upd, Others(c, h.conn), late)
  /\ UNCHANGED <<typed, local, connects, live, inbox>>

\* The append failed: the update is dropped and the sender is not told.
AppendFails(c, h) ==
  /\ h \in appending[c]
  /\ appending' = [appending EXCEPT ![c] = @ \ {h}]
  /\ UNCHANGED <<doc, typed, local, sockets, pressure>>

\* handleAwarenessMsg(): a cursor, or the renewal every browser sends by itself,
\* goes through the same broadcast.
Awareness(c, late) ==
  /\ link[c] = "ready" /\ live[c]
  /\ Broadcast({}, doc, Others(c, connects[c]), late)
  /\ UNCHANGED <<doc, appending, typed, local, connects, live, inbox>>

-----------------------------------------------------------------------------
Next ==
  \E c \in Clients :
    \/ Connect(c) \/ Receive(c) \/ Close(c) \/ Track(c)
    \/ Drop(c) \/ AnswerStep1(c) \/ StartAppend(c)
    \/ \E u \in Updates : Edit(c, u)
    \/ \E h \in appending[c] : AppendFails(c, h)
    \/ \E late \in SUBSET Clients :
         Awareness(c, late) \/ \E h \in appending[c] : Apply(c, h, late)

Spec == Init /\ [][Next]_vars

-----------------------------------------------------------------------------
(* Properties *)

\* The updates the frames of a socket carry, and what c holds or will hold once
\* its socket has drained.
Coming(frames) == UNION {frames[i].upd : i \in {j \in DOMAIN frames : frames[j].kind = "update"}}
Has(c) == local[c] \cup Coming(buffer[c])

TypeOK ==
  /\ doc \in Docs /\ typed \in Docs
  /\ appending \in [Clients -> SUBSET [conn : Nat, upd : Docs]]
  /\ local \in [Clients -> Docs]
  /\ link \in [Clients -> {"down", "joined", "ready", "closing"}]
  /\ connects \in [Clients -> Nat]
  /\ live \in [Clients -> BOOLEAN]
  /\ inbox \in [Clients -> Seq(Frame)]
  /\ buffer \in [Clients -> Seq(Frame)]
  /\ paused \in [Clients -> BOOLEAN]
  /\ skipped \in [Clients -> BOOLEAN]
  /\ lastKnown \in [Clients -> {None} \cup Docs]
  /\ overrun \in [Clients -> Docs]

\* The state vector kept for a browser never covers an update the browser was
\* not sent: sendCatchupDiff() may leave out all it covers.
KnownIsHeld == \A c \in Clients : lastKnown[c] # None => lastKnown[c] \subseteq Has(c)

\* A synchronised browser whose socket is not paused lacks nothing but the frames
\* that found its socket at the high-water mark.
OnlyOverrunsMissing ==
  \A c \in Clients :
    Open(c) /\ lastKnown[c] # None /\ ~paused[c] => doc \ Has(c) \subseteq overrun[c]

\* A socket that resumes after skipped frames is brought up to the whole document,
\* the frame that paused it included.
CatchUpRepairs ==
  [][\A c \in Clients :
       paused[c] /\ skipped[c] /\ ~paused'[c] /\ Open(c)' => doc' \subseteq Has(c)']_vars

\* While somebody else keeps sending, no browser that reads its socket stays paused.
Talks(c) == link[c] = "ready" /\ live[c]
PauseEnds ==
  \A c \in Clients : []<>(~paused[c] \/ ~\E d \in Clients \ {c} : Talks(d))

-----------------------------------------------------------------------------
(* Fairness *)

\* A browser reads its socket and renews its awareness, the server's queries and
\* handlers end, a socket the server terminated closes.
Fairness ==
  \A c \in Clients :
    /\ WF_vars(Receive(c)) /\ WF_vars(Track(c)) /\ WF_vars(link[c] = "closing" /\ Close(c))
    /\ WF_vars(AnswerStep1(c)) /\ WF_vars(StartAppend(c))
    /\ WF_vars(\E h \in appending[c] : Apply(c, h, {}))
    /\ WF_vars(Awareness(c, {}))
LiveSpec == Spec /\ Fairness

=============================================================================
