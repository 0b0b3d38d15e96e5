-------------------------- MODULE ForwardedWrites --------------------------
(***************************************************************************)
(* Writes that a mirror forwards to the owner of the room over Redis       *)
(* pub/sub: the pending promise of the mirror with its timeout, the        *)
(* handler of the owner split at its awaits, and the answer.  The two      *)
(* channels lose a message while their subscriber is disconnected, and     *)
(* ioredis sends a PUBLISH again whose reply it did not get.               *)
(***************************************************************************)
EXTENDS Naturals, Sequences

CONSTANTS
  Request,    \* randomUUID() of each forwarded write
  MaxSends,   \* how often ioredis sends a command: maxRetriesPerRequest + 1
  MaxForwardTrouble  \* bound on lost messages, failed statements and failed calls

ASSUME MaxSendsAssumption == MaxSends \in Nat \ {0}

Copy == 1..MaxSends
Delivery == Request \X Copy

VARIABLES
  pendingForwardAcks, \* "unsent", "waiting" (in pendingForwardAcks), "acked", "failed"
  ackSeq,     \* the sequence number of the answer
  sends,      \* how often the request was published
  reply,      \* its PUBLISH: "sent", "reached" the owner, "missed" it, or "none" awaited
  requests,   \* the owner's channel
  handler,    \* how far handleForwardedWriteRequest() is with each copy
  got,        \* what appendUpdate() returned
  updateLog,  \* update_log of the file
  doc,        \* the updates in the owner's Y.Doc
  acks,       \* the mirror's ack channel
  up,         \* the owner process runs
  forwardTrouble

forwardVars == <<pendingForwardAcks, ackSeq, sends, reply, requests, handler, got,
                 updateLog, doc, acks, up, forwardTrouble>>
publishVars == <<sends, reply>>

ForwardTrouble == forwardTrouble < MaxForwardTrouble /\ forwardTrouble' = forwardTrouble + 1
AckOf(r, success, seq) == [request |-> r, success |-> success, seq |-> seq]

ForwardInit ==
  /\ pendingForwardAcks = [r \in Request |-> "unsent"] /\ ackSeq = [r \in Request |-> 0]
  /\ sends = [r \in Request |-> 0] /\ reply = [r \in Request |-> "none"]
  /\ requests = << >> /\ acks = << >>
  /\ handler = [d \in Delivery |-> "no"] /\ got = [d \in Delivery |-> 0]
  /\ updateLog = << >> /\ doc = {}
  /\ up = TRUE /\ forwardTrouble = 0

---------------------------------------------------------------------------
(* The mirror: forwardWriteToOwner() *)

\* The promise with its timer, and the PUBLISH; or nothing, when the ring no longer
\* has an owner that is another node.
ForwardWriteToOwner(r) ==
  /\ pendingForwardAcks[r] = "unsent"
  /\ \/ /\ pendingForwardAcks' = [pendingForwardAcks EXCEPT ![r] = "waiting"]
        /\ sends' = [sends EXCEPT ![r] = 1] /\ reply' = [reply EXCEPT ![r] = "sent"]
     \/ /\ ~up /\ UNCHANGED publishVars
        /\ pendingForwardAcks' = [pendingForwardAcks EXCEPT ![r] = "failed"]
  /\ UNCHANGED <<ackSeq, requests, handler, got, updateLog, doc, acks, up,
                 forwardTrouble>>

\* The reply of the PUBLISH.  Without a subscriber the write has failed, also when an
\* earlier copy was answered already: the resolved promise is not looked at.
Published(r) ==
  /\ reply[r] \in {"reached", "missed"} /\ reply' = [reply EXCEPT ![r] = "none"]
  /\ pendingForwardAcks' = [pendingForwardAcks EXCEPT ![r] =
                              IF reply[r] = "missed" THEN "failed" ELSE @]
  /\ UNCHANGED <<ackSeq, sends, requests, handler, got, updateLog, doc, acks, up,
                 forwardTrouble>>

\* Fault: a write without an answer is published once more.
ForwardTimeoutRetries(r) ==
  /\ pendingForwardAcks[r] = "waiting"
  /\ \/ /\ pendingForwardAcks' = [pendingForwardAcks EXCEPT ![r] = "failed"]
        /\ UNCHANGED <<requests, forwardTrouble>>
     \/ up /\ ForwardTrouble /\ requests' = Append(requests, <<r, 1>>) /\ UNCHANGED pendingForwardAcks
  /\ UNCHANGED <<ackSeq, publishVars, handler, got, updateLog, doc, acks, up>>

\* FORWARD_WRITE_TIMEOUT_MS, or close() of the mirror.
ForwardTimeout(r) ==
  /\ pendingForwardAcks[r] = "waiting"
  /\ pendingForwardAcks' = [pendingForwardAcks EXCEPT ![r] = "failed"]
  /\ UNCHANGED <<ackSeq, publishVars, requests, handler, got, updateLog, doc, acks, up, forwardTrouble>>

\* Only a pending request is resolved; the client gets MSG_ACK or nothing.
HandleAck ==
  /\ acks # << >>
  /\ LET a == Head(acks)
     IN  IF pendingForwardAcks[a.request] # "waiting"
         THEN UNCHANGED <<pendingForwardAcks, ackSeq>>
         ELSE /\ pendingForwardAcks' = [pendingForwardAcks EXCEPT ![a.request] =
                               IF a.success THEN "acked" ELSE "failed"]
              /\ ackSeq' = [ackSeq EXCEPT ![a.request] = a.seq]
  /\ acks' = Tail(acks)
  /\ UNCHANGED <<publishVars, requests, handler, got, updateLog, doc, up,
                 forwardTrouble>>

---------------------------------------------------------------------------
(* The owner: handleForwardedWriteRequest() *)

HandlerGoes(d, from, to) == handler[d] = from /\ handler' = [handler EXCEPT ![d] = to]

Receive ==
  /\ up /\ requests # << >>
  /\ HandlerGoes(Head(requests), "no", "opening")
  /\ requests' = Tail(requests)
  /\ UNCHANGED <<pendingForwardAcks, ackSeq, publishVars, got, updateLog, doc,
                 acks, up, forwardTrouble>>

\* getOrCreateRoom() resolves, or rejects: the room is being destroyed.
Opened(d) ==
  /\ \/ HandlerGoes(d, "opening", "appending") /\ UNCHANGED forwardTrouble
     \/ HandlerGoes(d, "opening", "failing") /\ ForwardTrouble
  /\ UNCHANGED <<pendingForwardAcks, ackSeq, publishVars, requests, got, updateLog,
                 doc, acks, up>>

\* Fault: a null sequence number is not looked at.
AppendUnchecked(d) ==
  /\ HandlerGoes(d, "appending", "appended")
  /\ \/ /\ updateLog' = Append(updateLog, d[1]) /\ UNCHANGED forwardTrouble
        /\ got' = [got EXCEPT ![d] = Len(updateLog) + 1]
     \/ UNCHANGED <<updateLog, got>> /\ ForwardTrouble
  /\ UNCHANGED <<pendingForwardAcks, ackSeq, publishVars, requests, doc, acks, up>>

\* appendUpdate() inserts the row, or catches its error and returns null; the
\* row may be there all the same when the error is a lost reply.
AppendUpdate(d) ==
  /\ handler[d] = "appending"
  /\ \/ /\ HandlerGoes(d, "appending", "appended") /\ UNCHANGED forwardTrouble
        /\ updateLog' = Append(updateLog, d[1])
        /\ got' = [got EXCEPT ![d] = Len(updateLog) + 1]
     \/ /\ HandlerGoes(d, "appending", "failing") /\ ForwardTrouble
        /\ updateLog' \in {updateLog, Append(updateLog, d[1])}
        /\ UNCHANGED got
  /\ UNCHANGED <<pendingForwardAcks, ackSeq, publishVars, requests, doc, acks, up>>

\* room.applyClientUpdate() broadcasts and applies; when it throws, the row of
\* the log stays.
Apply(d) ==
  /\ \/ /\ HandlerGoes(d, "appended", "publishing") /\ doc' = doc \cup {d[1]}
        /\ UNCHANGED forwardTrouble
     \/ HandlerGoes(d, "appended", "failing") /\ ForwardTrouble /\ UNCHANGED doc
  /\ UNCHANGED <<pendingForwardAcks, ackSeq, publishVars, requests, got, updateLog,
                 acks, up>>

\* publishStreamUpdate(), whose failure is caught; the entry is in StreamReplication.
PublishStream(d) ==
  /\ HandlerGoes(d, "publishing", "answering") /\ UNCHANGED forwardTrouble
  /\ UNCHANGED <<pendingForwardAcks, ackSeq, publishVars, requests, got, updateLog,
                 doc, acks, up>>

Answer(d) ==
  /\ handler[d] \in {"answering", "failing"}
  /\ handler' = [handler EXCEPT ![d] = "no"] /\ got' = [got EXCEPT ![d] = 0]
  /\ acks' = Append(acks, IF handler[d] = "failing" THEN AckOf(d[1], FALSE, 0)
                                                    ELSE AckOf(d[1], TRUE, got[d]))
  /\ UNCHANGED <<pendingForwardAcks, ackSeq, publishVars, requests, updateLog,
                 doc, up, forwardTrouble>>

---------------------------------------------------------------------------
(* The environment *)

\* Redis hands the request to the owner if it is subscribed.
RedisPublishes(r) ==
  /\ reply[r] = "sent"
  /\ \/ /\ up /\ requests' = Append(requests, <<r, sends[r]>>)
        /\ reply' = [reply EXCEPT ![r] = "reached"] /\ UNCHANGED forwardTrouble
     \/ /\ reply' = [reply EXCEPT ![r] = "missed"] /\ UNCHANGED requests
        /\ IF up THEN ForwardTrouble ELSE UNCHANGED forwardTrouble
  /\ UNCHANGED <<pendingForwardAcks, ackSeq, sends, handler, got, updateLog, doc, acks, up>>

\* The connection breaks before the reply: ioredis sends the command again, or
\* rejects it when it has done so too often.
Resend(r) ==
  /\ ForwardTrouble /\ reply[r] # "none"
  /\ \/ /\ sends[r] < MaxSends /\ sends' = [sends EXCEPT ![r] = @ + 1]
        /\ reply' = [reply EXCEPT ![r] = "sent"] /\ UNCHANGED pendingForwardAcks
     \/ /\ sends[r] = MaxSends /\ UNCHANGED sends
        /\ reply' = [reply EXCEPT ![r] = "none"]
        /\ pendingForwardAcks' = [pendingForwardAcks EXCEPT ![r] = "failed"]
  /\ UNCHANGED <<ackSeq, requests, handler, got, updateLog, doc, acks, up>>

LoseRequest ==
  /\ ForwardTrouble /\ requests # << >> /\ requests' = Tail(requests)
  /\ UNCHANGED <<pendingForwardAcks, ackSeq, publishVars, handler, got, updateLog,
                 doc, acks, up>>

LoseAck ==
  /\ ForwardTrouble /\ acks # << >> /\ acks' = Tail(acks)
  /\ UNCHANGED <<pendingForwardAcks, ackSeq, publishVars, requests, handler, got,
                 updateLog, doc, up>>

\* The channel is named after a node id that never comes back.
OwnerCrash ==
  /\ ForwardTrouble /\ up /\ up' = FALSE
  /\ handler' = [d \in Delivery |-> "no"] /\ got' = [d \in Delivery |-> 0]
  /\ requests' = << >> /\ doc' = {}
  /\ UNCHANGED <<pendingForwardAcks, ackSeq, publishVars, updateLog, acks>>

ForwardNext ==
  \/ \E r \in Request : \/ ForwardWriteToOwner(r) \/ Published(r) \/ ForwardTimeout(r)
                         \/ RedisPublishes(r) \/ Resend(r)
  \/ \E d \in Delivery :
       Opened(d) \/ AppendUpdate(d) \/ Apply(d) \/ PublishStream(d) \/ Answer(d)
  \/ HandleAck \/ Receive \/ LoseRequest \/ LoseAck \/ OwnerCrash

ForwardSpec == ForwardInit /\ [][ForwardNext]_forwardVars

---------------------------------------------------------------------------
Ack == [request : Request, success : BOOLEAN, seq : Nat]

ForwardTypeOK ==
  /\ pendingForwardAcks \in [Request -> {"unsent", "waiting", "acked", "failed"}]
  /\ ackSeq \in [Request -> Nat] /\ got \in [Delivery -> Nat]
  /\ sends \in [Request -> 0..MaxSends]
  /\ reply \in [Request -> {"none", "sent", "reached", "missed"}]
  /\ requests \in Seq(Delivery) /\ updateLog \in Seq(Request)
  /\ handler \in [Delivery -> {"no", "opening", "appending", "appended",
                              "publishing", "answering", "failing"}]
  /\ doc \subseteq Request
  /\ acks \in Seq(Ack)
  /\ up \in BOOLEAN /\ forwardTrouble \in Nat

\* MSG_ACK of a forwarded write means what it means for a local one: the
\* sequence number sent to the client is that of its own row in update_log,
\* whatever was lost or late in between, and the owner's document has the
\* update for as long as the owner lives.
AckedIsDurable ==
  \A r \in Request : pendingForwardAcks[r] = "acked" =>
    /\ ackSeq[r] \in DOMAIN updateLog /\ updateLog[ackSeq[r]] = r
    /\ up => r \in doc

\* The copies of a write that may still get into the log: those that ioredis has not
\* sent or Redis not handed on, those in the channel, and those the handler has not
\* logged.
Underway ==
  {d \in Delivery :
    \/ /\ reply[d[1]] # "none"
       /\ d[2] > sends[d[1]] \/ (d[2] = sends[d[1]] /\ reply[d[1]] = "sent")
    \/ (\E i \in DOMAIN requests : requests[i] = d)
    \/ handler[d] \in {"opening", "appending"}}

\* What forwardWriteToOwner() returned: a resolved promise counts once the PUBLISH
\* has its reply.
Outcome(r) == IF pendingForwardAcks[r] = "acked" /\ reply[r] # "none" THEN "waiting"
              ELSE pendingForwardAcks[r]

\* The mirror's promise, the channels and the handler of the owner together keep
\* the promise of a remote write: whatever is lost, late, repeated or fails in
\* between, every copy of a write is logged at most once, also after the mirror gave
\* it up, and what the client was told is never taken back.
Remote == INSTANCE RemoteWrite WITH
  Write <- Request, log <- updateLog, underway <- Underway,
  outcome <- [r \in Request |-> Outcome(r)],
  told <- [r \in Request |-> IF Outcome(r) = "acked" THEN ackSeq[r] ELSE 0]
ImplementsRemoteWrite == Remote!Spec
=============================================================================
