--------------------------- MODULE StreamReplication ---------------------------
(***************************************************************************)
(* How the updates of one room reach its edge mirrors: the owner's log of    *)
(* the room in Redis, one consumer group per mirror node, overlapping polls, *)
(* XAUTOCLAIM, the high-water mark of StreamIdempotencyGuard, and ioredis    *)
(* connections that break.                                                   *)
(*                                                                           *)
(* An entry id is the position of the entry.  A Y.Doc is the set of the      *)
(* updates merged into it.  The commands of a node run in Redis in the order *)
(* they were sent and their replies come back in that order.                 *)
(***************************************************************************)
EXTENDS Naturals, Sequences, FiniteSets

CONSTANTS
  Mirrors,      \* the nodes that do not own the room
  Updates,      \* what its clients write
  NoGroup,      \* a node has no consumer group
  BatchSize,    \* STREAM_READ_BATCH_SIZE and AUTOCLAIM_BATCH_SIZE
  MaxLen,       \* STREAM_MAX_LEN
  MaxStream,    \* bound: entries in the stream
  MaxReplies,   \* bound: replies on their way to a node
  MaxFailures   \* bound: broken connections and restarts

ASSUME StreamAssumption ==
  /\ BatchSize \in Nat \ {0} /\ MaxLen \in Nat /\ MaxStream \in Nat
  /\ MaxReplies \in Nat /\ MaxFailures \in Nat /\ NoGroup \notin Nat

VARIABLES
  doc,      \* the owner's Y.Doc
  outbox,   \* updates whose XADD was not answered
  stream,   \* pg:stream:<fileId>, the trimmed entries included
  trimmed,  \* how many of them MAXLEN removed
  mirror,   \* node -> "absent", "loading", "registered"
  copy,     \* node -> the mirror's Y.Doc
  cursor,   \* node -> last entry delivered to its group, or NoGroup
  pending,  \* node -> the sets of pending entries delivered together, oldest first
  replies,  \* node -> entries Redis answered with, not yet received
  acks,     \* node -> entries whose XACK is on its way
  hwm,      \* node -> high-water mark, 0 when there is none
  stale,    \* node -> a poll round that listed the room before it was evicted
  base,     \* node -> what had been delivered when its mirror was set up (history)
  lost,     \* node -> entries of replies that were lost (history)
  failures  \* broken connections and restarts so far

owner == <<doc, outbox, stream, trimmed>>
vars  == <<owner, mirror, copy, cursor, pending, replies, acks, hwm, stale, base, lost, failures>>

Docs == SUBSET Updates
Ids  == 1..Len(stream)

\* The entries in a sequence of sets.
All(s) == UNION {s[k] : k \in DOMAIN s}

Init ==
  /\ doc = {} /\ outbox = <<>>
  /\ stream = <<>> /\ trimmed = 0 /\ failures = 0
  /\ mirror = [n \in Mirrors |-> "absent"]
  /\ copy = [n \in Mirrors |-> {}]
  /\ cursor = [n \in Mirrors |-> NoGroup]
  /\ pending = [n \in Mirrors |-> <<>>]
  /\ replies = [n \in Mirrors |-> <<>>]
  /\ acks = [n \in Mirrors |-> {}]
  /\ hwm = [n \in Mirrors |-> 0]
  /\ stale = [n \in Mirrors |-> FALSE]
  /\ base = [n \in Mirrors |-> 0]
  /\ lost = [n \in Mirrors |-> {}]

-----------------------------------------------------------------------------
(* The owner *)

nodes == <<mirror, copy, cursor, pending, replies, acks, hwm, stale, base, lost, failures>>

\* An update, of a client of the owner or forwarded by a mirror, was appended to
\* document_updates and merged; publishToStream() sends XADD.
Write(u) ==
  /\ u \notin doc
  /\ doc' = doc \cup {u} /\ outbox' = Append(outbox, u)
  /\ UNCHANGED <<stream, trimmed, nodes>>

\* Redis runs the XADD and trims, approximately.  When the reply is lost ioredis
\* sends the command again.
XAdd(again) ==
  /\ outbox # <<>> /\ Len(stream) < MaxStream
  /\ stream' = Append(stream, Head(outbox))
  /\ \E t \in trimmed..Len(stream) :
       /\ t = trimmed \/ Len(stream) + 1 - t >= MaxLen
       /\ trimmed' = t
  /\ outbox' = IF again THEN outbox ELSE Tail(outbox)
  /\ UNCHANGED <<doc, nodes>>

\* publishToStream() logs the error and the handler goes on.
XAddFails ==
  /\ outbox # <<>> /\ outbox' = Tail(outbox)
  /\ UNCHANGED <<doc, stream, trimmed, nodes>>

-----------------------------------------------------------------------------
(* The life of a mirror *)

\* EdgeMirrorManager.getOrCreate(): the factory reads what some save stored ...
ReadState(n) ==
  /\ mirror[n] = "absent"
  /\ mirror' = [mirror EXCEPT ![n] = "loading"]
  /\ \E d \in SUBSET doc : copy' = [copy EXCEPT ![n] = d]
  /\ UNCHANGED <<owner, cursor, pending, replies, acks, hwm, stale, base, lost, failures>>

\* ... and some awaits later the mirror is set, and registerRoomStream() puts the
\* room on the list of the consumer loop.
Register(n) ==
  /\ mirror[n] = "loading"
  /\ mirror' = [mirror EXCEPT ![n] = "registered"]
  /\ base' = [base EXCEPT ![n] = IF cursor[n] = NoGroup THEN 0 ELSE cursor[n]]
  /\ lost' = [lost EXCEPT ![n] = {}]
  /\ UNCHANGED <<owner, copy, cursor, pending, replies, acks, hwm, stale, failures>>

\* XGROUP CREATE at `$`, from addRoom(), or from a poll that found no group because
\* the first one failed without a word.  The group of an earlier mirror is kept.
CreateGroup(n) ==
  /\ mirror[n] = "registered" \/ stale[n]
  /\ cursor[n] = NoGroup
  /\ cursor' = [cursor EXCEPT ![n] = Len(stream)]
  /\ base' = [base EXCEPT ![n] = Len(stream)]
  /\ UNCHANGED <<owner, mirror, copy, pending, replies, acks, hwm, stale, lost, failures>>

\* evictIdleMirrors() and unregisterRoomStream(): the mark is deleted, the group is
\* not.  A poll round under way may have the room on its list.
Evict(n) ==
  /\ mirror[n] = "registered"
  /\ mirror' = [mirror EXCEPT ![n] = "absent"]
  /\ copy' = [copy EXCEPT ![n] = {}]
  /\ hwm' = [hwm EXCEPT ![n] = 0]
  /\ stale' = [stale EXCEPT ![n] = TRUE]
  /\ base' = [base EXCEPT ![n] = 0]
  /\ lost' = [lost EXCEPT ![n] = {}]
  /\ UNCHANGED <<owner, cursor, pending, replies, acks, failures>>

\* The process restarts with a new node id, so with a new group: the checkpoints
\* of pg:stream:hwm:<nodeId> and the pending entries belong to nobody.
Restart(n) ==
  /\ failures < MaxFailures /\ failures' = failures + 1
  /\ mirror' = [mirror EXCEPT ![n] = "absent"]
  /\ copy' = [copy EXCEPT ![n] = {}]
  /\ cursor' = [cursor EXCEPT ![n] = NoGroup]
  /\ pending' = [pending EXCEPT ![n] = <<>>]
  /\ replies' = [replies EXCEPT ![n] = <<>>]
  /\ acks' = [acks EXCEPT ![n] = {}]
  /\ hwm' = [hwm EXCEPT ![n] = 0]
  /\ stale' = [stale EXCEPT ![n] = FALSE]
  /\ base' = [base EXCEPT ![n] = 0]
  /\ lost' = [lost EXCEPT ![n] = {}]
  /\ UNCHANGED owner

-----------------------------------------------------------------------------
(* The consumer loop *)

\* The entries XREADGROUP answers with: the next ones that are not trimmed.
From(n) == IF cursor[n] < trimmed THEN trimmed + 1 ELSE cursor[n] + 1

\* Fault: the count is not cut off at the end of the stream.
UpToCount(n) == From(n) + BatchSize - 1

UpTo(n) == IF From(n) + BatchSize - 1 < Len(stream) THEN From(n) + BatchSize - 1 ELSE Len(stream)

Polls(n) == (mirror[n] = "registered" \/ stale[n]) /\ Len(replies[n]) < MaxReplies

\* A poll of a node that has a group and something to read.
ReadNew(n) ==
  /\ Polls(n) /\ cursor[n] # NoGroup /\ From(n) <= Len(stream)
  /\ replies' = [replies EXCEPT ![n] = Append(@, From(n)..UpTo(n))]
  /\ pending' = [pending EXCEPT ![n] = Append(@, From(n)..UpTo(n))]
  /\ cursor' = [cursor EXCEPT ![n] = UpTo(n)]
  /\ stale' = [stale EXCEPT ![n] = FALSE]
  /\ UNCHANGED <<owner, mirror, copy, acks, hwm, base, lost, failures>>

\* Of the entries whose first k deliveries are idle for AUTOCLAIM_MIN_IDLE_MS, the
\* first BatchSize that are not trimmed.
Idle(n, k) == (UNION {pending[n][j] : j \in 1..k}) \ 1..trimmed

\* Fault: the sweep asks for the entries of other consumers.
ClaimedNone(n, k) == {}

Claimed(n, k) == {i \in Idle(n, k) : Cardinality({j \in Idle(n, k) : j < i}) < BatchSize}

\* What a claim leaves pending: the idle entries beyond COUNT, the ones that are not
\* idle, and the claimed ones, whose idle time starts again.  Trimmed ones leave.
Reclaimed(n, k) ==
  LET rest == Idle(n, k) \ Claimed(n, k) IN
  (IF rest = {} THEN <<>> ELSE <<rest>>)
    \o SubSeq(pending[n], k + 1, Len(pending[n])) \o <<Claimed(n, k)>>

\* XAUTOCLAIM.
Claim(n, k) ==
  /\ mirror[n] = "registered" /\ Len(replies[n]) < MaxReplies
  /\ Claimed(n, k) # {}
  /\ replies' = [replies EXCEPT ![n] = Append(@, Claimed(n, k))]
  /\ pending' = [pending EXCEPT ![n] = Reclaimed(n, k)]
  /\ UNCHANGED <<owner, mirror, copy, cursor, acks, hwm, stale, base, lost, failures>>

\* Fault: a reply is worked off from its end.
FreshUnsorted(n, S) == {i \in S : i > hwm[n] /\ \A j \in S : j <= i}

\* shouldApply(), in the order of the ids.
Fresh(n, S) == {i \in S : i > hwm[n]}

\* pollRoom() and autoclaimAll() on the next reply: apply what is new, advance the
\* mark, acknowledge everything.  Without a mirror the update goes nowhere.
Process(n) ==
  /\ replies[n] # <<>>
  /\ LET S == Head(replies[n])  new == Fresh(n, S) IN
     /\ copy' = [copy EXCEPT ![n] =
          IF mirror[n] = "registered" THEN @ \cup {stream[i] : i \in new} ELSE @]
     /\ hwm' = [hwm EXCEPT ![n] =
          IF new = {} THEN @ ELSE CHOOSE i \in new : \A j \in new : j <= i]
     /\ acks' = [acks EXCEPT ![n] = @ \cup S]
  /\ replies' = [replies EXCEPT ![n] = Tail(@)]
  /\ UNCHANGED <<owner, mirror, cursor, pending, stale, base, lost, failures>>

\* XACK.
Left(n) == IF All(pending[n]) \subseteq acks[n] THEN <<>>
           ELSE [k \in DOMAIN pending[n] |-> pending[n][k] \ acks[n]]

Ack(n) ==
  /\ acks[n] # {}
  /\ pending' = [pending EXCEPT ![n] = Left(n)]
  /\ acks' = [acks EXCEPT ![n] = {}]
  /\ UNCHANGED <<owner, mirror, copy, cursor, replies, hwm, stale, base, lost, failures>>

\* The connection breaks.  Replies on their way are lost; ioredis sends the commands
\* again, which finds nothing new, or gives up, and the loop logs the error.
Drop(n, resend) ==
  /\ failures < MaxFailures /\ failures' = failures + 1
  /\ replies' = [replies EXCEPT ![n] = <<>>]
  /\ lost' = [lost EXCEPT ![n] = @ \cup All(replies[n])]
  /\ acks' = [acks EXCEPT ![n] = IF resend THEN @ ELSE {}]
  /\ UNCHANGED <<owner, mirror, copy, cursor, pending, hwm, stale, base>>

-----------------------------------------------------------------------------
Next ==
  \/ \E u \in Updates : Write(u)
  \/ XAddFails \/ \E again \in BOOLEAN : XAdd(again)
  \/ \E n \in Mirrors :
       \/ ReadState(n) \/ Register(n) \/ CreateGroup(n) \/ Evict(n) \/ Restart(n)
       \/ ReadNew(n) \/ Process(n) \/ Ack(n)
       \/ \E k \in DOMAIN pending[n] : Claim(n, k)
       \/ \E resend \in BOOLEAN : Drop(n, resend)

Spec == Init /\ [][Next]_vars

\* Redis answers, and the timers of the consumer loop fire again and again, so
\* that in the end every pending entry has been idle for long enough.
Fairness ==
  \A n \in Mirrors :
    /\ WF_vars(Process(n)) /\ WF_vars(Ack(n))
    /\ WF_vars(CreateGroup(n)) /\ SF_vars(ReadNew(n))
    /\ SF_vars(Claim(n, Len(pending[n])))
LiveSpec == Spec /\ Fairness

-----------------------------------------------------------------------------
(* Properties *)

\* Types: only entries of the stream are delivered, pending, acknowledged or marked.
TypeOK ==
  /\ doc \in Docs /\ outbox \in Seq(Updates)
  /\ stream \in Seq(Updates) /\ trimmed \in 0..Len(stream) /\ failures \in Nat
  /\ mirror \in [Mirrors -> {"absent", "loading", "registered"}]
  /\ copy \in [Mirrors -> Docs]
  /\ cursor \in [Mirrors -> {NoGroup} \cup Ids \cup {0}]
  /\ pending \in [Mirrors -> Seq(SUBSET Ids)]
  /\ replies \in [Mirrors -> Seq(SUBSET Ids)]
  /\ acks \in [Mirrors -> SUBSET Ids]
  /\ hwm \in [Mirrors -> Ids \cup {0}]
  /\ stale \in [Mirrors -> BOOLEAN]
  /\ base \in [Mirrors -> Ids \cup {0}]
  /\ lost \in [Mirrors -> SUBSET Ids]

Serves(n) == mirror[n] = "registered" /\ cursor[n] # NoGroup

\* The ways an entry escapes a mirror for good: MAXLEN removed it, or the reply with
\* it was lost and a later entry was applied before XAUTOCLAIM gave it back.
Gone(n) == {i \in lost[n] : i <= hwm[n]} \cup 1..trimmed

\* Every entry published since the mirror was set up is in its document, or will
\* still be delivered, or is gone: the mark skips nothing else (redisStreams.ts
\* pollRoom() and autoclaimAll(), streamIdempotency.ts shouldApply()).
LossAccounted ==
  \A n \in Mirrors : Serves(n) =>
    \A i \in Ids : i > base[n] =>
      \/ stream[i] \in copy[n]
      \/ i > cursor[n] \/ i \in All(replies[n])
      \/ i \in All(pending[n]) /\ i > hwm[n]
      \/ i \in Gone(n)

\* An entry reaches every mirror that serves readers, unless it is gone: what a lost
\* reply held comes back through XAUTOCLAIM (redisStreams.ts autoclaimAll()).
EntryArrives ==
  \A n \in Mirrors, i \in 1..MaxStream :
    Serves(n) /\ i \in Ids /\ i > base[n] ~>
      ~Serves(n) \/ i \in Gone(n) \/ (i \in Ids /\ stream[i] \in copy[n])

-----------------------------------------------------------------------------
(* What the documentation says *)

\* IDEMPOTENT_STREAMS.md:280: "No entry is ever lost."  What was delivered to the
\* group of a serving mirror and acknowledged is in the mirror's document.
NoEntryLost ==
  \A n \in Mirrors : Serves(n) =>
    \A i \in Ids : trimmed < i /\ base[n] < i /\ i <= cursor[n] /\ i \notin All(pending[n])
                     => stream[i] \in copy[n]

=============================================================================
