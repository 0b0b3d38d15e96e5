---------------------------- MODULE RemoteWrite ----------------------------
(***************************************************************************)
(* What the forwarding of a write promises to the node that forwards it,   *)
(* with no channels, no handler and no process that dies.  A write goes    *)
(* out in so many copies and no more; each copy gets into the log at most  *)
(* once.  Its outcome is decided once, and a success names a row of the    *)
(* write.  A failure promises nothing: the row may be there, or still come.*)
(***************************************************************************)
EXTENDS Naturals, Sequences

CONSTANTS
  Write,  \* the writes that are forwarded
  Copy    \* the copies of each

VARIABLES
  outcome,  \* "unsent", "waiting", "acked" or "failed"
  told,     \* the position that a success named, or 0
  underway, \* the copies that may still get into the log
  log       \* the log

vars == <<outcome, told, underway, log>>

Init ==
  /\ outcome = [w \in Write |-> "unsent"] /\ told = [w \in Write |-> 0]
  /\ underway = {} /\ log = << >>

Send(w) ==
  /\ outcome[w] = "unsent"
  /\ outcome' = [outcome EXCEPT ![w] = "waiting"]
  /\ underway' = underway \cup ({w} \X Copy)
  /\ UNCHANGED <<told, log>>

Log(w) ==
  /\ \E c \in Copy : <<w, c>> \in underway /\ underway' = underway \ {<<w, c>>}
  /\ log' = Append(log, w)
  /\ UNCHANGED <<outcome, told>>

Lose ==
  /\ \E lost \in SUBSET underway : underway' = underway \ lost
  /\ UNCHANGED <<outcome, told, log>>

\* With the outcome, copies may be given up that were not sent yet.
Succeed(w) ==
  /\ outcome[w] = "waiting" /\ outcome' = [outcome EXCEPT ![w] = "acked"]
  /\ \E i \in DOMAIN log : log[i] = w /\ told' = [told EXCEPT ![w] = i]
  /\ \E lost \in SUBSET underway : underway' = underway \ lost
  /\ UNCHANGED log

Fail(w) ==
  /\ outcome[w] \in {"unsent", "waiting"} /\ outcome' = [outcome EXCEPT ![w] = "failed"]
  /\ \E lost \in SUBSET underway : underway' = underway \ lost
  /\ UNCHANGED <<told, log>>

Next == Lose \/ \E w \in Write : Send(w) \/ Log(w) \/ Succeed(w) \/ Fail(w)

Spec == Init /\ [][Next]_vars
=============================================================================
