-------------------------- MODULE CheckpointedDoc --------------------------
(***************************************************************************)
(* What the persistence of a document really promises, with no tables, no  *)
(* queues and no handlers: a checkpoint that only grows, and an open copy  *)
(* that lies between the checkpoint and what was ever logged.  What was    *)
(* merged after the last checkpoint may be gone at the next opening.       *)
(***************************************************************************)
CONSTANTS
  Updates,  \* the updates a document can absorb
  Closed    \* no copy of the document is in memory

VARIABLES
  logged,   \* the updates that were ever made durable
  saved,    \* the checkpoint
  visible   \* the copy in memory, or Closed

vars == <<logged, saved, visible>>

Init == logged = {} /\ saved = {} /\ visible = Closed

\* An update becomes durable before anyone can see it.
Log == /\ \E u \in Updates : logged' = logged \cup {u}
       /\ UNCHANGED <<saved, visible>>

Merge == /\ visible # Closed
         /\ \E u \in logged : visible' = visible \cup {u}
         /\ UNCHANGED <<logged, saved>>

\* A checkpoint takes a state between the previous one and the copy; the copy
\* may be closed with it.
Checkpoint == /\ visible # Closed
              /\ saved' \in SUBSET visible /\ saved \subseteq saved'
              /\ visible' \in {visible, Closed}
              /\ UNCHANGED logged

Open == /\ visible = Closed /\ visible' # Closed
        /\ visible' \in SUBSET logged /\ saved \subseteq visible'
        /\ UNCHANGED <<logged, saved>>

\* A close or a crash; it need not checkpoint.
Close == visible' = Closed /\ UNCHANGED <<logged, saved>>

Next == Log \/ Merge \/ Checkpoint \/ Open \/ Close

Spec == Init /\ [][Next]_vars
=============================================================================
