---------------------------- MODULE RoomCreation ----------------------------
(***************************************************************************)
(* RedisRoomStore for one file on several nodes: the creation lock in      *)
(* Redis, the rooms each node keeps, and the invalidation that delete()    *)
(* publishes.  The owner key and its heartbeat are left out: nothing reads *)
(* them.  The lock holds the node id, so it is the same for every attempt  *)
(* of a node.                                                              *)
(***************************************************************************)
EXTENDS Naturals

CONSTANTS
  Server,      \* the nodes
  Nobody,      \* no lock, or a lock whose holder is gone
  MaxDeletes,  \* bound on the deletions
  MaxCreationTrouble   \* bound on replies that are lost and locks that expire

ASSUME NobodyAssumption == Nobody \notin Server

VARIABLES
  lock,      \* room_lock:<fileId>
  creating,  \* how far getOrCreate() is on a node
  wanted,    \* clients wait for the room; a forwarded write alone does not set it
  local,     \* the node has the room in its map
  used,      \* clients of the node are in a room
  notices,   \* room_invalidate messages on their way to a node
  overrun,   \* history: nodes whose lock expired while they held it
  deletes,   \* how often delete() was called
  creationTrouble    \* how many faults happened

creationVars == <<lock, creating, wanted, local, used, notices, overrun, deletes, creationTrouble>>

CreationInit ==
  /\ lock = Nobody
  /\ creating = [n \in Server |-> "no"]
  /\ wanted = {} /\ local = {} /\ used = {} /\ overrun = {}
  /\ notices = [n \in Server |-> 0]
  /\ deletes = 0 /\ creationTrouble = 0

Advances(n, from, to) == creating[n] = from /\ creating' = [creating EXCEPT ![n] = to]
CreationTrouble == creationTrouble < MaxCreationTrouble /\ creationTrouble' = creationTrouble + 1

\* A client joins, or a write is forwarded to this node.
GetOrCreate(n, client) ==
  /\ IF n \in local
     THEN /\ client /\ used' = used \cup {n}
          /\ UNCHANGED <<creating, wanted>>
     ELSE /\ IF creating[n] = "no"
             THEN Advances(n, "no", "locking")
             ELSE client /\ n \notin wanted /\ UNCHANGED creating
          /\ wanted' = IF client THEN wanted \cup {n} ELSE wanted
          /\ UNCHANGED used
  /\ UNCHANGED <<lock, local, notices, overrun, deletes, creationTrouble>>

\* SET NX PX
Acquire(n) ==
  /\ lock = Nobody /\ Advances(n, "locking", "loading")
  /\ lock' = n
  /\ UNCHANGED <<wanted, local, used, notices, overrun, deletes, creationTrouble>>

\* The reply is lost: the node holds the lock, and its next attempts find it taken.
AcquireUnheard(n) ==
  /\ CreationTrouble /\ lock = Nobody /\ creating[n] = "locking"
  /\ lock' = n
  /\ UNCHANGED <<creating, wanted, local, used, notices, overrun, deletes>>

\* LOCK_TIMEOUT_MS passes; everybody who waits is refused.
GiveUp(n) ==
  /\ Advances(n, "locking", "no")
  /\ wanted' = wanted \ {n}
  /\ UNCHANGED <<lock, local, used, notices, overrun, deletes, creationTrouble>>

RoomLoaded(n) ==
  /\ Advances(n, "loading", "releasing")
  /\ local' = local \cup {n}
  /\ UNCHANGED <<lock, wanted, used, notices, overrun, deletes, creationTrouble>>

LoadFails(n) ==
  /\ Advances(n, "loading", "failing")
  /\ UNCHANGED <<lock, wanted, local, used, notices, overrun, deletes, creationTrouble>>

\* Fault: DEL without the comparison.
DeleteAnyLock(n) == Nobody

\* The script of _releaseLock().
DeleteOwnLock(n) == IF lock = n THEN Nobody ELSE lock

\* _releaseLock(); only then do the callers get the room, which may have been
\* invalidated meanwhile, and enter it.
Release(n) ==
  /\ creating[n] \in {"releasing", "failing"}
  /\ creating' = [creating EXCEPT ![n] = "no"]
  /\ \/ lock' = DeleteOwnLock(n) /\ UNCHANGED creationTrouble
     \/ UNCHANGED lock /\ CreationTrouble
  /\ used' = IF n \in wanted \cap local /\ creating[n] = "releasing"
             THEN used \cup {n} ELSE used
  /\ wanted' = wanted \ {n}
  /\ overrun' = overrun \ {n}
  /\ UNCHANGED <<local, notices, deletes>>

\* LOCK_TTL_MS passes.
LockExpires ==
  /\ CreationTrouble /\ lock # Nobody
  /\ lock' = Nobody
  /\ overrun' = IF creating[lock] \in {"loading", "releasing", "failing"}
                THEN overrun \cup {lock} ELSE overrun
  /\ UNCHANGED <<creating, wanted, local, used, notices, deletes>>

\* The last client has left and the room was saved, or it was evicted.
DeleteRoom(n) ==
  /\ deletes < MaxDeletes /\ deletes' = deletes + 1
  /\ n \in local /\ creating[n] = "no"
  /\ local' = local \ {n} /\ used' = used \ {n}
  /\ notices' = [m \in Server |-> notices[m] + 1]
  /\ UNCHANGED <<lock, creating, wanted, overrun, creationTrouble>>

\* pmessage: whatever room the node has by now is destroyed, used or not.
Invalidate(n) ==
  /\ notices[n] > 0
  /\ notices' = [notices EXCEPT ![n] = @ - 1]
  /\ local' = local \ {n} /\ used' = used \ {n}
  /\ UNCHANGED <<lock, creating, wanted, overrun, deletes, creationTrouble>>

\* The process ends; its successor has another id and an empty map.
Dies(n) ==
  /\ CreationTrouble
  /\ creating' = [creating EXCEPT ![n] = "no"]
  /\ wanted' = wanted \ {n} /\ local' = local \ {n} /\ used' = used \ {n}
  /\ notices' = [notices EXCEPT ![n] = 0]
  /\ overrun' = overrun \ {n}
  /\ UNCHANGED <<lock, deletes>>

CreationNext ==
  \/ \E n \in Server :
       \/ \E client \in BOOLEAN : GetOrCreate(n, client)
       \/ Acquire(n) \/ AcquireUnheard(n) \/ GiveUp(n)
       \/ RoomLoaded(n) \/ LoadFails(n) \/ Release(n)
       \/ DeleteRoom(n) \/ Invalidate(n) \/ Dies(n)
  \/ LockExpires

CreationSpec == CreationInit /\ [][CreationNext]_creationVars

---------------------------------------------------------------------------
CreationTypeOK ==
  /\ lock \in Server \cup {Nobody}
  /\ creating \in [Server -> {"no", "locking", "loading", "releasing", "failing"}]
  /\ wanted \subseteq Server /\ local \subseteq Server /\ used \subseteq local
  /\ notices \in [Server -> Nat] /\ overrun \subseteq Server
  /\ deletes \in Nat /\ creationTrouble \in Nat

\* Two nodes run the factory of a room at once only if the lock of one of them
\* expired under it: no release, timeout or lost reply of another node lets a
\* second one in.
LoadsExclusive ==
  \A m, n \in Server : creating[m] = "loading" /\ creating[n] = "loading" =>
    m = n \/ {m, n} \cap overrun # {}
=============================================================================
