---------------------------- MODULE ClusterClock ----------------------------
(***************************************************************************)
(* The cluster clock of one process: Redis TIME, interpolated along the    *)
(* process's monotonic clock.  The background timer and the resync after a *)
(* reconnect may each have a request on its way.  One tick stands for both *)
(* clocks; Redis stands `skew` ahead of the monotonic clock until it jumps.*)
(***************************************************************************)
EXTENDS Integers

CONSTANTS
  Caller,    \* who may call syncFromRedis() at once
  BootWall,  \* BOOT_WALL_MS, relative to the monotonic clock
  Skews,     \* the values that Redis TIME may have, relative to it
  MaxMono    \* bound on the monotonic clock

ASSUME ClockAssumption == BootWall \in Int /\ Skews \subseteq Int /\ MaxMono \in Nat

VARIABLES
  mono,       \* process.hrtime
  skew,       \* Redis TIME - mono
  hasSynced,
  anchor,     \* cachedRedisTimeMs - cachedAtHrtimeNs
  sync        \* requests on their way: when sent, what Redis answered

clockVars == <<mono, skew, hasSynced, anchor, sync>>

NotSent == -1
Idle == [sent |-> NotSent, answered |-> FALSE, time |-> 0]

ClockInit ==
  /\ mono = 0 /\ skew \in Skews /\ hasSynced = FALSE /\ anchor = 0
  /\ sync = [c \in Caller |-> Idle]

GetClusterTimeMs == mono + IF hasSynced THEN anchor ELSE BootWall

Send(c) ==
  /\ sync[c] = Idle
  /\ sync' = [sync EXCEPT ![c] = [sent |-> mono, answered |-> FALSE, time |-> 0]]
  /\ UNCHANGED <<mono, skew, hasSynced, anchor>>

\* Redis reads its clock.
RedisAnswers(c) ==
  /\ sync[c] # Idle /\ ~sync[c].answered
  /\ sync' = [sync EXCEPT ![c].answered = TRUE, ![c].time = mono + skew]
  /\ UNCHANGED <<mono, skew, hasSynced, anchor>>

Midpoint(c) == sync[c].sent + (mono - sync[c].sent) \div 2

\* Fault: an answer that would set the clock back is adopted.
AdoptAny(c, time) == TRUE

\* An answer behind the interpolated time is not adopted.
Adopt(c, time) == hasSynced => time >= anchor + Midpoint(c)

Reply(c) ==
  /\ sync[c].answered
  /\ IF Adopt(c, sync[c].time)
     THEN /\ anchor' = sync[c].time - Midpoint(c)
          /\ hasSynced' = TRUE
     ELSE UNCHANGED <<anchor, hasSynced>>
  /\ sync' = [sync EXCEPT ![c] = Idle]
  /\ UNCHANGED <<mono, skew>>

SyncFails(c) ==
  /\ sync[c] # Idle
  /\ sync' = [sync EXCEPT ![c] = Idle]
  /\ UNCHANGED <<mono, skew, hasSynced, anchor>>

ClockTick ==
  /\ mono < MaxMono /\ mono' = mono + 1
  /\ UNCHANGED <<skew, hasSynced, anchor, sync>>

\* A failover to a Redis whose clock stands elsewhere.
Failover ==
  /\ \E s \in Skews \ {skew} : skew' = s
  /\ UNCHANGED <<mono, hasSynced, anchor, sync>>

ClockNext ==
  \/ \E c \in Caller : Send(c) \/ RedisAnswers(c) \/ Reply(c) \/ SyncFails(c)
  \/ ClockTick \/ Failover

ClockSpec == ClockInit /\ [][ClockNext]_clockVars

---------------------------------------------------------------------------
Requests == [sent : NotSent..MaxMono, answered : BOOLEAN, time : Int]

ClockTypeOK ==
  /\ mono \in 0..MaxMono /\ skew \in Skews
  /\ hasSynced \in BOOLEAN /\ anchor \in Int
  /\ sync \in [Caller -> Requests]

\* Once synchronised the cluster time of a process never goes back, whatever
\* Redis answers and in whatever order two overlapping requests are answered.
ClockNeverBack == [][hasSynced => GetClusterTimeMs' >= GetClusterTimeMs]_clockVars
=============================================================================
