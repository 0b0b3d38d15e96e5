--------------------------- MODULE FailureDrills ---------------------------
(***************************************************************************)
(* The cluster simulation of the admin routes (simulator/                  *)
(* ClusterSimulator.ts): its hosts, the failures that FailureInjector.ts   *)
(* puts on them, the scenario's timers and the chaos engine.               *)
(*                                                                         *)
(* start() awaits the editors of every host before it arms the timers and  *)
(* makes a chaos engine, and looks at nothing when it goes on: a stop()    *)
(* and another start() may have come in between.  Failure ids and chaos    *)
(* ids start at 1 again with every simulation.  The simulated editors are  *)
(* clients of a real server; only the time it takes to spawn them is here. *)
(***************************************************************************)
EXTENDS Integers, Sequences, FiniteSets

CONSTANTS Host,            \* nodes of the simulated cluster
          MaxStarts,       \* calls of start()
          MaxFailures,     \* failures injected in a simulation
          Injected,        \* kinds of failure that are injected
          MaxConcurrent    \* maxConcurrentFailures of the chaos engine

ASSUME DrillAssumption ==
  /\ Host # {} /\ Injected \subseteq {"shutdown", "partition", "delay", "eviction"}
  /\ MaxStarts \in Nat /\ MaxFailures \in Nat /\ MaxConcurrent \in Nat

VARIABLES simulation,      \* ClusterSimulator._state
          begun,           \* calls of start() so far; the last one made the hosts
          spawning,        \* calls of start() that await their editors
          scenario,        \* timeline of the last call
          script,          \* call -> what is left of the timeline it put on timers
          health,          \* host -> ClusterNode._health
          failures,        \* FailureInjector._events; an event's id is its place
          delays,          \* ids with a timer in FailureInjector._activeDelays
          engine,          \* the call whose chaos engine is the current one, or 0
          ticking,         \* calls whose chaos engine has its interval running
          chaos            \* call -> events of its engine, in any stage

drillVars == <<simulation, begun, spawning, scenario, script, health, failures, delays,
               engine, ticking, chaos>>
chaosVars == <<engine, ticking, chaos>>
startVars == <<simulation, begun, spawning, scenario>>

Call == 1..MaxStarts
Inflicted(kind) ==
  CASE kind = "shutdown" -> "down" [] kind = "partition" -> "partitioned"
    [] kind \in {"delay", "eviction"} -> "degraded"
AllHealthy == [h \in Host |-> "healthy"]
NoScript == [s \in Call |-> <<>>]

Act(name, h) == [name |-> name, on |-> h]
\* buildScenario(): balanced and hotspot only log.
Timelines(h) ==
  { << >>,
    << Act("kill", h), Act("redistribute", h), Act("restore", h) >>,
    << Act("evict", h), Act("degrade", h), Act("restore", h) >>,
    << Act("storm", h), Act("storm", h) >> }

Open == {i \in DOMAIN failures : failures[i].open}
OpenOn(h) == {i \in Open : failures[i].host = h}

DrillInit ==
  /\ simulation = "idle"
  /\ begun = 0 /\ spawning = {}
  /\ scenario = << >> /\ script = NoScript
  /\ health = AllHealthy
  /\ failures = << >> /\ delays = {}
  /\ engine = 0 /\ ticking = {}
  /\ chaos = [s \in Call |-> << >>]

-----------------------------------------------------------------------------
\* FailureInjector.reset()
Forget == failures' = << >> /\ delays' = {}

\* FailureInjector.inject(); it may arm a timer that resolves the failure.
Afflict(h, kind, timed) ==
  /\ Len(failures) < MaxFailures
  /\ health' = [health EXCEPT ![h] = Inflicted(kind)]
  /\ failures' = Append(failures, [host |-> h, kind |-> kind, open |-> TRUE])
  /\ delays' = IF timed /\ kind \in {"delay", "partition"}
                 THEN delays \cup {Len(failures) + 1} ELSE delays

\* FailureInjector.resolve() of some open failures of h: the host is healthy
\* again whatever else is still open on it.
Heal(ids, h) ==
  /\ failures' = [i \in DOMAIN failures |->
                    IF i \in ids THEN [failures[i] EXCEPT !.open = FALSE] ELSE failures[i]]
  /\ health' = IF ids = {} THEN health ELSE [health EXCEPT ![h] = "healthy"]

\* start(), up to the await.
Begin ==
  /\ simulation \notin {"starting", "running"}
  /\ begun < MaxStarts
  /\ simulation' = "starting"
  /\ begun' = begun + 1
  /\ spawning' = spawning \cup {begun + 1}
  /\ \E h \in Host : scenario' \in Timelines(h)
  /\ health' = AllHealthy
  /\ Forget
  /\ UNCHANGED <<script, chaosVars>>

\* start(), after it: with the timeline of the last call, whoever goes on.
GoOn(s) ==
  /\ s \in spawning
  /\ spawning' = spawning \ {s}
  /\ script' = [script EXCEPT ![s] = scenario]
  /\ engine' = s
  /\ simulation' = "running"
  /\ UNCHANGED <<begun, scenario, health, failures, delays, ticking, chaos>>

\* ChaosEngine.reset() forgets the entries; an injection that awaits its storm
\* goes on after it.
Emptied(s) ==
  [i \in DOMAIN chaos[s] |-> IF chaos[s][i].stage = "storming" THEN chaos[s][i]
                             ELSE [chaos[s][i] EXCEPT !.stage = "closed"]]

\* stop()
Halt ==
  /\ simulation \in {"starting", "running"}
  /\ simulation' = "stopped"
  /\ script' = NoScript
  /\ health' = AllHealthy
  /\ engine' = 0
  /\ ticking' = ticking \ {engine}
  /\ chaos' = [s \in Call |-> IF s = engine THEN Emptied(s) ELSE chaos[s]]
  /\ Forget
  /\ UNCHANGED <<begun, spawning, scenario>>

\* injectFailure() looks for the host and not at the state.
Inject(h, kind, timed) ==
  /\ begun > 0
  /\ Afflict(h, kind, timed)
  /\ UNCHANGED <<startVars, script, chaosVars>>

\* resolveFailure()
Resolve(i) ==
  /\ i \in Open
  /\ Heal({i}, failures[i].host)
  /\ UNCHANGED <<startVars, script, delays, chaosVars>>

\* The timer of a failure with a duration.
DelayOver(i) ==
  /\ i \in delays
  /\ Heal({i} \cap Open, failures[i].host)
  /\ delays' = delays \ {i}
  /\ UNCHANGED <<startVars, script, chaosVars>>

\* ClusterNode: kill(), restore(), degrade()
Turns(h, state) ==
  health' = [health EXCEPT ![h] = state] /\ UNCHANGED <<failures, delays>>

\* executeScenarioAction()
Perform(s) ==
  /\ script[s] # << >>
  /\ script' = [script EXCEPT ![s] = Tail(@)]
  /\ LET a == Head(script[s])
     IN  \/ a.name = "kill" /\ Turns(a.on, "down")
         \/ a.name = "restore" /\ Turns(a.on, "healthy")
         \/ a.name = "degrade" /\ Turns(a.on, "degraded")
         \/ a.name = "evict" /\ Afflict(a.on, "eviction", FALSE)
         \/ /\ \/ a.name = "storm"
               \/ a.name = "redistribute" /\ Cardinality(Host) > 1
            /\ health' = AllHealthy
            /\ UNCHANGED <<failures, delays>>
         \* A host that had no editor to hand over, or nobody to hand it to.
         \/ a.name = "redistribute" /\ UNCHANGED <<health, failures, delays>>
  /\ UNCHANGED <<startVars, chaosVars>>

-----------------------------------------------------------------------------
StartChaos ==
  /\ simulation = "running" /\ engine # 0
  /\ ticking' = ticking \cup {engine}
  /\ UNCHANGED <<startVars, script, health, failures, delays, engine, chaos>>

\* The failures stay open, without a timer.
StopChaos ==
  /\ engine \in ticking
  /\ ticking' = ticking \ {engine}
  /\ chaos' = [chaos EXCEPT ![engine] =
                 [i \in DOMAIN @ |-> IF @[i].stage = "armed" THEN [@[i] EXCEPT !.stage = "open"]
                                     ELSE @[i]]]
  /\ UNCHANGED <<startVars, script, health, failures, delays, engine>>

ChaosOpen(s) == {i \in DOMAIN chaos[s] : chaos[s][i].stage \in {"armed", "open", "recovering"}}
Eligible ==
  LET healthy == {h \in Host : health[h] = "healthy"}
  IN  IF healthy # {} THEN healthy ELSE {h \in Host : health[h] # "down"}
Entry(h, kind, id, stage) ==
  [host |-> h, kind |-> kind, id |-> id, hosts |-> begun, stage |-> stage]

\* tick(): a failure of the injector and the timer of its recovery, or a
\* storm, which is awaited before it is entered.
Tick(s) ==
  /\ s \in ticking
  /\ Len(chaos[s]) < MaxFailures
  /\ Cardinality(ChaosOpen(s)) < MaxConcurrent
  /\ \E h \in Eligible :
       \/ \E kind \in Injected :
            /\ Afflict(h, kind, FALSE)
            /\ chaos' = [chaos EXCEPT ![s] =
                           Append(@, Entry(h, kind, Len(failures) + 1, "armed"))]
       \/ /\ Turns(h, "healthy")
          /\ chaos' = [chaos EXCEPT ![s] = Append(@, Entry(h, "storm", 0, "storming"))]
  /\ UNCHANGED <<startVars, script, engine, ticking>>

Stage(s, i, stage) == chaos' = [chaos EXCEPT ![s][i].stage = stage]

\* The storm's editors are there: the entry is made, and its timer armed.
StormOver(s, i) ==
  /\ i \in DOMAIN chaos[s] /\ chaos[s][i].stage = "storming"
  /\ Stage(s, i, "armed")
  /\ UNCHANGED <<startVars, script, health, failures, delays, engine, ticking>>

\* recoverFromChaos(), up to its await: whatever failure has the id by now is
\* resolved, on the host that the entry was made for.
Recover(s, i) ==
  /\ i \in DOMAIN chaos[s] /\ chaos[s][i].stage = "armed"
  /\ LET c == chaos[s][i]
         ids == {c.id} \cap Open
         respawns == c.kind \in {"shutdown", "partition"}
     IN  /\ failures' = [j \in DOMAIN failures |->
                           IF j \in ids THEN [failures[j] EXCEPT !.open = FALSE] ELSE failures[j]]
         /\ health' = IF respawns \/ (ids # {} /\ c.hosts = begun)
                        THEN [health EXCEPT ![c.host] = "healthy"] ELSE health
         /\ Stage(s, i, IF respawns THEN "recovering" ELSE "closed")
  /\ UNCHANGED <<startVars, script, delays, engine, ticking>>

Recovered(s, i) ==
  /\ i \in DOMAIN chaos[s] /\ chaos[s][i].stage = "recovering"
  /\ Stage(s, i, "closed")
  /\ UNCHANGED <<startVars, script, health, failures, delays, engine, ticking>>

-----------------------------------------------------------------------------
\* Timers resolve what they were armed for, although every simulation numbers
\* its failures from 1 again.
TimersMatch ==
  /\ \A i \in delays : i \in DOMAIN failures
  /\ engine # 0 =>
       \A i \in DOMAIN chaos[engine] :
         LET c == chaos[engine][i]
         IN  c.stage = "armed" /\ c.kind # "storm" =>
               /\ c.id \in DOMAIN failures
               /\ failures[c.id].host = c.host /\ failures[c.id].kind = c.kind
=============================================================================
