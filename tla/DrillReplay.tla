---------------------------- MODULE DrillReplay ----------------------------
(***************************************************************************)
(* The replay engine of the cluster simulation (simulator/ReplayEngine.ts):*)
(* it records what injectFailure(), resolveFailure() and the scenario do   *)
(* to the hosts, and does it again.  A continuous replay arms one timer    *)
(* per event; pausing, stepping and resuming share `index` with them.      *)
(*                                                                         *)
(* Timers fire in the order of their delays.  Each delay is computed from  *)
(* a clock that moves on meanwhile, so two events recorded closer together *)
(* than that may fire either way.  A timer that was cleared never fires.   *)
(***************************************************************************)
EXTENDS FailureDrills

CONSTANTS MaxTape,         \* events of a recording
          MaxRequests      \* requests of the admins, imports apart

ASSUME ReplayAssumption == MaxTape \in Nat /\ MaxRequests \in Nat

VARIABLES player,          \* _state
          tape,            \* _recordedEvents
          traces,          \* _traces
          trace,           \* _replayTrace, << >> for none
          index,           \* _currentIndex
          executed,        \* _executedEvents
          armed,           \* _replayTimers: places in a trace, by delay
          asked            \* requests so far

replayVars == <<player, tape, traces, trace, index, executed, armed>>
playVars == <<traces, trace, index, executed, armed>>

\* `tie`: recorded so soon after the event before that either may fire first.
TapeEvent(does, h, kind, tie) == [does |-> does, host |-> h, kind |-> kind, tie |-> tie]
\* A trace that was exported by another simulation.
Imported(h) ==
  <<TapeEvent("inject", h, "delay", FALSE), TapeEvent("recover", h, "delay", FALSE),
    TapeEvent("inject", h, "shutdown", FALSE)>>

ReplayInit ==
  /\ player = "idle" /\ tape = << >> /\ traces = {}
  /\ trace = << >> /\ index = 0 /\ executed = << >> /\ armed = << >>

-----------------------------------------------------------------------------
\* recordEvent(), which the handlers call after the event.
Recorded(does, h, kind) ==
  /\ IF player = "recording"
       THEN /\ Len(tape) < MaxTape
            /\ \E tie \in BOOLEAN :
                 /\ tape = << >> => ~ tie
                 /\ tape' = Append(tape, TapeEvent(does, h, kind, tie))
       ELSE UNCHANGED tape
  /\ UNCHANGED <<player, playVars>>

InjectNow(h, kind, timed) == Inject(h, kind, timed) /\ Recorded("inject", h, kind)
ResolveNow(i) == Resolve(i) /\ Recorded("recover", failures[i].host, failures[i].kind)
\* It is recorded without a failure type: replaying it does nothing.
Performed(s) ==
  Perform(s) /\ LET a == Head(script[s]) IN Recorded("scripted", a.on, "none")

StartRecording ==
  /\ simulation = "running"
  /\ player \notin {"recording", "replaying", "stepping"}
  /\ player' = "recording" /\ tape' = << >>
  /\ UNCHANGED <<playVars, drillVars>>

StopRecording ==
  /\ player = "recording"
  /\ traces' = traces \cup {tape}
  /\ player' = "idle"
  /\ UNCHANGED <<tape, trace, index, executed, armed, drillVars>>

ImportTrace(h) ==
  /\ traces' = traces \cup {Imported(h)}
  /\ UNCHANGED <<player, tape, trace, index, executed, armed, drillVars>>

\* stop() keeps what was being recorded and resets the rest.
Halted ==
  /\ Halt
  /\ traces' = IF player = "recording" THEN traces \cup {tape} ELSE traces
  /\ player' = "idle" /\ tape' = << >>
  /\ trace' = << >> /\ index' = 0 /\ executed' = << >> /\ armed' = << >>

-----------------------------------------------------------------------------
\* scheduleContinuousReplay()
Remaining(t, k) == [j \in 1..(Len(t) - k) |-> [at |-> k + j, of |-> t]]

StartReplay(t, mode) ==
  /\ simulation = "running"
  /\ player \notin {"recording", "replaying", "stepping"}
  /\ t \in traces /\ t # << >>
  /\ trace' = t /\ index' = 0 /\ executed' = << >>
  /\ player' = IF mode = "continuous" THEN "replaying" ELSE "stepping"
  /\ armed' = IF mode = "continuous" THEN armed \o Remaining(t, 0) ELSE armed
  /\ UNCHANGED <<tape, traces, drillVars>>

StopReplay ==
  /\ player \in {"replaying", "stepping", "paused", "completed"}
  /\ player' = "idle" /\ trace' = << >> /\ armed' = << >>
  /\ UNCHANGED <<tape, traces, index, executed, drillVars>>

PauseReplayKeepsTimers ==
  /\ player = "replaying"
  /\ player' = "paused"
  /\ UNCHANGED <<tape, traces, trace, index, executed, armed, drillVars>>

PauseReplay ==
  /\ player = "replaying"
  /\ player' = "paused" /\ armed' = << >>
  /\ UNCHANGED <<tape, traces, trace, index, executed, drillVars>>

ResumeReplay ==
  /\ player = "paused"
  /\ player' = "replaying"
  /\ armed' = armed \o Remaining(trace, index)
  /\ UNCHANGED <<tape, traces, trace, index, executed, drillVars>>

\* executeReplayEvent(): a recovery resolves every open failure of the host,
\* and nothing is recorded meanwhile.
Executes(e) ==
  /\ executed' = Append(executed, e)
  /\ \/ e.does = "inject" /\ Afflict(e.host, e.kind, FALSE)
     \/ e.does = "recover" /\ Heal(OpenOn(e.host), e.host) /\ UNCHANGED delays
     \/ e.does = "scripted" /\ UNCHANGED <<health, failures, delays>>
  /\ UNCHANGED <<startVars, script, chaosVars, tape, traces, trace>>

StepForward ==
  /\ player \in {"stepping", "paused"} /\ index < Len(trace)
  /\ Executes(trace[index + 1])
  /\ index' = index + 1
  /\ player' = IF index + 1 = Len(trace) THEN "completed" ELSE player
  /\ UNCHANGED armed

\* The timer that fires next: the first, or its tie.
Due == {k \in DOMAIN armed :
          \A j \in 1..(k - 1) :
            /\ armed[j].of = armed[k].of /\ armed[j].at < armed[k].at
            /\ \A i \in (armed[j].at + 1)..armed[k].at : armed[k].of[i].tie}

\* Its callback keeps the event and the trace it was armed with.
Fire(k) ==
  /\ k \in Due
  /\ armed' = SubSeq(armed, 1, k - 1) \o SubSeq(armed, k + 1, Len(armed))
  /\ LET i == armed[k].at
         of == armed[k].of
     IN  \/ /\ player = "replaying"
            /\ Executes(of[i])
            /\ index' = i
            /\ player' = IF i = Len(of) THEN "completed" ELSE player
         \/ /\ player # "replaying"
            /\ UNCHANGED <<player, tape, traces, trace, index, executed, drillVars>>

-----------------------------------------------------------------------------
DrillsInit == DrillInit /\ ReplayInit /\ asked = 0

\* What an admin's request does.
Asks ==
  \/ (Begin \/ StartChaos \/ StopChaos) /\ UNCHANGED replayVars
  \/ Halted
  \/ \E h \in Host, kind \in Injected, timed \in BOOLEAN : InjectNow(h, kind, timed)
  \/ \E i \in 1..MaxFailures : ResolveNow(i)
  \/ StartRecording \/ StopRecording
  \/ \E t \in traces, mode \in {"continuous", "step"} : StartReplay(t, mode)
  \/ StopReplay \/ PauseReplay \/ ResumeReplay \/ StepForward

\* What goes on by itself.
Runs ==
  \/ /\ \/ \E s \in Call : GoOn(s) \/ Tick(s)
        \/ \E s \in Call, i \in 1..MaxFailures :
             StormOver(s, i) \/ Recover(s, i) \/ Recovered(s, i)
        \/ \E i \in 1..MaxFailures : DelayOver(i)
     /\ UNCHANGED replayVars
  \/ \E s \in Call : Performed(s)
  \/ \E k \in DOMAIN armed : Fire(k)

DrillsNext ==
  \/ asked < MaxRequests /\ Asks /\ asked' = asked + 1
  \/ (Runs \/ \E h \in Host : ImportTrace(h)) /\ UNCHANGED asked

drillsVars == <<drillVars, replayVars, asked>>

DrillsSpec == DrillsInit /\ [][DrillsNext]_drillsVars

-----------------------------------------------------------------------------
DrillsTypeOK ==
  /\ simulation \in {"idle", "starting", "running", "stopped"}
  /\ begun \in 0..MaxStarts /\ spawning \subseteq 1..begun
  /\ engine \in 0..begun /\ ticking \subseteq 1..begun
  /\ health \in [Host -> {"healthy", "degraded", "partitioned", "down"}]
  /\ DOMAIN failures = 1..Len(failures) /\ Len(failures) <= MaxFailures
  /\ delays \subseteq Nat
  /\ player \in {"idle", "recording", "replaying", "stepping", "paused", "completed"}
  /\ Len(tape) <= MaxTape
  /\ index \in Nat

\* While no recording has events too close to tell apart, a replay has
\* executed the events of its trace up to `index` in their order and each of
\* them once, however it was paused, stepped and resumed, and its timers hold
\* the others.
ReplayInOrder ==
  (\A t \in traces : \A i \in DOMAIN t : ~ t[i].tie) =>
    /\ player \in {"replaying", "stepping", "paused", "completed"} =>
         /\ executed = SubSeq(trace, 1, index)
         /\ player = "completed" <=> index = Len(trace)
    /\ armed = IF player = "replaying" THEN Remaining(trace, index) ELSE << >>

\* The chaos of one simulation does not reach into the next one, and a replay
\* does what was recorded.
DrillsOnTrack == TimersMatch /\ ReplayInOrder
=============================================================================
