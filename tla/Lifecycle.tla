------------------------------- MODULE Lifecycle -------------------------------
(***************************************************************************)
(* The process: run() of cmd/nebius-observability-agent-updater/main.go,   *)
(* Run and runForAgent of internal/application/application.go, and the     *)
(* systemd unit that starts the process, stops it and starts it again.     *)
(*                                                                         *)
(* A poll is what the other modules model; here it begins, ends, panics or *)
(* hangs.  A tick is long for the scheduler: what can run has run before   *)
(* it.                                                                     *)
(***************************************************************************)
EXTENDS Integers

CONSTANTS Agents,      \* a goroutine for each
          Configs      \* what PollInterval and PollJitter may be, in ticks

ASSUME LifecycleAssumption == Configs \subseteq [interval : Nat, jitter : Nat]

VARIABLES
  unit,       \* "active", "stopping", "stopped", or "dead" until its restart
  ended,      \* how the last process ended
  config,     \* the configuration of the process
  sigChan,    \* whether a signal is in the channel, which holds one
  cancelled,  \* whether the context is
  main,       \* what run() waits for: "select", or "errChan" after a signal
  errChan,    \* whether Run has returned
  loop,       \* where the goroutine of each agent is
  timer,      \* ticks to the next poll of each agent
  late        \* ghost: polls of each agent begun since the cancel, up to 2

process == <<config, sigChan, cancelled, main, errChan, loop, timer, late>>
vars    == <<unit, ended, process>>

Runs == unit \in {"active", "stopping"}

TypeOK ==
  /\ unit \in {"active", "stopping", "stopped", "dead"}
  /\ ended \in {"never", "exit", "panic", "killed"}
  /\ config \in Configs
  /\ sigChan \in BOOLEAN /\ cancelled \in BOOLEAN /\ errChan \in BOOLEAN
  /\ main \in {"select", "errChan"}
  /\ loop \in [Agents -> {"waiting", "polling", "hung", "returned"}]
  /\ timer \in [Agents -> Nat]
  /\ late \in [Agents -> 0..2]

-----------------------------------------------------------------------------
(* The process starts: config.Load, NewFileGuard, application.New, go Run *)

\* Mutants: an interval may be negative; the jitter is taken twice.
IntervalsUncut(c) == (c.interval - c.jitter)..(c.interval + c.jitter)

IntervalsWide(c) == {IF i < 0 THEN 0 ELSE i :
                       i \in (c.interval - 2 * c.jitter)..(c.interval + c.jitter)}

\* PollInterval and a random jitter to either side, never below 0.
Intervals(c) == {IF i < 0 THEN 0 ELSE i :
                   i \in (c.interval - c.jitter)..(c.interval + c.jitter)}

Init ==
  /\ unit = "active" /\ ended = "never"
  /\ config \in Configs
  /\ sigChan = FALSE /\ cancelled = FALSE
  /\ main = "select" /\ errChan = FALSE
  /\ loop = [a \in Agents |-> "waiting"]
  /\ timer \in [Agents -> Intervals(config)]
  /\ late = [a \in Agents |-> 0]

\* systemd starts it, RestartSec after its end or when it is told to.
Start ==
  /\ ~Runs
  /\ unit' = "active"
  /\ config' \in Configs
  /\ sigChan' = FALSE /\ cancelled' = FALSE
  /\ main' = "select" /\ errChan' = FALSE
  /\ loop' = [a \in Agents |-> "waiting"]
  /\ timer' \in [Agents -> Intervals(config')]
  /\ late' = [a \in Agents |-> 0]
  /\ UNCHANGED ended

-----------------------------------------------------------------------------
(* runForAgent *)

\* Mutant: one agent is polled at a time.
StartPollAlone(a) ==
  /\ Runs /\ loop[a] = "waiting"
  /\ timer[a] = 0
  /\ \A b \in Agents : loop[b] \notin {"polling", "hung"}
  /\ loop' = [loop EXCEPT ![a] = "polling"]
  /\ late' = [late EXCEPT ![a] = IF cancelled /\ @ < 2 THEN @ + 1 ELSE @]
  /\ UNCHANGED <<unit, ended, config, sigChan, cancelled, main,
                 errChan, timer>>

\* The timer is due; select may take it though the context is cancelled.
StartPoll(a) ==
  /\ Runs /\ loop[a] = "waiting"
  /\ timer[a] = 0
  /\ loop' = [loop EXCEPT ![a] = "polling"]
  /\ late' = [late EXCEPT ![a] = IF cancelled /\ @ < 2 THEN @ + 1 ELSE @]
  /\ UNCHANGED <<unit, ended, config, sigChan, cancelled, main,
                 errChan, timer>>

PollEnds(a) ==
  /\ Runs /\ loop[a] = "polling"
  /\ loop' = [loop EXCEPT ![a] = "waiting"]
  /\ \E i \in Intervals(config) : timer' = [timer EXCEPT ![a] = i]
  /\ UNCHANGED <<unit, ended, config, sigChan, cancelled, main,
                 errChan, late>>

\* A call without a timeout does not return (oshelper.go:360), or a command
\* killed at its timeout left a child that holds its output (oshelper.go:196).
PollHangs(a) ==
  /\ Runs /\ loop[a] = "polling"
  /\ loop' = [loop EXCEPT ![a] = "hung"]
  /\ UNCHANGED <<unit, ended, config, sigChan, cancelled, main,
                 errChan, timer, late>>

Return(a) ==
  /\ Runs /\ loop[a] = "waiting"
  /\ cancelled
  /\ loop' = [loop EXCEPT ![a] = "returned"]
  /\ UNCHANGED <<unit, ended, config, sigChan, cancelled, main,
                 errChan, timer, late>>

-----------------------------------------------------------------------------
(* Run and run() *)

\* Mutant: the first goroutine to return ends Run.
RunReturnsEarly ==
  /\ Runs /\ ~errChan
  /\ \E a \in Agents : loop[a] = "returned"
  /\ errChan' = TRUE
  /\ UNCHANGED <<unit, ended, config, sigChan, cancelled, main, loop,
                 timer, late>>

\* The WaitGroup is down to zero.
RunReturns ==
  /\ Runs /\ ~errChan
  /\ \A a \in Agents : loop[a] = "returned"
  /\ errChan' = TRUE
  /\ UNCHANGED <<unit, ended, config, sigChan, cancelled, main, loop,
                 timer, late>>

\* Mutant: the signal is taken, and the context forgotten.
TakeSignalOnly ==
  /\ Runs /\ main = "select" /\ sigChan
  /\ sigChan' = FALSE
  /\ main' = "errChan"
  /\ UNCHANGED <<unit, ended, config, cancelled, errChan, loop, timer,
                 late>>

TakeSignal ==
  /\ Runs /\ main = "select" /\ sigChan
  /\ sigChan' = FALSE
  /\ cancelled' = TRUE
  /\ main' = "errChan"
  /\ UNCHANGED <<unit, ended, config, errChan, loop, timer, late>>

\* However it ends, the unit is restarted unless it was told to stop.
ProcessEnds(how) ==
  /\ unit' = IF unit = "stopping" THEN "stopped" ELSE "dead"
  /\ ended' = how
  /\ UNCHANGED process

\* Either select of run() has the result; it is never an error.
Exit == Runs /\ errChan /\ ProcessEnds("exit")

\* A guard's cap is passed: no goroutine outlives a panic.
Panic == Runs /\ (\E a \in Agents : loop[a] = "polling") /\ ProcessEnds("panic")

-----------------------------------------------------------------------------
(* systemd, and whoever sends signals *)

\* signal.Notify does not wait: a second signal waits in the channel, a third
\* is dropped.
Signal ==
  /\ Runs
  /\ sigChan' = TRUE
  /\ UNCHANGED <<unit, ended, config, cancelled, main, errChan, loop,
                 timer, late>>

Stop ==
  /\ unit = "active"
  /\ unit' = "stopping"
  /\ sigChan' = TRUE
  /\ UNCHANGED <<ended, config, cancelled, main, errChan, loop, timer, late>>

\* SIGKILL, from systemd when the stop takes too long, or from elsewhere; or a
\* signal before signal.Notify.
Kill == Runs /\ ProcessEnds("killed")

\* Nothing that can run waits for a tick; a poll may.
Quiet ==
  /\ ~errChan
  /\ ~(main = "select" /\ sigChan)
  /\ \A a \in Agents : loop[a] = "waiting" => timer[a] > 0 /\ ~cancelled

Tick ==
  /\ Runs /\ Quiet
  /\ timer' = [a \in Agents |-> IF loop[a] = "waiting" THEN timer[a] - 1
                                                       ELSE timer[a]]
  /\ UNCHANGED <<unit, ended, config, sigChan, cancelled, main, errChan, loop,
                 late>>

-----------------------------------------------------------------------------
AgentStep(a) == StartPoll(a) \/ PollEnds(a) \/ PollHangs(a) \/ Return(a)

Next ==
  \/ \E a \in Agents : AgentStep(a)
  \/ RunReturns \/ TakeSignal \/ Exit \/ Panic
  \/ Signal \/ Stop \/ Kill \/ Tick \/ Start

Spec == Init /\ [][Next]_vars

(***************************************************************************)
(* Fairness.  Goroutines that can run do, the unit is restarted and time   *)
(* passes.  A select with two ready cases takes each of them some time:    *)
(* strong fairness on Return.  Ticks wait for what can run: strong         *)
(* fairness.  Whether a poll ends is its own affair (PollsEnd of Client).  *)
(***************************************************************************)
FairSpec ==
  /\ Spec
  /\ \A a \in Agents : /\ WF_vars(StartPoll(a)) /\ SF_vars(Return(a))
                       /\ WF_vars(PollEnds(a) \/ PollHangs(a))
  /\ WF_vars(RunReturns) /\ WF_vars(TakeSignal) /\ WF_vars(Exit)
  /\ WF_vars(unit = "dead" /\ Start) /\ SF_vars(Tick)

-----------------------------------------------------------------------------
(* Safety *)

\* A process that exits by itself has let every poll end: a signal cuts none
\* short (main.go:70-79, application.go:258-268).
ExitIsGraceful ==
  [][Runs /\ ~Runs' /\ ended' = "exit"
       => \A a \in Agents : loop[a] = "returned"]_vars

\* With an interval above the jitter, select's choice between a timer and a
\* cancelled context costs an agent one more poll at most
\* (application.go:271-283).
FewLatePolls ==
  config.interval > config.jitter => \A a \in Agents : late[a] <= 1

-----------------------------------------------------------------------------
(* Liveness *)

\* Unless a poll hangs, a process that is sent a signal ends, whatever the
\* intervals and whatever the polls do (main.go:56-79).
SignalEndsProcess ==
  [](\A a \in Agents : loop[a] # "hung") => (sigChan ~> ~Runs)

\* An agent whose polls end is polled again and again, though the polls of the
\* others hang (application.go:258-268).
AgentsIndependent ==
  \A a \in Agents : <>[](Runs /\ ~cancelled /\ loop[a] # "hung")
                      => []<>(loop[a] = "polling")

=============================================================================
