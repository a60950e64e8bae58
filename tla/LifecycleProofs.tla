--------------------------- MODULE LifecycleProofs ---------------------------
(***************************************************************************)
(* Proofs about Lifecycle for any agents and configurations.  A loop that  *)
(* returned stays so until the next process, which carries the result of   *)
(* Run to the exit.  A poll begun after the cancel leaves a timer that is  *)
(* not due, and time no longer passes for a loop that may return.          *)
(***************************************************************************)
EXTENDS Lifecycle, TLAPS

USE LifecycleAssumption

\* Timers are set to naturals, above 0 if the interval is above the jitter.
LEMMA IntervalsType ==
  ASSUME NEW c \in Configs, NEW i \in Intervals(c)
  PROVE  i \in Nat /\ (c.interval > c.jitter => i > 0)
<1>1. c.interval \in Nat /\ c.jitter \in Nat
  OBVIOUS
<1>2. QED
  BY <1>1 DEF Intervals

-----------------------------------------------------------------------------
(* Types *)

\* The timers of a process that starts.
LEMMA FirstTimers ==
  \A c \in Configs : [Agents -> Intervals(c)] \subseteq [Agents -> Nat]
<1> TAKE c \in Configs
<1>1. \A i \in Intervals(c) : i \in Nat
  BY IntervalsType
<1>2. QED
  BY <1>1

LEMMA TypeInit == Init => TypeOK
<1>1. ASSUME Init PROVE timer \in [Agents -> Nat]
  <2>1. config \in Configs /\ timer \in [Agents -> Intervals(config)]
    BY <1>1 DEF Init
  <2>2. QED
    BY <2>1, FirstTimers
<1>2. Init => /\ loop \in [Agents -> {"waiting", "polling", "hung", "returned"}]
              /\ late \in [Agents -> 0..2]
  BY DEF Init
<1>3. QED
  BY <1>1, <1>2, Zenon DEF Init, TypeOK

LEMMA TypeStart == TypeOK /\ Start => TypeOK'
<1>1. ASSUME Start PROVE timer' \in [Agents -> Nat]
  <2>1. config' \in Configs /\ timer' \in [Agents -> Intervals(config')]
    BY <1>1 DEF Start
  <2>2. QED
    BY <2>1, FirstTimers
<1>2. Start => /\ loop' \in [Agents -> {"waiting", "polling", "hung", "returned"}]
               /\ late' \in [Agents -> 0..2]
  BY DEF Start
<1>3. QED
  BY <1>1, <1>2, Zenon DEF Start, TypeOK

LEMMA TypeAgent ==
  ASSUME TypeOK, NEW a \in Agents, AgentStep(a)
  PROVE  TypeOK'
<1> USE DEF TypeOK
<1>1. CASE StartPoll(a)
  <2>1. late' \in [Agents -> 0..2]
    BY <1>1 DEF StartPoll
  <2>2. QED
    BY <1>1, <2>1 DEF StartPoll
<1>2. CASE PollEnds(a)
  <2>1. timer' \in [Agents -> Nat]
    BY <1>2, IntervalsType DEF PollEnds
  <2>2. QED
    BY <1>2, <2>1 DEF PollEnds
<1>3. CASE PollHangs(a)
  BY <1>3 DEF PollHangs
<1>4. CASE Return(a)
  BY <1>4 DEF Return
<1>5. QED
  BY <1>1, <1>2, <1>3, <1>4 DEF AgentStep

LEMMA TypeRest ==
  ASSUME TypeOK,
         \/ RunReturns \/ TakeSignal \/ Exit \/ Panic
         \/ Signal \/ Stop \/ Kill \/ Tick
  PROVE  TypeOK'
<1> USE DEF TypeOK
<1>1. CASE RunReturns \/ TakeSignal \/ Signal \/ Stop
  BY <1>1 DEF RunReturns, TakeSignal, Signal, Stop
<1>2. CASE Exit \/ Panic \/ Kill
  BY <1>2 DEF Exit, Panic, Kill, ProcessEnds, process
<1>3. CASE Tick
  <2>1. timer' \in [Agents -> Nat]
    BY <1>3 DEF Tick, Quiet
  <2>2. QED
    BY <1>3, <2>1 DEF Tick
<1>4. QED
  BY <1>1, <1>2, <1>3

\* Every variable keeps its type; in particular no timer is ever negative
\* (application.go:273-277).
THEOREM TypeCorrect == Spec => []TypeOK
<1>1. TypeOK /\ UNCHANGED vars => TypeOK'
  BY DEF TypeOK, vars, process
<1>2. TypeOK /\ [Next]_vars => TypeOK'
  BY <1>1, TypeStart, TypeAgent, TypeRest DEF Next
<1>3. QED
  BY <1>2, TypeInit, PTL DEF Spec

-----------------------------------------------------------------------------
(* The inductive invariant *)

\* Run has returned when all the loops have.
Joined == errChan => \A a \in Agents : loop[a] = "returned"

\* Of an agent that began a poll since the cancel, the timer is not due again.
Spared(a) ==
  /\ late[a] > 0 => cancelled
  /\ config.interval > config.jitter
       => /\ late[a] <= 1
          /\ late[a] = 1 /\ loop[a] = "waiting" => timer[a] > 0

IInv == TypeOK /\ Joined /\ \A a \in Agents : Spared(a)

LEMMA InvInit == Init => Joined /\ \A a \in Agents : Spared(a)
BY DEF Init, Joined, Spared

LEMMA InvStart == Start => Joined' /\ \A a \in Agents : Spared(a)'
BY DEF Start, Joined, Spared

\* A loop that moves has not returned, so neither has Run.
LEMMA JoinedAgent ==
  ASSUME IInv, NEW a \in Agents, AgentStep(a)
  PROVE  Joined'
<1>1. loop[a] # "returned" /\ errChan' = errChan
  BY DEF AgentStep, StartPoll, PollEnds, PollHangs, Return
<1>2. QED
  BY <1>1 DEF IInv, Joined

LEMMA SparedAgent ==
  ASSUME IInv, NEW a \in Agents, AgentStep(a)
  PROVE  \A b \in Agents : Spared(b)'
<1> SUFFICES ASSUME NEW b \in Agents PROVE Spared(b)'
  OBVIOUS
<1> USE DEF IInv, TypeOK
<1>1. config' = config /\ cancelled' = cancelled
  BY DEF AgentStep, StartPoll, PollEnds, PollHangs, Return
<1>2. CASE a # b
  <2>1. loop'[b] = loop[b] /\ timer'[b] = timer[b] /\ late'[b] = late[b]
    BY <1>2 DEF AgentStep, StartPoll, PollEnds, PollHangs, Return
  <2>2. QED
    BY <1>1, <2>1 DEF Spared
<1>3. CASE a = b
  <2>1. CASE StartPoll(a)
    <3>1. /\ loop[a] = "waiting" /\ timer[a] = 0 /\ loop'[a] = "polling"
          /\ late'[a] = IF cancelled /\ late[a] < 2 THEN late[a] + 1
                                                    ELSE late[a]
      BY <2>1 DEF StartPoll
    <3>2. late[a] \in 0..2
      OBVIOUS
    <3>3. QED
      BY <1>1, <1>3, <3>1, <3>2 DEF Spared
  <2>2. CASE PollEnds(a)
    <3>1. late' = late /\ timer'[a] \in Intervals(config)
      BY <2>2 DEF PollEnds
    <3>2. config.interval > config.jitter => timer'[a] > 0
      BY <3>1, IntervalsType
    <3>3. QED
      BY <1>1, <1>3, <3>1, <3>2 DEF Spared
  <2>3. CASE PollHangs(a) \/ Return(a)
    BY <1>1, <1>3, <2>3 DEF PollHangs, Return, Spared
  <2>4. QED
    BY <2>1, <2>2, <2>3 DEF AgentStep
<1>4. QED
  BY <1>2, <1>3

\* Everything else, where a tick spares the loops of a cancelled context.
LEMMA InvRest ==
  ASSUME IInv,
         \/ RunReturns \/ TakeSignal \/ Exit \/ Panic
         \/ Signal \/ Stop \/ Kill \/ Tick
  PROVE  Joined' /\ \A a \in Agents : Spared(a)'
<1> USE DEF IInv, TypeOK, Joined, Spared
<1>1. CASE RunReturns \/ TakeSignal \/ Signal \/ Stop
  BY <1>1 DEF RunReturns, TakeSignal, Signal, Stop
<1>2. CASE Exit \/ Panic \/ Kill
  BY <1>2 DEF Exit, Panic, Kill, ProcessEnds, process
<1>3. CASE Tick
  BY <1>3 DEF Tick, Quiet
<1>4. QED
  BY <1>1, <1>2, <1>3

LEMMA InvariantHolds == Spec => []IInv
<1>1. Init => IInv
  BY TypeInit, InvInit DEF IInv
<1>2. IInv /\ [Next]_vars => Joined' /\ \A a \in Agents : Spared(a)'
  <2>1. IInv /\ UNCHANGED vars => Joined' /\ \A a \in Agents : Spared(a)'
    BY DEF IInv, Joined, Spared, vars, process
  <2>2. QED
    BY <2>1, InvStart, JoinedAgent, SparedAgent, InvRest DEF Next
<1>3. IInv /\ [Next]_vars /\ TypeOK' => IInv'
  BY <1>2 DEF IInv
<1>4. QED
  BY <1>1, <1>3, TypeCorrect, PTL DEF Spec

-----------------------------------------------------------------------------
\* With an interval above the jitter no agent begins more than one poll after
\* the context was cancelled (application.go:271-285).
THEOREM LatePollsAreFew == Spec => []FewLatePolls
<1>1. IInv => FewLatePolls
  BY DEF IInv, Spared, FewLatePolls
<1>2. QED
  BY <1>1, InvariantHolds, PTL

\* A process that exits by itself has let every poll end (main.go:62-81,
\* application.go:258-269).
THEOREM ExitsGracefully == Spec => ExitIsGraceful
<1>1. IInv /\ [Next]_vars
        => (Runs /\ ~Runs' /\ ended' = "exit"
              => \A a \in Agents : loop[a] = "returned")
  <2> SUFFICES ASSUME IInv, [Next]_vars, Runs, ~Runs', ended' = "exit"
               PROVE  \A a \in Agents : loop[a] = "returned"
    OBVIOUS
  <2>1. unit' # unit
    BY DEF Runs
  <2>2. Exit \/ Panic \/ Kill
    BY <2>1 DEF Runs, Next, vars, AgentStep, StartPoll, PollEnds, PollHangs,
           Return, RunReturns, TakeSignal, Signal, Stop, Tick, Start
  <2>3. Exit
    BY <2>2 DEF Panic, Kill, ProcessEnds
  <2>4. QED
    BY <2>3 DEF Exit, IInv, Joined
<1>2. QED
  BY <1>1, InvariantHolds, PTL DEF Spec, ExitIsGraceful

=============================================================================
