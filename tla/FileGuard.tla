----------------------------- MODULE FileGuard -----------------------------
(***************************************************************************)
(* The guard of internal/osutils/oshelper.go that keeps a wedged mount     *)
(* from hanging its callers.  guarded counts a call in the atomic counter  *)
(* pending, runs the system call in a goroutine of its own, and returns    *)
(* the goroutine's result or, when the timer is first, a timeout error.    *)
(* The goroutine of a timed-out call stays, and stays counted, until its   *)
(* system call returns.  A call that finds the cap exceeded panics, which  *)
(* ends the process; systemd starts a fresh one.                           *)
(***************************************************************************)
EXTENDS Integers, FiniteSets

CONSTANTS Callers,     \* goroutines that call guarded (one per agent)
          Paths,       \* files they access
          Workers,     \* identities for the goroutines guarded starts
          MaxPending,  \* the cap given to NewFileGuard
          None         \* no caller, no call

ASSUME GuardAssumption ==
  /\ IsFiniteSet(Callers) /\ IsFiniteSet(Workers)
  /\ MaxPending \in Nat /\ Cardinality(Workers) >= MaxPending
  /\ None \notin Callers \cup Paths /\ Paths # {}

VARIABLES
  pending,   \* FileGuard.pending
  timeouts,  \* FileGuard.timeouts
  pc,        \* where each caller is in guarded
  target,    \* the path of each caller's current or last call
  worker,    \* each goroutine: its state, path, and the caller it serves
  answered,  \* callers whose channel holds a result
  wedged     \* paths whose system calls do not return

vars == <<pending, timeouts, pc, target, worker, answered, wedged>>

PCs       == {"idle", "admitted", "rejected", "panicking", "waiting"}
Goroutine == [state : {"none", "running", "sent"}, path : Paths,
              owner : Callers \cup {None}]

TypeOK ==
  /\ pending \in Int
  /\ timeouts \subseteq Paths
  /\ pc \in [Callers -> PCs]
  /\ target \in [Callers -> Paths]
  /\ worker \in [Workers -> Goroutine]
  /\ answered \subseteq Callers
  /\ wedged \subseteq Paths

SomePath == CHOOSE p \in Paths : TRUE

NoGoroutine == [state |-> "none", path |-> SomePath, owner |-> None]

Init ==
  /\ pending  = 0
  /\ timeouts = {}
  /\ pc       = [c \in Callers |-> "idle"]
  /\ target   = [c \in Callers |-> SomePath]
  /\ worker   = [w \in Workers |-> NoGoroutine]
  /\ answered = {}
  /\ wedged   = {}

\* Goroutines still counted, and callers that are counted ahead of one.
Live     == {w \in Workers : worker[w].state # "none"}
Admitted == {c \in Callers : pc[c] = "admitted"}
Rejected == {c \in Callers : pc[c] = "rejected"}

-----------------------------------------------------------------------------
(* The caller *)

\* Mutant: the cap is compared with the count before the call's own.
EnterOffByOne(c, p) ==
  /\ pc[c] = "idle"
  /\ pending' = pending + 1
  /\ pc' = [pc EXCEPT ![c] = IF pending > MaxPending THEN "rejected"
                                                     ELSE "admitted"]
  /\ target' = [target EXCEPT ![c] = p]
  /\ UNCHANGED <<timeouts, worker, answered, wedged>>

\* Mutant: a call at the cap is rejected too early.
EnterTooStrict(c, p) ==
  /\ pc[c] = "idle"
  /\ pending' = pending + 1
  /\ pc' = [pc EXCEPT ![c] = IF pending + 1 >= MaxPending THEN "rejected"
                                                          ELSE "admitted"]
  /\ target' = [target EXCEPT ![c] = p]
  /\ UNCHANGED <<timeouts, worker, answered, wedged>>

\* pending.Add(1) and the comparison of its result with the cap.
Enter(c, p) ==
  /\ pc[c] = "idle"
  /\ pending' = pending + 1
  /\ pc' = [pc EXCEPT ![c] = IF pending + 1 > MaxPending THEN "rejected"
                                                         ELSE "admitted"]
  /\ target' = [target EXCEPT ![c] = p]
  /\ UNCHANGED <<timeouts, worker, answered, wedged>>

\* pending.Add(-1): no goroutine will be started for this call.
Withdraw(c) ==
  /\ pc[c] = "rejected"
  /\ pending' = pending - 1
  /\ pc' = [pc EXCEPT ![c] = "panicking"]
  /\ UNCHANGED <<timeouts, target, worker, answered, wedged>>

\* The panic takes the whole process with it; what is wedged stays so.
Panic(c) ==
  /\ pc[c] = "panicking"
  /\ pending'  = 0
  /\ timeouts' = {}
  /\ pc'       = [d \in Callers |-> "idle"]
  /\ target'   = [d \in Callers |-> SomePath]
  /\ worker'   = [w \in Workers |-> NoGoroutine]
  /\ answered' = {}
  /\ UNCHANGED wedged

\* A channel is made and the goroutine is started.
Spawn(c, w) ==
  /\ pc[c] = "admitted"
  /\ worker[w].state = "none"
  /\ worker' = [worker EXCEPT ![w] = [state |-> "running",
                                      path |-> target[c], owner |-> c]]
  /\ answered' = answered \ {c}
  /\ pc' = [pc EXCEPT ![c] = "waiting"]
  /\ UNCHANGED <<pending, timeouts, target, wedged>>

\* The channel of the call is dropped: whoever still serves it serves nobody.
Disowned(c) ==
  [w \in Workers |-> IF worker[w].owner = c
                     THEN [worker[w] EXCEPT !.owner = None] ELSE worker[w]]

TakeResult(c) ==
  /\ pc[c] = "waiting"
  /\ c \in answered
  /\ worker' = Disowned(c)
  /\ answered' = answered \ {c}
  /\ pc' = [pc EXCEPT ![c] = "idle"]
  /\ UNCHANGED <<pending, timeouts, target, wedged>>

\* Mutant: giving a call up also uncounts its goroutine.
TimerFiresUncounts(c) ==
  /\ pc[c] = "waiting"
  /\ pending' = pending - 1
  /\ timeouts' = timeouts \cup {target[c]}
  /\ worker' = Disowned(c)
  /\ answered' = answered \ {c}
  /\ pc' = [pc EXCEPT ![c] = "idle"]
  /\ UNCHANGED <<target, wedged>>

\* Mutant: the timer only helps a call that has an answer.
TimerFiresLate(c) ==
  /\ pc[c] = "waiting"
  /\ c \in answered
  /\ timeouts' = timeouts \cup {target[c]}
  /\ worker' = Disowned(c)
  /\ answered' = answered \ {c}
  /\ pc' = [pc EXCEPT ![c] = "idle"]
  /\ UNCHANGED <<pending, target, wedged>>

\* Mutant: one channel serves all calls of a caller.
TimerFiresShared(c) ==
  /\ pc[c] = "waiting"
  /\ timeouts' = timeouts \cup {target[c]}
  /\ pc' = [pc EXCEPT ![c] = "idle"]
  /\ UNCHANGED <<pending, target, worker, answered, wedged>>

\* The timer may fire on a slow call as well as on a wedged one, and select
\* may prefer it to a result that is there too.
TimerFires(c) ==
  /\ pc[c] = "waiting"
  /\ timeouts' = timeouts \cup {target[c]}
  /\ worker' = Disowned(c)
  /\ answered' = answered \ {c}
  /\ pc' = [pc EXCEPT ![c] = "idle"]
  /\ UNCHANGED <<pending, target, wedged>>

\* DrainTimeouts, which a request to the backend calls.
DrainTimeouts ==
  /\ timeouts # {}
  /\ timeouts' = {}
  /\ UNCHANGED <<pending, pc, target, worker, answered, wedged>>

-----------------------------------------------------------------------------
(* The goroutine *)

\* Mutant: the channel has no buffer, so that sending needs a receiver.
FinishUnbuffered(w) ==
  /\ worker[w].state = "running"
  /\ worker[w].path \notin wedged
  /\ worker[w].owner # None
  /\ worker' = [worker EXCEPT ![w].state = "sent"]
  /\ answered' = answered \cup {worker[w].owner}
  /\ UNCHANGED <<pending, timeouts, pc, target, wedged>>

\* Mutant: the result is delivered to a caller that is no longer there.
FinishUnowned(w) ==
  /\ worker[w].state = "running"
  /\ worker[w].path \notin wedged
  /\ worker' = [worker EXCEPT ![w].state = "sent"]
  /\ answered' = answered \cup {worker[w].owner}
  /\ UNCHANGED <<pending, timeouts, pc, target, wedged>>

\* The system call returns and its result goes into the channel's buffer,
\* whether or not anybody will read it.
Finish(w) ==
  /\ worker[w].state = "running"
  /\ worker[w].path \notin wedged
  /\ worker' = [worker EXCEPT ![w].state = "sent"]
  /\ answered' = answered \cup ({worker[w].owner} \ {None})
  /\ UNCHANGED <<pending, timeouts, pc, target, wedged>>

\* The deferred pending.Add(-1); the goroutine ends.
Exit(w) ==
  /\ worker[w].state = "sent"
  /\ worker' = [worker EXCEPT ![w] = NoGoroutine]
  /\ pending' = pending - 1
  /\ UNCHANGED <<timeouts, pc, target, answered, wedged>>

-----------------------------------------------------------------------------
(* The mounts *)

Wedge(p) ==
  /\ p \notin wedged
  /\ wedged' = wedged \cup {p}
  /\ UNCHANGED <<pending, timeouts, pc, target, worker, answered>>

Recover(p) ==
  /\ p \in wedged
  /\ wedged' = wedged \ {p}
  /\ UNCHANGED <<pending, timeouts, pc, target, worker, answered>>

-----------------------------------------------------------------------------
Call(c) == \/ \E w \in Workers : Spawn(c, w)
           \/ TakeResult(c) \/ TimerFires(c) \/ Withdraw(c) \/ Panic(c)

Run(w) == Finish(w) \/ Exit(w)

Next ==
  \/ \E c \in Callers, p \in Paths : Enter(c, p)
  \/ \E c \in Callers : Call(c)
  \/ \E w \in Workers : Run(w)
  \/ DrainTimeouts
  \/ \E p \in Paths : Wedge(p) \/ Recover(p)

Spec == Init /\ [][Next]_vars

\* Go runs every goroutine that can run, and timers fire.
FairSpec == /\ Spec
            /\ \A c \in Callers : WF_vars(Call(c))
            /\ \A w \in Workers : WF_vars(Run(w))

-----------------------------------------------------------------------------
(* Safety *)

\* The counter is exact at every moment: it counts each goroutine that has not
\* done its deferred decrement and each caller between its increment and what
\* that leads to, whatever timed out meanwhile (oshelper.go:269-292).
PendingExact ==
  pending = Cardinality(Live) + Cardinality(Admitted) + Cardinality(Rejected)

\* However many callers race for the last place, the goroutines never exceed
\* the cap, and places admitted callers hold are kept for them
\* (oshelper.go:221-226).
CapHolds == Cardinality(Live) + Cardinality(Admitted) <= MaxPending

Doomed == \E c \in Callers : pc[c] \in {"rejected", "panicking"}

\* A process that is not doomed already becomes so only when the cap is full
\* of goroutines in flight: callers that race do not count each other out
\* (oshelper.go:222-224, 270-273).
PanicOnlyAtCap ==
  [][~Doomed /\ Doomed'
       => Cardinality(Live) + Cardinality(Admitted) = MaxPending]_vars

-----------------------------------------------------------------------------
(* Refinement *)

\* The calls that have or get a goroutine, and the places of the pool they and
\* the calls given up take.
Calls  == [c \in Callers |-> IF pc[c] \in {"admitted", "waiting"} THEN target[c]
                                                               ELSE None]
Places == Cardinality(Live) + Cardinality(Admitted)

Guarded == INSTANCE GuardedCalls WITH
  call <- Calls, done <- answered, places <- Places, reports <- timeouts, full <- Doomed

\* Whatever times out, is late or races, a call returns with the end of its own
\* access or leaves its path to be reported, and what an access of a call given
\* up ends with reaches no later call (oshelper.go:264-292).
ImplementsGuard == Guarded!Spec

-----------------------------------------------------------------------------
(* Liveness *)

\* A wedged mount does not hang a caller: it gets a result, a timeout, or a
\* fresh process (oshelper.go:219-220).
CallReturns == \A c \in Callers : pc[c] # "idle" ~> pc[c] = "idle"

\* Once the mounts are well again, every goroutine left behind ends and gives
\* its place back (oshelper.go:220-222).
LeaksDrain ==
  <>[](wedged = {}) => \A w \in Workers : []<>(worker[w].state = "none")

=============================================================================
