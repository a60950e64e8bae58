-------------------------- MODULE FileGuardProofs --------------------------
(***************************************************************************)
(* Proofs about FileGuard for any number of callers, goroutines and paths  *)
(* and any cap.  The inductive invariant is the conjunction of the type    *)
(* invariant, the exactness of the counter and the cap: the counter is     *)
(* needed to carry the cap through Enter, where the code compares the      *)
(* counter and not the goroutines with the cap.                            *)
(***************************************************************************)
EXTENDS FileGuard, FiniteSetTheorems, TLAPS

\* The start of a process, and the goroutine that is none, are well typed.
LEMMA NoGoroutineType == SomePath \in Paths /\ NoGoroutine \in Goroutine
<1>1. SomePath \in Paths
  BY GuardAssumption DEF SomePath
<1>2. QED
  BY <1>1 DEF NoGoroutine, Goroutine

\* Every variable of guarded keeps its type.
THEOREM TypeCorrect == Spec => []TypeOK
<1>1. Init => TypeOK
  BY NoGoroutineType DEF Init, TypeOK, PCs
<1>2. TypeOK /\ [Next]_vars => TypeOK'
  <2> SUFFICES ASSUME TypeOK, [Next]_vars PROVE TypeOK'
    OBVIOUS
  <2> USE DEF TypeOK
  <2>1. ASSUME NEW c \in Callers, NEW p \in Paths, Enter(c, p) PROVE TypeOK'
    BY <2>1 DEF Enter, PCs
  <2>2. ASSUME NEW c \in Callers, NEW w \in Workers, Spawn(c, w)
        PROVE TypeOK'
    BY <2>2 DEF Spawn, PCs, Goroutine
  <2>3. ASSUME NEW c \in Callers PROVE Disowned(c) \in [Workers -> Goroutine]
    BY DEF Disowned, Goroutine
  <2>4. ASSUME NEW c \in Callers, TakeResult(c) PROVE TypeOK'
    BY <2>3, <2>4 DEF TakeResult, PCs
  <2>5. ASSUME NEW c \in Callers, TimerFires(c) PROVE TypeOK'
    BY <2>3, <2>5 DEF TimerFires, PCs
  <2>6. ASSUME NEW c \in Callers, Withdraw(c) PROVE TypeOK'
    BY <2>6 DEF Withdraw, PCs
  <2>7. ASSUME NEW c \in Callers, Panic(c) PROVE TypeOK'
    BY <2>7, NoGoroutineType DEF Panic, PCs
  <2>8. ASSUME NEW w \in Workers, Finish(w) PROVE TypeOK'
    <3>1. worker[w].owner \in Callers \cup {None}
      BY DEF Goroutine
    <3>2. QED
      BY <2>8, <3>1 DEF Finish, Goroutine
  <2>9. ASSUME NEW w \in Workers, Exit(w) PROVE TypeOK'
    BY <2>9, NoGoroutineType DEF Exit
  <2>10. CASE DrainTimeouts
    BY <2>10 DEF DrainTimeouts
  <2>11. ASSUME NEW p \in Paths, Wedge(p) \/ Recover(p) PROVE TypeOK'
    BY <2>11 DEF Wedge, Recover
  <2>12. CASE UNCHANGED vars
    BY <2>12 DEF vars
  <2>13. QED
    BY <2>1, <2>2, <2>4, <2>5, <2>6, <2>7, <2>8, <2>9, <2>10, <2>11, <2>12
    DEF Next, Call, Run
<1>3. QED
  BY <1>1, <1>2, PTL DEF Spec

-----------------------------------------------------------------------------
(* The counter and the cap *)

\* The sets the counter is compared with are finite.
LEMMA FiniteParts ==
  /\ IsFiniteSet(Live) /\ IsFiniteSet(Admitted) /\ IsFiniteSet(Rejected)
  /\ Cardinality(Live) \in Nat /\ Cardinality(Admitted) \in Nat
  /\ Cardinality(Rejected) \in Nat
<1>1. IsFiniteSet(Live) /\ IsFiniteSet(Admitted) /\ IsFiniteSet(Rejected)
  BY FS_Subset, GuardAssumption DEF Live, Admitted, Rejected
<1>2. QED
  BY <1>1, FS_CardinalityType

IInv == TypeOK /\ PendingExact /\ CapHolds

\* The start of a process: nothing is in flight and nothing is counted.
LEMMA NothingInFlight ==
  ASSUME pc = [c \in Callers |-> "idle"],
         worker = [w \in Workers |-> NoGoroutine], pending = 0
  PROVE  PendingExact /\ CapHolds
<1>1. Live = {} /\ Admitted = {} /\ Rejected = {}
  BY DEF Live, Admitted, Rejected, NoGoroutine
<1>2. Cardinality({}) = 0
  BY FS_EmptySet
<1>3. QED
  BY <1>1, <1>2, GuardAssumption DEF PendingExact, CapHolds

\* A step that leaves the sets and the counter alone keeps the invariant.
LEMMA SameParts ==
  ASSUME IInv, Live' = Live, Admitted' = Admitted, Rejected' = Rejected,
         pending' = pending
  PROVE  PendingExact' /\ CapHolds'
BY DEF IInv, PendingExact, CapHolds

\* The increment and the comparison: the call counts as admitted or rejected.
LEMMA EnterStep ==
  ASSUME IInv, NEW c \in Callers, NEW p \in Paths, Enter(c, p)
  PROVE  PendingExact' /\ CapHolds'
<1> USE FiniteParts DEF IInv, TypeOK
<1>1. Live' = Live
  BY DEF Enter, Live
<1>2. c \notin Admitted /\ c \notin Rejected
  BY DEF Enter, Admitted, Rejected
<1>3. CASE pending + 1 > MaxPending
  <2>1. pc' = [pc EXCEPT ![c] = "rejected"]
    BY <1>3 DEF Enter
  <2>2. Rejected' = Rejected \cup {c} /\ Admitted' = Admitted
    BY <2>1, <1>2 DEF Rejected, Admitted
  <2>3. Cardinality(Rejected') = Cardinality(Rejected) + 1
    BY <2>2, <1>2, FS_AddElement
  <2>4. QED
    BY <2>2, <2>3, <1>1 DEF Enter, PendingExact, CapHolds
<1>4. CASE ~(pending + 1 > MaxPending)
  <2>1. pc' = [pc EXCEPT ![c] = "admitted"]
    BY <1>4 DEF Enter
  <2>2. Admitted' = Admitted \cup {c} /\ Rejected' = Rejected
    BY <2>1, <1>2 DEF Rejected, Admitted
  <2>3. Cardinality(Admitted') = Cardinality(Admitted) + 1
    BY <2>2, <1>2, FS_AddElement
  <2>4. pending' = pending + 1
    BY DEF Enter
  <2>5. QED
    BY <2>2, <2>3, <2>4, <1>1, <1>4, GuardAssumption
    DEF PendingExact, CapHolds
<1>5. QED
  BY <1>3, <1>4

\* A rejected call is no longer counted.
LEMMA WithdrawStep ==
  ASSUME IInv, NEW c \in Callers, Withdraw(c)
  PROVE  PendingExact' /\ CapHolds'
<1> USE FiniteParts DEF IInv, TypeOK
<1>1. Live' = Live /\ Admitted' = Admitted /\ Rejected' = Rejected \ {c}
  BY DEF Withdraw, Live, Admitted, Rejected
<1>2. c \in Rejected
  BY DEF Withdraw, Rejected
<1>3. Cardinality(Rejected') = Cardinality(Rejected) - 1
  BY <1>1, <1>2, FS_RemoveElement
<1>4. QED
  BY <1>1, <1>3 DEF Withdraw, PendingExact, CapHolds

\* The place a caller holds becomes its goroutine's.
LEMMA SpawnStep ==
  ASSUME IInv, NEW c \in Callers, NEW w \in Workers, Spawn(c, w)
  PROVE  PendingExact' /\ CapHolds'
<1> USE FiniteParts DEF IInv, TypeOK
<1>1. /\ Admitted' = Admitted \ {c} /\ Rejected' = Rejected
      /\ Live' = Live \cup {w}
  BY DEF Spawn, Live, Admitted, Rejected
<1>2. c \in Admitted /\ w \notin Live
  BY DEF Spawn, Admitted, Live
<1>3. Cardinality(Admitted') = Cardinality(Admitted) - 1
  BY <1>1, <1>2, FS_RemoveElement
<1>4. Cardinality(Live') = Cardinality(Live) + 1
  BY <1>1, <1>2, FS_AddElement
<1>5. QED
  BY <1>1, <1>3, <1>4 DEF Spawn, PendingExact, CapHolds

\* The deferred decrement gives the goroutine's place back.
LEMMA ExitStep ==
  ASSUME IInv, NEW w \in Workers, Exit(w)
  PROVE  PendingExact' /\ CapHolds'
<1> USE FiniteParts DEF IInv, TypeOK
<1>1. Admitted' = Admitted /\ Rejected' = Rejected /\ Live' = Live \ {w}
  BY DEF Exit, Live, Admitted, Rejected, NoGoroutine
<1>2. w \in Live
  BY DEF Exit, Live
<1>3. Cardinality(Live') = Cardinality(Live) - 1
  BY <1>1, <1>2, FS_RemoveElement
<1>4. QED
  BY <1>1, <1>3, GuardAssumption DEF Exit, PendingExact, CapHolds

\* A caller that returns, answered or not, leaves its goroutine counted.
LEMMA ReturnStep ==
  ASSUME IInv, NEW c \in Callers, TakeResult(c) \/ TimerFires(c)
  PROVE  PendingExact' /\ CapHolds'
<1> USE DEF IInv, TypeOK
<1>1. pc[c] = "waiting" /\ pc' = [pc EXCEPT ![c] = "idle"]
      /\ worker' = Disowned(c) /\ pending' = pending
  BY DEF TakeResult, TimerFires
<1>2. Admitted' = Admitted /\ Rejected' = Rejected
  BY <1>1 DEF Admitted, Rejected
<1>3. Live' = Live
  <2>1. \A w \in Workers : worker'[w].state = worker[w].state
    BY <1>1 DEF Disowned, Goroutine
  <2>2. QED
    BY <2>1 DEF Live
<1>4. QED
  BY <1>1, <1>2, <1>3, SameParts

\* Every step of the guard keeps the counter exact and the cap.
LEMMA Inductive == IInv /\ TypeOK' /\ [Next]_vars => IInv'
<1> SUFFICES ASSUME IInv, TypeOK', [Next]_vars
             PROVE  PendingExact' /\ CapHolds'
  BY DEF IInv
<1>1. ASSUME NEW c \in Callers, NEW p \in Paths, Enter(c, p)
      PROVE  PendingExact' /\ CapHolds'
  BY <1>1, EnterStep
<1>2. ASSUME NEW c \in Callers, NEW w \in Workers, Spawn(c, w)
      PROVE  PendingExact' /\ CapHolds'
  BY <1>2, SpawnStep
<1>3. ASSUME NEW c \in Callers, TakeResult(c) \/ TimerFires(c)
      PROVE  PendingExact' /\ CapHolds'
  BY <1>3, ReturnStep
<1>4. ASSUME NEW c \in Callers, Withdraw(c)
      PROVE  PendingExact' /\ CapHolds'
  BY <1>4, WithdrawStep
<1>5. ASSUME NEW c \in Callers, Panic(c)
      PROVE  PendingExact' /\ CapHolds'
  <2>1. Live' = {} /\ Admitted' = {} /\ Rejected' = {} /\ pending' = 0
    BY <1>5 DEF Panic, Live, Admitted, Rejected, NoGoroutine
  <2>2. QED
    BY <2>1, FS_EmptySet, GuardAssumption DEF PendingExact, CapHolds
<1>6. ASSUME NEW w \in Workers, Finish(w)
      PROVE  PendingExact' /\ CapHolds'
  <2>1. Live' = Live /\ Admitted' = Admitted /\ Rejected' = Rejected
    BY <1>6 DEF Finish, Live, Admitted, Rejected, IInv, TypeOK, Goroutine
  <2>2. QED
    BY <1>6, <2>1, SameParts DEF Finish
<1>7. ASSUME NEW w \in Workers, Exit(w)
      PROVE  PendingExact' /\ CapHolds'
  BY <1>7, ExitStep
<1>8. CASE \/ DrainTimeouts \/ UNCHANGED vars
           \/ \E p \in Paths : Wedge(p) \/ Recover(p)
  <2>1. UNCHANGED <<pending, pc, worker>>
    BY <1>8 DEF DrainTimeouts, vars, Wedge, Recover
  <2>2. QED
    BY <2>1, SameParts DEF Live, Admitted, Rejected
<1>9. QED
  BY <1>1, <1>2, <1>3, <1>4, <1>5, <1>6, <1>7, <1>8 DEF Next, Call, Run

\* The invariant holds throughout.
THEOREM InvariantHolds == Spec => []IInv
<1>1. Init => IInv
  <2>1. Init => TypeOK
    BY NoGoroutineType DEF Init, TypeOK, PCs
  <2>2. Init => PendingExact /\ CapHolds
    BY NothingInFlight DEF Init
  <2>3. QED
    BY <2>1, <2>2 DEF IInv
<1>2. QED
  BY <1>1, Inductive, TypeCorrect, PTL DEF Spec

\* The counter is exact (oshelper.go:269-292).
THEOREM CounterExact == Spec => []PendingExact
<1>1. IInv => PendingExact
  BY DEF IInv
<1>2. QED
  BY <1>1, InvariantHolds, PTL

\* The cap bounds the goroutines (oshelper.go:221-226).
THEOREM CapBounds == Spec => []CapHolds
<1>1. IInv => CapHolds
  BY DEF IInv
<1>2. QED
  BY <1>1, InvariantHolds, PTL

\* A process is doomed only when the cap is full of goroutines in flight
\* (oshelper.go:222-224).
THEOREM DoomNeedsFullCap == Spec => PanicOnlyAtCap
<1>1. IInv /\ [Next]_vars
        => (~Doomed /\ Doomed'
              => Cardinality(Live) + Cardinality(Admitted) = MaxPending)
  <2> SUFFICES ASSUME IInv, [Next]_vars, ~Doomed, Doomed'
               PROVE  Cardinality(Live) + Cardinality(Admitted) = MaxPending
    OBVIOUS
  <2> USE DEF IInv, TypeOK
  <2>1. PICK c \in Callers, p \in Paths :
          Enter(c, p) /\ pending + 1 > MaxPending
    <3>1. PICK c \in Callers : pc'[c] \in {"rejected", "panicking"}
      BY DEF Doomed
    <3>2. pc[c] \notin {"rejected", "panicking"}
      BY DEF Doomed
    <3>3. \E d \in Callers, p \in Paths : Enter(d, p) /\ pc'[d] = "rejected"
      BY <3>1, <3>2
      DEF Next, Call, Run, Enter, Spawn, TakeResult, TimerFires, Withdraw,
          Panic, Finish, Exit, DrainTimeouts, Wedge, Recover, vars, Doomed
    <3>4. QED
      BY <3>3 DEF Enter
  <2>2. Rejected = {}
    BY DEF Doomed, Rejected
  <2>3. pending = Cardinality(Live) + Cardinality(Admitted)
    BY <2>2, FS_EmptySet, FiniteParts DEF PendingExact
  <2>4. QED
    BY <2>1, <2>3, FiniteParts, GuardAssumption DEF CapHolds
<1>2. QED
  BY <1>1, InvariantHolds, PTL DEF Spec, PanicOnlyAtCap


-----------------------------------------------------------------------------
(* The refinement *)

\* A goroutine that serves a caller serves its present call, no other goroutine
\* does, and its result is there exactly when it has sent it; a caller without a
\* result is served by one.
Served ==
  /\ \A c \in answered : pc[c] = "waiting"
  /\ \A w \in Workers : worker[w].owner # None =>
       /\ pc[worker[w].owner] = "waiting" /\ worker[w].state # "none"
       /\ worker[w].state = "running" <=> worker[w].owner \notin answered
  /\ \A w, v \in Workers :
       worker[w].owner # None /\ worker[w].owner = worker[v].owner => w = v
  /\ \A c \in Callers : pc[c] = "waiting" /\ c \notin answered =>
       \E w \in Workers : worker[w].owner = c

\* A caller that returns leaves nobody to serve it.
LEMMA ReturnServed ==
  ASSUME TypeOK, Served, NEW c \in Callers, TakeResult(c) \/ TimerFires(c)
  PROVE  Served'
<1> USE DEF TypeOK, Goroutine
<1>1. /\ pc[c] = "waiting" /\ pc' = [pc EXCEPT ![c] = "idle"]
      /\ worker' = Disowned(c) /\ answered' = answered \ {c}
  BY DEF TakeResult, TimerFires
<1>2. \A w \in Workers :
        /\ worker'[w].state = worker[w].state
        /\ worker'[w].owner = IF worker[w].owner = c THEN None ELSE worker[w].owner
  BY <1>1 DEF Disowned
<1>3. None # c
  BY GuardAssumption
<1>4. \A d \in answered' : pc'[d] = "waiting"
  BY <1>1 DEF Served
<1>5. ASSUME NEW w \in Workers, worker'[w].owner # None
      PROVE  /\ pc'[worker'[w].owner] = "waiting" /\ worker'[w].state # "none"
             /\ worker'[w].state = "running" <=> worker'[w].owner \notin answered'
  <2>1. worker[w].owner # c /\ worker'[w].owner = worker[w].owner
        /\ worker[w].owner \in Callers
    BY <1>2, <1>5
  <2> QED  BY <2>1, <1>1, <1>2, <1>5 DEF Served
<1>6. ASSUME NEW w \in Workers, NEW v \in Workers, worker'[w].owner # None,
             worker'[w].owner = worker'[v].owner
      PROVE  w = v
  BY <1>2, <1>6 DEF Served
<1>7. ASSUME NEW d \in Callers, pc'[d] = "waiting", d \notin answered'
      PROVE  \E w \in Workers : worker'[w].owner = d
  <2>1. d # c /\ pc[d] = "waiting" /\ d \notin answered
    BY <1>1, <1>7
  <2>2. PICK w \in Workers : worker[w].owner = d
    BY <2>1 DEF Served
  <2> QED  BY <2>1, <2>2, <1>2
<1> QED  BY <1>4, <1>5, <1>6, <1>7 DEF Served

\* The goroutine a call starts is the only one that serves it.
LEMMA SpawnServed ==
  ASSUME TypeOK, Served, NEW c \in Callers, NEW w \in Workers, Spawn(c, w)
  PROVE  Served'
<1> USE DEF TypeOK, Goroutine
<1>1. /\ pc[c] = "admitted" /\ pc' = [pc EXCEPT ![c] = "waiting"]
      /\ answered' = answered \ {c} /\ c \notin answered
      /\ worker'[w].state = "running" /\ worker'[w].owner = c
      /\ \A v \in Workers : v # w => worker'[v] = worker[v]
  BY DEF Spawn, Served
<1>2. \A v \in Workers : worker[v].owner # c
  BY <1>1, GuardAssumption DEF Served
<1>3. \A d \in answered' : pc'[d] = "waiting"
  BY <1>1 DEF Served
<1>4. ASSUME NEW v \in Workers, worker'[v].owner # None
      PROVE  /\ pc'[worker'[v].owner] = "waiting" /\ worker'[v].state # "none"
             /\ worker'[v].state = "running" <=> worker'[v].owner \notin answered'
  <2>1. CASE v = w
    BY <2>1, <1>1
  <2>2. CASE v # w
    <3>1. worker'[v] = worker[v] /\ worker[v].owner \in Callers
      BY <2>2, <1>1, <1>4
    <3> QED  BY <3>1, <1>1, <1>2, <1>4 DEF Served
  <2> QED  BY <2>1, <2>2
<1>5. ASSUME NEW u \in Workers, NEW v \in Workers, worker'[u].owner # None,
             worker'[u].owner = worker'[v].owner
      PROVE  u = v
  BY <1>1, <1>2, <1>5 DEF Served
<1>6. ASSUME NEW d \in Callers, pc'[d] = "waiting", d \notin answered'
      PROVE  \E v \in Workers : worker'[v].owner = d
  <2>1. CASE d = c
    BY <2>1, <1>1
  <2>2. CASE d # c
    <3>1. pc[d] = "waiting" /\ d \notin answered
      BY <2>2, <1>1, <1>6
    <3>2. PICK v \in Workers : worker[v].owner = d
      BY <3>1 DEF Served
    <3>3. v # w
      <4>1. worker[w].owner = None \/ worker[w].state # "none"
        BY DEF Served
      <4> QED  BY <3>2, <4>1, GuardAssumption DEF Spawn
    <3> QED  BY <3>2, <3>3, <1>1
  <2> QED  BY <2>1, <2>2
<1> QED  BY <1>3, <1>4, <1>5, <1>6 DEF Served

\* A result goes to the caller whose present call the goroutine serves.
LEMMA FinishServed ==
  ASSUME TypeOK, Served, NEW w \in Workers, Finish(w)
  PROVE  Served'
<1> USE DEF TypeOK, Goroutine
<1>1. /\ worker[w].state = "running" /\ pc' = pc
      /\ worker'[w].state = "sent"
      /\ \A v \in Workers : /\ worker'[v].owner = worker[v].owner
                            /\ v # w => worker'[v] = worker[v]
      /\ answered' = answered \cup ({worker[w].owner} \ {None})
  BY DEF Finish
<1>2. \A c \in answered' : pc'[c] = "waiting"
  BY <1>1 DEF Served
<1>3. ASSUME NEW v \in Workers, worker'[v].owner # None
      PROVE  /\ pc'[worker'[v].owner] = "waiting" /\ worker'[v].state # "none"
             /\ worker'[v].state = "running" <=> worker'[v].owner \notin answered'
  <2>1. CASE v = w
    BY <2>1, <1>1, <1>3 DEF Served
  <2>2. CASE v # w
    <3>1. worker[v].owner # worker[w].owner
      BY <2>2, <1>1, <1>3 DEF Served
    <3> QED  BY <2>2, <3>1, <1>1, <1>3 DEF Served
  <2> QED  BY <2>1, <2>2
<1>4. ASSUME NEW u \in Workers, NEW v \in Workers, worker'[u].owner # None,
             worker'[u].owner = worker'[v].owner
      PROVE  u = v
  BY <1>1, <1>4 DEF Served
<1>5. ASSUME NEW c \in Callers, pc'[c] = "waiting", c \notin answered'
      PROVE  \E v \in Workers : worker'[v].owner = c
  BY <1>1, <1>5 DEF Served
<1> QED  BY <1>2, <1>3, <1>4, <1>5 DEF Served

\* The goroutine that ends has sent its result.
LEMMA ExitServed ==
  ASSUME TypeOK, Served, NEW w \in Workers, Exit(w)
  PROVE  Served'
<1> USE DEF TypeOK, Goroutine
<1>1. /\ worker[w].state = "sent" /\ pc' = pc /\ answered' = answered
      /\ worker'[w].owner = None
      /\ \A v \in Workers : v # w => worker'[v] = worker[v]
  BY DEF Exit, NoGoroutine
<1>2. ASSUME NEW v \in Workers, worker'[v].owner # None
      PROVE  v # w /\ worker'[v] = worker[v]
  BY <1>1, <1>2
<1>3. ASSUME NEW c \in Callers, pc'[c] = "waiting", c \notin answered'
      PROVE  \E v \in Workers : worker'[v].owner = c
  <2>1. PICK v \in Workers : worker[v].owner = c
    BY <1>1, <1>3 DEF Served
  <2>2. worker[v].state = "running"
    BY <1>1, <1>3, <2>1, GuardAssumption DEF Served
  <2> QED  BY <1>1, <2>1, <2>2
<1>4. \A v \in Workers : worker'[v].owner # None =>
        /\ pc'[worker'[v].owner] = "waiting" /\ worker'[v].state # "none"
        /\ worker'[v].state = "running" <=> worker'[v].owner \notin answered'
  BY <1>1, <1>2 DEF Served
<1>5. \A u, v \in Workers :
        worker'[u].owner # None /\ worker'[u].owner = worker'[v].owner => u = v
  BY <1>1, <1>2 DEF Served
<1> QED  BY <1>1, <1>3, <1>4, <1>5 DEF Served

\* A fresh process serves nobody.
LEMMA NobodyServed ==
  ASSUME pc = [c \in Callers |-> "idle"],
         worker = [w \in Workers |-> NoGoroutine], answered = {}
  PROVE  Served
BY DEF Served, NoGoroutine

\* Every step keeps who serves whom.
LEMMA ServedInductive == TypeOK /\ Served /\ [Next]_vars => Served'
<1> SUFFICES ASSUME TypeOK, Served, [Next]_vars PROVE Served'
  OBVIOUS
<1>1. ASSUME NEW c \in Callers, NEW p \in Paths, Enter(c, p) PROVE Served'
  <2>1. /\ pc[c] = "idle" /\ worker' = worker /\ answered' = answered
        /\ pc'[c] \in {"admitted", "rejected"}
        /\ \A d \in Callers : d # c => pc'[d] = pc[d]
    BY <1>1 DEF Enter, TypeOK
  <2>2. \A d \in Callers : pc[d] = "waiting" <=> pc'[d] = "waiting"
    BY <2>1
  <2> QED  BY <2>1, <2>2 DEF Served, TypeOK, Goroutine
<1>2. ASSUME NEW c \in Callers, Withdraw(c) PROVE Served'
  <2>1. /\ pc[c] = "rejected" /\ worker' = worker /\ answered' = answered
        /\ pc'[c] = "panicking" /\ \A d \in Callers : d # c => pc'[d] = pc[d]
    BY <1>2 DEF Withdraw, TypeOK
  <2>2. \A d \in Callers : pc[d] = "waiting" <=> pc'[d] = "waiting"
    BY <2>1
  <2> QED  BY <2>1, <2>2 DEF Served, TypeOK, Goroutine
<1>3. ASSUME NEW c \in Callers, Panic(c) PROVE Served'
  <2>1. /\ pc' = [d \in Callers |-> "idle"] /\ answered' = {}
        /\ worker' = [w \in Workers |-> NoGoroutine]
    BY <1>3 DEF Panic
  <2> QED  BY <2>1 DEF Served, NoGoroutine
<1>4. ASSUME UNCHANGED <<pc, worker, answered>> PROVE Served'
  BY <1>4 DEF Served
<1>5. DrainTimeouts \/ UNCHANGED vars \/ (\E p \in Paths : Wedge(p) \/ Recover(p))
        => UNCHANGED <<pc, worker, answered>>
  BY DEF DrainTimeouts, vars, Wedge, Recover
<1> QED  BY <1>1, <1>2, <1>3, <1>4, <1>5, ReturnServed, SpawnServed, FinishServed,
            ExitServed DEF Next, Call, Run


\* Every call that waits has a place: its own, until its goroutine is there, or its
\* goroutine's.
LEMMA WaitingHavePlaces ==
  ASSUME TypeOK, Served, NEW S \in SUBSET Workers,
         \A w \in Workers : worker[w].owner # None /\ worker[w].state = "running"
                              => w \in S
  PROVE  Cardinality(Guarded!Waiting) <= Cardinality(S) + Cardinality(Admitted)
<1> DEFINE W == {c \in Callers : pc[c] = "waiting" /\ c \notin answered}
           f == [c \in W |-> CHOOSE w \in Workers : worker[w].owner = c]
<1>1. ASSUME NEW c \in W
      PROVE  f[c] \in S /\ worker[f[c]].owner = c
  <2>1. PICK w \in Workers : worker[w].owner = c
    BY DEF Served
  <2>2. f[c] \in Workers /\ worker[f[c]].owner = c
    BY <2>1
  <2>3. c # None
    BY GuardAssumption
  <2> HIDE DEF f
  <2> QED  BY <2>2, <2>3 DEF Served
<1>2. f \in Injection(W, S)
  <2>1. f \in [W -> S]
    BY <1>1
  <2>2. \A a, b \in W : f[a] = f[b] => a = b
    <3> HIDE DEF f
    <3> QED  BY <1>1
  <2> QED  BY <2>1, <2>2 DEF Injection, IsInjective
<1>3. IsFiniteSet(S) /\ IsFiniteSet(W)
  BY GuardAssumption, FS_Subset
<1>4. Cardinality(W) <= Cardinality(S)
  <2> HIDE DEF W, f
  <2> QED  BY <1>2, <1>3, FS_Injection
<1>5. Guarded!Waiting = W \cup Admitted /\ W \cap Admitted = {}
  <2>1. \A c \in Callers : Calls[c] # None <=> pc[c] \in {"admitted", "waiting"}
    BY GuardAssumption DEF Calls, TypeOK
  <2>2. \A c \in Admitted : c \notin answered
    BY DEF Admitted, Served
  <2> QED  BY <2>1, <2>2 DEF Guarded!Waiting, Admitted
<1>6. Cardinality(W \cup Admitted) = Cardinality(W) + Cardinality(Admitted)
  <2> HIDE DEF W
  <2>1. Cardinality(W \cap Admitted) = 0
    BY <1>5, FS_EmptySet
  <2>2. Cardinality(W) \in Nat /\ Cardinality(Admitted) \in Nat
    BY <1>3, FiniteParts, FS_CardinalityType
  <2>3. Cardinality(W \cup Admitted)
          = Cardinality(W) + Cardinality(Admitted) - Cardinality(W \cap Admitted)
    BY <1>3, FiniteParts, FS_Union
  <2> QED  BY <2>1, <2>2, <2>3
<1>7. Cardinality(W) \in Nat /\ Cardinality(S) \in Nat
  BY <1>3, FS_CardinalityType
<1> HIDE DEF W
<1> QED  BY <1>4, <1>5, <1>6, <1>7, FiniteParts

\* A step that moves no call from one place to another is a stutter of the calls.
LEMMA SameCalls ==
  ASSUME TypeOK, pc' \in [Callers -> PCs], UNCHANGED target,
         \A c \in Callers : pc[c] \in {"admitted", "waiting"}
                              <=> pc'[c] \in {"admitted", "waiting"}
  PROVE  Calls' = Calls
BY DEF Calls

\* An admitted call begins; a rejected one finds the pool full.
LEMMA EnterMaps ==
  ASSUME IInv, Served, NEW c \in Callers, NEW p \in Paths, Enter(c, p)
  PROVE  Guarded!Begin(c, p) \/ Guarded!Refuse
<1> USE FiniteParts DEF IInv, TypeOK
<1>1. /\ pc[c] = "idle" /\ pending' = pending + 1
      /\ pc' = [pc EXCEPT ![c] = IF pending + 1 > MaxPending THEN "rejected"
                                                             ELSE "admitted"]
      /\ target' = [target EXCEPT ![c] = p]
      /\ UNCHANGED <<timeouts, worker, answered>>
  BY DEF Enter
<1>2. Live' = Live /\ c \notin Admitted
  BY <1>1 DEF Live, Admitted
<1>3. CASE pending + 1 > MaxPending
  <2>1. pc' = [pc EXCEPT ![c] = "rejected"]
    BY <1>1, <1>3
  <2>2. Doomed' = TRUE
    BY <2>1 DEF Doomed
  <2>3. Calls' = Calls
    BY <1>1, <2>1 DEF Calls
  <2>4. Admitted' = Admitted
    BY <2>1, <1>1 DEF Admitted
  <2>5. Doomed \/ Places = MaxPending
    <3>1. SUFFICES ASSUME ~Doomed PROVE Places = MaxPending
      OBVIOUS
    <3>2. Rejected = {}
      BY <3>1 DEF Doomed, Rejected
    <3>3. pending = Places
      BY <3>2, FS_EmptySet DEF PendingExact, Places
    <3> QED  BY <3>3, <1>3, GuardAssumption DEF CapHolds, Places
  <2> QED  BY <1>1, <1>2, <2>2, <2>3, <2>4, <2>5 DEF Guarded!Refuse, Places
<1>4. CASE ~(pending + 1 > MaxPending)
  <2>1. pc' = [pc EXCEPT ![c] = "admitted"]
    BY <1>1, <1>4
  <2>2. Calls[c] = None /\ Calls' = [Calls EXCEPT ![c] = p]
    BY <1>1, <2>1 DEF Calls
  <2>3. Doomed' = Doomed
    BY <1>1, <2>1 DEF Doomed
  <2>4. Admitted' = Admitted \cup {c}
    BY <2>1, <1>1 DEF Admitted
  <2>5. Cardinality(Admitted') = Cardinality(Admitted) + 1
    BY <2>4, <1>2, FS_AddElement
  <2>6. Places' = Places + 1 /\ Places < MaxPending
    BY <2>5, <1>2, <1>4, GuardAssumption DEF Places, PendingExact
  <2> QED  BY <1>1, <2>2, <2>3, <2>6 DEF Guarded!Begin
<1> QED  BY <1>3, <1>4

\* The place of the call becomes its goroutine's: nothing to see.
LEMMA SpawnMaps ==
  ASSUME IInv, Served, NEW c \in Callers, NEW w \in Workers, Spawn(c, w)
  PROVE  UNCHANGED Guarded!vars
<1> USE FiniteParts DEF IInv, TypeOK
<1>1. /\ pc[c] = "admitted" /\ pc' = [pc EXCEPT ![c] = "waiting"]
      /\ worker[w].state = "none" /\ worker'[w].state = "running"
      /\ \A v \in Workers : v # w => worker'[v] = worker[v]
      /\ answered' = answered \ {c} /\ UNCHANGED <<timeouts, target>>
  BY DEF Spawn
<1>2. Admitted' = Admitted \ {c} /\ c \in Admitted
  BY <1>1 DEF Admitted
<1>3. Live' = Live \cup {w} /\ w \notin Live
  BY <1>1 DEF Live
<1>4. Places' = Places
  <2>1. Cardinality(Admitted') = Cardinality(Admitted) - 1
    BY <1>2, FS_RemoveElement
  <2>2. Cardinality(Live') = Cardinality(Live) + 1
    BY <1>3, FS_AddElement
  <2> QED  BY <2>1, <2>2 DEF Places
<1>5. answered' = answered
  BY <1>1 DEF Served
<1>6. Calls' = Calls
  BY <1>1 DEF Calls
<1>7. Doomed' = Doomed
  BY <1>1 DEF Doomed
<1> QED  BY <1>1, <1>4, <1>5, <1>6, <1>7 DEF Guarded!vars

\* A caller returns with its own result, or gives its call up and reports it.
LEMMA ReturnMaps ==
  ASSUME IInv, Served, NEW c \in Callers, TakeResult(c) \/ TimerFires(c)
  PROVE  Guarded!Return(c) \/ Guarded!GiveUp(c)
<1> USE DEF IInv, TypeOK
<1>1. /\ pc[c] = "waiting" /\ pc' = [pc EXCEPT ![c] = "idle"]
      /\ worker' = Disowned(c) /\ answered' = answered \ {c}
      /\ UNCHANGED target
  BY DEF TakeResult, TimerFires
<1>2. Calls[c] = target[c] /\ target[c] # None /\ Calls' = [Calls EXCEPT ![c] = None]
  BY <1>1, GuardAssumption DEF Calls
<1>3. Admitted' = Admitted
  BY <1>1 DEF Admitted
<1>4. Live' = Live
  <2>1. \A w \in Workers : worker'[w].state = worker[w].state
    BY <1>1 DEF Disowned, Goroutine
  <2> QED  BY <2>1 DEF Live
<1>5. Doomed' = Doomed
  BY <1>1 DEF Doomed
<1>6. CASE TakeResult(c)
  BY <1>1, <1>2, <1>3, <1>4, <1>5, <1>6 DEF TakeResult, Guarded!Return, Places
<1>7. CASE TimerFires(c)
  BY <1>1, <1>2, <1>3, <1>4, <1>5, <1>7 DEF TimerFires, Guarded!GiveUp, Places
<1> QED  BY <1>6, <1>7

\* The end of an access is that of the call it serves, if it still serves one.
LEMMA FinishMaps ==
  ASSUME IInv, Served, NEW w \in Workers, Finish(w)
  PROVE  (\E c \in Callers : Guarded!Access(c)) \/ UNCHANGED Guarded!vars
<1> USE DEF IInv, TypeOK
<1>1. /\ worker[w].state = "running"
      /\ answered' = answered \cup ({worker[w].owner} \ {None})
      /\ UNCHANGED <<pc, target, timeouts>>
  BY DEF Finish
<1>2. Live' = Live
  BY DEF Finish, Live, Goroutine
<1>3. Calls' = Calls /\ Places' = Places /\ Doomed' = Doomed
  BY <1>1, <1>2 DEF Calls, Places, Doomed, Admitted
<1>4. CASE worker[w].owner = None
  BY <1>1, <1>3, <1>4 DEF Guarded!vars
<1>5. CASE worker[w].owner # None
  <2> DEFINE c == worker[w].owner
  <2>1. c \in Callers /\ pc[c] = "waiting" /\ c \notin answered
    BY <1>1, <1>5 DEF Served, Goroutine
  <2>2. Calls[c] # None
    BY <2>1, GuardAssumption DEF Calls
  <2>3. answered' = answered \cup {c}
    BY <1>1, <1>5
  <2> HIDE DEF c
  <2>4. Guarded!Access(c)
    BY <1>1, <1>3, <2>1, <2>2, <2>3 DEF Guarded!Access, Guarded!Waiting
  <2> QED  BY <2>1, <2>4
<1> QED  BY <1>4, <1>5

\* The sizes the pool speaks of are sizes.
LEMMA SameCardinality == \A S : Guarded!Cardinality(S) = Cardinality(S)
BY Zenon DEF Guarded!Cardinality, Cardinality

\* A place is given back, and none that a waiting call has.
LEMMA ExitMaps ==
  ASSUME IInv, Served, NEW w \in Workers, Exit(w)
  PROVE  Guarded!Release
<1> USE FiniteParts DEF IInv, TypeOK
<1>1. /\ worker[w].state = "sent" /\ worker' = [worker EXCEPT ![w] = NoGoroutine]
      /\ UNCHANGED <<timeouts, pc, target, answered>>
  BY DEF Exit
<1>2. Live' = Live \ {w} /\ w \in Live
  BY <1>1 DEF Live, NoGoroutine
<1>3. Cardinality(Live') = Cardinality(Live) - 1
  BY <1>2, FS_RemoveElement
<1>4. Calls' = Calls /\ Doomed' = Doomed /\ Admitted' = Admitted
  BY <1>1 DEF Calls, Doomed, Admitted
<1>5. Cardinality(Guarded!Waiting) <= Cardinality(Live \ {w}) + Cardinality(Admitted)
  <2>1. \A v \in Workers : worker[v].owner # None /\ worker[v].state = "running"
                             => v \in Live \ {w}
    BY <1>1 DEF Live
  <2>2. Live \ {w} \in SUBSET Workers
    BY DEF Live
  <2> QED  BY <2>1, <2>2, WaitingHavePlaces
<1>6. Cardinality(Guarded!Waiting) \in Nat
  <2>1. Guarded!Waiting \in SUBSET Callers
    BY DEF Guarded!Waiting
  <2> QED  BY <2>1, GuardAssumption, FS_Subset, FS_CardinalityType
<1>7. Places > Cardinality(Guarded!Waiting) /\ Places' = Places - 1
  <2>1. Cardinality(Live \ {w}) = Cardinality(Live) - 1
    BY <1>2, <1>3
  <2>2. Places' = Places - 1
    BY <1>3, <1>4 DEF Places
  <2>3. Places > Cardinality(Guarded!Waiting)
    <3> DEFINE n == Cardinality(Guarded!Waiting)
               l == Cardinality(Live)
               a == Cardinality(Admitted)
    <3>1. n <= (l - 1) + a
      BY ONLY <2>1, <1>5
    <3>2. n \in Nat /\ l \in Nat /\ a \in Nat
      BY <1>6
    <3> HIDE DEF n, l, a
    <3>3. l + a > n
      BY ONLY <3>1, <3>2
    <3> QED  BY ONLY <3>3 DEF n, l, a, Places
  <2> QED  BY <2>2, <2>3
<1> QED  BY <1>1, <1>4, <1>7, SameCardinality DEF Guarded!Release

\* A fresh process has no calls and no places taken.
LEMMA NothingMaps ==
  ASSUME pc = [c \in Callers |-> "idle"],
         worker = [w \in Workers |-> NoGoroutine]
  PROVE  Calls = Guarded!NoCalls /\ Places = 0 /\ Doomed = FALSE
<1>1. Live = {} /\ Admitted = {}
  BY DEF Live, Admitted, NoGoroutine
<1>2. Places = 0
  BY <1>1, FS_EmptySet DEF Places
<1> QED  BY <1>2 DEF Calls, Doomed, Guarded!NoCalls

\* Every step of the guard is a step of the pool or changes nothing of it.
LEMMA StepMaps == IInv /\ Served /\ [Next]_vars => [Guarded!Next]_(Guarded!vars)
<1> SUFFICES ASSUME IInv, Served, [Next]_vars
             PROVE  Guarded!Next \/ UNCHANGED Guarded!vars
  OBVIOUS
<1>1. ASSUME NEW c \in Callers, Withdraw(c) PROVE UNCHANGED Guarded!vars
  <2>1. /\ pc[c] = "rejected" /\ pc' = [pc EXCEPT ![c] = "panicking"]
        /\ UNCHANGED <<timeouts, target, worker, answered>> /\ c \in DOMAIN pc
    BY <1>1 DEF Withdraw, IInv, TypeOK
  <2>2. Calls' = Calls /\ Admitted' = Admitted /\ Live' = Live
    BY <2>1 DEF Calls, Admitted, Live
  <2>3. Doomed /\ Doomed'
    BY <2>1 DEF Doomed
  <2> QED  BY <2>1, <2>2, <2>3 DEF Guarded!vars, Places, Doomed
<1>2. ASSUME NEW c \in Callers, Panic(c) PROVE Guarded!Restart
  <2>1. /\ pc' = [d \in Callers |-> "idle"] /\ answered' = {} /\ timeouts' = {}
        /\ worker' = [v \in Workers |-> NoGoroutine] /\ Doomed
    BY <1>2 DEF Panic, Doomed
  <2>2. Live' = {} /\ Admitted' = {}
    BY <2>1 DEF Live, Admitted, NoGoroutine
  <2>3. Places' = 0
    BY <2>2, FS_EmptySet DEF Places
  <2>4. Calls' = Guarded!NoCalls /\ Doomed' = FALSE
    BY <2>1 DEF Calls, Doomed, Guarded!NoCalls
  <2> QED  BY <2>1, <2>3, <2>4 DEF Guarded!Restart
<1>3. ASSUME UNCHANGED <<pc, target, worker, answered>>
      PROVE  Calls' = Calls /\ Places' = Places /\ Doomed' = Doomed
  BY <1>3 DEF Calls, Places, Doomed, Live, Admitted
<1>4. CASE DrainTimeouts
  BY <1>3, <1>4 DEF DrainTimeouts, Guarded!Report, Guarded!Next
<1>5. CASE UNCHANGED vars \/ (\E p \in Paths : Wedge(p) \/ Recover(p))
  BY <1>3, <1>5 DEF vars, Wedge, Recover, Guarded!vars
<1>6. CASE \E c \in Callers, p \in Paths : Enter(c, p)
  BY <1>6, EnterMaps DEF Guarded!Next
<1>7. CASE \E c \in Callers, w \in Workers : Spawn(c, w)
  BY <1>7, SpawnMaps
<1>8. CASE \E c \in Callers : TakeResult(c) \/ TimerFires(c)
  BY <1>8, ReturnMaps DEF Guarded!Next
<1>9. CASE \E w \in Workers : Finish(w)
  BY <1>9, FinishMaps DEF Guarded!Next
<1>10. CASE \E w \in Workers : Exit(w)
  BY <1>10, ExitMaps DEF Guarded!Next
<1>11. CASE \E c \in Callers : Withdraw(c) \/ Panic(c)
  BY <1>1, <1>2, <1>11 DEF Guarded!Next
<1> QED  BY <1>4, <1>5, <1>6, <1>7, <1>8, <1>9, <1>10, <1>11 DEF Next, Call, Run

\* The guard is the pool of accesses it promises its callers to be: a call returns
\* with the end of its own access or is given up and reported, and a call given
\* up keeps its place until its access ends (oshelper.go:264-292).
THEOREM GuardIsPool == Spec => ImplementsGuard
<1>1. Init => Served
  BY NobodyServed DEF Init
<1>2. Init => Guarded!Init
  BY NothingMaps DEF Init, Guarded!Init
<1>3. IInv => TypeOK
  BY DEF IInv
<1> QED  BY <1>1, <1>2, <1>3, InvariantHolds, ServedInductive, StepMaps, PTL
         DEF Spec, ImplementsGuard, Guarded!Spec

=============================================================================
