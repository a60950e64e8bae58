-------------------------- MODULE InstanceDataProofs --------------------------
(***************************************************************************)
(* Proofs about InstanceData for any time to live and any cap.  The        *)
(* inductive invariant adds to the types and to the count of reads what    *)
(* the cache knows: data the service gave up is at least as old as the     *)
(* change, and a request that holds an id of the service finds the cache   *)
(* filled.                                                                 *)
(***************************************************************************)
EXTENDS InstanceData, TLAPS

USE InstanceAssumption

\* What has grown a tick older.
LEMMA OlderType ==
  ASSUME NEW n \in 0..TTL
  PROVE  /\ Older(n) \in 0..TTL
         /\ \A m \in 0..TTL : m <= n => Older(m) <= Older(n)
BY DEF Older

\* Data is not NoData.
LEMMA DataIsData == NoData \notin Data
<1>1. Data \subseteq [age : Int, current : BOOLEAN]
  BY DEF Data
<1>2. QED
  BY <1>1

\* The ids a call may return.
LEMMA IdsType ==
  /\ Nowhere \in Ids /\ FromFile \in Ids
  /\ NoIds \in [parent : Ids, instance : Ids, fallback : BOOLEAN]
  /\ TypeOK /\ Cached => CachedIds \in Ids
  /\ [from |-> "service", current |-> TRUE] \in Ids
BY DEF Ids, Nowhere, FromFile, NoIds, TypeOK, Cached, CachedIds, Data

-----------------------------------------------------------------------------
(* Types, and the count *)

Counted == TypeOK /\ PendingExact

\* A call that returns keeps the types of the request.
LEMMA ReturnType ==
  ASSUME TypeOK, NEW id \in Ids, Return(id)
  PROVE  /\ req' \in [parent : Ids, instance : Ids, fallback : BOOLEAN]
         /\ call' \in {"parent", "instance", "token"} \cup Ended
         /\ at' = "start" /\ url' \in URLs
<1> USE DEF TypeOK, Return, URLs
<1>1. CASE call = "parent"
  BY <1>1
<1>2. CASE call = "instance"
  BY <1>2
<1>3. CASE call \notin {"parent", "instance"}
  BY <1>3
<1>4. QED
  BY <1>1, <1>2, <1>3

LEMMA CountedInit == Init => Counted
<1>1. Init => TypeOK
  BY IdsType DEF Init, TypeOK, URLs, Ended
<1>2. QED
  BY <1>1 DEF Init, Counted, PendingExact

\* The cache, the service.
LEMMA CountedCache ==
  ASSUME Counted,
         \/ BeginPoll \/ FromCache \/ BeginFetch \/ TryFallback \/ Fetched
         \/ UseStale \/ ToFile \/ EndPoll \/ Start
  PROVE  Counted'
<1> USE DEF Counted, PendingExact
<1>1. CASE BeginPoll \/ EndPoll \/ Start
  BY <1>1, IdsType DEF BeginPoll, EndPoll, Start, TypeOK, world, places, Ended
<1>2. CASE BeginFetch \/ TryFallback \/ ToFile
  BY <1>2 DEF BeginFetch, TryFallback, ToFile, Asks, NoAnswer, TypeOK, world,
              places, URLs
<1>3. CASE FromCache \/ UseStale
  <2>1. CachedIds \in Ids /\ Return(CachedIds) /\ at \in {"start", "fetch"}
    BY <1>3, IdsType DEF FromCache, UseStale, Fresh, Asks, NoAnswer
  <2>2. QED
    BY <1>3, <2>1, ReturnType DEF FromCache, UseStale, TypeOK, world, places
<1>4. CASE Fetched
  <2>1. cachedInstance' \in Data
    BY <1>4 DEF Fetched, Data
  <2>2. Return([from |-> "service", current |-> TRUE]) /\ at = "fetch"
    BY <1>4 DEF Fetched
  <2>3. QED
    BY <1>4, <2>1, <2>2, IdsType, ReturnType
    DEF Fetched, TypeOK, world, places
<1>5. QED
  BY <1>1, <1>2, <1>3, <1>4

\* The goroutines that read.
LEMMA CountedReads ==
  ASSUME Counted, BeginRead \/ FileRead \/ ReadTimeout \/ Unblock \/ Exit
  PROVE  Counted'
<1> USE DEF Counted, PendingExact
<1>1. CASE BeginRead
  BY <1>1 DEF BeginRead, TypeOK, world
<1>2. CASE FileRead
  <2>1. \E id \in Ids : Return(id)
    BY <1>2, IdsType DEF FileRead
  <2>2. QED
    BY <1>2, <2>1, ReturnType DEF FileRead, TypeOK, world
<1>3. CASE ReadTimeout
  <2>1. \E id \in Ids : Return(id)
    BY <1>3, IdsType DEF ReadTimeout
  <2>2. QED
    BY <1>3, <2>1, ReturnType DEF ReadTimeout, TypeOK, world
<1>4. CASE Unblock
  BY <1>4 DEF Unblock, TypeOK, world
<1>5. CASE Exit
  BY <1>5 DEF Exit, TypeOK, world
<1>6. QED
  BY <1>1, <1>2, <1>3, <1>4, <1>5

\* The process and the world.
LEMMA CountedWorld ==
  ASSUME Counted,
         \/ Panic \/ Crash \/ Tick \/ DataChanges
         \/ \E u \in URLs, c \in {"up", "fails", "garbled"} : SourceBecomes(u, c)
         \/ \E c \in {"up", "empty", "wedged"} : MountBecomes(c)
  PROVE  Counted'
<1> USE DEF Counted, PendingExact
<1>1. CASE Panic \/ Crash
  BY <1>1, IdsType DEF Panic, Crash, ProcessEnds, TypeOK, world, URLs, Ended
<1>2. CASE Tick
  <2>1. Older(changed) \in 0..TTL
    BY OlderType DEF TypeOK
  <2>2. cachedInstance' \in Data \cup {NoData}
    BY <1>2, OlderType DEF Tick, TypeOK, Cached, Data
  <2>3. QED
    BY <1>2, <2>1, <2>2 DEF Tick, TypeOK, places
<1>3. CASE DataChanges
  <2>1. cachedInstance' \in Data \cup {NoData}
    BY <1>3 DEF DataChanges, TypeOK, Cached, Data
  <2>2. QED
    BY <1>3, <2>1 DEF DataChanges, TypeOK, places
<1>4. ASSUME NEW u \in URLs, NEW c \in {"up", "fails", "garbled"},
             SourceBecomes(u, c)
      PROVE  Counted'
  BY <1>4 DEF SourceBecomes, TypeOK, places
<1>5. ASSUME NEW c \in {"up", "empty", "wedged"}, MountBecomes(c)
      PROVE  Counted'
  BY <1>5 DEF MountBecomes, TypeOK, places
<1>6. QED
  BY <1>1, <1>2, <1>3, <1>4, <1>5

LEMMA CountedHolds == Spec => []Counted
<1>1. Counted /\ UNCHANGED vars => Counted'
  BY DEF Counted, TypeOK, PendingExact, vars, world, places
<1>2. Counted /\ [Next]_vars => Counted'
  BY <1>1, CountedCache, CountedReads, CountedWorld DEF Next, CallStep
<1>3. QED
  BY <1>2, CountedInit, PTL DEF Spec

\* Every variable keeps its type: no place is given back twice
\* (metadata.go:250-268).
THEOREM TypeCorrect == Spec => []TypeOK
<1>1. Counted => TypeOK
  BY DEF Counted
<1>2. QED
  BY <1>1, CountedHolds, PTL

\* The count of reads is exact (metadata.go:250-268).
THEOREM CountExact == Spec => []PendingExact
<1>1. Counted => PendingExact
  BY DEF Counted
<1>2. QED
  BY <1>1, CountedHolds, PTL

-----------------------------------------------------------------------------
(* Where the ids of a request come from *)

\* A request that holds a parent id of the service finds the cache filled, so
\* its second call does not get to the file.
Filled ==
  /\ at = "fetch" => call \in {"parent", "instance"}
  /\ call \in {"parent", "instance"} => ~req.fallback
  /\ (call = "instance" /\ useMetadataService /\ req.parent.from = "service")
       => Cached /\ at \in {"start", "fetch"}

\* Data the service gave up was fetched before it did.
Aged == Cached /\ ~cachedInstance.current => changed <= cachedInstance.age

IInv == Counted /\ Filled /\ Aged /\ FallbackIsConsistent

\* A call returns an id of the service, with the cache filled.
LEMMA FilledFromService ==
  ASSUME IInv, NEW id \in Ids, id.from = "service", Return(id), Cached',
         call \in {"parent", "instance"}
  PROVE  Filled' /\ FallbackIsConsistent'
<1> USE DEF IInv, Counted, TypeOK, Filled, FallbackIsConsistent, Return
<1>1. CASE call = "parent"
  BY <1>1
<1>2. CASE call = "instance"
  BY <1>2
<1>3. QED
  BY <1>1, <1>2

\* A call returns the id of the file or none.
LEMMA FilledFromFile ==
  ASSUME IInv, NEW id \in Ids, id.from # "service", Return(id),
         at = "reading", UNCHANGED <<useMetadataService, cachedInstance>>
  PROVE  Filled' /\ FallbackIsConsistent'
<1> USE DEF IInv, Counted, TypeOK, Filled, FallbackIsConsistent, Return
<1>1. CASE call = "parent"
  BY <1>1
<1>2. CASE call = "instance"
  BY <1>2
<1>3. CASE call \notin {"parent", "instance"}
  BY <1>3
<1>4. QED
  BY <1>1, <1>2, <1>3

LEMMA KnowsInit == Init => Filled /\ Aged /\ FallbackIsConsistent
BY DEF Init, Filled, Aged, FallbackIsConsistent, Cached, NoIds

LEMMA KnowsCache ==
  ASSUME IInv,
         \/ BeginPoll \/ FromCache \/ BeginFetch \/ TryFallback \/ Fetched
         \/ UseStale \/ ToFile \/ EndPoll \/ Start
  PROVE  Filled' /\ Aged' /\ FallbackIsConsistent'
<1> USE DEF Aged, Cached
<1>1. CASE BeginPoll \/ EndPoll \/ Start
  BY <1>1 DEF BeginPoll, EndPoll, Start, IInv, Filled, FallbackIsConsistent,
              NoIds, Nowhere, world
<1>2. CASE BeginFetch \/ TryFallback
  BY <1>2 DEF BeginFetch, TryFallback, Asks, IInv, Filled,
              FallbackIsConsistent, world
<1>3. CASE ToFile
  BY <1>3 DEF ToFile, Asks, NoAnswer, IInv, Filled, FallbackIsConsistent, world
<1>4. CASE FromCache \/ UseStale
  <2>1. CachedIds \in Ids /\ CachedIds.from = "service" /\ Return(CachedIds)
    BY <1>4, IdsType
    DEF FromCache, UseStale, Fresh, CachedIds, IInv, Counted
  <2>2. Cached' /\ Aged'
    BY <1>4 DEF FromCache, UseStale, Fresh, IInv, world
  <2>3. call \in {"parent", "instance"}
    <3>1. CASE FromCache
      BY <3>1 DEF FromCache, Asks
    <3>2. CASE UseStale
      BY <3>2 DEF UseStale, NoAnswer, IInv, Filled
    <3>3. QED
      BY <1>4, <3>1, <3>2
  <2>4. QED
    BY <2>1, <2>2, <2>3, FilledFromService
<1>5. CASE Fetched
  <2>1. cachedInstance' \in Data /\ cachedInstance'.current
    BY <1>5 DEF Fetched, Data
  <2>2. Cached' /\ Aged'
    BY <2>1, DataIsData
  <2>3. call \in {"parent", "instance"}
    BY <1>5 DEF Fetched, IInv, Filled
  <2>4. QED
    BY <1>5, <2>2, <2>3, IdsType, FilledFromService DEF Fetched
<1>6. QED
  BY <1>1, <1>2, <1>3, <1>4, <1>5

LEMMA KnowsReads ==
  ASSUME IInv, BeginRead \/ FileRead \/ ReadTimeout \/ Unblock \/ Exit
  PROVE  Filled' /\ Aged' /\ FallbackIsConsistent'
<1> USE DEF Aged, Cached
<1>1. CASE FileRead \/ ReadTimeout
  <2>1. \E id \in Ids : id.from # "service" /\ Return(id)
    BY <1>1, IdsType DEF FileRead, ReadTimeout, Nowhere, FromFile
  <2>2. /\ at = "reading" /\ UNCHANGED <<useMetadataService, cachedInstance>>
        /\ Aged'
    BY <1>1 DEF FileRead, ReadTimeout, IInv, world
  <2>3. QED
    BY <2>1, <2>2, FilledFromFile
<1>2. CASE BeginRead \/ Unblock \/ Exit
  BY <1>2 DEF BeginRead, Unblock, Exit, IInv, Filled, FallbackIsConsistent,
              world
<1>3. QED
  BY <1>1, <1>2

LEMMA KnowsWorld ==
  ASSUME IInv,
         \/ Panic \/ Crash \/ Tick \/ DataChanges
         \/ \E u \in URLs, c \in {"up", "fails", "garbled"} : SourceBecomes(u, c)
         \/ \E c \in {"up", "empty", "wedged"} : MountBecomes(c)
  PROVE  Filled' /\ Aged' /\ FallbackIsConsistent'
<1> USE DEF IInv, Aged, Cached
<1>1. CASE Panic \/ Crash
  BY <1>1 DEF Panic, Crash, ProcessEnds, NoIds, Filled, FallbackIsConsistent
<1>2. CASE Tick
  <2>1. CASE ~Cached
    BY <1>2, <2>1 DEF Tick, Filled, FallbackIsConsistent
  <2>2. CASE Cached
    <3>1. cachedInstance \in Data /\ changed \in 0..TTL
      BY <2>2 DEF Counted, TypeOK
    <3>2. /\ cachedInstance' \in Data
          /\ cachedInstance'.age = Older(cachedInstance.age)
          /\ cachedInstance'.current = cachedInstance.current
      BY <1>2, <2>2, <3>1, OlderType DEF Tick, Data
    <3>3. Aged'
      BY <1>2, <2>2, <3>1, <3>2, OlderType DEF Tick, Data
    <3>4. QED
      BY <1>2, <2>2, <3>2, <3>3, DataIsData
      DEF Tick, Filled, FallbackIsConsistent
  <2>3. QED
    BY <2>1, <2>2
<1>3. CASE DataChanges
  <2>1. CASE ~Cached
    BY <1>3, <2>1 DEF DataChanges, Filled, FallbackIsConsistent
  <2>2. CASE Cached
    <3>1. /\ cachedInstance' \in Data
          /\ cachedInstance'.age \in 0..TTL
      BY <1>3, <2>2 DEF DataChanges, Counted, TypeOK, Data
    <3>2. Aged'
      BY <1>3, <3>1 DEF DataChanges
    <3>3. cachedInstance' # NoData
      BY <3>1, DataIsData
    <3>4. QED
      BY <1>3, <2>2, <3>2, <3>3
      DEF DataChanges, Filled, FallbackIsConsistent
  <2>3. QED
    BY <2>1, <2>2
<1>4. ASSUME NEW u \in URLs, NEW c \in {"up", "fails", "garbled"},
             SourceBecomes(u, c)
      PROVE  Filled' /\ Aged' /\ FallbackIsConsistent'
  BY <1>4 DEF SourceBecomes, Filled, FallbackIsConsistent
<1>5. ASSUME NEW c \in {"up", "empty", "wedged"}, MountBecomes(c)
      PROVE  Filled' /\ Aged' /\ FallbackIsConsistent'
  BY <1>5 DEF MountBecomes, Filled, FallbackIsConsistent
<1>6. QED
  BY <1>1, <1>2, <1>3, <1>4, <1>5

LEMMA InvariantHolds == Spec => []IInv
<1>1. Init => IInv
  BY CountedInit, KnowsInit DEF IInv
<1>2. IInv /\ UNCHANGED vars => Filled' /\ Aged' /\ FallbackIsConsistent'
  BY DEF IInv, Filled, Aged, FallbackIsConsistent, Cached, vars, world
<1>3. IInv /\ [Next]_vars => Filled' /\ Aged' /\ FallbackIsConsistent'
  BY <1>2, KnowsCache, KnowsReads, KnowsWorld DEF Next, CallStep
<1>4. IInv /\ [Next]_vars /\ Counted' => IInv'
  BY <1>3 DEF IInv
<1>5. QED
  BY <1>1, <1>4, CountedHolds, PTL DEF Spec

\* InstanceIdUsedFallback never comes with a parent id of the service
\* (client.go:249-264, metadata.go:178-194).
THEOREM FallbackConsistent == Spec => []FallbackIsConsistent
<1>1. IInv => FallbackIsConsistent
  BY DEF IInv
<1>2. QED
  BY <1>1, InvariantHolds, PTL

\* A call that returns sets one id of the request, or none.
LEMMA ReturnSets ==
  ASSUME TypeOK, NEW id \in Ids, Return(id), NEW i \in {"parent", "instance"},
         req[i] # req'[i]
  PROVE  req'[i] = id
<1> USE DEF TypeOK, Return
<1>1. CASE call = "parent"
  BY <1>1
<1>2. CASE call = "instance"
  BY <1>2
<1>3. CASE call \notin {"parent", "instance"}
  BY <1>3
<1>4. QED
  BY <1>1, <1>2, <1>3

\* Ids the service gave up a time to live ago go into a request only when the
\* service fails at that call (metadata.go:174-194).
THEOREM StaleInOutage == Spec => StaleOnlyInOutage
<1>1. ASSUME IInv, [Next]_vars, NEW i \in {"parent", "instance"},
             req[i] # req'[i], req'[i].from = "service", ~req'[i].current,
             changed >= TTL
      PROVE  at = "fetch" /\ source[url] # "up"
  <2> USE <1>1 DEF IInv, Counted
  <2>1. req' # req /\ req' # NoIds
    BY DEF NoIds, Nowhere
  <2>2. FromCache \/ Fetched \/ UseStale \/ FileRead \/ ReadTimeout
    BY <2>1
    DEF Next, CallStep, BeginPoll, BeginFetch, TryFallback, ToFile, BeginRead,
        EndPoll, Panic, Crash, ProcessEnds, Unblock, Exit, Start, Tick,
        DataChanges, SourceBecomes, MountBecomes, vars
  <2>3. CASE FromCache
    <3>1. req'[i] = CachedIds /\ cachedInstance \in Data
      BY <2>3, IdsType, ReturnSets DEF FromCache, Fresh, Cached, TypeOK
    <3>2. changed <= cachedInstance.age /\ cachedInstance.age < TTL
      BY <2>3, <3>1 DEF CachedIds, FromCache, Fresh, Cached, Aged
    <3>3. QED
      BY <3>1, <3>2 DEF TypeOK, Data
  <2>4. CASE Fetched
    BY <2>4, IdsType, ReturnSets DEF Fetched
  <2>5. CASE UseStale
    BY <2>5 DEF UseStale, NoAnswer
  <2>6. CASE FileRead \/ ReadTimeout
    <3>1. \E id \in Ids : id.from # "service" /\ Return(id)
      BY <2>6, IdsType DEF FileRead, ReadTimeout, Nowhere, FromFile
    <3>2. QED
      BY <3>1, ReturnSets
  <2>7. QED
    BY <2>2, <2>3, <2>4, <2>5, <2>6
<1>2. IInv /\ [Next]_vars
        => \A i \in {"parent", "instance"} :
             (/\ req[i] # req'[i] /\ req'[i].from = "service"
              /\ ~req'[i].current /\ changed >= TTL)
               => at = "fetch" /\ source[url] # "up"
  BY <1>1
<1>3. QED
  BY <1>2, InvariantHolds, PTL DEF Spec, StaleOnlyInOutage

=============================================================================
