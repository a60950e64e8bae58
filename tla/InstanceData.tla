----------------------------- MODULE InstanceData -----------------------------
(***************************************************************************)
(* GetParentId and GetInstanceId of internal/metadata/metadata.go, called  *)
(* one after the other for each request (client.go:249-264): the cache in  *)
(* front of the metadata service, the files behind it, and the count of    *)
(* file reads under way, which the reads of the token's file share.        *)
(*                                                                         *)
(* What matters of an id is where it comes from and whether the service    *)
(* still holds it, so no id has a name.  A tick is a good part of the time *)
(* to live, and may fall into a call.                                      *)
(***************************************************************************)
EXTENDS Integers

CONSTANTS TTL,         \* instanceDataCacheTTL
          MaxPending,  \* maxPendingFileReads
          NoData       \* nothing is cached

ASSUME InstanceAssumption ==
  /\ TTL \in Nat \ {0} /\ MaxPending \in Nat \ {0}
  /\ NoData \notin [age : Int, current : BOOLEAN]

VARIABLES
  useMetadataService,  \* the configuration
  source,          \* what each URL does: answers, fails, or answers with no JSON
  mount,           \* what the mount of the files does
  changed,         \* ticks since the service's data changed, up to TTL
  cachedInstance,  \* age is the time since cachedFetchedAt, up to TTL
  call,            \* the call under way; "idle" between polls, "down" for none
  at,              \* where that call is
  url,             \* the URL it tries
  req,             \* the ids of the request
  pending,         \* pendingFileReads
  stuck,           \* goroutines whose callers gave them up
  exiting          \* goroutines with nothing left but to give up their place

world   == <<useMetadataService, source, mount, changed>>
places  == <<pending, stuck, exiting>>
vars    == <<world, cachedInstance, call, at, url, req, places>>

URLs  == {"primary", "fallback"}
Data  == [age : 0..TTL, current : BOOLEAN]
Ids   == [from : {"nowhere", "service", "file"}, current : BOOLEAN]
Ended == {"idle", "down"}

TypeOK ==
  /\ useMetadataService \in BOOLEAN
  /\ source \in [URLs -> {"up", "fails", "garbled"}]
  /\ mount \in {"up", "empty", "wedged"}
  /\ changed \in 0..TTL
  /\ cachedInstance \in Data \cup {NoData}
  /\ call \in {"parent", "instance", "token"} \cup Ended
  /\ at \in {"start", "fetch", "file", "reading"}
  /\ url \in URLs
  /\ req \in [parent : Ids, instance : Ids, fallback : BOOLEAN]
  /\ pending \in 0..MaxPending /\ stuck \in Nat /\ exiting \in Nat

Nowhere  == [from |-> "nowhere", current |-> FALSE]
FromFile == [from |-> "file", current |-> FALSE]
NoIds    == [parent |-> Nowhere, instance |-> Nowhere, fallback |-> FALSE]

Init ==
  /\ useMetadataService \in BOOLEAN
  /\ source = [u \in URLs |-> "up"]
  /\ mount = "up"
  /\ changed = TTL
  /\ cachedInstance = NoData
  /\ call = "idle"
  /\ at = "start"
  /\ url = "primary"
  /\ req = NoIds
  /\ pending = 0 /\ stuck = 0 /\ exiting = 0

-----------------------------------------------------------------------------
(* fillMetadataInfo *)

\* Polls are a minute apart: a goroutine with nothing left to do has ended.
BeginPoll ==
  /\ call = "idle" /\ exiting = 0
  /\ call' = "parent"
  /\ req' = NoIds
  /\ UNCHANGED <<world, cachedInstance, at, url, places>>

\* The call returns an id; the file's, or none, is a fallback where the
\* service was asked first.
Return(id) ==
  /\ CASE call = "parent" ->
            /\ req' = [req EXCEPT !.parent = id]
            /\ call' = "instance"
       [] call = "instance" ->
            /\ req' = [req EXCEPT !.instance = id,
                                  !.fallback = /\ useMetadataService
                                               /\ id.from # "service"]
            /\ call' = "token"
       [] OTHER -> UNCHANGED <<req, call>>
  /\ at' = "start"
  /\ url' = "primary"

Asks == call \in {"parent", "instance"} /\ at = "start"

-----------------------------------------------------------------------------
(* getInstanceData *)

Cached == cachedInstance # NoData

\* Mutant: the cache never expires.
FreshForever == Cached

Fresh == Cached /\ cachedInstance.age < TTL

\* The ids of the cache.
CachedIds == [from |-> "service", current |-> cachedInstance.current]

FromCache ==
  /\ Asks /\ useMetadataService /\ Fresh
  /\ Return(CachedIds)
  /\ UNCHANGED <<world, cachedInstance, places>>

BeginFetch ==
  /\ Asks /\ useMetadataService /\ ~Fresh
  /\ at' = "fetch"
  /\ UNCHANGED <<world, cachedInstance, call, url, req, places>>

TryFallback ==
  /\ at = "fetch"
  /\ url = "primary" /\ source[url] = "fails"
  /\ url' = "fallback"
  /\ UNCHANGED <<world, cachedInstance, call, at, req, places>>

Fetched ==
  /\ at = "fetch"
  /\ source[url] = "up"
  /\ cachedInstance' = [age |-> 0, current |-> TRUE]
  /\ Return([from |-> "service", current |-> TRUE])
  /\ UNCHANGED <<world, places>>

\* No URL answers, or the first to answer sends no JSON: the other is not asked.
NoAnswer ==
  /\ at = "fetch"
  /\ \/ source[url] = "garbled"
     \/ url = "fallback" /\ source[url] = "fails"

\* Mutants: what is used in an outage counts as fetched again; the cache is
\* dropped with the answer that cannot be parsed.
UseStaleRenewed ==
  /\ NoAnswer /\ Cached
  /\ Return(CachedIds)
  /\ cachedInstance' = [cachedInstance EXCEPT !.age = 0]
  /\ UNCHANGED <<world, places>>

UseStaleOnce ==
  /\ NoAnswer /\ Cached
  /\ Return(CachedIds)
  /\ cachedInstance' = NoData
  /\ UNCHANGED <<world, places>>

\* However old it is.
UseStale ==
  /\ NoAnswer /\ Cached
  /\ Return(CachedIds)
  /\ UNCHANGED <<world, cachedInstance, places>>

-----------------------------------------------------------------------------
(* readAndTrimFile *)

ToFile ==
  /\ \/ NoAnswer /\ ~Cached
     \/ Asks /\ ~useMetadataService
     \/ call = "token" /\ at = "start"
  /\ at' = "file"
  /\ url' = "primary"
  /\ UNCHANGED <<world, cachedInstance, call, req, places>>

\* Mutant: the cap is off by one.
BeginReadAtCap ==
  /\ at = "file"
  /\ pending <= MaxPending
  /\ pending' = pending + 1
  /\ at' = "reading"
  /\ UNCHANGED <<world, cachedInstance, call, url, req, stuck, exiting>>

BeginRead ==
  /\ at = "file"
  /\ pending < MaxPending
  /\ pending' = pending + 1
  /\ at' = "reading"
  /\ UNCHANGED <<world, cachedInstance, call, url, req, stuck, exiting>>

\* The mount answers, be it that there is no such file.
FileRead ==
  /\ at = "reading"
  /\ mount # "wedged"
  /\ Return(IF mount = "up" THEN FromFile ELSE Nowhere)
  /\ exiting' = exiting + 1
  /\ UNCHANGED <<world, cachedInstance, pending, stuck>>

\* Mutant: a read that times out is no longer counted.
ReadTimeoutUncounted ==
  /\ at = "reading"
  /\ Return(Nowhere)
  /\ stuck' = stuck + 1
  /\ pending' = pending - 1
  /\ UNCHANGED <<world, cachedInstance, exiting>>

\* A read may be slow on a mount that is well.
ReadTimeout ==
  /\ at = "reading"
  /\ Return(Nowhere)
  /\ stuck' = stuck + 1
  /\ UNCHANGED <<world, cachedInstance, pending, exiting>>

\* The system call of a goroutine that was given up returns.
Unblock ==
  /\ stuck > 0 /\ mount # "wedged"
  /\ stuck' = stuck - 1
  /\ exiting' = exiting + 1
  /\ UNCHANGED <<world, cachedInstance, call, at, url, req, pending>>

\* Mutant: only a read in time gives its place back, by its caller.
ExitLost ==
  /\ exiting > 0
  /\ exiting' = exiting - 1
  /\ pending' = IF stuck > 0 THEN pending ELSE pending - 1
  /\ UNCHANGED <<world, cachedInstance, call, at, url, req, stuck>>

Exit ==
  /\ exiting > 0
  /\ exiting' = exiting - 1
  /\ pending' = pending - 1
  /\ UNCHANGED <<world, cachedInstance, call, at, url, req, stuck>>

-----------------------------------------------------------------------------
(* The rest of the poll, the process, the world *)

\* The token's file was read or not, perhaps at several attempts.
EndPoll ==
  /\ call = "token" /\ at = "start"
  /\ call' = "idle"
  /\ UNCHANGED <<world, cachedInstance, at, url, req, places>>

ProcessEnds ==
  /\ call' = "down"
  /\ at' = "start" /\ url' = "primary"
  /\ req' = NoIds
  /\ cachedInstance' = NoData
  /\ pending' = 0 /\ stuck' = 0 /\ exiting' = 0
  /\ UNCHANGED world

Panic == at = "file" /\ pending >= MaxPending /\ ProcessEnds

Crash == call # "down" /\ ProcessEnds

Start ==
  /\ call = "down"
  /\ call' = "idle"
  /\ UNCHANGED <<world, cachedInstance, at, url, req, places>>

Older(n) == IF n < TTL THEN n + 1 ELSE TTL

Tick ==
  /\ changed' = Older(changed)
  /\ cachedInstance' = IF Cached
                         THEN [cachedInstance EXCEPT !.age = Older(@)]
                         ELSE NoData
  /\ UNCHANGED <<useMetadataService, source, mount, call, at, url, req, places>>

DataChanges ==
  /\ changed' = 0
  /\ cachedInstance' = IF Cached
                         THEN [cachedInstance EXCEPT !.current = FALSE]
                         ELSE NoData
  /\ UNCHANGED <<useMetadataService, source, mount, call, at, url, req, places>>

SourceBecomes(u, c) ==
  /\ source' = [source EXCEPT ![u] = c]
  /\ UNCHANGED <<useMetadataService, mount, changed, cachedInstance, call, at,
                 url, req, places>>

MountBecomes(c) ==
  /\ mount' = c
  /\ UNCHANGED <<useMetadataService, source, changed, cachedInstance, call, at,
                 url, req, places>>

-----------------------------------------------------------------------------
CallStep ==
  \/ BeginPoll \/ FromCache \/ BeginFetch \/ TryFallback \/ Fetched \/ UseStale
  \/ ToFile \/ BeginRead \/ FileRead \/ ReadTimeout \/ EndPoll

Next ==
  \/ CallStep \/ Panic \/ Unblock \/ Exit \/ Crash \/ Start
  \/ Tick \/ DataChanges
  \/ \E u \in URLs, c \in {"up", "fails", "garbled"} : SourceBecomes(u, c)
  \/ \E c \in {"up", "empty", "wedged"} : MountBecomes(c)

Spec == Init /\ [][Next]_vars

(***************************************************************************)
(* Fairness.  The loop polls, its goroutines run, systemd starts the       *)
(* process and time passes: weak fairness.  Attempts to send end           *)
(* (MaxElapsedTime): strong fairness on EndPoll.                           *)
(***************************************************************************)
FairSpec == /\ Spec
            /\ WF_vars(CallStep \/ Panic) /\ SF_vars(EndPoll)
            /\ WF_vars(Unblock) /\ WF_vars(Exit) /\ WF_vars(Start)
            /\ WF_vars(Tick)

-----------------------------------------------------------------------------
(* Safety *)

\* The reader counts exactly the goroutines that read, are stuck or have yet to
\* end, so that it ends the process only when that many there are
\* (metadata.go:250-268).
PendingExact ==
  pending = stuck + exiting + (IF at = "reading" THEN 1 ELSE 0)

\* InstanceIdUsedFallback never comes with a parent id of the service: once the
\* service has answered, its answer outlives every outage (client.go:249-264,
\* metadata.go:178-194).
FallbackIsConsistent == req.fallback => req.parent.from # "service"

\* An id that the service gave up a time to live ago is put into a request only
\* if the service fails at that very call (metadata.go:174-194).
StaleOnlyInOutage ==
  [][\A i \in {"parent", "instance"} :
       (/\ req[i] # req'[i] /\ req'[i].from = "service"
        /\ ~req'[i].current /\ changed >= TTL)
         => at = "fetch" /\ source[url] # "up"]_vars

-----------------------------------------------------------------------------
(* Liveness *)

\* Once the service keeps its data and a URL keeps answering that no garbled
\* answer keeps from being asked, all requests come to carry the current ids,
\* whatever was cached (metadata.go:174-213).
IdsCatchUp ==
  \A u \in URLs :
    <>[](/\ useMetadataService /\ call # "down" /\ changed = TTL
         /\ source[u] = "up"
         /\ u = "fallback" => source["primary"] = "fails")
      => <>[](call = "token" => req.parent.current /\ req.instance.current)

\* When the mount answers for good and reads no longer time out, every place is
\* given back: the process does not come ever closer to its cap
\* (metadata.go:248-264).
ReadsDrain ==
  <>[](mount # "wedged") => []<><<ReadTimeout>>_vars \/ []<>(pending = 0)

=============================================================================
