------------------------------- MODULE Client -------------------------------
(***************************************************************************)
(* SendAgentData of internal/client/client.go, once per poll: the request  *)
(* is filled, which empties FileGuard's record of timeouts; a deadline is  *)
(* set, a token is asked for (the steps of IamToken), and the backend is   *)
(* called, perhaps several times.                                          *)
(***************************************************************************)
EXTENDS IamToken

CONSTANTS Deadline,  \* GRPC.Timeout, in timeouts of the metadata client
          Retrying,  \* whether GRPC.Retry is enabled
          PollsPerTick,  \* polls that end between two ticks, at least
          Paths      \* paths whose guarded accesses may time out

ASSUME ClientAssumption ==
  /\ Deadline \in Nat \ {0} /\ PollsPerTick \in Nat \ {0}
  /\ Retrying \in BOOLEAN

VARIABLES
  pc,        \* where SendAgentData is
  timeouts,  \* FileGuard.timeouts
  req,       \* the paths named in the request's LastUpdateError
  polls      \* polls that ended since the last tick, up to PollsPerTick

clientVars == <<pc, timeouts, req, polls>>
vars       == <<tokenVars, clientVars>>

ClientTypeOK ==
  /\ TypeOK
  /\ pc \in {"down", "idle", "attempt", "fetch", "call", "failed"}
  /\ timeouts \in SUBSET Paths
  /\ req \in SUBSET Paths
  /\ polls \in 0..PollsPerTick

ClientInit ==
  /\ Init
  /\ pc = "idle"
  /\ timeouts = {}
  /\ req = {}
  /\ polls = 0

-----------------------------------------------------------------------------
(* The request *)

\* Health, uptimes, versions and logs are read, which changes nothing here; the
\* guarded read of the cluster id may time out.  The timeouts are drained into
\* the request.
FillRequest ==
  /\ pc = "idle"
  /\ pc' = "attempt"
  /\ req' \in {timeouts} \cup {timeouts \cup {p} : p \in Paths}
  /\ timeouts' = {}
  /\ UNCHANGED <<tokenVars, polls>>

-----------------------------------------------------------------------------
(* operation: one attempt *)

\* The deadline is set first, and the token is asked for under it.
GetToken ==
  /\ \/ pc = "attempt" /\ CallBegins
     \/ pc = "fetch" /\ CallGoesOn
  /\ pc' = IF tpc' = "idle" THEN "call" ELSE "fetch"
  /\ UNCHANGED <<timeouts, req, polls>>

\* The deadline has not passed while the token was fetched.
InTime == spent < Deadline

\* The backend takes the token; the file's is taken to be good.
Welcome == given.real > 0 \/ given.from = "file"

Ends == /\ pc' = "idle" /\ req' = {}
        /\ polls' = IF polls < PollsPerTick THEN polls + 1 ELSE polls

\* The attempt is over: its token and its deadline were its own.
Forget == /\ given' = Nothing /\ spent' = 0
          /\ UNCHANGED <<service, issued, cachedIAM, tpc, url, fetched, calm>>

\* The request is sent, and may be heard.
Sent == pc = "call" /\ InTime /\ Welcome

Answered ==
  /\ Sent
  /\ Ends
  /\ Forget
  /\ UNCHANGED timeouts

\* No answer in time: refused, lost, or not sent as the deadline has passed.
CallFails ==
  /\ pc = "call"
  /\ IF Retrying THEN pc' = "failed" /\ UNCHANGED <<polls, req>>
                 ELSE Ends
  /\ Forget
  /\ UNCHANGED timeouts

\* Mutant: every attempt fills a request of its own.
RetryRefilled ==
  /\ pc = "failed"
  /\ pc' = "attempt"
  /\ req' = timeouts
  /\ timeouts' = {}
  /\ UNCHANGED <<tokenVars, polls>>

\* backoff.Retry: the same request again, until MaxElapsedTime is over.
Retry ==
  /\ pc = "failed"
  /\ pc' = "attempt"
  /\ UNCHANGED <<tokenVars, timeouts, req, polls>>

GiveUp ==
  /\ pc = "failed"
  /\ Ends
  /\ UNCHANGED <<tokenVars, timeouts>>

-----------------------------------------------------------------------------
(* Between polls, and the rest of the world *)

\* A guarded access of the poll loop times out.
RecordTimeout(p) ==
  /\ pc = "idle"
  /\ timeouts' = timeouts \cup {p}
  /\ UNCHANGED <<tokenVars, pc, req, polls>>

\* Polls are a minute apart and a tick is much longer, so that polls end between
\* two ticks, unless no process runs.
Tick ==
  /\ \/ pc = "idle" /\ polls = PollsPerTick
     \/ pc = "down"
  /\ TokenTick
  /\ polls' = 0
  /\ UNCHANGED <<pc, timeouts, req>>

WorldStep == ServiceStep /\ UNCHANGED clientVars

\* The process ends; the cache and all that was to be reported go with it.
Crash ==
  /\ pc' = "down"
  /\ timeouts' = {}
  /\ req' = {}
  /\ polls' = 0
  /\ cachedIAM' = NoToken /\ tpc' = "idle" /\ url' = "primary"
  /\ fetched' = NoToken /\ spent' = 0 /\ given' = Nothing
  /\ calm' = Never
  /\ UNCHANGED <<service, issued>>

Start ==
  /\ pc = "down"
  /\ pc' = "idle"
  /\ UNCHANGED <<tokenVars, timeouts, req, polls>>

-----------------------------------------------------------------------------
SendStep ==
  \/ FillRequest \/ GetToken \/ Answered \/ CallFails \/ Retry \/ GiveUp

ClientNext ==
  \/ SendStep \/ Tick \/ WorldStep \/ Crash \/ Start
  \/ \E p \in Paths : RecordTimeout(p)

ClientSpec == ClientInit /\ [][ClientNext]_vars

(***************************************************************************)
(* Fairness.  The loop goes on polling and time passes: weak fairness, and *)
(* strong where a poll is waited for.  A call that could be answered is    *)
(* not lost every time, and retries end: strong fairness.                  *)
(***************************************************************************)
FairClientSpec == /\ ClientSpec
                  /\ WF_vars(SendStep) /\ SF_vars(Tick)
                  /\ SF_vars(Answered) /\ SF_vars(GiveUp) /\ WF_vars(Start)

-----------------------------------------------------------------------------
(* Safety *)

\* A timeout of a guarded access is "surfaced to the backend via
\* FileGuard.DrainTimeouts" (oshelper.go:205-206): drained into a request it is
\* named by every attempt of it, and forgotten only when one is answered, when
\* all of them failed, or with the process (client.go:165-195, :417).
TimeoutRidesAlong ==
  [][\A p \in Paths : p \in timeouts \cup req /\ p \notin (timeouts \cup req)'
        => Answered \/ GiveUp \/ (CallFails /\ ~Retrying) \/ Crash]_vars

-----------------------------------------------------------------------------
(* Liveness *)

Runs == pc # "down"

\* Every poll ends, whatever hangs: no source of tokens is tried for ever
\* (client.go:163-200, metadata.go:201-213).
PollsEnd == []<>(pc \in {"idle", "down"})

\* When each URL of the metadata service either answers or refuses for good,
\* and the file is there, polls are answered again and again, though a token
\* may have been cached with the expiry of another (client.go:166-183,
\* metadata.go:110-119).
AnsweredWithoutHang ==
  \A c \in [URLs -> Conditions \ {"hangs"}] :
    <>[](Runs /\ issued > 0 /\ service = [s \in Sources |->
                                 IF s = "file" THEN "up" ELSE c[s]])
      => []<><<Answered>>_vars

\* When the first URL hangs, a poll that fetches a token is too late for its
\* own call, but the token it cached serves the polls that follow, once its
\* expiry comes with it (client.go:167-173, metadata.go:125-127).
AnsweredViaFallback ==
  <>[](Runs /\ issued > Margin /\ service["primary"] = "hangs"
            /\ service["fallback"] = "up") /\ <>[][~ExpiryUnknown]_vars
    => []<><<Answered>>_vars

\* "falling back to file" (metadata.go:116): with a good token in the file,
\* polls are answered while the metadata service hangs, too.
AnsweredFromFile ==
  <>[](Runs /\ issued > 0 /\ service["file"] = "up"
            /\ \A u \in URLs : service[u] = "hangs")
    => []<><<Answered>>_vars

=============================================================================
