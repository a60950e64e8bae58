------------------------------ MODULE Updater ------------------------------
(***************************************************************************)
(* One poll loop of the updater (internal/application/application.go) for  *)
(* its one agent, together with everything the loop reads and changes: the *)
(* agent's environment file and the persisted config version on disk, the  *)
(* agent's systemd service, the backend whose answers it carries out, and  *)
(* the goroutines of WriteFileAtomic that outlive their timeout.           *)
(*                                                                         *)
(* Time is relative.  Ages count ticks and saturate where the code stops   *)
(* telling them apart, so the model is finite with no bound on how long it *)
(* runs.  A modification time is kept as a stamp:                          *)
(*   lead - how much later than the running agent's start it is (negative  *)
(*          or zero when the agent started after it);                      *)
(*   age  - how long ago it is, which is what rebases lead when the agent  *)
(*          starts again.                                                  *)
(***************************************************************************)
EXTENDS Integers

CONSTANTS FlagSets,    \* the validated flag maps the backend may send
          NoFlags,     \* the empty flag map, also a header-only file
          Absent,      \* the environment file does not exist
          Actions,     \* the actions the backend may order
          MaxVersion,  \* bound on the config versions of a run
          MinUptime,   \* MinimalUptimeForUpdate, in ticks
          Grace,       \* restartGracePeriod, in ticks
          Slack,       \* error of an uptime reading, in ticks
          KnownOutcomes, \* whether the system uptime can be read
          Writers,     \* WriteFileAtomic goroutines in flight at once
          None,        \* no goroutine
          Disks        \* the conditions the disk may be in

ASSUME FlagsAssumption ==
  /\ NoFlags \in FlagSets
  /\ Absent \notin FlagSets
ASSUME TimeAssumption ==
  /\ MinUptime \in Nat /\ Grace \in Nat /\ Slack \in Nat
  /\ Slack <= Grace /\ Grace < MinUptime
ASSUME DomainAssumption ==
  /\ MaxVersion \in Nat
  /\ None \notin Writers
  /\ "NOP" \in Actions /\ Actions \subseteq {"NOP", "UPDATE", "RESTART"}
  /\ KnownOutcomes # {} /\ KnownOutcomes \subseteq BOOLEAN
  /\ "ok" \in Disks /\ Disks \subseteq {"ok", "failing", "wedged"}

VARIABLES
  agent,      \* the agent's service: up, age, env it loaded, current (ghost)
  sysAge,     \* time since the machine booted
  envFile,    \* the environment file: its flags and its modification time
  stateFile,  \* the persisted config version; 0 is a missing file
  disk,       \* condition of the disk holding both files
  writes,     \* the WriteFileAtomic goroutine in each slot, or Free
  server,     \* what the backend holds: flags and config version
  pc,         \* where the poll loop is; "down" when no process runs
  resp,       \* the response being carried out
  own,        \* the goroutine the loop waits for
  stat,       \* modification time the loop's Stat returned
  restarted,  \* processFeatureFlags' result
  seen,       \* lastSeenConfigVersion
  lastErr,    \* lastUpdateError # nil
  trouble     \* ghost: this process failed to load a version or to save one

vars == <<agent, sysAge, envFile, stateFile, disk, writes, server, pc, resp,
          own, stat, restarted, seen, lastErr, trouble>>

-----------------------------------------------------------------------------
(* Time *)

Lesser(a, b) == IF a <= b THEN a ELSE b

TopAge  == MinUptime + Slack      \* older uptimes are all alike
TopLead == Grace + Slack + 1      \* later modification times are all alike

Leads  == (-Slack)..TopLead
Stamps == [lead : Leads, age : 0..Slack]
Epoch  == [lead |-> -Slack, age |-> Slack]

\* The modification time of data written now.
Now == [lead |-> IF agent.up THEN Lesser(agent.age, TopLead) ELSE 0,
        age  |-> 0]

\* A stamp as seen from an agent that starts now, and one tick later.
Rebase(s) == [lead |-> -s.age, age |-> s.age]
Older(s)  == [s EXCEPT !.age = Lesser(s.age + 1, Slack)]

Reading == (-Slack)..Slack        \* error of an uptime reading

-----------------------------------------------------------------------------
(* The pieces of the state *)

Contents == FlagSets \cup {Absent}

\* What a file sets once its comments are stripped: what systemd loads from
\* it, and what processFeatureFlags compares.
Effective(f) == IF f = Absent THEN NoFlags ELSE f

Versions  == 0..MaxVersion
Free      == [stage |-> "free", file |-> "none", flags |-> NoFlags,
              version |-> 0, mtime |-> Epoch]
WriteOps  == [stage   : {"free", "open", "written"},
              file    : {"none", "env", "state"},
              flags   : FlagSets, version : Versions, mtime : Stamps]
Responses == [flags : FlagSets, action : Actions, version : Versions]
Agents    == [up : BOOLEAN, age : 0..TopAge, env : FlagSets,
              current : BOOLEAN]
PCs       == {"down", "idle", "read", "write", "stat", "uptime", "restart",
              "action", "version", "persist"}

TypeOK ==
  /\ agent \in Agents
  /\ sysAge \in 0..TopAge
  /\ envFile \in [flags : Contents, mtime : Stamps]
  /\ stateFile \in Versions
  /\ disk \in Disks
  /\ writes \in [Writers -> WriteOps]
  /\ server \in [flags : FlagSets, version : Versions]
  /\ pc \in PCs
  /\ resp \in Responses
  /\ own \in Writers \cup {None}
  /\ stat \in Stamps
  /\ restarted \in BOOLEAN
  /\ seen \in Versions
  /\ lastErr \in BOOLEAN
  /\ trouble \in BOOLEAN

NoResponse == [flags |-> NoFlags, action |-> "NOP", version |-> 0]

Init ==
  /\ agent = [up |-> FALSE, age |-> 0, env |-> NoFlags, current |-> TRUE]
  /\ sysAge \in {0, TopAge}
  /\ envFile = [flags |-> Absent, mtime |-> Epoch]
  /\ stateFile = 0
  /\ disk = "ok"
  /\ writes = [w \in Writers |-> Free]
  /\ server = [flags |-> NoFlags, version |-> 0]
  /\ pc = "down"
  /\ resp = NoResponse
  /\ own = None
  /\ stat = Epoch
  /\ restarted = FALSE
  /\ seen = 0
  /\ lastErr = FALSE
  /\ trouble = FALSE

-----------------------------------------------------------------------------
(* The agent's service, as systemctl and apt change it *)

agentVars == <<agent, envFile, writes, stat>>

\* Every modification time is dated afresh from the agent's new start.
Redate ==
  /\ envFile' = [envFile EXCEPT !.mtime = Rebase(@)]
  /\ writes'  = [w \in Writers |-> [writes[w] EXCEPT !.mtime = Rebase(@)]]
  /\ stat'    = Rebase(stat)

Started ==
  /\ agent' = [up |-> TRUE, age |-> 0, env |-> Effective(envFile.flags),
               current |-> TRUE]
  /\ Redate

Stopped ==
  /\ agent' = [up |-> FALSE, age |-> 0, env |-> NoFlags, current |-> TRUE]
  /\ Redate

\* A systemctl or apt-get run that failed or was killed at its timeout may
\* have done nothing, all of its work, or half of it.
Disturbed == Started \/ Stopped \/ UNCHANGED agentVars

AgentStart ==
  /\ ~agent.up
  /\ Started
  /\ UNCHANGED <<sysAge, stateFile, disk, server, pc, resp, own, restarted,
                 seen, lastErr, trouble>>

AgentStop ==
  /\ agent.up
  /\ Stopped
  /\ UNCHANGED <<sysAge, stateFile, disk, server, pc, resp, own, restarted,
                 seen, lastErr, trouble>>

-----------------------------------------------------------------------------
(* The updater's process.  A local the code will not read again is reset. *)

\* Nothing of a process that ends survives it: neither the loop's locals nor
\* the goroutines, nor what the agent object remembers.
ProcessEnds ==
  /\ pc' = "down"
  /\ resp' = NoResponse
  /\ own' = None
  /\ stat' = Epoch
  /\ restarted' = FALSE
  /\ seen' = 0
  /\ lastErr' = FALSE
  /\ trouble' = FALSE
  /\ writes' = [w \in Writers |-> Free]

\* A panic (FileGuard's cap), a kill, a package upgrade.
Crash ==
  /\ pc # "down"
  /\ ProcessEnds
  /\ UNCHANGED <<agent, sysAge, envFile, stateFile, disk, server>>

Reboot ==
  /\ ProcessEnds
  /\ agent' = [up |-> FALSE, age |-> 0, env |-> NoFlags, current |-> TRUE]
  /\ envFile' = [envFile EXCEPT !.mtime = Rebase(@)]
  /\ sysAge' = 0
  /\ disk' = "ok"
  /\ UNCHANGED <<stateFile, server>>

\* Mutant: resumes from the version after the persisted one.
StartUpdaterOffByOne ==
  /\ pc = "down"
  /\ pc' = "idle"
  /\ seen' = IF disk = "ok" THEN stateFile + 1 ELSE 0
  /\ trouble' = (disk # "ok" /\ stateFile > 0)
  /\ UNCHANGED <<agent, sysAge, envFile, stateFile, disk, writes, server,
                 resp, own, stat, restarted, lastErr>>

\* systemd starts the process; NewO11yagent loads the persisted version and
\* falls back to 0 when it cannot.
StartUpdater ==
  /\ pc = "down"
  /\ pc' = "idle"
  /\ seen' = IF disk = "ok" THEN stateFile ELSE 0
  /\ trouble' = (disk # "ok" /\ stateFile > 0)
  /\ UNCHANGED <<agent, sysAge, envFile, stateFile, disk, writes, server,
                 resp, own, stat, restarted, lastErr>>

-----------------------------------------------------------------------------
(* WriteFileAtomic's goroutines (AtomicFile has their steps in full) *)

FreeSlots == {w \in Writers : writes[w].stage = "free"}

\* The goroutine in w writes and fsyncs its temporary file, which dates it.
WriteTemp(w) ==
  /\ writes[w].stage = "open"
  /\ disk = "ok"
  /\ writes' = [writes EXCEPT ![w].stage = "written", ![w].mtime = Now]
  /\ UNCHANGED <<agent, sysAge, envFile, stateFile, disk, server, pc, resp,
                 own, stat, restarted, seen, lastErr, trouble>>

\* What the loop does once the write it waits for has returned.
WriteReturns(w, ok) ==
  IF own = w
  THEN /\ own' = None
       /\ pc' = IF pc = "persist" THEN "idle"
                ELSE IF ok THEN "stat" ELSE "action"
       /\ trouble' = (trouble \/ (pc = "persist" /\ ~ok))
  ELSE UNCHANGED <<own, pc, trouble>>

\* The rename installs the file, whether or not the loop still waits for it:
\* a goroutine given up on may get here at any later time.
Rename(w) ==
  /\ writes[w].stage = "written"
  /\ disk = "ok"
  /\ IF writes[w].file = "env"
     THEN /\ envFile' = [flags |-> writes[w].flags, mtime |-> writes[w].mtime]
          /\ agent' = [agent EXCEPT !.current = ~agent.up]
          /\ UNCHANGED stateFile
     ELSE /\ stateFile' = writes[w].version
          /\ UNCHANGED <<envFile, agent>>
  /\ writes' = [writes EXCEPT ![w] = Free]
  /\ WriteReturns(w, TRUE)
  /\ UNCHANGED <<sysAge, disk, server, resp, stat, restarted, seen, lastErr>>

WriteFails(w) ==
  /\ writes[w].stage # "free"
  /\ disk = "failing"
  /\ writes' = [writes EXCEPT ![w] = Free]
  /\ WriteReturns(w, FALSE)
  /\ UNCHANGED <<agent, sysAge, envFile, stateFile, disk, server, resp, stat,
                 restarted, seen, lastErr>>

\* Mutant: the write has no timeout.
WriteTimeoutNever == FALSE /\ UNCHANGED vars

\* The loop gives up on its write; the goroutine stays.  An fsync can take
\* that long on any disk, so the timer may win on a healthy one too.
WriteTimeout ==
  /\ own # None
  /\ WriteReturns(own, FALSE)
  /\ UNCHANGED <<agent, sysAge, envFile, stateFile, disk, writes, server,
                 resp, stat, restarted, seen, lastErr>>

\* A write begins in a free slot and the loop waits for it at label l.
BeginWrite(w, l, op) ==
  /\ writes' = [writes EXCEPT ![w] = op]
  /\ own' = w
  /\ pc' = l

-----------------------------------------------------------------------------
(* poll: the response, then processFeatureFlags *)

\* Mutant: flags that are unavailable are taken for no flags.
ReceiveUnavailable(available, a) ==
  /\ pc = "idle"
  /\ resp' = [flags |-> IF available THEN server.flags ELSE NoFlags, action |-> a,
              version |-> server.version]
  /\ pc' = "read"
  /\ UNCHANGED <<agent, sysAge, envFile, stateFile, disk, writes, server, own,
                 stat, restarted, seen, lastErr, trouble>>

\* SendAgentData returned a response.  A poll whose call fails changes nothing
\* here, and one that waits for its call is at "idle": the call's own accesses
\* to disks, of which os.Stat is not guarded (client.go:384-400,
\* oshelper.go:360, 395), are not those of the disk modelled here.
Receive(available, a) ==
  /\ pc = "idle"
  /\ resp' = [flags |-> server.flags, action |-> a,
              version |-> server.version]
  /\ pc' = IF available THEN "read" ELSE "action"
  /\ UNCHANGED <<agent, sysAge, envFile, stateFile, disk, writes, server, own,
                 stat, restarted, seen, lastErr, trouble>>

\* Mutants: comments are not stripped; only a missing file is written.
DiffersRaw == envFile.flags # resp.flags
DiffersMissing == envFile.flags = Absent /\ resp.flags # NoFlags

Differs == Effective(envFile.flags) # resp.flags

\* No flags, and no file or a file of comments only: there is nothing to do.
NothingToDo == resp.flags = NoFlags /\ Effective(envFile.flags) = NoFlags

\* Mutant: only a poll that wrote the file looks at the agent's uptime.
ReadEnvUnchanged ==
  /\ pc = "read"
  /\ disk = "ok"
  /\ ~Differs
  /\ pc' = "action"
  /\ UNCHANGED <<agent, sysAge, envFile, stateFile, disk, writes, server,
                 resp, own, stat, restarted, seen, lastErr, trouble>>

ReadEnv ==
  /\ pc = "read"
  /\ disk = "ok"
  /\ ~Differs
  /\ pc' = IF NothingToDo THEN "action" ELSE "stat"
  /\ UNCHANGED <<agent, sysAge, envFile, stateFile, disk, writes, server,
                 resp, own, stat, restarted, seen, lastErr, trouble>>

WriteEnv(w) ==
  /\ pc = "read"
  /\ disk = "ok"
  /\ Differs
  /\ w \in FreeSlots
  /\ BeginWrite(w, "write",
       [Free EXCEPT !.stage = "open", !.file = "env", !.flags = resp.flags])
  /\ UNCHANGED <<agent, sysAge, envFile, stateFile, disk, server, resp, stat,
                 restarted, seen, lastErr, trouble>>

\* Reading or statting the file fails or times out: no restart this poll.
EnvUnreadable ==
  /\ pc \in {"read", "stat"}
  /\ disk # "ok"
  /\ pc' = "action"
  /\ UNCHANGED <<agent, sysAge, envFile, stateFile, disk, writes, server,
                 resp, own, stat, restarted, seen, lastErr, trouble>>

StatEnv ==
  /\ pc = "stat"
  /\ disk = "ok"
  /\ stat' = envFile.mtime
  /\ pc' = "uptime"
  /\ UNCHANGED <<agent, sysAge, envFile, stateFile, disk, writes, server,
                 resp, own, restarted, seen, lastErr, trouble>>

UptimeUnknown ==
  /\ pc = "uptime"
  /\ pc' = "action"
  /\ stat' = Epoch
  /\ UNCHANGED <<agent, sysAge, envFile, stateFile, disk, writes, server,
                 resp, own, restarted, seen, lastErr, trouble>>

\* freshBoot, for a system uptime read with error e (or not at all).
FreshBoot(known, e) == known /\ sysAge + e < MinUptime

\* Mutants: no minimal uptime; no grace period.
RestartDueAnyUptime(e, fresh) ==
  agent.up /\ stat.lead + e > (IF fresh THEN 0 ELSE Grace)
RestartDueNoGrace(e, fresh) ==
  agent.up /\ stat.lead + e > 0 /\ (fresh \/ agent.age + e >= MinUptime)

\* The decision on an agent whose uptime is read as age + e, so that its
\* start is taken to be e earlier than it was.  A stopped agent has uptime 0
\* and its start is taken to be now, which no modification time is after.
RestartDue(e, fresh) ==
  /\ agent.up
  /\ stat.lead + e > (IF fresh THEN 0 ELSE Grace)
  /\ fresh \/ agent.age + e >= MinUptime

\* The two uptimes and the clock are read one after the other in the code.  An
\* agent that restarts meanwhile is judged by its old uptime, as if it restarted
\* between the decision and FlagRestart.
Decide ==
  /\ pc = "uptime"
  /\ \E known \in KnownOutcomes, e, se \in Reading :
       pc' = IF RestartDue(e, FreshBoot(known, se)) THEN "restart"
                                                    ELSE "action"
  /\ stat' = Epoch
  /\ UNCHANGED <<agent, sysAge, envFile, stateFile, disk, writes, server,
                 resp, own, restarted, seen, lastErr, trouble>>

FlagRestart ==
  /\ pc = "restart"
  /\ Started
  /\ restarted' = TRUE
  /\ pc' = "action"
  /\ UNCHANGED <<sysAge, stateFile, disk, server, resp, own, seen, lastErr,
                 trouble>>

FlagRestartFails ==
  /\ pc = "restart"
  /\ Disturbed
  /\ pc' = "action"
  /\ UNCHANGED <<sysAge, stateFile, disk, server, resp, own, restarted, seen,
                 lastErr, trouble>>

-----------------------------------------------------------------------------
(* poll: the ordered action, then the config version *)

ToVersion ==
  /\ pc = "action"
  /\ pc' = "version"
  /\ resp' = [NoResponse EXCEPT !.version = resp.version]
  /\ restarted' = FALSE
  /\ UNCHANGED <<sysAge, stateFile, disk, server, own, seen, trouble>>

\* Nothing is ordered, or the order is skipped: an UPDATE on a freshly booted
\* machine or without data, a RESTART the flags already brought about.
NoAction ==
  /\ \/ resp.action = "NOP"
     \/ resp.action = "UPDATE"
     \/ resp.action = "RESTART" /\ restarted
  /\ ToVersion
  /\ UNCHANGED <<agentVars, lastErr>>

\* An unreadable system uptime does not hold an update back.
UpdateAllowed == \E known \in KnownOutcomes, e \in Reading : ~FreshBoot(known, e)

Update ==
  /\ resp.action = "UPDATE"
  /\ UpdateAllowed
  /\ ToVersion
  /\ lastErr' = FALSE
  /\ Started \/ UNCHANGED agentVars

UpdateFails ==
  /\ resp.action = "UPDATE"
  /\ UpdateAllowed
  /\ ToVersion
  /\ lastErr' = TRUE
  /\ Disturbed

Restart ==
  /\ resp.action = "RESTART"
  /\ ~restarted
  /\ ToVersion
  /\ Started
  /\ UNCHANGED lastErr

RestartFails ==
  /\ resp.action = "RESTART"
  /\ ~restarted
  /\ ToVersion
  /\ Disturbed
  /\ UNCHANGED lastErr

\* Mutant: the comparison is off by one.
NewVersionOffByOne == resp.version > seen + 1

NewVersion == resp.version > seen

SameVersion ==
  /\ pc = "version"
  /\ ~NewVersion
  /\ pc' = "idle"
  /\ resp' = NoResponse
  /\ UNCHANGED <<agent, sysAge, envFile, stateFile, disk, writes, server, own,
                 stat, restarted, seen, lastErr, trouble>>

\* Mutant: the file gets the version that was in memory before.
AckVersionOld(w) ==
  /\ pc = "version"
  /\ NewVersion
  /\ w \in FreeSlots
  /\ seen' = resp.version
  /\ BeginWrite(w, "persist", [Free EXCEPT !.stage = "open",
                        !.file = "state", !.version = seen])
  /\ resp' = NoResponse
  /\ UNCHANGED <<agent, sysAge, envFile, stateFile, disk, server, stat,
                 restarted, lastErr, trouble>>

\* SetLastSeenConfigVersion: memory first, then the file.
AckVersion(w) ==
  /\ pc = "version"
  /\ NewVersion
  /\ w \in FreeSlots
  /\ seen' = resp.version
  /\ BeginWrite(w, "persist", [Free EXCEPT !.stage = "open",
                        !.file = "state", !.version = resp.version])
  /\ resp' = NoResponse
  /\ UNCHANGED <<agent, sysAge, envFile, stateFile, disk, server, stat,
                 restarted, lastErr, trouble>>

\* FileGuard's cap: no goroutine may be added, so the process panics.
GuardPanics ==
  /\ FreeSlots = {}
  /\ \/ pc = "read" /\ disk = "ok" /\ Differs
     \/ pc = "version" /\ NewVersion
  /\ ProcessEnds
  /\ UNCHANGED <<agent, sysAge, envFile, stateFile, disk, server>>

-----------------------------------------------------------------------------
(* The surroundings: time, the disk, the backend *)

Tick ==
  /\ agent' = [agent EXCEPT !.age = IF agent.up THEN Lesser(@ + 1, TopAge)
                                                ELSE 0]
  /\ sysAge' = Lesser(sysAge + 1, TopAge)
  /\ envFile' = [envFile EXCEPT !.mtime = Older(@)]
  /\ writes' = [w \in Writers |-> [writes[w] EXCEPT !.mtime = Older(@)]]
  /\ stat' = Older(stat)
  /\ UNCHANGED <<stateFile, disk, server, pc, resp, own, restarted, seen,
                 lastErr, trouble>>

DiskBecomes(d) ==
  /\ disk # d
  /\ disk' = d
  /\ UNCHANGED <<agent, sysAge, envFile, stateFile, writes, server, pc, resp,
                 own, stat, restarted, seen, lastErr, trouble>>

ServerSetsFlags(f) ==
  /\ server.flags # f
  /\ server' = [server EXCEPT !.flags = f]
  /\ UNCHANGED <<agent, sysAge, envFile, stateFile, disk, writes, pc, resp,
                 own, stat, restarted, seen, lastErr, trouble>>

ServerBumpsVersion ==
  /\ server.version < MaxVersion
  /\ server' = [server EXCEPT !.version = @ + 1]
  /\ UNCHANGED <<agent, sysAge, envFile, stateFile, disk, writes, pc, resp,
                 own, stat, restarted, seen, lastErr, trouble>>

-----------------------------------------------------------------------------
WriteStep(w) == WriteTemp(w) \/ Rename(w) \/ WriteFails(w)

PollStep ==
  \/ \E available \in BOOLEAN, a \in Actions : Receive(available, a)
  \/ ReadEnv \/ EnvUnreadable \/ StatEnv
  \/ \E w \in Writers : WriteEnv(w) \/ AckVersion(w)
  \/ GuardPanics \/ WriteTimeout
  \/ UptimeUnknown \/ Decide \/ FlagRestart \/ FlagRestartFails
  \/ NoAction \/ Update \/ UpdateFails \/ Restart \/ RestartFails
  \/ SameVersion

Environment ==
  \/ AgentStart \/ AgentStop \/ Crash \/ Reboot \/ Tick
  \/ \E d \in Disks : DiskBecomes(d)
  \/ \E f \in FlagSets : ServerSetsFlags(f)
  \/ ServerBumpsVersion

Next ==
  \/ StartUpdater \/ PollStep \/ Environment
  \/ \E w \in Writers : WriteStep(w)

Spec == Init /\ [][Next]_vars

(***************************************************************************)
(* Fairness.  Go's scheduler runs the loop and the goroutines, systemd     *)
(* starts both services again, and time passes: weak fairness.  The agent  *)
(* may stop, the backend may refuse, the uptime may be unreadable and a    *)
(* restart may fail, but not every time: strong fairness on their success. *)
(***************************************************************************)
Fairness ==
  /\ WF_vars(StartUpdater) /\ WF_vars(PollStep)
  /\ \A w \in Writers : WF_vars(WriteStep(w))
  /\ WF_vars(AgentStart) /\ WF_vars(Tick)
  /\ SF_vars(\E a \in Actions : Receive(TRUE, a))
  /\ SF_vars(Decide) /\ SF_vars(FlagRestart)

FairSpec == Spec /\ Fairness

\* Behaviours in which nothing goes wrong with the updater: no process ends, no
\* write or restart fails, and an uptime that cannot be read holds no restart
\* back.  Only the two comparisons of processFeatureFlags do.
Smooth ==
  /\ ~(Crash \/ Reboot \/ WriteTimeout \/ FlagRestartFails)
  /\ UptimeUnknown => ~RestartDue(0, FreshBoot(TRUE, 0))

SmoothSpec == Init /\ [][Next /\ Smooth]_vars /\ Fairness

-----------------------------------------------------------------------------
(* Safety *)

DecidesRestart == pc = "uptime" /\ pc' = "restart"

\* On a machine that booted long ago, processFeatureFlags decides to restart
\* the agent only if the agent has been up for the minimal uptime and the file
\* in place is not the one it loaded: whatever the error of the uptimes read,
\* however late a write's rename came, and though the agent may have restarted
\* between the Stat and the uptime reading (application.go:217-247).
SettledRestartIsDue ==
  [][DecidesRestart /\ sysAge = TopAge
       => /\ agent.up /\ ~agent.current
          /\ agent.age + Slack >= MinUptime]_vars

\* No sequence of polls, crashes and late writes creates a header-only file
\* where there was none (application.go:203-207).
NoHeaderOnlyFile ==
  [][envFile.flags = Absent => envFile'.flags # NoFlags]_vars

\* Between polls of a process that never failed to load or save the version,
\* the file holds what the process reported as seen, so that a restart at that
\* point reports it again (o11y-agent.go:43-57, 113-118).
AckSurvivesRestart == pc = "idle" /\ ~trouble => stateFile = seen

\* The file has the backend's flags f, and so has whatever may still write it.
Delivered(f) ==
  /\ server.flags = f /\ Effective(envFile.flags) = f
  /\ \A w \in Writers : writes[w].file = "env" => writes[w].flags = f
  /\ pc = "read" => resp.flags = f

\* Flags once delivered stay delivered until the backend changes them, whatever
\* write lands late or half of a poll is repeated after a crash, and though the
\* backend reports its flags as unavailable (application.go:184-215).
DeliveryIsFinal ==
  [][\A f \in FlagSets : Delivered(f) /\ server'.flags = f => Delivered(f)']_vars

-----------------------------------------------------------------------------
(* Refinement *)

EnvWrites     == [w \in Writers |-> IF writes[w].file = "env" THEN writes[w].flags
                                                             ELSE Absent]
VersionWrites == [w \in Writers |-> IF writes[w].file = "state"
                                   THEN writes[w].version ELSE 0]

\* Nothing here loses power, so no value is ever called stable.
EnvRegister == INSTANCE AtomicRegister WITH
  Values <- FlagSets, NoValue <- Absent,
  value <- envFile.flags, stable <- Absent, pending <- EnvWrites
VersionRegister == INSTANCE AtomicRegister WITH
  Values <- Versions, NoValue <- 0,
  value <- stateFile, stable <- 0, pending <- VersionWrites

\* The environment file is an atomic register, as WriteFileAtomic promises:
\* nothing but a write the loop began, its goroutine awaited or given up on,
\* changes it, at one moment and as a whole, and no write outlives its process
\* or lands twice (application.go:211, oshelper.go:306-351).
EnvIsRegister == EnvRegister!Spec

\* The same is true of the file of the config version (o11y-agent.go:113-118).
VersionIsRegister == VersionRegister!Spec

-----------------------------------------------------------------------------
(* Liveness *)

\* From a response on, the poll comes to its end, whatever the disk with the
\* environment file and the version file does: the read, the Stat and the two
\* writes of a poll are each given up in time, and the rest of the poll goes on
\* (application.go:38-40, o11y-agent.go:113-118).  It says nothing of what
\* SendAgentData does before the response.
PollLoopReturns == []<>(pc \in {"idle", "down"})

Calm == disk = "ok" /\ pc # "down"

Settled(f) == <>[](Calm /\ server.flags = f)

\* Once the backend's flags stay the same and disk and process stay well, the
\* file comes to hold these flags for good, whatever writes were left behind
\* by timeouts (application.go:196-215).
FileConverges ==
  \A f \in FlagSets : Settled(f) => <>[](Effective(envFile.flags) = f)

\* The file is not left dated clearly after the start of a running agent.
NoRestartOwed == []<>(agent.up => envFile.mtime.lead <= Grace + Slack)

\* A restart for flags that a crash, an error or the minimal uptime held back
\* is made up for, as long as some flag is set (application.go:217-255).
PendingRestartHappens ==
  \A f \in FlagSets \ {NoFlags} : Settled(f) => NoRestartOwed

\* With no flags and a file of comments only there is "nothing to do"
\* (application.go:203-204): once the backend has cleared all flags, an agent
\* that still runs with some, and was too young to be restarted when its file
\* was cleared, is restarted later.
ClearedFlagsRestart ==
  Settled(NoFlags) =>
    []<>(agent.env # NoFlags => envFile.mtime.lead <= Grace + Slack)

\* The loop catches up with the backend's config version even when the disk
\* never takes the write (o11y-agent.go:113-118, application.go:76-78).
VersionCatchesUp ==
  \A v \in Versions :
    <>[](pc # "down" /\ server.version = v) => <>[](seen = v)

\* Flags become the environment of the agent "at agent startup"
\* (application.go:126), which the updater brings about: once flags, disk and
\* process stay the same, the agent comes to run with these flags.
FlagsReachAgent ==
  \A f \in FlagSets \ {NoFlags} :
    Settled(f) => []<>(agent.up => agent.env = f)

=============================================================================
