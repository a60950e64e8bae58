--------------------------- MODULE UpdaterProofs ---------------------------
(***************************************************************************)
(* Proofs about Updater for any flag sets, versions, times and number of   *)
(* write goroutines.                                                       *)
(***************************************************************************)
EXTENDS Updater, TLAPS

-----------------------------------------------------------------------------
(* Lemmas about time *)

USE FlagsAssumption, TimeAssumption, DomainAssumption

\* Stamps are stamps whatever happens to them.
LEMMA StampTypes ==
  /\ Epoch \in Stamps /\ Epoch.lead <= 0
  /\ \A s \in Stamps : /\ Rebase(s) \in Stamps /\ Rebase(s).lead <= 0
                       /\ Older(s) \in Stamps /\ Older(s).lead = s.lead
BY DEF Epoch, Stamps, Leads, TopLead, Rebase, Older, Lesser

\* Data written now is dated by a stamp.
LEMMA NowType == agent \in Agents => Now \in Stamps
BY DEF Now, Agents, Stamps, Leads, TopLead, TopAge, Lesser

LEMMA ConstantTypes ==
  /\ Free \in WriteOps /\ NoResponse \in Responses
  /\ \A f \in Contents : Effective(f) \in FlagSets
BY StampTypes DEF Free, WriteOps, NoResponse, Responses, Effective, Contents,
                  Versions

-----------------------------------------------------------------------------
(* Type correctness *)

\* Dating the files from the agent's new start keeps their types.
LEMMA RedateType ==
  ASSUME TypeOK, Redate
  PROVE  /\ envFile' \in [flags : Contents, mtime : Stamps]
         /\ writes' \in [Writers -> WriteOps]
         /\ stat' \in Stamps
         /\ envFile'.mtime.lead <= 0 /\ stat'.lead <= 0
<1> USE DEF TypeOK, Redate
<1>1. /\ envFile' \in [flags : Contents, mtime : Stamps]
      /\ envFile'.mtime.lead <= 0
  BY StampTypes
<1>2. writes' \in [Writers -> WriteOps]
  <2>1. ASSUME NEW w \in Writers
        PROVE  [writes[w] EXCEPT !.mtime = Rebase(@)] \in WriteOps
    <3>1. writes[w] \in WriteOps
      OBVIOUS
    <3>2. Rebase(writes[w].mtime) \in Stamps
      BY ONLY <3>1, StampTypes DEF WriteOps
    <3> QED  BY ONLY <3>1, <3>2 DEF WriteOps
  <2>2. writes' = [w \in Writers |-> [writes[w] EXCEPT !.mtime = Rebase(@)]]
    OBVIOUS
  <2> QED  BY ONLY <2>1, <2>2
<1>3. QED
  BY <1>1, <1>2, StampTypes

\* What a restart, a stop, or a disturbed restart leaves is well typed.
LEMMA DisturbedType ==
  ASSUME TypeOK, Started \/ Stopped \/ Disturbed
  PROVE  /\ agent' \in Agents
         /\ envFile' \in [flags : Contents, mtime : Stamps]
         /\ writes' \in [Writers -> WriteOps]
         /\ stat' \in Stamps
<1>1. CASE Started
  BY <1>1, RedateType, ConstantTypes DEF Started, TypeOK, Agents, TopAge
<1>2. CASE Stopped
  BY <1>2, RedateType DEF Stopped, TypeOK, Agents, TopAge
<1>3. CASE UNCHANGED agentVars
  BY <1>3 DEF agentVars, TypeOK
<1>4. QED
  BY <1>1, <1>2, <1>3 DEF Disturbed

\* The steps of a write's goroutine, and of the loop that waits for it.
LEMMA WriteStepType ==
  ASSUME TypeOK, (\E w \in Writers : WriteStep(w)) \/ WriteTimeout
  PROVE  TypeOK'
<1> USE DEF TypeOK
<1>1. ASSUME NEW w \in Writers, WriteTemp(w) PROVE TypeOK'
  <2> DEFINE op == [writes[w] EXCEPT !.stage = "written", !.mtime = Now]
  <2>1. Now \in Stamps
    BY NowType
  <2>2. writes[w] \in WriteOps
    OBVIOUS
  <2>3. op \in WriteOps
    BY <2>1, <2>2 DEF WriteOps
  <2>4. writes' = [writes EXCEPT ![w] = op]
    BY <1>1 DEF WriteTemp
  <2>5. writes' \in [Writers -> WriteOps]
    BY <2>3, <2>4
  <2>6. QED
    BY <1>1, <2>5 DEF WriteTemp
<1>2. ASSUME NEW w \in Writers, NEW ok \in BOOLEAN, WriteReturns(w, ok)
      PROVE  /\ own' \in Writers \cup {None} /\ pc' \in PCs
             /\ trouble' \in BOOLEAN
  BY <1>2 DEF WriteReturns, PCs
<1>3. ASSUME NEW w \in Writers, Rename(w) PROVE TypeOK'
  <2>1. writes[w] \in WriteOps
    OBVIOUS
  <2>2. /\ agent' \in Agents
        /\ envFile' \in [flags : Contents, mtime : Stamps]
        /\ stateFile' \in Versions
    <3>1. /\ writes[w].flags \in Contents /\ writes[w].version \in Versions
          /\ writes[w].mtime \in Stamps
      BY <2>1 DEF WriteOps, Contents
    <3>2. CASE writes[w].file = "env"
      <4>1. envFile' = [flags |-> writes[w].flags, mtime |-> writes[w].mtime]
            /\ agent' = [agent EXCEPT !.current = ~agent.up]
            /\ stateFile' = stateFile
        BY <1>3, <3>2 DEF Rename
      <4>2. agent' \in Agents
        BY <4>1 DEF Agents
      <4>3. QED
        BY <3>1, <4>1, <4>2
    <3>3. CASE writes[w].file # "env"
      BY <1>3, <3>1, <3>3 DEF Rename
    <3>4. QED
      BY <3>2, <3>3
  <2>3. writes' \in [Writers -> WriteOps]
    BY <1>3, ConstantTypes DEF Rename
  <2>4. WriteReturns(w, TRUE)
    BY <1>3 DEF Rename
  <2>5. QED
    BY <1>2, <1>3, <2>2, <2>3, <2>4 DEF Rename
<1>4. ASSUME NEW w \in Writers, WriteFails(w) PROVE TypeOK'
  <2>1. writes' \in [Writers -> WriteOps] /\ WriteReturns(w, FALSE)
    BY <1>4, ConstantTypes DEF WriteFails
  <2>2. QED
    BY <1>2, <1>4, <2>1 DEF WriteFails
<1>5. CASE WriteTimeout
  <2>1. own \in Writers /\ WriteReturns(own, FALSE)
    BY <1>5 DEF WriteTimeout
  <2>2. QED
    BY <1>2, <1>5, <2>1 DEF WriteTimeout
<1>6. QED
  BY <1>1, <1>3, <1>4, <1>5 DEF WriteStep

\* The end of a process.
LEMMA ProcessEndsType ==
  ASSUME TypeOK, ProcessEnds
  PROVE  /\ pc' \in PCs /\ resp' \in Responses
         /\ own' \in Writers \cup {None} /\ stat' \in Stamps
         /\ restarted' \in BOOLEAN /\ seen' \in Versions
         /\ lastErr' \in BOOLEAN /\ trouble' \in BOOLEAN
         /\ writes' \in [Writers -> WriteOps]
<1>1. pc' \in PCs /\ own' \in Writers \cup {None}
  BY DEF ProcessEnds, PCs
<1>2. resp' \in Responses /\ stat' \in Stamps
  BY ConstantTypes, StampTypes DEF ProcessEnds
<1>3. seen' \in Versions
  BY DEF ProcessEnds, Versions
<1>4. writes' \in [Writers -> WriteOps]
  BY ConstantTypes DEF ProcessEnds
<1>5. restarted' \in BOOLEAN /\ lastErr' \in BOOLEAN /\ trouble' \in BOOLEAN
  BY DEF ProcessEnds
<1>6. QED
  BY <1>1, <1>2, <1>3, <1>4, <1>5

\* The steps that begin a write.
LEMMA BeginWriteType ==
  ASSUME TypeOK, NEW w \in Writers, WriteEnv(w) \/ AckVersion(w)
  PROVE  TypeOK'
<1> USE DEF TypeOK
<1>1. /\ resp \in Responses /\ resp.flags \in FlagSets
      /\ resp.version \in Versions
  BY DEF Responses
<1>2. CASE WriteEnv(w)
  <2>1. [Free EXCEPT !.stage = "open", !.file = "env",
                     !.flags = resp.flags] \in WriteOps
    BY <1>1, ConstantTypes DEF WriteOps
  <2>2. writes' \in [Writers -> WriteOps] /\ own' = w /\ pc' = "write"
    BY <1>2, <2>1 DEF WriteEnv, BeginWrite
  <2>3. QED
    BY <1>2, <2>2 DEF WriteEnv, PCs
<1>3. CASE AckVersion(w)
  <2>1. [Free EXCEPT !.stage = "open", !.file = "state",
                     !.version = resp.version] \in WriteOps
    BY <1>1, ConstantTypes DEF WriteOps
  <2>2. writes' \in [Writers -> WriteOps] /\ own' = w /\ pc' = "persist"
    BY <1>3, <2>1 DEF AckVersion, BeginWrite
  <2>3. QED
    BY <1>1, <1>3, <2>2, ConstantTypes DEF AckVersion, PCs
<1>4. QED
  BY <1>2, <1>3

\* The other steps of a poll.
LEMMA PollStepType == TypeOK /\ PollStep => TypeOK'
<1> SUFFICES ASSUME TypeOK, PollStep PROVE TypeOK'
  OBVIOUS
<1> USE DEF TypeOK
<1>1. ASSUME NEW available \in BOOLEAN, NEW a \in Actions,
             Receive(available, a)
      PROVE  TypeOK'
  BY <1>1 DEF Receive, Responses, PCs
<1>2. CASE ReadEnv \/ EnvUnreadable \/ StatEnv
  BY <1>2 DEF ReadEnv, EnvUnreadable, StatEnv, PCs
<1>3. CASE \E w \in Writers : WriteEnv(w) \/ AckVersion(w)
  BY <1>3, BeginWriteType
<1>4. CASE GuardPanics
  BY <1>4, ProcessEndsType DEF GuardPanics
<1>5. CASE WriteTimeout
  BY <1>5, WriteStepType
<1>6. CASE UptimeUnknown \/ Decide
  BY <1>6, StampTypes DEF UptimeUnknown, Decide, PCs
<1>7. CASE FlagRestart \/ FlagRestartFails
  BY <1>7, DisturbedType DEF FlagRestart, FlagRestartFails, PCs
<1>8. CASE NoAction \/ Update \/ UpdateFails \/ Restart \/ RestartFails
  <2>1. ToVersion /\ (Started \/ Disturbed) /\ lastErr' \in BOOLEAN
    BY <1>8 DEF NoAction, Update, UpdateFails, Restart, RestartFails,
                Disturbed, ToVersion
  <2>2. resp' \in Responses
    BY <2>1, ConstantTypes DEF ToVersion, Responses
  <2>3. QED
    BY <2>1, <2>2, DisturbedType DEF ToVersion, PCs
<1>9. CASE SameVersion
  BY <1>9, ConstantTypes DEF SameVersion, PCs
<1>10. QED
  BY <1>1, <1>2, <1>3, <1>4, <1>5, <1>6, <1>7, <1>8, <1>9 DEF PollStep

\* The surroundings.
LEMMA EnvironmentType == TypeOK /\ Environment => TypeOK'
<1> SUFFICES ASSUME TypeOK, Environment PROVE TypeOK'
  OBVIOUS
<1> USE DEF TypeOK
<1>1. CASE AgentStart \/ AgentStop
  BY <1>1, DisturbedType DEF AgentStart, AgentStop
<1>2. CASE Crash
  BY <1>2, ProcessEndsType DEF Crash
<1>3. CASE Reboot
  <2>1. envFile' \in [flags : Contents, mtime : Stamps]
    BY <1>3, StampTypes DEF Reboot
  <2>2. agent' \in Agents /\ sysAge' \in 0..TopAge
    BY <1>3 DEF Reboot, Agents, TopAge
  <2>3. QED
    BY <1>3, <2>1, <2>2, ProcessEndsType DEF Reboot
<1>4. CASE Tick
  <2>1. agent' \in Agents /\ sysAge' \in 0..TopAge
    BY <1>4 DEF Tick, Agents, TopAge, Lesser
  <2>2. /\ envFile' \in [flags : Contents, mtime : Stamps]
        /\ stat' \in Stamps
    BY <1>4, StampTypes DEF Tick
  <2>3. writes' \in [Writers -> WriteOps]
    <3>1. ASSUME NEW w \in Writers
          PROVE  [writes[w] EXCEPT !.mtime = Older(@)] \in WriteOps
      <4>1. writes[w] \in WriteOps /\ Older(writes[w].mtime) \in Stamps
        BY StampTypes DEF WriteOps
      <4>2. QED
        BY <4>1 DEF WriteOps
    <3>2. QED
      BY <1>4, <3>1 DEF Tick
  <2>4. QED
    BY <1>4, <2>1, <2>2, <2>3 DEF Tick
<1>5. CASE \E d \in Disks : DiskBecomes(d)
  BY <1>5 DEF DiskBecomes
<1>6. CASE \E f \in FlagSets : ServerSetsFlags(f)
  BY <1>6 DEF ServerSetsFlags
<1>7. CASE ServerBumpsVersion
  BY <1>7 DEF ServerBumpsVersion, Versions
<1>8. QED
  BY <1>1, <1>2, <1>3, <1>4, <1>5, <1>6, <1>7 DEF Environment

\* Every step keeps the types.
LEMMA TypeInductive == TypeOK /\ [Next]_vars => TypeOK'
<1> SUFFICES ASSUME TypeOK, [Next]_vars PROVE TypeOK'
  OBVIOUS
<1>1. CASE StartUpdater
  BY <1>1 DEF StartUpdater, TypeOK, PCs, Versions
<1>2. CASE PollStep
  BY <1>2, PollStepType
<1>3. CASE Environment
  BY <1>3, EnvironmentType
<1>4. CASE \E w \in Writers : WriteStep(w)
  BY <1>4, WriteStepType
<1>5. CASE UNCHANGED vars
  BY <1>5 DEF vars, TypeOK
<1>6. QED
  BY <1>1, <1>2, <1>3, <1>4, <1>5 DEF Next

LEMMA InitType == Init => TypeOK
<1> SUFFICES ASSUME Init PROVE TypeOK
  OBVIOUS
<1>1. agent \in Agents /\ sysAge \in 0..TopAge
  BY DEF Init, Agents, TopAge
<1>2. /\ envFile \in [flags : Contents, mtime : Stamps] /\ stat \in Stamps
      /\ writes \in [Writers -> WriteOps] /\ resp \in Responses
  BY ConstantTypes, StampTypes DEF Init, Contents
<1>3. /\ stateFile \in Versions /\ seen \in Versions
      /\ server \in [flags : FlagSets, version : Versions]
  BY DEF Init, Versions
<1>4. /\ pc \in PCs /\ own \in Writers \cup {None} /\ disk \in Disks
  BY DEF Init, PCs
<1>5. restarted \in BOOLEAN /\ lastErr \in BOOLEAN /\ trouble \in BOOLEAN
  BY DEF Init
<1>6. QED
  BY <1>1, <1>2, <1>3, <1>4, <1>5 DEF TypeOK

\* The variables of the updater, the files, the agent and the surroundings
\* keep their types for every value of the constants.
THEOREM TypeCorrect == Spec => []TypeOK
BY InitType, TypeInductive, PTL DEF Spec

-----------------------------------------------------------------------------
(***************************************************************************)
(* Restarts on a settled machine.  The property relates a modification     *)
(* time, taken before the agent's uptime, to what the running agent        *)
(* loaded.  What makes it hold is that a file dated after the agent's      *)
(* start was put in place after it, and that a restart of the agent        *)
(* between the two readings dates the first one afresh.                    *)
(***************************************************************************)
DatesTrue ==
  agent.up => /\ envFile.mtime.lead > 0 => ~agent.current
              /\ stat.lead > 0 => ~agent.current

DatesInv == TypeOK /\ DatesTrue

(***************************************************************************)
(* The config version.  While nothing failed, the only write of the state  *)
(* file in flight is the one the loop waits for, and outside that wait     *)
(* memory and file agree.                                                  *)
(***************************************************************************)
OwnTrue ==
  /\ own # None <=> pc \in {"write", "persist"}
  /\ own # None => /\ writes[own].stage # "free"
                   /\ writes[own].file = IF pc = "write" THEN "env" ELSE "state"
  /\ pc = "down" => \A w \in Writers : writes[w].stage = "free"
  /\ \A w \in Writers : writes[w].stage # "free" => writes[w].file # "none"

AckTrue ==
  ~trouble /\ pc # "down" =>
    /\ pc # "persist" => stateFile = seen
    /\ \A w \in Writers :
         writes[w].stage # "free" /\ writes[w].file = "state"
           => w = own /\ writes[w].version = seen

AckInv == TypeOK /\ OwnTrue /\ AckTrue

\* A restart or a stop of the agent dates every file before its new start.
LEMMA DatesDisturbed ==
  ASSUME DatesInv, Started \/ Stopped \/ Disturbed
  PROVE  DatesTrue'
<1> USE DEF DatesInv, DatesTrue
<1>1. CASE Started \/ Stopped
  <2>1. Redate
    BY <1>1 DEF Started, Stopped
  <2>2. /\ ~(envFile'.mtime.lead > 0) /\ ~(stat'.lead > 0)
    <3>1. envFile'.mtime \in Stamps /\ stat' \in Stamps
      BY <2>1, RedateType
    <3>2. QED
      BY <2>1, <3>1, RedateType DEF Stamps, Leads, TopLead
  <2>3. QED
    BY <2>2
<1>2. CASE UNCHANGED agentVars
  BY <1>2 DEF agentVars
<1>3. QED
  BY <1>1, <1>2 DEF Disturbed

\* A step that leaves the agent and the file alone and at most forgets the
\* modification time.
LEMMA DatesKept ==
  ASSUME DatesInv, agent' = agent, envFile' = envFile,
         stat' \in {stat, Epoch, envFile.mtime}
  PROVE  DatesTrue'
<1>1. ~(Epoch.lead > 0)
  BY DEF Epoch
<1>2. QED
  BY <1>1 DEF DatesInv, DatesTrue

LEMMA DatesInductive == DatesInv /\ [Next]_vars => DatesInv'
<1> SUFFICES ASSUME DatesInv, [Next]_vars PROVE DatesTrue'
  BY TypeInductive DEF DatesInv
<1>1. ASSUME NEW w \in Writers, Rename(w) PROVE DatesTrue'
  <2>1. CASE writes[w].file = "env"
    <3>1. agent' = [agent EXCEPT !.current = ~agent.up]
      BY <1>1, <2>1 DEF Rename
    <3>2. agent'.up => ~agent'.current
      BY <3>1 DEF DatesInv, TypeOK, Agents
    <3>3. QED
      BY <3>2 DEF DatesTrue
  <2>2. CASE writes[w].file # "env"
    BY <1>1, <2>2, DatesKept DEF Rename
  <2>3. QED
    BY <2>1, <2>2
<1>2. ASSUME NEW w \in Writers, WriteTemp(w) \/ WriteFails(w)
      PROVE  DatesTrue'
  BY <1>2, DatesKept DEF WriteTemp, WriteFails
<1>3. CASE StartUpdater
  BY <1>3, DatesKept DEF StartUpdater
<1>4. CASE PollStep
  <2>1. CASE \/ FlagRestart \/ FlagRestartFails \/ NoAction \/ Update
             \/ UpdateFails \/ Restart \/ RestartFails
    <3>1. Started \/ Disturbed
      BY <2>1 DEF FlagRestart, FlagRestartFails, NoAction, Update,
                  UpdateFails, Restart, RestartFails, Disturbed
    <3>2. QED
      BY <3>1, DatesDisturbed
  <2>2. CASE \/ \E b \in BOOLEAN, a \in Actions : Receive(b, a)
             \/ ReadEnv \/ EnvUnreadable \/ StatEnv \/ WriteTimeout
             \/ UptimeUnknown \/ Decide \/ SameVersion \/ GuardPanics
             \/ \E w \in Writers : WriteEnv(w) \/ AckVersion(w)
    <3>1. /\ agent' = agent /\ envFile' = envFile
          /\ stat' \in {stat, Epoch, envFile.mtime}
      BY <2>2 DEF Receive, ReadEnv, EnvUnreadable, StatEnv, WriteTimeout,
                  UptimeUnknown, Decide, SameVersion, GuardPanics,
                  ProcessEnds, WriteEnv, AckVersion
    <3>2. QED
      BY <3>1, DatesKept
  <2>3. QED
    BY <1>4, <2>1, <2>2 DEF PollStep
<1>5. CASE Environment
  <2>1. CASE AgentStart \/ AgentStop
    BY <2>1, DatesDisturbed DEF AgentStart, AgentStop
  <2>2. CASE Reboot
    BY <2>2 DEF Reboot, DatesTrue
  <2>3. CASE Tick
    <3>1. envFile.mtime \in Stamps /\ stat \in Stamps
      BY DEF DatesInv, TypeOK
    <3>2. envFile'.mtime.lead = envFile.mtime.lead /\ stat'.lead = stat.lead
      BY <2>3, <3>1, StampTypes DEF Tick, DatesInv, TypeOK
    <3>3. agent'.up = agent.up /\ agent'.current = agent.current
      BY <2>3 DEF Tick, DatesInv, TypeOK, Agents
    <3>4. QED
      BY <3>2, <3>3 DEF DatesInv, DatesTrue
  <2>4. CASE \/ Crash \/ ServerBumpsVersion
             \/ \E d \in Disks : DiskBecomes(d)
             \/ \E f \in FlagSets : ServerSetsFlags(f)
    <3>1. agent' = agent /\ envFile' = envFile /\ stat' \in {stat, Epoch}
      BY <2>4 DEF Crash, ProcessEnds, ServerBumpsVersion, DiskBecomes,
                  ServerSetsFlags
    <3>2. QED
      BY <3>1, DatesKept
  <2>5. QED
    BY <1>5, <2>1, <2>2, <2>3, <2>4 DEF Environment
<1>6. CASE UNCHANGED vars
  BY <1>6, DatesKept DEF vars
<1>7. QED
  BY <1>1, <1>2, <1>3, <1>4, <1>5, <1>6 DEF Next, WriteStep

\* Only Decide leads from the uptime to a restart.
LEMMA DecisionIsDecide ==
  TypeOK /\ [Next]_vars /\ DecidesRestart => Decide
<1> SUFFICES ASSUME TypeOK, [Next]_vars, DecidesRestart PROVE Decide
  OBVIOUS
<1>1. pc = "uptime" /\ pc' = "restart"
  BY DEF DecidesRestart
<1>2. ASSUME NEW w \in Writers, NEW ok \in BOOLEAN, WriteReturns(w, ok)
      PROVE  FALSE
  BY <1>1, <1>2 DEF WriteReturns
<1>3. ~\E w \in Writers : WriteStep(w)
  BY <1>1, <1>2 DEF WriteStep, WriteTemp, Rename, WriteFails
<1>4. ~WriteTimeout
  BY <1>1, <1>2 DEF WriteTimeout, TypeOK
<1>5. ~Environment
  BY <1>1 DEF Environment, AgentStart, AgentStop, Crash, Reboot, ProcessEnds,
              Tick, DiskBecomes, ServerSetsFlags, ServerBumpsVersion
<1>6. PollStep => Decide
  BY <1>1, <1>4 DEF PollStep, Receive, ReadEnv, EnvUnreadable, StatEnv,
     WriteEnv, AckVersion, GuardPanics, ProcessEnds, UptimeUnknown,
     FlagRestart, FlagRestartFails, NoAction, Update, UpdateFails, Restart,
     RestartFails, ToVersion, SameVersion
<1>7. QED
  BY <1>1, <1>3, <1>5, <1>6 DEF Next, StartUpdater, vars

\* On a machine that booted long ago every decision to restart the agent for
\* its flags is due (application.go:217-247), whatever the minimal uptime, the
\* grace period and, up to it, the error of the uptime readings.
THEOREM SettledRestarts == Spec => SettledRestartIsDue
<1>1. Init => DatesInv
  BY InitType DEF DatesInv, DatesTrue, Init
<1>2. DatesInv /\ [Next]_vars
        => (DecidesRestart /\ sysAge = TopAge
              => /\ agent.up /\ ~agent.current
                 /\ agent.age + Slack >= MinUptime)
  <2> SUFFICES ASSUME DatesInv, [Next]_vars, DecidesRestart, sysAge = TopAge
               PROVE  /\ agent.up /\ ~agent.current
                      /\ agent.age + Slack >= MinUptime
    OBVIOUS
  <2>1. PICK known \in KnownOutcomes, e \in Reading, se \in Reading :
          RestartDue(e, FreshBoot(known, se))
    BY DecisionIsDecide DEF DatesInv, Decide, DecidesRestart
  <2>2. ~FreshBoot(known, se)
    BY DEF FreshBoot, Reading, TopAge
  <2>3. agent.up /\ stat.lead + e > Grace /\ agent.age + e >= MinUptime
    BY <2>1, <2>2 DEF RestartDue
  <2>4. stat.lead \in Int /\ agent.age \in Int /\ e \in Int /\ e <= Slack
    BY DEF DatesInv, TypeOK, Stamps, Leads, TopLead, Agents, TopAge, Reading
  <2>5. stat.lead > 0 /\ agent.age + Slack >= MinUptime
    BY <2>3, <2>4
  <2>6. QED
    BY <2>3, <2>5 DEF DatesInv, DatesTrue
<1>3. QED
  BY <1>1, <1>2, DatesInductive, PTL DEF Spec, SettledRestartIsDue

-----------------------------------------------------------------------------
(* The persisted config version *)

\* What a step must leave alone for the invariant to carry over: the kind and
\* the version of every write, and what the loop remembers of its own.
SameWrites == \A w \in Writers : /\ writes'[w].stage = writes[w].stage
                                 /\ writes'[w].file = writes[w].file
                                 /\ writes'[w].version = writes[w].version

LEMMA RedateSameWrites ==
  ASSUME TypeOK, Started \/ Stopped \/ Disturbed
  PROVE  SameWrites
<1>1. CASE Started \/ Stopped
  <2>1. writes' = [w \in Writers |-> [writes[w] EXCEPT !.mtime = Rebase(@)]]
    BY <1>1 DEF Started, Stopped, Redate
  <2>2. QED
    BY <2>1 DEF SameWrites, TypeOK, WriteOps
<1>2. CASE UNCHANGED agentVars
  BY <1>2 DEF agentVars, SameWrites
<1>3. QED
  BY <1>1, <1>2 DEF Disturbed

\* A step between labels at which no write is awaited.
LEMMA AckKept ==
  ASSUME AckInv, SameWrites, own' = own, seen' = seen,
         stateFile' = stateFile, trouble' = trouble,
         \/ pc' = pc
         \/ /\ pc \in PCs \ {"write", "persist", "down"}
            /\ pc' \in PCs \ {"write", "persist", "down"}
  PROVE  OwnTrue' /\ AckTrue'
<1> USE DEF AckInv, TypeOK, SameWrites, PCs
<1>1. OwnTrue'
  BY DEF OwnTrue
<1>2. AckTrue'
  BY DEF AckTrue
<1>3. QED
  BY <1>1, <1>2

\* A process that ends leaves no write behind, and one that is down expects
\* nothing.
LEMMA AckEnds ==
  ASSUME AckInv, ProcessEnds
  PROVE  OwnTrue' /\ AckTrue'
<1>1. pc' = "down" /\ own' = None /\ writes' = [w \in Writers |-> Free]
  BY DEF ProcessEnds
<1>2. QED
  BY <1>1 DEF OwnTrue, AckTrue, Free

\* A write begins: the loop waits for it, and it is the only one of its kind
\* if the file is the state file and nothing has failed.
LEMMA AckBegins ==
  ASSUME AckInv, NEW w \in Writers, WriteEnv(w) \/ AckVersion(w)
  PROVE  OwnTrue' /\ AckTrue'
<1> USE DEF AckInv, TypeOK
<1>1. CASE WriteEnv(w)
  <2>1. /\ pc = "read" /\ pc' = "write" /\ own' = w
        /\ writes' = [writes EXCEPT ![w] =
             [Free EXCEPT !.stage = "open", !.file = "env",
                          !.flags = resp.flags]]
        /\ UNCHANGED <<seen, stateFile, trouble>>
    BY <1>1 DEF WriteEnv, BeginWrite
  <2>2. writes'[w].stage = "open" /\ writes'[w].file = "env"
    BY <2>1 DEF Free
  <2>3. \A v \in Writers \ {w} : writes'[v] = writes[v]
    BY <2>1
  <2>4. own = None
    BY <2>1 DEF OwnTrue
  <2>5. OwnTrue'
    BY <2>1, <2>2, <2>3 DEF OwnTrue
  <2>6. AckTrue'
    BY <2>1, <2>2, <2>3, <2>4 DEF AckTrue
  <2>7. QED
    BY <2>5, <2>6
<1>2. CASE AckVersion(w)
  <2>1. /\ pc = "version" /\ pc' = "persist" /\ own' = w
        /\ writes' = [writes EXCEPT ![w] =
             [Free EXCEPT !.stage = "open", !.file = "state",
                          !.version = resp.version]]
        /\ seen' = resp.version
        /\ UNCHANGED <<stateFile, trouble>>
    BY <1>2 DEF AckVersion, BeginWrite
  <2>2. /\ writes'[w].stage = "open" /\ writes'[w].file = "state"
        /\ writes'[w].version = seen'
    BY <2>1 DEF Free
  <2>3. \A v \in Writers \ {w} : writes'[v] = writes[v]
    BY <2>1
  <2>4. own = None
    BY <2>1 DEF OwnTrue
  <2>5. OwnTrue'
    BY <2>1, <2>2, <2>3 DEF OwnTrue
  <2>6. AckTrue'
    BY <2>1, <2>2, <2>3, <2>4 DEF AckTrue
  <2>7. QED
    BY <2>5, <2>6
<1>3. QED
  BY <1>1, <1>2

\* A write ends, awaited or given up on.
LEMMA AckWriteEnds ==
  ASSUME AckInv, NEW w \in Writers, Rename(w) \/ WriteFails(w)
  PROVE  OwnTrue' /\ AckTrue'
<1> USE DEF AckInv, TypeOK
<1>1. /\ writes' = [writes EXCEPT ![w] = Free] /\ seen' = seen
      /\ WriteReturns(w, TRUE) \/ WriteReturns(w, FALSE)
      /\ writes[w].stage # "free"
  BY DEF Rename, WriteFails
<1>2. writes'[w].stage = "free" /\ \A v \in Writers \ {w} : writes'[v] = writes[v]
  BY <1>1 DEF Free
<1>3. stateFile' = IF Rename(w) /\ writes[w].file # "env"
                   THEN writes[w].version ELSE stateFile
  BY DEF Rename, WriteFails
<1>4. CASE own = w
  <2>1. own' = None /\ pc \in {"write", "persist"}
    BY <1>1, <1>4 DEF WriteReturns, OwnTrue
  <2>2. pc' \in {"idle", "stat", "action"}
    BY <1>1, <1>4 DEF WriteReturns
  <2>3. OwnTrue'
    BY <1>2, <2>1, <2>2 DEF OwnTrue
  <2>4. CASE pc = "write"
    <3>1. writes[w].file = "env" /\ stateFile' = stateFile
      BY <1>3, <1>4, <2>4 DEF OwnTrue
    <3>2. trouble' = trouble
      BY <1>1, <1>4, <2>4 DEF WriteReturns
    <3>3. AckTrue'
      BY <1>1, <1>2, <1>4, <2>2, <2>4, <3>1, <3>2 DEF AckTrue
    <3>4. QED
      BY <2>3, <3>3
  <2>5. CASE pc = "persist"
    <3>1. writes[w].file = "state"
      BY <1>4, <2>5 DEF OwnTrue
    <3>2. CASE WriteReturns(w, FALSE)
      BY <1>4, <2>3, <2>5, <3>2 DEF WriteReturns, AckTrue
    <3>3. CASE Rename(w)
      <4>1. trouble' = trouble /\ stateFile' = writes[w].version
        BY <1>3, <1>4, <2>5, <3>1, <3>3 DEF Rename, WriteReturns
      <4>2. ~trouble => stateFile' = seen
        BY <1>1, <2>5, <3>1, <4>1 DEF AckTrue
      <4>3. AckTrue'
        BY <1>1, <1>2, <1>4, <2>2, <2>5, <4>1, <4>2 DEF AckTrue
      <4>4. QED
        BY <2>3, <4>3
    <3>4. QED
      BY <3>2, <3>3 DEF WriteFails
  <2>6. QED
    BY <2>1, <2>4, <2>5
<1>5. CASE own # w
  <2>1. UNCHANGED <<own, pc, trouble>>
    BY <1>1, <1>5 DEF WriteReturns
  <2>2. pc # "down"
    BY <1>1 DEF OwnTrue
  <2>3. OwnTrue'
    BY <1>2, <1>5, <2>1, <2>2 DEF OwnTrue
  <2>4. ~trouble => writes[w].file # "state"
    BY <1>1, <1>5, <2>2 DEF AckTrue
  <2>5. ~trouble => stateFile' = stateFile
    BY <1>1, <1>3, <2>4 DEF WriteOps, OwnTrue
  <2>6. AckTrue'
    BY <1>1, <1>2, <2>1, <2>5 DEF AckTrue
  <2>7. QED
    BY <2>3, <2>6
<1>6. QED
  BY <1>4, <1>5

LEMMA AckTimesOut ==
  ASSUME AckInv, WriteTimeout
  PROVE  OwnTrue' /\ AckTrue'
<1> USE DEF AckInv, TypeOK
<1>1. /\ own \in Writers /\ own' = None /\ writes' = writes
      /\ pc \in {"write", "persist"} /\ UNCHANGED <<seen, stateFile>>
  BY DEF WriteTimeout, WriteReturns, OwnTrue
<1>2. pc' \in {"idle", "action"}
  BY <1>1 DEF WriteTimeout, WriteReturns
<1>3. OwnTrue'
  BY <1>1, <1>2 DEF OwnTrue
<1>4. CASE pc = "persist"
  <2>1. trouble'
    BY <1>1, <1>4 DEF WriteTimeout, WriteReturns
  <2>2. QED
    BY <1>3, <2>1 DEF AckTrue
<1>5. CASE pc = "write"
  <2>1. trouble' = trouble
    BY <1>1, <1>5 DEF WriteTimeout, WriteReturns
  <2>2. writes[own].file = "env"
    BY <1>1, <1>5 DEF OwnTrue
  <2>3. AckTrue'
    BY <1>1, <1>2, <1>5, <2>1, <2>2 DEF AckTrue
  <2>4. QED
    BY <1>3, <2>3
<1>6. QED
  BY <1>1, <1>4, <1>5

LEMMA AckInductive == AckInv /\ [Next]_vars => AckInv'
<1> SUFFICES ASSUME AckInv, [Next]_vars PROVE OwnTrue' /\ AckTrue'
  BY TypeInductive DEF AckInv
<1>1. ASSUME NEW w \in Writers, WriteTemp(w) PROVE OwnTrue' /\ AckTrue'
  <2> USE DEF AckInv, TypeOK
  <2>1. /\ UNCHANGED <<own, pc, seen, stateFile, trouble>>
        /\ writes[w].stage = "open" /\ writes'[w].stage = "written"
        /\ writes'[w].file = writes[w].file
        /\ writes'[w].version = writes[w].version
    <3>1. writes[w] \in WriteOps
      OBVIOUS
    <3>2. QED
      BY <1>1, <3>1 DEF WriteTemp, WriteOps
  <2>2. \A v \in Writers \ {w} : writes'[v] = writes[v]
    BY <1>1 DEF WriteTemp
  <2>3. OwnTrue'
    BY <2>1, <2>2 DEF OwnTrue
  <2>4. AckTrue'
    BY <2>1, <2>2 DEF AckTrue
  <2>5. QED
    BY <2>3, <2>4
<1>2. ASSUME NEW w \in Writers, Rename(w) \/ WriteFails(w)
      PROVE  OwnTrue' /\ AckTrue'
  BY <1>2, AckWriteEnds
<1>3. CASE StartUpdater
  <2>1. /\ pc = "down" /\ pc' = "idle" /\ UNCHANGED <<own, writes, stateFile>>
        /\ trouble' = (disk # "ok" /\ stateFile > 0)
        /\ seen' = IF disk = "ok" THEN stateFile ELSE 0
    BY <1>3 DEF StartUpdater
  <2>2. stateFile \in Nat
    BY DEF AckInv, TypeOK, Versions
  <2>3. ~trouble' => disk = "ok" \/ ~(stateFile > 0)
    BY <2>1, Zenon
  <2>4. ~trouble' => seen' = stateFile
    BY <2>1, <2>2, <2>3
  <2>5. own' = None /\ \A w \in Writers : writes'[w].stage = "free"
    BY <2>1 DEF AckInv, OwnTrue
  <2>6. QED
    BY <2>1, <2>4, <2>5 DEF OwnTrue, AckTrue
<1>4. CASE PollStep
  <2>1. CASE WriteTimeout
    BY <2>1, AckTimesOut
  <2>2. CASE \E w \in Writers : WriteEnv(w) \/ AckVersion(w)
    BY <2>2, AckBegins
  <2>3. CASE GuardPanics
    BY <2>3, AckEnds DEF GuardPanics
  <2>4. CASE \/ FlagRestart \/ FlagRestartFails \/ NoAction \/ Update
             \/ UpdateFails \/ Restart \/ RestartFails
    <3>1. Started \/ Disturbed
      BY <2>4 DEF FlagRestart, FlagRestartFails, NoAction, Update,
                  UpdateFails, Restart, RestartFails, Disturbed
    <3>2. /\ UNCHANGED <<own, seen, stateFile, trouble>>
          /\ pc \in {"restart", "action"} /\ pc' \in {"action", "version"}
      BY <2>4 DEF FlagRestart, FlagRestartFails, NoAction, Update,
                  UpdateFails, Restart, RestartFails, ToVersion
    <3>3. SameWrites
      BY <3>1, RedateSameWrites DEF AckInv
    <3>4. QED
      BY <3>2, <3>3, AckKept DEF PCs
  <2>5. CASE \/ \E b \in BOOLEAN, a \in Actions : Receive(b, a)
             \/ ReadEnv \/ EnvUnreadable \/ StatEnv \/ UptimeUnknown
             \/ Decide \/ SameVersion
    <3>1. /\ UNCHANGED <<own, seen, stateFile, trouble, writes>>
          /\ pc \in PCs \ {"write", "persist", "down"}
          /\ pc' \in PCs \ {"write", "persist", "down"}
      BY <2>5 DEF Receive, ReadEnv, EnvUnreadable, StatEnv, UptimeUnknown,
                  Decide, SameVersion, PCs
    <3>2. QED
      BY <3>1, AckKept DEF SameWrites
  <2>6. QED
    BY <1>4, <2>1, <2>2, <2>3, <2>4, <2>5 DEF PollStep
<1>5. CASE Environment
  <2>1. CASE AgentStart \/ AgentStop
    <3>1. SameWrites
      BY <2>1, RedateSameWrites DEF AgentStart, AgentStop, AckInv
    <3>2. QED
      BY <2>1, <3>1, AckKept DEF AgentStart, AgentStop
  <2>2. CASE Crash \/ Reboot
    BY <2>2, AckEnds DEF Crash, Reboot
  <2>3. CASE Tick
    <3>1. SameWrites
      BY <2>3 DEF Tick, SameWrites, AckInv, TypeOK, WriteOps
    <3>2. QED
      BY <2>3, <3>1, AckKept DEF Tick
  <2>4. CASE \/ ServerBumpsVersion \/ \E d \in Disks : DiskBecomes(d)
             \/ \E f \in FlagSets : ServerSetsFlags(f)
    <3>1. UNCHANGED <<own, seen, stateFile, trouble, writes, pc>>
      BY <2>4 DEF ServerBumpsVersion, DiskBecomes, ServerSetsFlags
    <3>2. QED
      BY <3>1, AckKept DEF SameWrites
  <2>5. QED
    BY <1>5, <2>1, <2>2, <2>3, <2>4 DEF Environment
<1>6. CASE UNCHANGED vars
  BY <1>6, AckKept DEF SameWrites, vars
<1>7. QED
  BY <1>1, <1>2, <1>3, <1>4, <1>5, <1>6 DEF Next, WriteStep

\* Whatever crashes, late writes and new versions there were, a process that
\* never failed to load or save the version agrees with the file between its
\* polls (o11y-agent.go:43-57, 113-118).
THEOREM AckPersists == Spec => []AckSurvivesRestart
<1>1. Init => AckInv
  <2>1. Init => OwnTrue /\ AckTrue
    BY DEF Init, OwnTrue, AckTrue, Free
  <2>2. QED
    BY <2>1, InitType DEF AckInv
<1>2. AckInv => AckSurvivesRestart
  BY DEF AckInv, AckTrue, AckSurvivesRestart
<1>3. QED
  BY <1>1, <1>2, AckInductive, PTL DEF Spec

-----------------------------------------------------------------------------
(***************************************************************************)
(* The header-only file.  A poll writes one only where it found a file,    *)
(* and a file that is there stays there; so while there is none, no write  *)
(* in flight, however late it lands, holds no flags.                       *)
(***************************************************************************)
Bare(w) == writes[w].stage # "free" /\ writes[w].file = "env"
             /\ writes[w].flags = NoFlags

BareHasFile == \A w \in Writers : Bare(w) => envFile.flags # Absent

BareInv == TypeOK /\ BareHasFile

\* A step that begins no write of no flags and removes no file.
LEMMA BareKept ==
  ASSUME BareInv,
         \A w \in Writers : Bare(w)' => Bare(w),
         envFile.flags # Absent => envFile'.flags # Absent
  PROVE  BareHasFile'
BY DEF BareInv, BareHasFile

\* Dating the files afresh begins no write.
LEMMA RedateKeepsBare ==
  ASSUME TypeOK, Started \/ Stopped \/ Disturbed
  PROVE  /\ \A w \in Writers : Bare(w)' => Bare(w)
         /\ envFile'.flags = envFile.flags
<1>1. CASE Started \/ Stopped
  <2>1. /\ writes' = [w \in Writers |-> [writes[w] EXCEPT !.mtime = Rebase(@)]]
        /\ envFile' = [envFile EXCEPT !.mtime = Rebase(@)]
    BY <1>1 DEF Started, Stopped, Redate
  <2>2. QED
    BY <2>1 DEF Bare, TypeOK, WriteOps
<1>2. CASE UNCHANGED agentVars
  BY <1>2 DEF agentVars, Bare
<1>3. QED
  BY <1>1, <1>2 DEF Disturbed

\* No step of a write's goroutine changes what it holds.
LEMMA BareWriteStep ==
  ASSUME BareInv, NEW w \in Writers, WriteStep(w)
  PROVE  BareHasFile'
<1> USE DEF BareInv, TypeOK
<1>1. CASE WriteTemp(w)
  <2>1. writes[w] \in WriteOps /\ writes[w].stage = "open"
    BY <1>1 DEF WriteTemp
  <2>2. /\ writes'[w].file = writes[w].file
        /\ writes'[w].flags = writes[w].flags
        /\ \A v \in Writers \ {w} : writes'[v] = writes[v]
        /\ envFile' = envFile
    BY <1>1, <2>1 DEF WriteTemp, WriteOps
  <2>3. QED
    BY <2>1, <2>2, BareKept DEF Bare
<1>2. CASE Rename(w) \/ WriteFails(w)
  <2>1. writes' = [writes EXCEPT ![w] = Free]
    BY <1>2 DEF Rename, WriteFails
  <2>2. \A v \in Writers : Bare(v)' => Bare(v)
    BY <2>1 DEF Bare, Free
  <2>3. envFile.flags # Absent => envFile'.flags # Absent
    <3>1. writes[w].flags \in FlagSets
      BY DEF WriteOps
    <3>2. CASE Rename(w)
      BY <3>1, <3>2 DEF Rename
    <3>3. CASE WriteFails(w)
      BY <3>3 DEF WriteFails
    <3>4. QED
      BY <1>2, <3>2, <3>3
  <2>4. QED
    BY <2>2, <2>3, BareKept
<1>3. QED
  BY <1>1, <1>2 DEF WriteStep

\* A poll writes the file only if it differs: no flags only over a file.
LEMMA BareBegins ==
  ASSUME BareInv, NEW w \in Writers, WriteEnv(w) \/ AckVersion(w)
  PROVE  BareHasFile'
<1> USE DEF BareInv, TypeOK
<1>1. /\ envFile' = envFile
      /\ \A v \in Writers \ {w} : writes'[v] = writes[v]
  BY DEF WriteEnv, AckVersion, BeginWrite
<1>2. CASE WriteEnv(w)
  <2>1. writes'[w].flags = resp.flags /\ Differs
    BY <1>2 DEF WriteEnv, BeginWrite, Free
  <2>2. resp.flags = NoFlags => envFile.flags # Absent
    BY <2>1 DEF Differs, Effective
  <2>3. QED
    BY <1>1, <2>1, <2>2 DEF BareHasFile, Bare
<1>3. CASE AckVersion(w)
  <2>1. writes'[w].file = "state"
    BY <1>3 DEF AckVersion, BeginWrite, Free
  <2>2. QED
    BY <1>1, <2>1 DEF BareHasFile, Bare
<1>4. QED
  BY <1>2, <1>3

\* A process that ends takes its writes with it.
LEMMA BareEnds ==
  ASSUME BareInv, ProcessEnds
  PROVE  BareHasFile'
BY DEF ProcessEnds, BareHasFile, Bare, Free

LEMMA BareInductive == BareInv /\ [Next]_vars => BareInv'
<1> SUFFICES ASSUME BareInv, [Next]_vars PROVE BareHasFile'
  BY TypeInductive DEF BareInv
<1>1. CASE StartUpdater
  BY <1>1, BareKept DEF StartUpdater, Bare
<1>2. CASE PollStep
  <2>1. CASE \E w \in Writers : WriteEnv(w) \/ AckVersion(w)
    BY <2>1, BareBegins
  <2>2. CASE GuardPanics
    BY <2>2, BareEnds DEF GuardPanics
  <2>3. CASE \/ FlagRestart \/ FlagRestartFails \/ NoAction \/ Update
             \/ UpdateFails \/ Restart \/ RestartFails
    <3>1. Started \/ Disturbed
      BY <2>3 DEF FlagRestart, FlagRestartFails, NoAction, Update,
                  UpdateFails, Restart, RestartFails, Disturbed
    <3>2. QED
      BY <3>1, RedateKeepsBare, BareKept DEF BareInv
  <2>4. CASE \/ \E b \in BOOLEAN, a \in Actions : Receive(b, a)
             \/ ReadEnv \/ EnvUnreadable \/ StatEnv \/ UptimeUnknown
             \/ Decide \/ SameVersion \/ WriteTimeout
    <3>1. writes' = writes /\ envFile' = envFile
      BY <2>4 DEF Receive, ReadEnv, EnvUnreadable, StatEnv, UptimeUnknown,
                  Decide, SameVersion, WriteTimeout
    <3>2. QED
      BY <3>1, BareKept DEF Bare
  <2>5. QED
    BY <1>2, <2>1, <2>2, <2>3, <2>4 DEF PollStep
<1>3. CASE Environment
  <2>1. CASE AgentStart \/ AgentStop
    BY <2>1, RedateKeepsBare, BareKept DEF AgentStart, AgentStop, BareInv
  <2>2. CASE Crash \/ Reboot
    BY <2>2, BareEnds DEF Crash, Reboot
  <2>3. CASE Tick
    <3>1. \A w \in Writers : Bare(w)' => Bare(w)
      BY <2>3 DEF Tick, Bare, BareInv, TypeOK, WriteOps
    <3>2. envFile'.flags = envFile.flags
      BY <2>3 DEF Tick, BareInv, TypeOK
    <3>3. QED
      BY <3>1, <3>2, BareKept
  <2>4. CASE \/ ServerBumpsVersion \/ \E d \in Disks : DiskBecomes(d)
             \/ \E f \in FlagSets : ServerSetsFlags(f)
    <3>1. writes' = writes /\ envFile' = envFile
      BY <2>4 DEF ServerBumpsVersion, DiskBecomes, ServerSetsFlags
    <3>2. QED
      BY <3>1, BareKept DEF Bare
  <2>5. QED
    BY <1>3, <2>1, <2>2, <2>3, <2>4 DEF Environment
<1>4. CASE \E w \in Writers : WriteStep(w)
  BY <1>4, BareWriteStep
<1>5. CASE UNCHANGED vars
  BY <1>5, BareKept DEF vars, Bare
<1>6. QED
  BY <1>1, <1>2, <1>3, <1>4, <1>5 DEF Next

\* Only the rename of a write of no flags leads to a file of no flags.
LEMMA BareFileIsRename ==
  ASSUME BareInv, [Next]_vars, envFile.flags = Absent
  PROVE  envFile'.flags # NoFlags
<1>1. SUFFICES ASSUME envFile'.flags # envFile.flags PROVE envFile'.flags # NoFlags
  BY FlagsAssumption
<1>2. ~UNCHANGED vars /\ ~StartUpdater
  BY <1>1 DEF vars, StartUpdater
<1>3. ~PollStep
  <2>1. ~(Started \/ Stopped \/ Disturbed)
    BY <1>1, RedateKeepsBare DEF BareInv
  <2>2. QED
    BY <1>1, <2>1 DEF PollStep, Receive, ReadEnv, EnvUnreadable, StatEnv,
       WriteEnv, AckVersion, GuardPanics, ProcessEnds, UptimeUnknown, Decide,
       WriteTimeout, FlagRestart, FlagRestartFails, NoAction, Update,
       UpdateFails, Restart, RestartFails, Disturbed, ToVersion, SameVersion
<1>4. ~Environment
  <2>1. ~(Started \/ Stopped \/ Disturbed)
    BY <1>1, RedateKeepsBare DEF BareInv
  <2>2. ~Tick /\ ~Reboot
    BY <1>1 DEF Tick, Reboot, BareInv, TypeOK
  <2>3. QED
    BY <1>1, <2>1, <2>2 DEF Environment, AgentStart, AgentStop, Crash,
       ProcessEnds, DiskBecomes, ServerSetsFlags, ServerBumpsVersion
<1>5. PICK w \in Writers : WriteStep(w)
  BY <1>2, <1>3, <1>4 DEF Next
<1>6. /\ writes[w].stage # "free" /\ writes[w].file = "env"
      /\ envFile'.flags = writes[w].flags
  <2>1. Rename(w)
    <3>1. ~WriteTemp(w) /\ ~WriteFails(w)
      BY <1>1 DEF WriteTemp, WriteFails
    <3>2. QED
      BY <1>5, <3>1 DEF WriteStep
  <2>2. writes[w].stage = "written"
    BY <2>1 DEF Rename
  <2>3. writes[w].file = "env"
    BY <1>1, <2>1 DEF Rename
  <2>4. envFile' = [flags |-> writes[w].flags, mtime |-> writes[w].mtime]
    BY <2>1, <2>3 DEF Rename
  <2>5. QED
    BY <2>2, <2>3, <2>4
<1>7. QED
  BY <1>6 DEF BareInv, BareHasFile, Bare

\* Polls, crashes and writes that land late create no header-only file where
\* there was none, however many writes are in flight (application.go:203-207).
THEOREM NoBareFile == Spec => NoHeaderOnlyFile
<1>1. Init => BareInv
  BY InitType DEF BareInv, BareHasFile, Bare, Init, Free
<1>2. BareInv /\ [Next]_vars
        => (envFile.flags = Absent => envFile'.flags # NoFlags)
  BY BareFileIsRename
<1>3. QED
  BY <1>1, <1>2, BareInductive, PTL DEF Spec, NoHeaderOnlyFile

-----------------------------------------------------------------------------
(***************************************************************************)
(* What a step does to the two files and to the writes under way: it       *)
(* leaves them alone, ends the process, begins a write, or ends one.       *)
(***************************************************************************)
SameFiles == envFile'.flags = envFile.flags /\ stateFile' = stateFile

SameHeld == \A w \in Writers :
              /\ writes'[w].stage = "free" <=> writes[w].stage = "free"
              /\ writes'[w].file = writes[w].file
              /\ writes'[w].flags = writes[w].flags
              /\ writes'[w].version = writes[w].version

\* Dating the files afresh changes nothing that they hold.
LEMMA RedateKeepsContents ==
  ASSUME TypeOK, Started \/ Stopped \/ Disturbed
  PROVE  SameHeld /\ envFile'.flags = envFile.flags
<1>1. CASE Started \/ Stopped
  <2>1. /\ writes' = [w \in Writers |-> [writes[w] EXCEPT !.mtime = Rebase(@)]]
        /\ envFile' = [envFile EXCEPT !.mtime = Rebase(@)]
    BY <1>1 DEF Started, Stopped, Redate
  <2> QED  BY <2>1 DEF SameHeld, TypeOK, WriteOps
<1>2. CASE UNCHANGED agentVars
  BY <1>2 DEF agentVars, SameHeld
<1> QED  BY <1>1, <1>2 DEF Disturbed

\* The steps of the loop and of the rest of the world, writes left aside.
LEMMA OtherSteps ==
  ASSUME TypeOK, [Next]_vars,
         ~\E w \in Writers : \/ WriteEnv(w) \/ AckVersion(w)
                             \/ Rename(w) \/ WriteFails(w)
  PROVE  SameFiles /\ (SameHeld \/ ProcessEnds)
<1>1. CASE \E w \in Writers : WriteTemp(w)
  <2>1. PICK w \in Writers : WriteTemp(w)
    BY <1>1
  <2>2. writes[w] \in WriteOps /\ writes[w].stage = "open"
    BY <2>1 DEF WriteTemp, TypeOK
  <2>3. /\ writes'[w].file = writes[w].file /\ writes'[w].stage = "written"
        /\ writes'[w].flags = writes[w].flags
        /\ writes'[w].version = writes[w].version
        /\ \A v \in Writers \ {w} : writes'[v] = writes[v]
        /\ UNCHANGED <<envFile, stateFile>>
    BY <2>1, <2>2 DEF WriteTemp, WriteOps, TypeOK
  <2> QED  BY <2>2, <2>3 DEF SameHeld, SameFiles
<1>2. CASE \/ FlagRestart \/ FlagRestartFails \/ NoAction \/ Update
           \/ UpdateFails \/ Restart \/ RestartFails \/ AgentStart \/ AgentStop
  <2>1. /\ Started \/ Stopped \/ Disturbed
        /\ stateFile' = stateFile
    BY <1>2 DEF FlagRestart, FlagRestartFails, NoAction, Update, UpdateFails,
                Restart, RestartFails, Disturbed, ToVersion, AgentStart, AgentStop
  <2> QED  BY <2>1, RedateKeepsContents DEF SameFiles
<1>3. CASE \/ \E b \in BOOLEAN, a \in Actions : Receive(b, a)
           \/ ReadEnv \/ EnvUnreadable \/ StatEnv \/ UptimeUnknown
           \/ Decide \/ SameVersion \/ WriteTimeout \/ StartUpdater
           \/ ServerBumpsVersion \/ UNCHANGED vars
           \/ \E d \in Disks : DiskBecomes(d)
           \/ \E f \in FlagSets : ServerSetsFlags(f)
  <2>1. UNCHANGED <<writes, envFile, stateFile>>
    BY <1>3 DEF Receive, ReadEnv, EnvUnreadable, StatEnv, UptimeUnknown, Decide,
                SameVersion, WriteTimeout, StartUpdater, ServerBumpsVersion,
                DiskBecomes, ServerSetsFlags, vars
  <2> QED  BY <2>1 DEF SameHeld, SameFiles
<1>4. CASE Tick
  <2>1. SameHeld
    BY <1>4 DEF Tick, SameHeld, TypeOK, WriteOps
  <2> QED  BY <1>4, <2>1 DEF Tick, SameFiles, TypeOK
<1>5. CASE GuardPanics \/ Crash
  BY <1>5 DEF GuardPanics, Crash, SameFiles
<1>6. CASE Reboot
  BY <1>6 DEF Reboot, SameFiles, TypeOK
<1> QED  BY <1>1, <1>2, <1>3, <1>4, <1>5, <1>6 DEF Next, PollStep, Environment,
            WriteStep

\* The ends of a write: its slot is free, and its file may be installed.
LEMMA EndedWrite ==
  ASSUME TypeOK, NEW w \in Writers, Rename(w) \/ WriteFails(w)
  PROVE  /\ writes' = [writes EXCEPT ![w] = Free]
         /\ writes[w].stage # "free"
         /\ \/ SameFiles
            \/ /\ writes[w].file = "env" /\ stateFile' = stateFile
               /\ envFile'.flags = writes[w].flags
            \/ /\ writes[w].file # "env" /\ envFile' = envFile
               /\ stateFile' = writes[w].version
<1>1. CASE WriteFails(w)
  BY <1>1 DEF WriteFails, SameFiles
<1>2. CASE Rename(w)
  <2>1. writes' = [writes EXCEPT ![w] = Free] /\ writes[w].stage # "free"
    BY <1>2 DEF Rename
  <2>2. CASE writes[w].file = "env"
    <3>1. /\ envFile' = [flags |-> writes[w].flags, mtime |-> writes[w].mtime]
          /\ stateFile' = stateFile
      BY <1>2, <2>2 DEF Rename
    <3> QED  BY <2>1, <2>2, <3>1
  <2>3. CASE writes[w].file # "env"
    BY <1>2, <2>1, <2>3 DEF Rename
  <2> QED  BY <2>2, <2>3
<1> QED  BY <1>1, <1>2

-----------------------------------------------------------------------------
(* Delivered flags *)

\* The loop reads the file with the response it had, or with a new one.
LEMMA ReadHasResponse ==
  ASSUME TypeOK, [Next]_vars, pc' = "read"
  PROVE  (pc = "read" /\ resp' = resp) \/ resp'.flags = server.flags
<1>1. CASE \E w \in Writers : WriteStep(w)
  BY <1>1 DEF WriteStep, WriteTemp, Rename, WriteFails, WriteReturns
<1>2. CASE StartUpdater \/ UNCHANGED vars
  BY <1>2 DEF StartUpdater, vars
<1>3. CASE Environment
  BY <1>3 DEF Environment, AgentStart, AgentStop, Crash, Reboot, Tick, ProcessEnds,
     DiskBecomes, ServerSetsFlags, ServerBumpsVersion
<1>4. CASE PollStep
  <2>1. CASE \E b \in BOOLEAN, a \in Actions : Receive(b, a)
    BY <2>1 DEF Receive
  <2>2. CASE ~\E b \in BOOLEAN, a \in Actions : Receive(b, a)
    BY <1>4, <2>2 DEF PollStep, ReadEnv, EnvUnreadable, StatEnv, WriteEnv,
       AckVersion, BeginWrite, GuardPanics, ProcessEnds, WriteTimeout, WriteReturns,
       UptimeUnknown, Decide, FlagRestart, FlagRestartFails, NoAction, Update,
       UpdateFails, Restart, RestartFails, ToVersion, SameVersion
  <2> QED  BY <2>1, <2>2
<1> QED  BY <1>1, <1>2, <1>3, <1>4 DEF Next

\* No step takes delivered flags back while the backend keeps them.
LEMMA DeliveredStays ==
  ASSUME TypeOK, [Next]_vars, NEW f \in FlagSets, Delivered(f), server'.flags = f
  PROVE  Delivered(f)'
<1>1. pc' = "read" => resp'.flags = f
  BY ReadHasResponse DEF Delivered
<1>2. SUFFICES /\ Effective(envFile'.flags) = f
               /\ \A w \in Writers : writes'[w].file = "env" => writes'[w].flags = f
  BY <1>1 DEF Delivered
<1>3. CASE ~\E w \in Writers : \/ WriteEnv(w) \/ AckVersion(w)
                               \/ Rename(w) \/ WriteFails(w)
  <2>1. SameFiles /\ (SameHeld \/ ProcessEnds)
    BY <1>3, OtherSteps
  <2>2. CASE SameHeld
    BY <2>1, <2>2 DEF SameFiles, SameHeld, Delivered
  <2>3. CASE ProcessEnds
    BY <2>1, <2>3 DEF SameFiles, ProcessEnds, Free, Delivered
  <2> QED  BY <2>1, <2>2, <2>3
<1>4. ASSUME NEW w \in Writers, WriteEnv(w) PROVE FALSE
  BY <1>4 DEF WriteEnv, Delivered, Differs
<1>5. ASSUME NEW w \in Writers, AckVersion(w)
      PROVE  /\ Effective(envFile'.flags) = f
             /\ \A v \in Writers : writes'[v].file = "env" => writes'[v].flags = f
  <2>1. /\ envFile' = envFile /\ writes'[w].file = "state"
        /\ \A v \in Writers \ {w} : writes'[v] = writes[v]
    BY <1>5 DEF AckVersion, BeginWrite, Free, TypeOK
  <2> QED  BY <2>1 DEF Delivered
<1>6. ASSUME NEW w \in Writers, Rename(w) \/ WriteFails(w)
      PROVE  /\ Effective(envFile'.flags) = f
             /\ \A v \in Writers : writes'[v].file = "env" => writes'[v].flags = f
  <2>1. Effective(envFile'.flags) = f
    BY <1>6, EndedWrite DEF SameFiles, Delivered, Effective
  <2>2. /\ writes'[w].file = "none"
        /\ \A v \in Writers \ {w} : writes'[v] = writes[v]
    BY <1>6, EndedWrite DEF Free, TypeOK
  <2> QED  BY <2>1, <2>2 DEF Delivered
<1> QED  BY <1>3, <1>4, <1>5, <1>6

\* Flags once delivered stay so until the backend changes them, for any number of
\* writes in flight, flag sets and crashes (application.go:184-215).
THEOREM FlagsStayDelivered == Spec => DeliveryIsFinal
<1>1. TypeOK /\ [Next]_vars
        => \A f \in FlagSets : Delivered(f) /\ server'.flags = f => Delivered(f)'
  BY DeliveredStays
<1> QED  BY <1>1, TypeCorrect, PTL DEF Spec, DeliveryIsFinal

-----------------------------------------------------------------------------
(***************************************************************************)
(* The two files as registers.  A slot that is free holds nothing, and no  *)
(* version that is written is that of a missing file.                      *)
(***************************************************************************)
SlotsTrue == \A w \in Writers :
               /\ writes[w].stage = "free" <=> writes[w].file = "none"
               /\ writes[w].file = "state" => writes[w].version # 0

SlotsInv == TypeOK /\ SlotsTrue

LEMMA SlotsInductive == SlotsInv /\ [Next]_vars => SlotsInv'
<1> SUFFICES ASSUME SlotsInv, [Next]_vars PROVE SlotsTrue'
  BY TypeInductive DEF SlotsInv
<1> USE DEF SlotsInv
<1>1. CASE ~\E w \in Writers : \/ WriteEnv(w) \/ AckVersion(w)
                               \/ Rename(w) \/ WriteFails(w)
  <2>1. SameHeld \/ ProcessEnds
    BY <1>1, OtherSteps
  <2>2. CASE SameHeld
    BY <2>2 DEF SameHeld, SlotsTrue
  <2>3. CASE ProcessEnds
    BY <2>3 DEF ProcessEnds, Free, SlotsTrue
  <2> QED  BY <2>1, <2>2, <2>3
<1>2. ASSUME NEW w \in Writers, WriteEnv(w) \/ AckVersion(w) PROVE SlotsTrue'
  <2>1. /\ writes'[w].stage = "open" /\ writes'[w].file \in {"env", "state"}
        /\ writes'[w].file = "state" => writes'[w].version # 0
        /\ \A v \in Writers \ {w} : writes'[v] = writes[v]
    <3>1. CASE WriteEnv(w)
      BY <3>1 DEF WriteEnv, BeginWrite, Free, TypeOK
    <3>2. CASE AckVersion(w)
      <4>1. resp.version # 0
        BY <3>2 DEF AckVersion, NewVersion, TypeOK, Versions, Responses
      <4> QED  BY <3>2, <4>1 DEF AckVersion, BeginWrite, Free, TypeOK
    <3> QED  BY <1>2, <3>1, <3>2
  <2> QED  BY <2>1 DEF SlotsTrue
<1>3. ASSUME NEW w \in Writers, Rename(w) \/ WriteFails(w) PROVE SlotsTrue'
  <2>1. /\ writes'[w].stage = "free" /\ writes'[w].file = "none"
        /\ \A v \in Writers \ {w} : writes'[v] = writes[v]
    BY <1>3, EndedWrite DEF Free, TypeOK
  <2> QED  BY <2>1 DEF SlotsTrue
<1> QED  BY <1>1, <1>2, <1>3

LEMMA SlotsHold == Spec => []SlotsInv
<1>1. Init => SlotsInv
  BY InitType DEF SlotsInv, SlotsTrue, Init, Free
<1> QED  BY <1>1, SlotsInductive, PTL DEF Spec

\* A step that changes neither files nor writes is a stutter of both registers.
LEMMA QuietMaps ==
  ASSUME SameFiles, SameHeld
  PROVE  UNCHANGED EnvRegister!vars /\ UNCHANGED VersionRegister!vars
<1>1. EnvWrites' = EnvWrites /\ VersionWrites' = VersionWrites
  BY DEF SameHeld, EnvWrites, VersionWrites
<1> QED  BY <1>1 DEF SameFiles, EnvRegister!vars, VersionRegister!vars

\* The end of the process drops the writes of both.
LEMMA ProcessEndMaps ==
  ASSUME SameFiles, ProcessEnds
  PROVE  EnvRegister!Crash /\ VersionRegister!Crash
<1>1. EnvWrites' = EnvRegister!Nobody /\ VersionWrites' = VersionRegister!Nobody
  BY DEF ProcessEnds, Free, EnvWrites, VersionWrites, EnvRegister!Nobody,
         VersionRegister!Nobody
<1> QED  BY <1>1 DEF SameFiles, EnvRegister!Crash, VersionRegister!Crash

\* A write that begins is one of the register whose file it writes.
LEMMA BeginMaps ==
  ASSUME SlotsInv, NEW w \in Writers, WriteEnv(w) \/ AckVersion(w)
  PROVE  /\ EnvRegister!Next \/ UNCHANGED EnvRegister!vars
         /\ VersionRegister!Next \/ UNCHANGED VersionRegister!vars
<1> USE DEF SlotsInv, TypeOK
<1>1. /\ writes[w].file = "none" /\ envFile' = envFile /\ stateFile' = stateFile
      /\ \A v \in Writers \ {w} : writes'[v] = writes[v]
  BY DEF WriteEnv, AckVersion, BeginWrite, FreeSlots, SlotsTrue
<1>2. EnvWrites[w] = Absent /\ VersionWrites[w] = 0
  BY <1>1 DEF EnvWrites, VersionWrites
<1>3. CASE WriteEnv(w)
  <2>1. writes'[w].file = "env" /\ writes'[w].flags = resp.flags
    BY <1>3 DEF WriteEnv, BeginWrite, Free
  <2>2. EnvWrites' = [EnvWrites EXCEPT ![w] = resp.flags]
    BY <1>1, <2>1 DEF EnvWrites
  <2>3. VersionWrites' = VersionWrites
    BY <1>1, <2>1 DEF VersionWrites
  <2>4. resp.flags \in FlagSets
    BY DEF Responses
  <2>5. EnvRegister!Begin(w, resp.flags)
    BY <1>1, <1>2, <2>2 DEF EnvRegister!Begin
  <2>6. EnvRegister!Next
    BY <2>4, <2>5 DEF EnvRegister!Next
  <2> QED  BY <1>1, <2>3, <2>6 DEF VersionRegister!vars
<1>4. CASE AckVersion(w)
  <2>1. writes'[w].file = "state" /\ writes'[w].version = resp.version
    BY <1>4 DEF AckVersion, BeginWrite, Free
  <2>2. VersionWrites' = [VersionWrites EXCEPT ![w] = resp.version]
    BY <1>1, <2>1 DEF VersionWrites
  <2>3. EnvWrites' = EnvWrites
    BY <1>1, <2>1 DEF EnvWrites
  <2>4. resp.version \in Versions
    BY DEF Responses
  <2>5. VersionRegister!Begin(w, resp.version)
    BY <1>1, <1>2, <2>2 DEF VersionRegister!Begin
  <2>6. VersionRegister!Next
    BY <2>4, <2>5 DEF VersionRegister!Next
  <2> QED  BY <1>1, <2>3, <2>6 DEF EnvRegister!vars
<1> QED  BY <1>3, <1>4

\* A write that ends is published or aborted, awaited or not.
LEMMA EndMaps ==
  ASSUME SlotsInv, NEW w \in Writers, Rename(w) \/ WriteFails(w)
  PROVE  /\ EnvRegister!Next \/ UNCHANGED EnvRegister!vars
         /\ VersionRegister!Next \/ UNCHANGED VersionRegister!vars
<1> USE DEF SlotsInv, TypeOK
<1>1. /\ writes[w] \in WriteOps /\ writes[w].file \in {"env", "state"}
      /\ writes'[w].file = "none"
      /\ \A v \in Writers \ {w} : writes'[v] = writes[v]
  BY EndedWrite DEF SlotsTrue, WriteOps, Free
<1>2. CASE writes[w].file = "env"
  <2>1. /\ EnvWrites[w] = writes[w].flags /\ EnvWrites[w] # Absent
        /\ EnvWrites' = [EnvWrites EXCEPT ![w] = Absent]
        /\ VersionWrites' = VersionWrites
    <3>1. EnvWrites[w] = writes[w].flags
      BY <1>2 DEF EnvWrites
    <3>2. writes[w].flags # Absent
      BY <1>1 DEF WriteOps
    <3>3. EnvWrites' = [EnvWrites EXCEPT ![w] = Absent]
      BY <1>1 DEF EnvWrites
    <3>4. VersionWrites' = VersionWrites
      BY <1>1, <1>2 DEF VersionWrites
    <3> QED  BY <3>1, <3>2, <3>3, <3>4
  <2>2. /\ stateFile' = stateFile
        /\ envFile'.flags \in {envFile.flags, writes[w].flags}
    BY <1>2, EndedWrite DEF SameFiles
  <2>3. EnvRegister!Publish(w) \/ EnvRegister!Abort(w)
    BY <2>1, <2>2 DEF EnvRegister!Publish, EnvRegister!Abort
  <2> QED  BY <2>1, <2>2, <2>3 DEF EnvRegister!Next, VersionRegister!vars
<1>3. CASE writes[w].file = "state"
  <2>1. /\ VersionWrites[w] = writes[w].version /\ VersionWrites[w] # 0
        /\ VersionWrites' = [VersionWrites EXCEPT ![w] = 0]
        /\ EnvWrites' = EnvWrites
    <3>1. VersionWrites[w] = writes[w].version /\ writes[w].version # 0
      BY <1>3 DEF VersionWrites, SlotsTrue
    <3>2. VersionWrites' = [VersionWrites EXCEPT ![w] = 0]
      BY <1>1 DEF VersionWrites
    <3>3. EnvWrites' = EnvWrites
      BY <1>1, <1>3 DEF EnvWrites
    <3> QED  BY <3>1, <3>2, <3>3
  <2>2. /\ envFile'.flags = envFile.flags
        /\ stateFile' \in {stateFile, writes[w].version}
    BY <1>3, EndedWrite DEF SameFiles
  <2>3. VersionRegister!Publish(w) \/ VersionRegister!Abort(w)
    BY <2>1, <2>2 DEF VersionRegister!Publish, VersionRegister!Abort
  <2> QED  BY <2>1, <2>2, <2>3 DEF VersionRegister!Next, EnvRegister!vars
<1> QED  BY <1>1, <1>2, <1>3

\* Every step of the updater is a step or a stutter of either register.
LEMMA StepMaps ==
  SlotsInv /\ [Next]_vars => /\ [EnvRegister!Next]_(EnvRegister!vars)
                             /\ [VersionRegister!Next]_(VersionRegister!vars)
<1> SUFFICES ASSUME SlotsInv, [Next]_vars
             PROVE  /\ EnvRegister!Next \/ UNCHANGED EnvRegister!vars
                    /\ VersionRegister!Next \/ UNCHANGED VersionRegister!vars
  OBVIOUS
<1>1. CASE \E w \in Writers : WriteEnv(w) \/ AckVersion(w)
  BY <1>1, BeginMaps
<1>2. CASE \E w \in Writers : Rename(w) \/ WriteFails(w)
  BY <1>2, EndMaps
<1>3. CASE ~\E w \in Writers : \/ WriteEnv(w) \/ AckVersion(w)
                               \/ Rename(w) \/ WriteFails(w)
  <2>1. SameFiles /\ (SameHeld \/ ProcessEnds)
    BY <1>3, OtherSteps DEF SlotsInv
  <2> QED  BY <2>1, QuietMaps, ProcessEndMaps DEF EnvRegister!Next, VersionRegister!Next
<1> QED  BY <1>1, <1>2, <1>3

\* There is no file of either kind at first.
LEMMA InitMaps == Init => EnvRegister!Init /\ VersionRegister!Init
BY DEF Init, Free, EnvRegister!Init, VersionRegister!Init, EnvWrites, VersionWrites,
       EnvRegister!Nobody, VersionRegister!Nobody

\* The environment file is the register that WriteFileAtomic implements: only a
\* write the loop began changes it, at one moment, once and in its process's
\* life, for any number of writes in flight (oshelper.go:306-351).
THEOREM EnvFileIsRegister == Spec => EnvIsRegister
BY InitMaps, SlotsHold, StepMaps, PTL DEF Spec, EnvIsRegister, EnvRegister!Spec

\* The same holds of the file of the config version, for any versions.
THEOREM VersionFileIsRegister == Spec => VersionIsRegister
BY InitMaps, SlotsHold, StepMaps, PTL DEF Spec, VersionIsRegister, VersionRegister!Spec

=============================================================================
