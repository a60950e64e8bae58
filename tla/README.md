# The observability agent updater in TLA+

This directory models the updater of Nebius's observability agent: the daemon
(`src/cmd/nebius-observability-agent-updater`, `src/internal`) that polls a backend,
writes the agent's environment file, restarts and updates the agent, and remembers which
configuration version it has carried out. Every module is written from the Go source;
the definitions name the functions they model, and `PROJECT.json` ("map") gives the
lines.

## 1. The system

| Part (source) | State | Operations | What is hard about it |
| --- | --- | --- | --- |
| Poll loop (`application/application.go`) | none of its own; reads and writes the environment file, the agent's service and the agent object | `poll`, `processFeatureFlags`, `Update`, `Restart`, `Run`, `runForAgent` | a decision taken from a file time, two uptimes and a clock read one after the other, while writes given up on earlier may still replace the file and the agent may restart by itself; a crash between any two steps |
| Agent object (`agents/o11y-agent.go`) | `lastSeenConfigVersion` and its file, `lastUpdateError` | load at start, `SetLastSeenConfigVersion`, `Update`, `Restart` | memory moves before the file; the write may fail, time out, or land later than the next one |
| FileGuard (`osutils/oshelper.go:209-312`) | atomic counter `pending`, set `timeouts` | `guarded` (behind `ReadFile`, `Stat`, `WriteFileAtomic`), `recordTimeout`, `DrainTimeouts` | callers race for the last place; the timer races the result; goroutines outlive their callers |
| WriteFileAtomic (`osutils/oshelper.go:314-353`) | a temporary file and the target | create, write, fsync, chmod, close, rename, remove on failure | failure, crash or loss of power between any two calls; two writes of one file at a time |
| OS commands (`osutils/oshelper.go`, rest) | none | `systemctl`, `apt-get`, `dpkg-query`, `du`, `df`, `journalctl`, process and boot times | an uptime is truncated and rounded to seconds; a killed command may have done half its work and its children may live on; two `os.Stat` calls have no timeout |
| gRPC client (`client/client.go`) | retry backoff | `SendAgentData`, `fillRequest` | the deadline runs while the token is fetched; drained timeouts ride on a call that may fail; two ids of one request come from two calls |
| Metadata reader (`metadata/metadata.go`) | token cache, instance-data cache, counter `pendingFileReads` | `GetIamToken`, `GetParentId`, `GetInstanceId`, `readAndTrimFile` | a token and its expiry come from two requests; stale caches; a second cap beside FileGuard's |
| Environment file format (`application/application.go:111-215`) | none | `validateFeatureFlags`, `generateEnvironmentFileContent`, `needsQuoting`, `stripComments` | what is written must be read back by systemd as it was sent; a rewrite that changes nothing restarts the agent |
| Process (`cmd/.../main.go`, `Run` and `runForAgent`, the systemd unit) | the process, its context and signal channel, one goroutine per agent | start, signal, cancel, exit, restart after 5 s | a signal during a poll or with a timer due; a panic anywhere; a poll that hangs |
| Health check, DCGM helper, configuration, logging | none | one HTTP call, two commands, plain data | nothing a model checker reaches |

How they interact. `main` builds one FileGuard, shared by the OS helper, the agent
object and the poll loop, and one agent, for which `Run` starts one goroutine. That
goroutine waits for a timer or the end of its context, then polls: the client fills a
request (metadata reader, OS helper, health check, drained timeouts, last update error,
last seen version), fetches a token and calls the backend. From the response the loop
first handles the feature flags (environment file, then perhaps a restart), then the
ordered action (update or restart), and last raises the config version, first in memory
and then on disk. The agent is another systemd service: it loads the environment file
when it starts, and starts whenever systemd likes. The loop is sequential; what runs
beside it are the goroutines of FileGuard, the agent, the backend, the disk and the
clock.

What makes each part correct:

* the loop installs the backend's flags, gets the agent restarted for them once, not too
  early and not again, and is not held up by the disk of its own two files;
* a version the process reports as seen is on disk, unless writing it failed;
* the guard counts every goroutine exactly, never passes its cap, panics only at the
  cap, hangs nobody, and gets its places back;
* an atomic write is seen whole or not at all, leaves no litter, and survives a loss of
  power as a whole;
* a token is alive when it is used, and a short outage of the metadata service is not
  noticed;
* stale ids go out only while the service fails, and requests catch up with it;
* systemd loads from the environment file exactly the valid flags the backend sent;
* a signal ends the process, and cuts no poll short;
* a poll is answered when a token can be had, and what it has to report arrives.

## 2. Modules

| Module | Models | Checked by | Proved in |
| --- | --- | --- | --- |
| `Updater` | the poll loop, the agent object, the agent's service, both files, the goroutines of late writes, the backend | `MCUpdater` and the five `Updater*.cfg` | `UpdaterProofs` |
| `GuardedCalls` | what `guarded` promises its callers (abstract) | as a property of `FileGuard` | - |
| `FileGuard` | `guarded`, `recordTimeout`, `DrainTimeouts` for several callers | `MCFileGuard`, `FileGuard.cfg` | `FileGuardProofs` |
| `AtomicRegister` | what `WriteFileAtomic` promises (abstract) | as a property of `AtomicFile`; `Updater` is proved to use two | - |
| `AtomicFile` | `WriteFileAtomic`, call by call, on a file system with a cache | `MCAtomicFile`, `AtomicFile.cfg` | `AtomicFileProofs` |
| `IamToken` | `GetIamToken`: the token cache, the requests on two URLs, the file | in `Client` | `IamTokenProofs` |
| `Client` | `SendAgentData` around `IamToken` | `MCClient`, `ClientAnswers.cfg` and `ClientHang.cfg` | `ClientProofs` |
| `InstanceData` | `GetParentId`, `GetInstanceId`, their cache and files, the count of file reads | `MCInstanceData`, `InstanceData.cfg` | `InstanceDataProofs` |
| `Lifecycle` | `run`, `Run`, `runForAgent`, signals, the systemd unit | `MCLifecycle`, `Lifecycle.cfg` | `LifecycleProofs` |
| `EnvFormat` | the text of the environment file, against systemd's parser | `MCEnvFormat`, `EnvFormat.cfg` | `EnvFormatProofs` |

`Client` extends `IamToken`: the variables of the token cache are part of its state, and
`GetToken` takes a step of `IamToken`. `Receive` of `Updater` is what `Client` delivers
(`PollsEnd` says that it delivers or fails, the unguarded `os.Stat` calls of section 4
aside), and `timeouts` of `Client` is the one of `FileGuard`. `FillRequest` of `Client`
contains one poll of `InstanceData`, whose state nothing else reads. `Poll` of
`EnvFormat` is `ReadEnv`, `WriteEnv` and `Rename` of `Updater` on a healthy disk, with
the text that `Updater` abstracts to a flag set. `StartUpdater`, `Crash` and the other
modules' starts and ends of the process are those of `Lifecycle`, and `"polling"` there
is what the others show from the inside.

Four modules meet in `WriteFileAtomic`: `AtomicFile` implements `AtomicRegister`, which
is why `Updater` models a write in two steps only, the one that dates the data and the
one that installs it, and each of the two files of `Updater` is shown to be such a
register: what one side implements is what the other uses. `FileGuard` shows that a call
given up on leaves a goroutine behind, which is why those two steps run on their own in
`Updater`, up to a number of `Writers`, and why the loop panics when none is left.

A definition commented "Mutant" is a plausible bug in the definition that follows it,
with the same parameters. No specification uses it; each one shows that some property
notices that bug.

### Updater

`pc` is where the loop is; `"down"` is no process. The actions follow `poll` from top to
bottom: `Receive` (a response; a call that fails changes nothing and is a stuttering
step, and what the call itself does with disks is not seen here), `ReadEnv`, `WriteEnv`
and `EnvUnreadable` (`processFeatureFlags` up to the write), `StatEnv`, `UptimeUnknown`
and `Decide`, `FlagRestart` and `FlagRestartFails`; `NoAction`, `Update`, `UpdateFails`,
`Restart`, `RestartFails`; `SameVersion` and `AckVersion`. `WriteTemp`, `Rename` and
`WriteFails` are the goroutine of a write, `WriteTimeout` the loop giving up on it:
possible at any time, since an fsync may be slow on a disk that is well. `GuardPanics`
is the cap. Around the loop, `StartUpdater`, `Crash` and `Reboot` are its process,
`AgentStart` and `AgentStop` the agent's service, `Tick`, `DiskBecomes`,
`ServerSetsFlags` and `ServerBumpsVersion` the rest of the world.

Choices worth knowing:

* *Content.* A file holds a flag set, is header-only (`NoFlags`) or is `Absent`.
  `Effective` is `stripComments`: header-only and absent are one to the comparison and
  to systemd. Validation and quoting are `EnvFormat`'s: here a flag set is the validated
  one.
* *Time.* Ages are relative and saturate at the last value the code tells apart
  (`MinUptime + Slack`), so no run is bounded in length. A modification time is a stamp,
  `lead` after the agent's start and `age` ticks old; `Rebase` dates it afresh when the
  agent starts. Rounding is an error of up to `Slack` ticks in either direction in each
  uptime that is read. `TimeAssumption` asks for `Slack <= Grace < MinUptime`: in the
  code about 1.5 seconds, 30 seconds and 15 minutes. `Decide` takes the uptimes and the
  clock at one moment: an agent that restarts while they are read is judged by its old
  uptime, which is a restart between `Decide` and `FlagRestart`.
* *Disk.* On a disk that is `"failing"` calls return errors; on a `"wedged"` one they do
  not return. Both make a read a failure for the loop; only the first ends a goroutine.
* *Crash.* The process loses its locals, its memory and its goroutines at any step. What
  a loss of power does to a file is `AtomicFile`'s.
* *OS commands.* A command that fails or is killed at its timeout may have done nothing,
  everything, or have left the agent stopped (`Disturbed`). An update that succeeds may
  or may not have restarted the agent.
* *Ghosts.* `agent.current` says whether the file in place is the one the running agent
  loaded; `trouble` says whether this process ever failed to load the version (a missing
  file is no failure, nor is a lost 0) or to save it. No guard reads them.

### FileGuard and GuardedCalls

A caller goes through `Enter` (the atomic add with its comparison), then `Spawn` and
`TakeResult` or `TimerFires`, or `Withdraw` and `Panic`. A goroutine does `Finish` (the
system call returns, the result goes into the buffer) and `Exit` (the deferred
decrement). The two atomic operations are separate steps, so every order of racing
callers is there. `Panic` ends the process and stands for its restart as well; only the
wedged mounts outlive it. `Wedge` and `Recover` change a path at any time.

`GuardedCalls` is the guard without counter, goroutines and channels: a pool with so
many places, where the access of a call given up keeps its place until it ends. The
refinement maps `call` to the path of a caller that has, or is about to get, a
goroutine, `done` to the channels that hold a result, `places` to the goroutines and the
callers ahead of one, `reports` to the record of timeouts. An `Enter` that is admitted
is `Begin`, one that is rejected `Refuse`; `Finish` is `Access` for a caller that still
waits and a stutter for one that does not, which is where a late result must not reach
a later call; `TakeResult` is `Return`, `TimerFires` `GiveUp`, `Exit` `Release`, `Panic`
`Restart`; `Spawn` and `Withdraw` stutter.

### AtomicFile and AtomicRegister

Names lead to inodes; an inode has the content a reader sees and the content the medium
has. The kernel writes either back when it likes (`FlushFile`, `FlushDirectory`), `Sync`
at once; `PowerLoss` puts back what the medium has. Each writer runs the calls in order,
any of which may `Fail`; `Remove` is the deferred removal and may fail silently. The
refinement maps `value` to what the target's inode shows, `stable` to what the medium
would show, `pending` to the contents of the writes under way: `Rename` is `Publish`,
`FlushDirectory` is `Stabilize`, `PowerLoss` is `PowerLoss`, and the other calls stutter
or `Abort`. The directory is written back as a whole, as journalling file systems do for
a rename. They write metadata back in order, so the mode, which is set after the fsync
and before the rename, is taken to last: what the model puts at risk is the content.

### IamToken

A token is what remains of its life. `left` is what the cache believes, `real` the
truth, `expiry` says whether the expiry it was cached with is its own, another token's
or the default; the last two are ghosts, as is `calm`. The actions follow the code:
`FromCache` or `BeginFetch`; `FetchToken` and then `FetchExpiry`, each after an optional
`TryFallback`; `UseStale` and `TokenUnavailable` when both URLs fail for the token,
`ExpiryUnknown` when they fail for its expiry or one answers with what is no time stamp,
in which case the other is not asked (`NoExpiry`), `AlreadyExpired`; `ReadTokenFile`.
The service may `Rotate` its token and each source may start to answer, to refuse or to
hang, between any two requests. A tick is a good part of an hour (the margin is one
hour), a request seconds, so ticks fall between calls; what a call loses on sources that
hang is counted in `spent`. An answer other than 200 is a refusal; whatever text a 200
has for the token is the token, as in the code. The file's token is of unknown age.

### Client

`FillRequest` collects the inventory, whose guarded read of the mk8s cluster id may time
out, and drains the record of timeouts into the request; the update error, which each
request copies from the agent, is left out. An attempt is the steps of `GetToken`, then
`Answered` or `CallFails`; `Retry` and `GiveUp` are the backoff. `Deadline = 1` says
that one request that hangs is enough to miss it: both are 5 seconds by default. All
attempts carry one request, so what was drained rides along until an answer, or until
`GiveUp`. A request whose deadline has passed is not sent; one that is `Sent` may be
heard although the call fails. Polls are a minute apart, so `Tick` waits for
`PollsPerTick` of them to end.

### InstanceData

`call` says which of the calls of a request is under way: the parent id, the instance
id, then the token, of which only the read of its file matters here. An id is where it
comes from and whether the service still holds it (`current`); a file's is of unknown
age. The actions are the branches of `getInstanceData` (`FromCache`, `BeginFetch`,
`TryFallback`, `Fetched`, `UseStale`, `ToFile`) and of `readAndTrimFile` (`BeginRead`,
`FileRead`, `ReadTimeout`, `Panic` at the cap). `Unblock` and `Exit` are the goroutines
of reads that were given up. A URL may answer, fail, or answer with something that is no
JSON, in which case the other is not asked (`metadata.go:186-190`); well-formed JSON is
taken to hold the ids. `BeginPoll` waits for goroutines with nothing left to do: polls
are a minute apart. This counter is the reader's own, so the process may hold up to
twice the cap of goroutines, the guard's and these.

### Lifecycle

`unit` is what systemd knows of the process, `main` where `run` waits, `loop` where each
agent's goroutine is. Of a poll it matters here only that it ends, panics, or hangs;
`PollHangs` stands for the two `os.Stat` calls and for commands: a timeout kills the
command alone, and `CombinedOutput` waits until all who inherited its output have closed
it, as the `sudo apt` of the repository script may not. `StartPoll` does not look at
`cancelled`: a `select` with two ready cases takes either. `Signal` fills a channel of
one. `Kill` is SIGKILL from anyone: from systemd after its stop timeout (90 seconds,
less than a poll that installs a package may take), or a signal before `signal.Notify`.
A stop also signals the commands of the poll, which are in the control group: the poll
is waited for, its `apt-get` is not spared (an `UpdateFails` of `Updater`). The start
limit of systemd is not modelled: with `RestartSec=5` it is not reached.

### EnvFormat

Files are sequences of lines, lines of characters. The alphabet is a constant: the runs
take one character for each that some code treats apart, a digit among them, which a key
may hold and not begin with (`Starters`), the proofs any set that holds those.
`Generate`, `NeedsQuoting`, `Escaped`, `ValidFlags` and `StripComments` are the
functions of the source; `Load` is systemd's `parse_env_file`, external and from its
behaviour: the machine `After` over the characters of the file's `Text`. `"LF"` is any
end of line and stands for `"CR"` as well; lines somebody adds have none. `Poll`
succeeds in reading and writing; failures are `Updater`'s. `AddLine` and `RemoveFile`
are anybody else. systemd before 254 takes a comment that ends in a backslash to
continue on the next line, and systemd drops a value with control characters: neither is
modelled, and no comment the updater writes ends so.

## 3. Runs

| Run | Instance | Shows |
| --- | --- | --- |
| `updater_safety` | no updates (`updater_versions` has them), two writes at a time, disk ok or failing, uptimes wrong by a tick | `TypeOK`; `SettledRestartIsDue`: on a machine up for long, a restart for flags is decided only for an agent that is old enough and runs with another file; `NoHeaderOnlyFile`; `DeliveryIsFinal`: nothing but the backend takes delivered flags back |
| `updater_versions` | versions 0 to 2, all orders, all three disks | `AckSurvivesRestart`: between polls, file and memory agree unless something failed in this process, whatever earlier writes are still to land; `VersionCatchesUp`; `PollLoopReturns`: a poll that has its response ends, whatever the disk of the two files does |
| `updater_flags` | one flag set or none, two writes at a time, disk ok or wedged, fair | `FileConverges`: the file comes to hold the backend's flags for good although a late rename may undo it; `PendingRestartHappens`: an owed restart comes while flags are set |
| `updater_grace` | one write, healthy disk, fair | violated: finding 1 |
| `updater_cleared` | the same, and nothing goes wrong (`SmoothSpec`): no crash, timeout or failing command | violated: finding 2 |
| `fileguard` | two callers, two paths, cap 2, fair | `TypeOK`, `PendingExact`, `CapHolds`; `ImplementsGuard`: whatever times out, is late or races, a call returns with the end of its own access or is reported, and only a full pool ends the process; `CallReturns`, `LeaksDrain` |
| `atomic_file` | two writers, two values, two names, four inodes | `TypeOK`, `NeverTorn`, `NoLitter`, `ImplementsRegister` |
| `client_answers` | a lifetime of 3 ticks, a margin of 1, every condition of every source, retries, one path that times out, two polls a tick, fair | `ClientTypeOK`; `CachedTokenIsAlive`: a token with its own expiry is alive when served, one of unknown expiry is not served without asking again; `OutageTolerated`: an outage shorter than the margin never leads to the file; `TimeoutRidesAlong`; `PollsEnd`; `AnsweredWithoutHang`; `AnsweredViaFallback`: a first URL that hangs costs single polls, not the connection |
| `client_hang` | every source up or hanging, fair | violated: finding 3 |
| `instance_data` | a time to live of 2 ticks, a cap of 2, every condition of URLs and mount, fair | `TypeOK`, `PendingExact`, `FallbackIsConsistent`, `StaleOnlyInOutage`; `IdsCatchUp`, `ReadsDrain` |
| `lifecycle` | two agents, a jitter below the interval and one above, fair | `TypeOK`, `FewLatePolls`, `ExitIsGraceful`; `SignalEndsProcess`, `AgentsIndependent` |
| `env_format` | three keys, one with a digit, and four that are no keys, all values of up to two characters out of nine kinds and of up to three out of three, pairs of values, invalid flags, four lines somebody may add, files of up to four lines | `TypeOK`, `LoadsExactly`, `PollIsStable` |

Bounds, and why they are enough.

* *Two writers.* The hazard is an older write landing after a newer one, which needs
  two; with two slots taken, `GuardPanics` stands for the cap of 100.
* *Two flag sets.* The properties tell apart "the backend's flags", "other flags" and
  "none"; with one non-empty set and `NoFlags`, each is old for the other.
* *Times.* The two comparisons of `Decide` use one reading of the agent's uptime, and a
  file is never dated later than now. So a file dated after start and grace period has
  an agent older than the grace period, and the minimal uptime decides by itself only if
  `MinUptime >= Grace + 2`: an agent of 2 ticks, a file later than the start by 2, a
  grace period of 1 and a minimal uptime of 3. That is `MinUptime = 3` and `Grace = 1`,
  with `Slack = 1` in the safety run, and `Slack = 0` where the run is about the loop's
  order of events and not about rounding. `updater_versions` is about neither (2, 0, 0).
* *Versions 0 to 2.* A version, its predecessor and a missing file.
* *Cap 2.* Two callers can race for the last place, and be over it by one and by two; a
  bigger cap only adds goroutines that are alike.
* *Four inodes.* The target's, the medium's and one for each writer.
* *Lifetimes.* `DefaultTTL = 1 <= Margin < Lifetime` in the order of the code (5
  minutes, an hour, 12 hours). With 3 ticks a cached token can be fresh, due and expired
  while the service is one or two rotations ahead, and the service can always give out a
  token that is not due, which `AnsweredViaFallback` needs. Ages stop at 0, so that no
  run is bounded in length.
* *Time to live 2.* Instance data can be new, cached and expired, and change before and
  after it expires.
* *Cap of 2 in `InstanceData`.* One read given up and one under way, and the panic.
* *Two agents* are one whose poll hangs and one that must go on. The intervals are 1 to
  3 ticks, and 0 or 1 for the jitter that is cut; `late` stops at 2, one more than the
  property allows.
* *Values of two characters.* The quoting test looks at the first, the last and any
  character, escaping at each by itself, and systemd's parser changes its state with
  one; pairs put each kind at either end and next to each other, three put one inside.
* *One path.* `FillRequest` treats all paths alike.
* *Symmetry* is used only in runs without liveness properties, over slots, inodes and
  values, which no definition tells apart (`AtomicFile`'s temporary names are left out:
  a mutant chooses one).

Fairness. Go runs what can run, timers fire, systemd starts both services
(`Restart=always`) and time passes: weak fairness on `PollStep`, each goroutine,
`StartUpdater`, `AgentStart`, `Tick`. The backend, reading the uptime and `systemctl
restart` may fail, but not every time: strong fairness on a response with flags, on
`Decide` and on `FlagRestart`. There is no fairness on the backend's flags, on the disk,
on crashes or on an order to restart. In `FileGuard`, weak fairness on each caller and
each goroutine, none on `Wedge`, `Recover` and `Enter`. In `Client` the calls go on and
the process starts: weak fairness on `SendStep` and `Start`. Time passes, though ticks
wait for polls: strong fairness on `Tick`. A call that could be answered does not fail
every time, and retries end (`MaxElapsedTime`): strong fairness on `Answered` and
`GiveUp`. There is none on the sources of tokens, the timeouts or crashes. In
`InstanceData`, weak fairness on the steps of a poll, on each kind of goroutine's step,
on `Start` and `Tick`, and strong fairness on `EndPoll`, as attempts end; none on the
sources, the mount or the data. In `Lifecycle`, weak fairness on each goroutine, on
`run`, on the restart and on the end of a poll in one way or the other (it may hang);
strong fairness on `Return`, since a `select` takes each ready case some time, and on
`Tick`. There is none on signals, stops and kills.

## 4. Findings

1. *Flags written just after the agent's start never reach it* (`updater_grace`). The
   restart needs a modification time later than start + 30 s (`application.go:240`).
   Flags that arrive within that time are written, and every later poll finds the file
   unchanged and too old; nothing remembers that the agent has not loaded them.
2. *A restart owed for cleared flags is lost* (`updater_cleared`). When the backend
   clears all flags, only the poll that writes the header-only file can restart the
   agent. If the agent is younger than 15 minutes then, that poll skips the restart
   (`application.go:243`), and every later one returns at `application.go:205` before it
   looks at the file's time: with no flags and a file of comments only there is "nothing
   to do", says the comment at `:203-204`, but the restart is still to do. The run has
   nothing else go wrong; a write that lands late, a crash or a `systemctl` that fails
   lose the restart in the same way. Removing some flags of several does restart the
   agent (`tests/integration/integration_test.go:217`), and for a set flag the restart
   is deferred, not lost (`application_test.go:750`, `PendingRestartHappens`). With a
   line 205 that returned only for a missing file, the run would pass.
3. *The fallback to the file is too late* (`client_hang`). The call's deadline is set
   before the token is fetched (`client.go:167`); two URLs that hang use it up before
   the file, or the cached token that is good until its expiry, is turned to
   (`metadata.go:116`, `:133`).

More things a reader of the code should know, which no run states:

* *A rotation between the two requests.* When the service rotates its token between the
  request for the token and the one for its expiry, the old token is cached with the new
  one's expiry and served until the new one is due (`metadata.go:126-140`), whatever the
  backend answers. Of such a token (`expiry` is `"other"`) `CachedTokenIsAlive` says
  nothing for this reason.
* *Timeouts of an unanswered request.* The record is drained into a request
  (`client.go:417`); the comment at `oshelper.go:205` says it is surfaced to the
  backend. When all attempts fail it is lost, which is the `GiveUp` of
  `TimeoutRidesAlong`.
* *Fresh machines.* On a machine up for less than 15 minutes the grace period is 0
  (`application.go:235`), so an error of a second in the agent's uptime may restart an
  agent once more for a file it has loaded; `updater_safety` is about settled machines.
* *Calls that may not return.* `GetDirectorySize` and `GetMountpointSize` call `os.Stat`
  without guard or timeout (`oshelper.go:360`, `:395`), and a command's timeout does not
  reach its children. Such a poll stops its agent's loop, the only one there is: that
  "an unresponsive disk cannot hang the poll loop" (`application.go:39`) holds of the
  environment file, not of the health check's directory. `PollLoopReturns` starts at the
  response and `Client` leaves such calls aside. The poll also keeps a process that is
  sent a signal waiting until it is killed (`SignalEndsProcess` is about polls that do
  not hang).

## 5. Proofs

TLAPS checks these for every value of the constants that the assumptions allow: any flag
sets, number of writers, versions, times, callers, paths, caps, keys and values. Every
invariant, every action property and every refinement is among them.

`UpdaterProofs`:

* `TypeCorrect`: `Spec => []TypeOK`. One lemma for each group of actions; the arithmetic
  is in `StampTypes` and `NowType`.
* `SettledRestarts`: `Spec => SettledRestartIsDue`. The decision reads `stat`, taken
  earlier, not `agent.current`, so the property is not inductive. `DatesInv` ties them
  together: when the file in place, or the one the loop has statted, is dated after the
  agent's start, the agent does not run with the file in place. It holds initially, a
  start or stop of the agent dates every file before it (`DatesDisturbed`), and a rename
  makes the agent outdated (`DatesInductive`). A settled decision needs a `lead` above
  `Grace - Slack`, so `Slack <= Grace` makes it positive, and `DecisionIsDecide` shows
  that no other action decides.
* `AckPersists`: `Spec => []AckSurvivesRestart`. `AckInv` adds `OwnTrue` (the loop waits
  for a goroutine exactly where it should, and it writes the right thing) and `AckTrue`
  (while nothing failed, no other write of the state file is in flight, and outside that
  wait memory and file agree). The second is what a late write could break: it shows
  that a write given up on is always remembered as `trouble`.

* `NoBareFile`: `Spec => NoHeaderOnlyFile`. `BareHasFile` says that while a write of no
  flags is in flight there is a file. A poll starts such a write only over a file
  (`Differs`), and no step removes one, so even a rename that comes late finds one.
* `FlagsStayDelivered`: `Spec => DeliveryIsFinal`, the safety half of `FileConverges`.
  `Delivered` is closed under every step that leaves the backend's flags alone: the loop
  starts no write (`Differs` is false of a file and a response with the same flags), and
  the writes that are still to land hold the same flags.
* `EnvFileIsRegister`, `VersionFileIsRegister`: the two refinements of `AtomicRegister`.
  `WriteEnv` and `AckVersion` are `Begin`, `Rename` is `Publish`, `WriteFails` is
  `Abort`, the end of the process `Crash`, and everything else stutters (`OtherSteps`),
  `WriteTimeout` included: giving up on a write does not abort it. `SlotsTrue` says that
  a free slot holds nothing and that no version in flight is 0, which a missing file
  stands for. `stable` is constant, as no power is lost here. No run checks these two.

`FileGuardProofs`: `IInv` is the conjunction of `TypeOK`, `PendingExact` and `CapHolds`;
it is inductive because the comparison in `Enter` is on the exact count.

* `CounterExact` and `CapBounds` are its parts.
* `DoomNeedsFullCap`: `Spec => PanicOnlyAtCap`, since in a state that is not doomed
  nobody is counted without a goroutine or a place for one. `ImplementsGuard` implies
  it (`Refuse`), so no run checks it by itself.
* `GuardIsPool`: `Spec => ImplementsGuard`. `Served` says that a caller waits without an
  answer exactly when one goroutine is running for it. So the end of a goroutine that
  serves nobody changes nothing of the calls (`FinishMaps`), and the calls that wait
  inject into the goroutines that still run: the goroutine that exits gives back a place
  that no waiting call holds (`WaitingHavePlaces`, `ExitMaps`). A rejected call finds
  the pool full because the counter is exact (`EnterMaps`).

`IamTokenProofs`: `IInv` adds to `TypeOK` and `CachedTokenIsAlive`

* `Budget`, how many requests a call can have lost at each place, which bounds `spent`;
* `Holding` and `Paired`: the token of a call is there while its expiry is fetched, and
  a token with its own expiry is as old as service and cache say (`CacheIsAlive`);
* `Newest` and `Covered`: the service's token lives as long as the cached one, unless
  that one's life is the default, which is not above the margin and so not fresh; within
  `Margin` ticks of a call served from the cache there is a cached token that is alive.
  Hence neither `TokenUnavailable` nor `AlreadyExpired`, the two ways to the file, can
  happen then (`OutageIsTolerated`).

`ClientProofs` lifts these to the composition. To the cache each step of the client is
one of its own steps, or the end of an attempt, or a crash (`TokenView`), and the last
two keep `IInv` as well; `Waits` and `Unasked` tie the client's place to the cache's and
say that there is no request between polls. Hence `ClientTokenIsAlive`,
`ClientOutageTolerated`, and `TimeoutsRideAlong`, for every deadline, set of paths and
retry policy.

`AtomicFileProofs`: `IInv` is `TypeOK`, `NoLitter` and `Apart`: each call under way has
an inode and a temporary name of its own, with what its place says it has written,
synced and chmodded (`Staged`), which no other name leads to (`OneName`), and the target
and the medium lead only to inodes that are whole (`Whole`). `NeverTorn` follows.
`FileIsRegister` is the refinement: initial states map to initial states, and each step
to a step of `AtomicRegister` or a stutter. What makes `Rename` a `Publish`, and a loss
of power the register's, is that what the medium's directory leads to was synced before
it was renamed.

`InstanceDataProofs`: `PendingExact` is inductive with `TypeOK`. `Filled` says where a
call can be once the parent id came from the service: the cache is there from then on,
whatever fails, so the instance id cannot come from the file (`FallbackConsistent`).
`Aged` says that data the service gave up was fetched before it changed, so data that
changed a time to live ago is not fresh, and only an outage leads to it
(`StaleInOutage`).

`LifecycleProofs`: `Joined` (`Run` has returned only if all goroutines have) gives
`ExitsGracefully`; `Spared` (with an interval above the jitter, the timer of an agent
that polled once since the cancel is not due) gives `LatePollsAreFew`: before it is due
again a tick must pass, and ticks wait for the loop to return.

`EnvFormatProofs`: that systemd loads what the updater was told is a fact about strings
of every length, so its lemmas are about prefixes. The library's induction theorems take
a predicate as a parameter; where an induction is needed it is on a set instead, the
lengths for which a statement holds, or the least one for which it does not. The first
part says that the recursive functions of the model (the lines joined, the parser's
state after a prefix) exist and that their value on a longer prefix follows from the one
before. On it rest, from the inside out:

* a value: the parser's state after each character that `Escaped` writes for one, inside
  double quotes, and after each that goes without quotes, for the three classes of
  characters `NeedsQuoting` tells apart;
* a line, which adds one assignment to those loaded, and a comment or blank line, which
  adds none;
* a file as the updater writes it, sorted: exactly the valid flags, each once. Two sets
  of valid flags never have the same lines (`LinesTellFlagsApart`), so the comparison
  that skips a write misses no change.

`IInv` is the types and `FileIsCurrent`: while nobody but commenters touched the file
since the last poll, its lines other than comments are those of the flags. Hence
`LoadsTheFlags` (`Spec => []LoadsExactly`) and `SameFlagsAreStable`
(`Spec => PollIsStable`).

Only model-checked: everything under fairness (`FileConverges`, `PendingRestartHappens`,
`VersionCatchesUp`, `PollLoopReturns`, `CallReturns`, `LeaksDrain`, `PollsEnd`,
`AnsweredWithoutHang`, `AnsweredViaFallback`, `IdsCatchUp`, `ReadsDrain`,
`SignalEndsProcess`, `AgentsIndependent`), which the prover cannot reach, as it reaches
no ENABLED.

## 6. Not modelled

* *Inventory strings.* `dpkg-query`, `lsb_release`, `uname`, `journalctl`, `du`, `df`,
  the health check and its decoding, the DCGM commands and their parsing: each is one
  call with one caller and no state, and its failure leaves a field of the request
  empty. What they can do to the poll, take long or hang, is `PollHangs`.
* *The record of update errors.* Every request copies the agent's last one
  (`client.go:420`), so the next answered call reports it; it is lost with the process,
  and nothing says what is promised then. `lastErr` of `Updater` is its presence.
* *Configuration, constants, logging.* Plain data, read once.
* *Packaging.* The scripts' effect on the process is `Stop`, `Kill` and `Start` of
  `Lifecycle`. The cron job that upgrades the updater is one of those who call them.
* *gRPC.* Connecting, keep-alive and TLS are the library's; `New` and `Close` of the
  client happen once.
* *Several agents in `Updater`.* `main` builds one, and two would share nothing but the
  guard (`FileGuard`, several callers) and the process (`Lifecycle`, several agents).
* *Systemd's corner cases* named under Lifecycle and EnvFormat, and the test harness.

What could follow: the composition of `FileGuard` with `Client`, so that timeouts come
from the guard's own steps; and a model of the commands' process trees, which would say
who outlives a timeout.

