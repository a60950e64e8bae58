----------------------------- MODULE AtomicFile -----------------------------
(***************************************************************************)
(* WriteFileAtomic of internal/osutils/oshelper.go, system call by system  *)
(* call, run by several goroutines on one target: a caller of the guard    *)
(* that gave up on a slow write may start another one.  The file system is *)
(* external: names lead to inodes, an inode has the content a reader sees  *)
(* and the content on the medium, and what reaches the medium without an   *)
(* fsync does so at a time of the kernel's choosing.                       *)
(***************************************************************************)
EXTENDS FiniteSets

CONSTANTS Writers,  \* goroutines in WriteFileAtomic
          Values,   \* contents callers ask to be written
          Torn,     \* anything less than one whole content
          NoValue,  \* no file
          Target,   \* the name written to
          Temps,    \* the names CreateTemp can find
          Inodes,   \* files of the file system
          None      \* no inode, no name

ASSUME FileAssumption ==
  /\ Torn \notin Values /\ NoValue \notin Values /\ Torn # NoValue
  /\ Target \notin Temps /\ None \notin Inodes \cup Temps

VARIABLES
  pc,      \* where each goroutine is in WriteFileAtomic
  arg,     \* the content each goroutine was given
  fd,      \* the inode each goroutine has open
  tmp,     \* tmpPath of each goroutine; None when there is nothing to remove
  data,    \* each inode: content seen, content on the medium, mode set
  dir,     \* the directory: the inode each name leads to
  medium,  \* the directory as it is on the medium
  mishap   \* ghost: a process died, or a temporary file would not go

vars == <<pc, arg, fd, tmp, data, dir, medium, mishap>>

Names == {Target} \cup Temps
PCs   == {"idle", "created", "written", "synced", "moded", "closed", "failed"}
Files == [seen : Values \cup {Torn}, kept : Values \cup {Torn},
          mode : BOOLEAN]

TypeOK ==
  /\ pc \in [Writers -> PCs]
  /\ arg \in [Writers -> Values \cup {NoValue}]
  /\ fd \in [Writers -> Inodes \cup {None}]
  /\ tmp \in [Writers -> Temps \cup {None}]
  /\ data \in [Inodes -> Files]
  /\ dir \in [Names -> Inodes \cup {None}]
  /\ medium \in [Names -> Inodes \cup {None}]
  /\ mishap \in BOOLEAN

Blank == [seen |-> Torn, kept |-> Torn, mode |-> FALSE]

Init ==
  /\ pc = [w \in Writers |-> "idle"]
  /\ arg = [w \in Writers |-> NoValue]
  /\ fd = [w \in Writers |-> None]
  /\ tmp = [w \in Writers |-> None]
  /\ data = [i \in Inodes |-> Blank]
  /\ dir = [n \in Names |-> None]
  /\ medium = [n \in Names |-> None]
  /\ mishap = FALSE

InUse == {fd[w] : w \in Writers} \cup {dir[n] : n \in Names}
           \cup {medium[n] : n \in Names}

-----------------------------------------------------------------------------
(* The steps of a write *)

Goes(w, from, to) == pc[w] = from /\ pc' = [pc EXCEPT ![w] = to]

\* Mutant: the temporary name is fixed; a file of that name is truncated.
CreateTempFixed(w, v, n, i) ==
  /\ Goes(w, "idle", "created")
  /\ n = CHOOSE m \in Temps : TRUE
  /\ i = dir[n] \/ (dir[n] = None /\ i \notin InUse)
  /\ dir' = [dir EXCEPT ![n] = i]
  /\ data' = [data EXCEPT ![i] = Blank]
  /\ fd' = [fd EXCEPT ![w] = i]
  /\ tmp' = [tmp EXCEPT ![w] = n]
  /\ arg' = [arg EXCEPT ![w] = v]
  /\ UNCHANGED <<medium, mishap>>

\* Mutant: the goroutine is not given the data.
CreateTempNoData(w, v, n, i) ==
  /\ Goes(w, "idle", "created")
  /\ dir[n] = None
  /\ i \notin InUse
  /\ dir' = [dir EXCEPT ![n] = i]
  /\ data' = [data EXCEPT ![i] = Blank]
  /\ fd' = [fd EXCEPT ![w] = i]
  /\ tmp' = [tmp EXCEPT ![w] = n]
  /\ UNCHANGED <<arg, medium, mishap>>

\* os.CreateTemp: a name no file has, and a new file of mode 0600.
CreateTemp(w, v, n, i) ==
  /\ Goes(w, "idle", "created")
  /\ dir[n] = None
  /\ i \notin InUse
  /\ dir' = [dir EXCEPT ![n] = i]
  /\ data' = [data EXCEPT ![i] = Blank]
  /\ fd' = [fd EXCEPT ![w] = i]
  /\ tmp' = [tmp EXCEPT ![w] = n]
  /\ arg' = [arg EXCEPT ![w] = v]
  /\ UNCHANGED <<medium, mishap>>

Write(w) ==
  /\ Goes(w, "created", "written")
  /\ data' = [data EXCEPT ![fd[w]].seen = arg[w]]
  /\ UNCHANGED <<arg, fd, tmp, dir, medium, mishap>>

\* Mutant: no fsync.
SyncSkipped(w) ==
  /\ Goes(w, "written", "synced")
  /\ UNCHANGED <<arg, fd, tmp, data, dir, medium, mishap>>

Sync(w) ==
  /\ Goes(w, "written", "synced")
  /\ data' = [data EXCEPT ![fd[w]].kept = data[fd[w]].seen]
  /\ UNCHANGED <<arg, fd, tmp, dir, medium, mishap>>

\* The mode is set after the fsync, which protects the content alone.  It is
\* metadata like the names: a file system that writes metadata back in order has
\* the mode when it has the later rename, and the mode of a file that is not
\* renamed matters to nobody.  So it is taken to last.
Chmod(w) ==
  /\ Goes(w, "synced", "moded")
  /\ data' = [data EXCEPT ![fd[w]].mode = TRUE]
  /\ UNCHANGED <<arg, fd, tmp, dir, medium, mishap>>

Close(w) ==
  /\ Goes(w, "moded", "closed")
  /\ UNCHANGED <<arg, fd, tmp, data, dir, medium, mishap>>

\* What the goroutine held is dropped when it returns.
Returns(w) ==
  /\ arg' = [arg EXCEPT ![w] = NoValue]
  /\ fd' = [fd EXCEPT ![w] = None]
  /\ tmp' = [tmp EXCEPT ![w] = None]

\* os.Rename succeeds: tmpPath is cleared, so the deferred removal is skipped.
Rename(w) ==
  /\ Goes(w, "closed", "idle")
  /\ dir' = [dir EXCEPT ![Target] = dir[tmp[w]], ![tmp[w]] = None]
  /\ Returns(w)
  /\ UNCHANGED <<data, medium, mishap>>

\* A call fails; a failed Write may have written a part.
Fail(w) ==
  /\ pc[w] \notin {"idle", "failed"}
  /\ pc' = [pc EXCEPT ![w] = "failed"]
  /\ UNCHANGED <<arg, fd, tmp, data, dir, medium, mishap>>

\* Mutant: no deferred removal.
RemoveSkipped(w) ==
  /\ Goes(w, "failed", "idle")
  /\ Returns(w)
  /\ UNCHANGED <<data, dir, medium, mishap>>

\* The deferred os.Remove, whose own failure is ignored.
Remove(w) ==
  /\ Goes(w, "failed", "idle")
  /\ \/ dir' = [dir EXCEPT ![tmp[w]] = None] /\ UNCHANGED mishap
     \/ mishap' = TRUE /\ UNCHANGED dir
  /\ Returns(w)
  /\ UNCHANGED <<data, medium>>

-----------------------------------------------------------------------------
(* The kernel and the machine *)

\* The kernel writes an inode, or the directory, back when it likes.
FlushFile(i) ==
  /\ data[i].kept # data[i].seen
  /\ data' = [data EXCEPT ![i].kept = data[i].seen]
  /\ UNCHANGED <<pc, arg, fd, tmp, dir, medium, mishap>>

FlushDirectory ==
  /\ medium # dir
  /\ medium' = dir
  /\ UNCHANGED <<pc, arg, fd, tmp, data, dir, mishap>>

ProcessGone ==
  /\ pc' = [w \in Writers |-> "idle"]
  /\ arg' = [w \in Writers |-> NoValue]
  /\ fd' = [w \in Writers |-> None]
  /\ tmp' = [w \in Writers |-> None]
  /\ mishap' = TRUE

Crash == ProcessGone /\ UNCHANGED <<data, dir, medium>>

PowerLoss ==
  /\ ProcessGone
  /\ dir' = medium
  /\ data' = [i \in Inodes |-> [data[i] EXCEPT !.seen = data[i].kept]]
  /\ UNCHANGED medium

-----------------------------------------------------------------------------
Step(w) ==
  \/ \E v \in Values, n \in Temps, i \in Inodes : CreateTemp(w, v, n, i)
  \/ Write(w) \/ Sync(w) \/ Chmod(w) \/ Close(w) \/ Rename(w)
  \/ Fail(w) \/ Remove(w)

Next ==
  \/ \E w \in Writers : Step(w)
  \/ \E i \in Inodes : FlushFile(i)
  \/ FlushDirectory \/ Crash \/ PowerLoss

Spec == Init /\ [][Next]_vars

-----------------------------------------------------------------------------
\* Readers never see partial content, nor a file whose mode is not set yet,
\* before or after a crash or a loss of power (oshelper.go:314-315).
NeverTorn ==
  dir[Target] # None => /\ data[dir[Target]].seen \in Values
                        /\ data[dir[Target]].mode

\* A write that fails cleans up: unless a process died or a removal failed, a
\* temporary file belongs to a write under way (oshelper.go:324-329).
NoLitter ==
  ~mishap => \A n \in Temps : dir[n] # None => \E w \in Writers : tmp[w] = n

\* The file is the register WriteFileAtomic promises: a write takes effect
\* with its rename, and only as a whole (oshelper.go:314-351).
Seen(i) == IF i = None THEN NoValue ELSE data[i].seen
Kept(i) == IF i = None THEN NoValue ELSE data[i].kept

Register == INSTANCE AtomicRegister WITH
  value   <- Seen(dir[Target]),
  stable  <- Kept(medium[Target]),
  pending <- arg

ImplementsRegister == Register!Spec

=============================================================================
