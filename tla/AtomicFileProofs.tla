--------------------------- MODULE AtomicFileProofs ---------------------------
(***************************************************************************)
(* Proofs about AtomicFile for any goroutines, contents, names and inodes: *)
(* whoever is in WriteFileAtomic has a temporary file of its own, whose    *)
(* inode neither the target nor its directory entry on the medium leads    *)
(* to, so that only a rename changes what a reader sees; and an inode gets *)
(* the target's name only when all of it is on the medium.                 *)
(***************************************************************************)
EXTENDS AtomicFile, TLAPS

USE FileAssumption

Busy(w) == pc[w] # "idle"

\* What a goroutine holds, and how far its file has come.
Staged(w) ==
  /\ ~Busy(w) => fd[w] = None /\ tmp[w] = None /\ arg[w] = NoValue
  /\ Busy(w) => /\ fd[w] \in Inodes /\ tmp[w] \in Temps /\ arg[w] \in Values
                /\ dir[tmp[w]] = fd[w] /\ medium[Target] # fd[w]
  /\ pc[w] \in {"written", "synced", "moded", "closed"}
       => data[fd[w]].seen = arg[w]
  /\ pc[w] \in {"synced", "moded", "closed"} => data[fd[w]].kept = arg[w]
  /\ pc[w] \in {"moded", "closed"} => data[fd[w]].mode

\* No two goroutines share a file.
Apart ==
  \A v, w \in Writers : v # w /\ Busy(v) /\ Busy(w) => fd[v] # fd[w]

\* No file has two names in directory d.
OneName(d) == \A m, n \in Names : d[m] = d[n] /\ d[m] # None => m = n

\* A file, if there is one, is all there, on the medium, too.
Whole(i) ==
  i # None => /\ data[i].seen \in Values
              /\ data[i].kept = data[i].seen
              /\ data[i].mode

IInv == /\ TypeOK /\ NoLitter /\ Apart
        /\ \A w \in Writers : Staged(w)
        /\ OneName(dir) /\ OneName(medium)
        /\ Whole(dir[Target]) /\ Whole(medium[Target])

-----------------------------------------------------------------------------
(* Files and names *)

\* What changing one field of one inode changes.
LEMMA SetSeen ==
  ASSUME TypeOK, NEW i \in Inodes, NEW x \in Values \cup {Torn},
         data' = [data EXCEPT ![i].seen = x]
  PROVE  /\ data' \in [Inodes -> Files]
         /\ data'[i].seen = x /\ data'[i].kept = data[i].kept
         /\ data'[i].mode = data[i].mode
         /\ \A j \in Inodes \ {i} : data'[j] = data[j]
BY DEF TypeOK, Files

LEMMA SetKept ==
  ASSUME TypeOK, NEW i \in Inodes, NEW x \in Values \cup {Torn},
         data' = [data EXCEPT ![i].kept = x]
  PROVE  /\ data' \in [Inodes -> Files]
         /\ data'[i].kept = x /\ data'[i].seen = data[i].seen
         /\ data'[i].mode = data[i].mode
         /\ \A j \in Inodes \ {i} : data'[j] = data[j]
BY DEF TypeOK, Files

LEMMA SetMode ==
  ASSUME TypeOK, NEW i \in Inodes,
         data' = [data EXCEPT ![i].mode = TRUE]
  PROVE  /\ data' \in [Inodes -> Files]
         /\ data'[i].mode = TRUE /\ data'[i].seen = data[i].seen
         /\ data'[i].kept = data[i].kept
         /\ \A j \in Inodes \ {i} : data'[j] = data[j]
<1>1. data[i] \in Files /\ data'[i] = [data[i] EXCEPT !.mode = TRUE]
  BY DEF TypeOK
<1>2. /\ data'[i].mode = TRUE /\ data'[i].seen = data[i].seen
      /\ data'[i].kept = data[i].kept /\ data'[i] \in Files
  BY <1>1 DEF Files
<1>3. data' = [data EXCEPT ![i] = data'[i]]
  BY <1>1
<1>4. QED
  BY <1>2, <1>3 DEF TypeOK

\* The names of temporary files are not the target's, and inodes are some.
LEMMA Distinct ==
  /\ Target \in Names /\ \A t \in Temps : t \in Names /\ t # Target /\ t # None
  /\ \A i \in Inodes : i # None
<1>1. Target \notin Temps /\ None \notin Inodes /\ None \notin Temps
  BY Zenon
<1>2. QED
  BY <1>1 DEF Names

\* What a goroutine writes to is its own.
LEMMA OwnFile ==
  ASSUME IInv, NEW w \in Writers, Busy(w)
  PROVE  /\ fd[w] \in Inodes /\ fd[w] # dir[Target] /\ fd[w] # medium[Target]
         /\ tmp[w] \in Temps /\ dir[tmp[w]] = fd[w] /\ arg[w] \in Values
         /\ \A v \in Writers \ {w} : Busy(v) => /\ fd[v] # fd[w]
                                                /\ tmp[v] # tmp[w]
<1>1. /\ fd[w] \in Inodes /\ tmp[w] \in Temps /\ dir[tmp[w]] = fd[w]
      /\ medium[Target] # fd[w] /\ arg[w] \in Values
  BY DEF IInv, Staged
<1>2. fd[w] # dir[Target]
  BY <1>1, Distinct DEF IInv, OneName
<1>3. ASSUME NEW v \in Writers \ {w}, Busy(v)
      PROVE  fd[v] # fd[w] /\ tmp[v] # tmp[w]
  BY <1>1, <1>3 DEF IInv, Apart, Staged
<1>4. QED
  BY <1>1, <1>2, <1>3

\* A file that was left alone is as whole as before.
LEMMA WholeKept ==
  ASSUME NEW i \in Inodes \cup {None}, Whole(i),
         i # None => data'[i] = data[i]
  PROVE  i # None => /\ data'[i].seen \in Values
                     /\ data'[i].kept = data'[i].seen
                     /\ data'[i].mode
BY DEF Whole

-----------------------------------------------------------------------------
(* The steps of a write keep the invariant *)

\* A step of a goroutine on its own file.
LEMMA OwnStep ==
  ASSUME IInv, NEW w \in Writers, Busy(w), Busy(w)', TypeOK', Staged(w)',
         \A v \in Writers \ {w} : pc'[v] = pc[v],
         UNCHANGED <<arg, fd, tmp, dir, medium, mishap>>,
         \A j \in Inodes \ {fd[w]} : data'[j] = data[j]
  PROVE  IInv' /\ UNCHANGED <<Seen(dir[Target]), Kept(medium[Target])>>
<1>1. /\ fd[w] # dir[Target] /\ fd[w] # medium[Target]
      /\ dir[Target] \in Inodes \cup {None}
      /\ medium[Target] \in Inodes \cup {None}
  BY OwnFile, Distinct DEF IInv, TypeOK
<1>2. ASSUME NEW v \in Writers PROVE Staged(v)'
  <2>1. CASE v = w
    BY <2>1
  <2>2. CASE v # w
    <3>1. Busy(v) => fd[v] \in Inodes \ {fd[w]} /\ data'[fd[v]] = data[fd[v]]
      BY <2>2, OwnFile DEF IInv, Staged
    <3>2. pc'[v] = pc[v] /\ Staged(v)
      BY <2>2 DEF IInv
    <3>3. QED
      BY <3>1, <3>2 DEF Staged, Busy
  <2>3. QED
    BY <2>1, <2>2
<1>3. Whole(dir[Target])' /\ Whole(medium[Target])'
  BY <1>1, WholeKept DEF IInv, Whole
<1>4. Apart' /\ OneName(dir)' /\ OneName(medium)' /\ NoLitter'
  BY DEF IInv, Apart, Busy, OneName, NoLitter
<1>5. UNCHANGED <<Seen(dir[Target]), Kept(medium[Target])>>
  BY <1>1 DEF Seen, Kept
<1>6. QED
  BY <1>2, <1>3, <1>4, <1>5 DEF IInv

\* The system calls between the creation and the rename, and their failures.
LEMMA MiddleStep ==
  ASSUME IInv, NEW w \in Writers,
         Write(w) \/ Sync(w) \/ Chmod(w) \/ Close(w) \/ Fail(w)
  PROVE  /\ IInv'
         /\ UNCHANGED <<Seen(dir[Target]), Kept(medium[Target]), arg>>
<1>1. /\ Busy(w) /\ Busy(w)' /\ pc' \in [Writers -> PCs]
      /\ \A v \in Writers \ {w} : pc'[v] = pc[v]
      /\ UNCHANGED <<arg, fd, tmp, dir, medium, mishap>>
  BY DEF IInv, TypeOK, PCs, Busy, Write, Sync, Chmod, Close, Fail, Goes
<1>2. /\ fd[w] \in Inodes /\ arg[w] \in Values /\ Staged(w)
      /\ data[fd[w]].seen \in Values \cup {Torn}
  BY <1>1, OwnFile DEF IInv, TypeOK, Files
<1>3. /\ data' \in [Inodes -> Files] /\ Staged(w)'
      /\ \A j \in Inodes \ {fd[w]} : data'[j] = data[j]
  <2>1. CASE Write(w)
    <3>1. pc'[w] = "written" /\ data' = [data EXCEPT ![fd[w]].seen = arg[w]]
      BY <2>1 DEF Write, Goes, IInv, TypeOK
    <3>2. /\ data' \in [Inodes -> Files] /\ data'[fd[w]].seen = arg[w]
          /\ \A j \in Inodes \ {fd[w]} : data'[j] = data[j]
      BY <1>2, <3>1, SetSeen DEF IInv
    <3>3. QED
      BY <1>1, <1>2, <3>1, <3>2 DEF Staged, Busy
  <2>2. CASE Sync(w)
    <3>1. /\ pc[w] = "written" /\ pc'[w] = "synced"
          /\ data' = [data EXCEPT ![fd[w]].kept = data[fd[w]].seen]
      BY <2>2 DEF Sync, Goes, IInv, TypeOK
    <3>2. /\ data' \in [Inodes -> Files]
          /\ data'[fd[w]].kept = data[fd[w]].seen
          /\ data'[fd[w]].seen = data[fd[w]].seen
          /\ \A j \in Inodes \ {fd[w]} : data'[j] = data[j]
      BY <1>2, <3>1, SetKept DEF IInv
    <3>3. data[fd[w]].seen = arg[w]
      BY <1>2, <3>1 DEF Staged
    <3>4. QED
      BY <1>1, <1>2, <3>1, <3>2, <3>3 DEF Staged, Busy
  <2>3. CASE Chmod(w)
    <3>1. /\ pc[w] = "synced" /\ pc'[w] = "moded"
          /\ data' = [data EXCEPT ![fd[w]].mode = TRUE]
      BY <2>3 DEF Chmod, Goes, IInv, TypeOK
    <3>2. /\ data' \in [Inodes -> Files] /\ data'[fd[w]].mode = TRUE
          /\ data'[fd[w]].kept = data[fd[w]].kept
          /\ data'[fd[w]].seen = data[fd[w]].seen
          /\ \A j \in Inodes \ {fd[w]} : data'[j] = data[j]
      BY <1>2, <3>1, SetMode DEF IInv
    <3>3. data[fd[w]].seen = arg[w] /\ data[fd[w]].kept = arg[w]
      BY <1>2, <3>1 DEF Staged
    <3>4. QED
      BY <1>1, <1>2, <3>1, <3>2, <3>3 DEF Staged, Busy
  <2>4. CASE Close(w)
    <3>1. pc[w] = "moded" /\ pc'[w] = "closed" /\ data' = data
      BY <2>4 DEF Close, Goes, IInv, TypeOK
    <3>2. /\ data' \in [Inodes -> Files] /\ data[fd[w]].seen = arg[w]
          /\ data[fd[w]].kept = arg[w] /\ data[fd[w]].mode
      BY <1>2, <3>1 DEF Staged, IInv, TypeOK
    <3>3. QED
      BY <1>1, <1>2, <3>1, <3>2 DEF Staged, Busy
  <2>5. CASE Fail(w)
    <3>1. pc'[w] = "failed" /\ data' = data
      BY <2>5 DEF Fail, IInv, TypeOK
    <3>2. QED
      BY <1>1, <1>2, <3>1 DEF Staged, Busy, IInv, TypeOK
  <2>6. QED
    BY <2>1, <2>2, <2>3, <2>4, <2>5
<1>4. TypeOK'
  BY <1>1, <1>3 DEF IInv, TypeOK
<1>5. QED
  BY <1>1, <1>3, <1>4, OwnStep

\* A temporary file is created under a name and with an inode nobody uses.
LEMMA CreateStep ==
  ASSUME IInv, NEW w \in Writers, NEW v \in Values, NEW n \in Temps,
         NEW i \in Inodes, CreateTemp(w, v, n, i)
  PROVE  /\ IInv' /\ Register!Begin(w, v)
<1> USE DEF CreateTemp, Goes
<1>1. /\ dir[Target] \in Inodes \cup {None} /\ dir[Target] # i
      /\ medium[Target] \in Inodes \cup {None} /\ medium[Target] # i
      /\ \A m \in Names : dir[m] # i
      /\ \A u \in Writers : fd[u] # i
      /\ n \in Names /\ n # Target /\ n # None /\ i # None
  BY Distinct DEF InUse, IInv, TypeOK
<1>2. /\ ~Busy(w) /\ Busy(w)' /\ arg[w] = NoValue
      /\ pc'[w] = "created" /\ fd'[w] = i /\ tmp'[w] = n /\ arg'[w] = v
      /\ \A u \in Writers \ {w} : /\ pc'[u] = pc[u] /\ fd'[u] = fd[u]
                                  /\ tmp'[u] = tmp[u] /\ arg'[u] = arg[u]
  BY DEF Busy, IInv, TypeOK, Staged
<1>3. /\ \A j \in Inodes \ {i} : data'[j] = data[j]
      /\ dir'[n] = i /\ \A m \in Names \ {n} : dir'[m] = dir[m]
      /\ dir[n] = None /\ medium' = medium
  BY <1>1 DEF IInv, TypeOK
<1>4. TypeOK'
  <2>1. Blank \in Files
    BY DEF Blank, Files
  <2>2. QED
    BY <2>1 DEF IInv, TypeOK, PCs
<1>5. ASSUME NEW u \in Writers PROVE Staged(u)'
  <2>1. CASE u = w
    BY <1>1, <1>2, <1>3, <2>1 DEF Staged, Busy
  <2>2. CASE u # w
    <3>1. Busy(u) => /\ fd[u] \in Inodes \ {i} /\ tmp[u] \in Names \ {n}
                     /\ tmp[u] \in Temps /\ data'[fd[u]] = data[fd[u]]
                     /\ dir'[tmp[u]] = fd[u]
      BY <1>1, <1>3, Distinct DEF IInv, Staged
    <3>2. Staged(u)
      BY DEF IInv
    <3>3. QED
      BY <1>2, <1>3, <2>2, <3>1, <3>2 DEF Staged, Busy
  <2>3. QED
    BY <2>1, <2>2
<1>6. Apart'
  BY <1>1, <1>2 DEF IInv, Apart, Busy
<1>7. OneName(dir)' /\ OneName(medium)'
  BY <1>1, <1>3 DEF IInv, OneName
<1>8. Whole(dir[Target])' /\ Whole(medium[Target])'
  BY <1>1, <1>3, WholeKept DEF IInv, Whole
<1>9. NoLitter'
  <2>1. mishap' = mishap
    OBVIOUS
  <2>2. ASSUME ~mishap, NEW m \in Temps, dir'[m] # None
        PROVE  \E u \in Writers : tmp'[u] = m
    <3>1. CASE m = n
      BY <1>2, <3>1
    <3>2. CASE m # n
      <4>1. PICK u \in Writers : tmp[u] = m
        BY <1>3, <2>2, <3>2, Distinct DEF IInv, NoLitter
      <4>2. u # w
        BY <1>2, <4>1, Distinct DEF IInv, Staged
      <4>3. QED
        BY <1>2, <4>1, <4>2
    <3>3. QED
      BY <3>1, <3>2
  <2>3. QED
    BY <2>1, <2>2 DEF NoLitter
<1>10. Register!Begin(w, v)
  BY <1>1, <1>2, <1>3 DEF Register!Begin, Seen, Kept
<1>11. QED
  BY <1>4, <1>5, <1>6, <1>7, <1>8, <1>9, <1>10 DEF IInv

\* A goroutine that returns leaves those of the others alone.
LEMMA ReturnStep ==
  ASSUME IInv, NEW w \in Writers, Busy(w), ~Busy(w)', Returns(w),
         \A v \in Writers \ {w} : pc'[v] = pc[v],
         \A v \in Writers \ {w} : Busy(v) => dir'[tmp[v]] = dir[tmp[v]],
         UNCHANGED <<data, medium>>
  PROVE  /\ Apart' /\ \A v \in Writers : Staged(v)'
         /\ \A v \in Writers \ {w} : tmp'[v] = tmp[v]
<1>1. /\ arg'[w] = NoValue /\ fd'[w] = None /\ tmp'[w] = None
      /\ \A v \in Writers \ {w} : /\ fd'[v] = fd[v] /\ tmp'[v] = tmp[v]
                                  /\ arg'[v] = arg[v]
  BY DEF Returns, IInv, TypeOK
<1>2. ASSUME NEW v \in Writers PROVE Staged(v)'
  <2>1. CASE v = w
    BY <1>1, <2>1 DEF Staged, Busy
  <2>2. CASE v # w
    <3>1. Staged(v)
      BY DEF IInv
    <3>2. QED
      BY <1>1, <2>2, <3>1 DEF Staged, Busy
  <2>3. QED
    BY <2>1, <2>2
<1>3. Apart'
  BY <1>1 DEF IInv, Apart, Busy
<1>4. QED
  BY <1>1, <1>2, <1>3

\* The rename gives the target's name to a file that is all there.
LEMMA RenameStep ==
  ASSUME IInv, NEW w \in Writers, Rename(w)
  PROVE  IInv' /\ Register!Publish(w)
<1>1. /\ Busy(w) /\ ~Busy(w)' /\ Returns(w) /\ UNCHANGED <<data, medium, mishap>>
      /\ pc' \in [Writers -> PCs] /\ \A v \in Writers \ {w} : pc'[v] = pc[v]
  BY DEF Rename, Goes, Busy, IInv, TypeOK, PCs
<1>2. /\ fd[w] \in Inodes /\ tmp[w] \in Temps /\ arg[w] \in Values
      /\ fd[w] # None /\ dir[tmp[w]] = fd[w] /\ tmp[w] \in Names
      /\ tmp[w] # Target
      /\ \A v \in Writers \ {w} : Busy(v) => tmp[v] # tmp[w]
  BY <1>1, OwnFile, Distinct
<1>3. /\ data[fd[w]].seen = arg[w] /\ data[fd[w]].kept = arg[w]
      /\ data[fd[w]].mode
  BY DEF Rename, Goes, IInv, Staged
<1>4. /\ dir' \in [Names -> Inodes \cup {None}]
      /\ dir'[Target] = fd[w] /\ dir'[tmp[w]] = None
      /\ \A m \in Names \ {Target, tmp[w]} : dir'[m] = dir[m]
  BY <1>2, Distinct DEF Rename, IInv, TypeOK
<1>5. TypeOK'
  BY <1>1, <1>4 DEF Returns, IInv, TypeOK
<1>6. ASSUME NEW v \in Writers \ {w}, Busy(v)
      PROVE  dir'[tmp[v]] = dir[tmp[v]]
  <2>1. tmp[v] \in Names \ {Target, tmp[w]}
    BY <1>2, <1>6, Distinct DEF IInv, Staged
  <2>2. QED
    BY <1>4, <2>1
<1>7. /\ Apart' /\ \A v \in Writers : Staged(v)'
      /\ \A v \in Writers \ {w} : tmp'[v] = tmp[v]
  BY <1>1, <1>6, ReturnStep
<1>8. OneName(dir)' /\ OneName(medium)'
  BY <1>1, <1>2, <1>4 DEF IInv, OneName
<1>9. Whole(dir[Target])' /\ Whole(medium[Target])'
  BY <1>1, <1>3, <1>4, <1>2 DEF IInv, Whole
<1>10. NoLitter'
  <2>1. ASSUME ~mishap, NEW m \in Temps, dir'[m] # None
        PROVE  \E v \in Writers : tmp'[v] = m
    <3>1. m # tmp[w] /\ m \in Names \ {Target, tmp[w]}
      BY <1>4, <2>1, Distinct
    <3>2. PICK v \in Writers : tmp[v] = m
      BY <1>4, <2>1, <3>1 DEF IInv, NoLitter
    <3>3. QED
      BY <1>7, <3>1, <3>2
  <2>2. QED
    BY <1>1, <2>1 DEF NoLitter
<1>11. Register!Publish(w)
  BY <1>1, <1>2, <1>3, <1>4
  DEF Register!Publish, Seen, Kept, Returns
<1>12. QED
  BY <1>5, <1>7, <1>8, <1>9, <1>10, <1>11 DEF IInv

\* The removal touches no other file.
LEMMA RemoveStep ==
  ASSUME IInv, NEW w \in Writers, Remove(w)
  PROVE  IInv' /\ Register!Abort(w)
<1>1. /\ Busy(w) /\ ~Busy(w)' /\ Returns(w) /\ UNCHANGED <<data, medium>>
      /\ pc' \in [Writers -> PCs] /\ \A v \in Writers \ {w} : pc'[v] = pc[v]
  BY DEF Remove, Goes, Busy, IInv, TypeOK, PCs
<1>2. /\ tmp[w] \in Temps /\ arg[w] \in Values /\ tmp[w] \in Names
      /\ tmp[w] # Target
      /\ \A v \in Writers \ {w} : Busy(v) => tmp[v] # tmp[w]
  BY <1>1, OwnFile, Distinct
<1>3. /\ dir' \in [Names -> Inodes \cup {None}]
      /\ \A m \in Names \ {tmp[w]} : dir'[m] = dir[m]
      /\ dir'[tmp[w]] \in {None, dir[tmp[w]]}
      /\ mishap' \/ dir'[tmp[w]] = None
      /\ mishap => mishap'
      /\ mishap' \in BOOLEAN
  <2>1. CASE dir' = [dir EXCEPT ![tmp[w]] = None] /\ UNCHANGED mishap
    BY <1>2, <2>1 DEF IInv, TypeOK
  <2>2. CASE mishap' = TRUE /\ UNCHANGED dir
    BY <1>2, <2>2 DEF IInv, TypeOK
  <2>3. QED
    BY <2>1, <2>2 DEF Remove
<1>4. dir'[Target] = dir[Target]
  BY <1>2, <1>3, Distinct
<1>5. TypeOK'
  BY <1>1, <1>3 DEF Returns, IInv, TypeOK
<1>6. ASSUME NEW v \in Writers \ {w}, Busy(v)
      PROVE  dir'[tmp[v]] = dir[tmp[v]]
  <2>1. tmp[v] \in Names \ {tmp[w]}
    BY <1>2, <1>6, Distinct DEF IInv, Staged
  <2>2. QED
    BY <1>3, <2>1
<1>7. /\ Apart' /\ \A v \in Writers : Staged(v)'
      /\ \A v \in Writers \ {w} : tmp'[v] = tmp[v]
  BY <1>1, <1>6, ReturnStep
<1>8. OneName(dir)' /\ OneName(medium)'
  BY <1>1, <1>2, <1>3 DEF IInv, OneName
<1>9. Whole(dir[Target])' /\ Whole(medium[Target])'
  BY <1>1, <1>4 DEF IInv, Whole
<1>10. NoLitter'
  <2>1. ASSUME ~mishap', NEW m \in Temps, dir'[m] # None
        PROVE  \E v \in Writers : tmp'[v] = m
    <3>1. ~mishap /\ m \in Names \ {tmp[w]} /\ dir[m] # None
      BY <1>3, <2>1, Distinct
    <3>2. PICK v \in Writers : tmp[v] = m
      BY <3>1 DEF IInv, NoLitter
    <3>3. QED
      BY <1>7, <3>1, <3>2
  <2>2. QED
    BY <2>1 DEF NoLitter
<1>11. Register!Abort(w)
  BY <1>1, <1>2, <1>4 DEF Register!Abort, Seen, Kept, Returns
<1>12. QED
  BY <1>5, <1>7, <1>8, <1>9, <1>10, <1>11 DEF IInv

-----------------------------------------------------------------------------
(* The kernel and the machine keep the invariant *)

\* A file that is whole does not change when it is written back.
LEMMA FlushFileStep ==
  ASSUME IInv, NEW i \in Inodes, FlushFile(i)
  PROVE  IInv' /\ UNCHANGED <<Seen(dir[Target]), Kept(medium[Target]), arg>>
<1>1. data[i].seen \in Values \cup {Torn}
  BY DEF IInv, TypeOK, Files
<1>2. /\ data' \in [Inodes -> Files]
      /\ data'[i].kept = data[i].seen /\ data'[i].seen = data[i].seen
      /\ data'[i].mode = data[i].mode
      /\ \A j \in Inodes \ {i} : data'[j] = data[j]
  BY <1>1, SetKept DEF FlushFile, IInv
<1>3. UNCHANGED <<pc, arg, fd, tmp, dir, medium, mishap>>
  BY DEF FlushFile
<1>4. ASSUME NEW w \in Writers PROVE Staged(w)'
  <2>1. Staged(w)
    BY DEF IInv
  <2>2. CASE fd[w] = i
    BY <1>2, <1>3, <2>1, <2>2 DEF Staged, Busy
  <2>3. CASE fd[w] # i
    <3>1. Busy(w) => data'[fd[w]] = data[fd[w]]
      BY <1>2, <2>1, <2>3 DEF Staged
    <3>2. QED
      BY <1>3, <2>1, <3>1 DEF Staged, Busy
  <2>4. QED
    BY <2>2, <2>3
<1>5. /\ dir[Target] \in Inodes \cup {None} /\ dir[Target] # i
      /\ medium[Target] \in Inodes \cup {None} /\ medium[Target] # i
  BY Distinct DEF FlushFile, IInv, TypeOK, Whole
<1>6. Whole(dir[Target])' /\ Whole(medium[Target])'
  BY <1>2, <1>3, <1>5, WholeKept DEF IInv, Whole
<1>7. UNCHANGED <<Seen(dir[Target]), Kept(medium[Target]), arg>>
  BY <1>2, <1>3, <1>5 DEF Seen, Kept
<1>8. TypeOK' /\ NoLitter' /\ Apart' /\ OneName(dir)' /\ OneName(medium)'
  BY <1>2, <1>3 DEF IInv, TypeOK, NoLitter, Apart, Busy, OneName
<1>9. QED
  BY <1>4, <1>6, <1>7, <1>8 DEF IInv

\* The directory reaches the medium when the file it leads to is whole.
LEMMA FlushDirectoryStep ==
  ASSUME IInv, FlushDirectory
  PROVE  IInv' /\ Register!Stabilize
<1>1. /\ UNCHANGED <<pc, arg, fd, tmp, data, dir, mishap>> /\ medium' = dir
  BY DEF FlushDirectory
<1>2. ASSUME NEW w \in Writers PROVE Staged(w)'
  <2>1. Busy(w) => medium'[Target] # fd[w]
    BY <1>1, OwnFile
  <2>2. QED
    BY <1>1, <2>1 DEF IInv, Staged, Busy
<1>3. TypeOK' /\ NoLitter' /\ Apart' /\ OneName(dir)' /\ OneName(medium)'
  BY <1>1 DEF IInv, TypeOK, NoLitter, Apart, Busy, OneName
<1>4. Whole(dir[Target])' /\ Whole(medium[Target])'
  BY <1>1 DEF IInv, Whole
<1>5. Register!Stabilize
  BY <1>1 DEF Register!Stabilize, Seen, Kept, IInv, Whole
<1>6. QED
  BY <1>2, <1>3, <1>4, <1>5 DEF IInv

\* Nobody is left in WriteFileAtomic, and temporary files may stay behind.
LEMMA GoneStep ==
  ASSUME IInv, ProcessGone
  PROVE  /\ Apart' /\ (\A w \in Writers : Staged(w)') /\ NoLitter'
         /\ arg' = Register!Nobody
         /\ pc' \in [Writers -> PCs] /\ mishap' \in BOOLEAN
         /\ arg' \in [Writers -> Values \cup {NoValue}]
         /\ fd' \in [Writers -> Inodes \cup {None}]
         /\ tmp' \in [Writers -> Temps \cup {None}]
BY DEF ProcessGone, Apart, Busy, Staged, NoLitter, Register!Nobody, PCs

LEMMA CrashStep ==
  ASSUME IInv, Crash
  PROVE  IInv' /\ Register!Crash
<1>1. UNCHANGED <<data, dir, medium>> /\ ProcessGone
  BY DEF Crash
<1>2. TypeOK'
  BY <1>1, GoneStep DEF IInv, TypeOK
<1>3. OneName(dir)' /\ OneName(medium)'
      /\ Whole(dir[Target])' /\ Whole(medium[Target])'
  BY <1>1 DEF IInv, OneName, Whole
<1>4. Register!Crash
  BY <1>1, GoneStep DEF Register!Crash, Seen, Kept
<1>5. QED
  BY <1>1, <1>2, <1>3, <1>4, GoneStep DEF IInv

\* After a loss of power everything is as it is on the medium.
LEMMA PowerLossStep ==
  ASSUME IInv, PowerLoss
  PROVE  IInv' /\ Register!PowerLoss
<1>1. medium' = medium /\ dir' = medium /\ ProcessGone
  BY DEF PowerLoss
<1>2. /\ data' \in [Inodes -> Files]
      /\ \A i \in Inodes : /\ data'[i].seen = data[i].kept
                           /\ data'[i].kept = data[i].kept
                           /\ data'[i].mode = data[i].mode
  BY DEF PowerLoss, IInv, TypeOK, Files
<1>3. medium[Target] \in Inodes \cup {None}
  BY Distinct DEF IInv, TypeOK
<1>4. TypeOK'
  BY <1>1, <1>2, GoneStep DEF IInv, TypeOK
<1>5. OneName(dir)' /\ OneName(medium)'
  BY <1>1 DEF IInv, OneName
<1>6. Whole(dir[Target])' /\ Whole(medium[Target])'
  BY <1>1, <1>2, <1>3 DEF IInv, Whole
<1>7. Register!PowerLoss
  BY <1>1, <1>2, <1>3, GoneStep DEF Register!PowerLoss, Seen, Kept
<1>8. QED
  BY <1>1, <1>4, <1>5, <1>6, <1>7, GoneStep DEF IInv

-----------------------------------------------------------------------------
(* The whole *)

LEMMA InitHolds == Init => IInv /\ Register!Init
<1>1. Init => TypeOK
  <2>1. Blank \in Files
    BY DEF Blank, Files
  <2>2. QED
    BY <2>1 DEF Init, TypeOK, PCs
<1>2. Init => /\ NoLitter /\ Apart /\ \A w \in Writers : Staged(w)
              /\ OneName(dir) /\ OneName(medium)
              /\ Whole(dir[Target]) /\ Whole(medium[Target])
  BY Distinct DEF Init, NoLitter, Apart, Busy, Staged, OneName, Whole
<1>3. Init => Register!Init
  BY Distinct DEF Init, Register!Init, Register!Nobody, Seen, Kept
<1>4. QED
  BY <1>1, <1>2, <1>3 DEF IInv

\* What a step of a writer or of the machine is to the register.
LEMMA StepMaps ==
  ASSUME IInv, [Next]_vars
  PROVE  IInv' /\ [Register!Next]_(Register!vars)
<1>1. ASSUME NEW w \in Writers, Step(w)
      PROVE  IInv' /\ [Register!Next]_(Register!vars)
  <2>1. ASSUME NEW v \in Values, NEW n \in Temps, NEW i \in Inodes,
               CreateTemp(w, v, n, i)
        PROVE  IInv' /\ Register!Next
    BY <2>1, CreateStep DEF Register!Next
  <2>2. CASE Write(w) \/ Sync(w) \/ Chmod(w) \/ Close(w) \/ Fail(w)
    BY <2>2, MiddleStep DEF Register!vars
  <2>3. CASE Rename(w)
    BY <2>3, RenameStep DEF Register!Next
  <2>4. CASE Remove(w)
    BY <2>4, RemoveStep DEF Register!Next
  <2>5. QED
    BY <1>1, <2>1, <2>2, <2>3, <2>4 DEF Step
<1>2. ASSUME NEW i \in Inodes, FlushFile(i)
      PROVE  IInv' /\ [Register!Next]_(Register!vars)
  BY <1>2, FlushFileStep DEF Register!vars
<1>3. CASE FlushDirectory \/ Crash \/ PowerLoss
  BY <1>3, FlushDirectoryStep, CrashStep, PowerLossStep DEF Register!Next
<1>4. CASE UNCHANGED vars
  <2>1. UNCHANGED <<pc, arg, fd, tmp, data, dir, medium, mishap>>
    BY <1>4 DEF vars
  <2>2. TypeOK' /\ NoLitter' /\ Apart' /\ OneName(dir)' /\ OneName(medium)'
    BY <2>1 DEF IInv, TypeOK, NoLitter, Apart, Busy, OneName
  <2>3. (\A w \in Writers : Staged(w)')
        /\ Whole(dir[Target])' /\ Whole(medium[Target])'
    BY <2>1 DEF IInv, Staged, Busy, Whole
  <2>4. UNCHANGED Register!vars
    BY <2>1 DEF Register!vars, Seen, Kept
  <2>5. QED
    BY <2>2, <2>3, <2>4 DEF IInv
<1>5. QED
  BY <1>1, <1>2, <1>3, <1>4 DEF Next

LEMMA InvariantHolds == Spec => []IInv
BY InitHolds, StepMaps, PTL DEF Spec

\* Every variable keeps its type.
THEOREM TypeCorrect == Spec => []TypeOK
<1>1. IInv => TypeOK
  BY DEF IInv
<1>2. QED
  BY <1>1, InvariantHolds, PTL

\* Readers never see partial content, for any number of concurrent writes,
\* crashes and losses of power (oshelper.go:314-315).
THEOREM ReadersSeeWholes == Spec => []NeverTorn
<1>1. IInv => NeverTorn
  BY DEF IInv, Whole, NeverTorn
<1>2. QED
  BY <1>1, InvariantHolds, PTL

\* A write that fails cleans up after itself (oshelper.go:324-329).
THEOREM FailuresCleanUp == Spec => []NoLitter
<1>1. IInv => NoLitter
  BY DEF IInv
<1>2. QED
  BY <1>1, InvariantHolds, PTL

\* WriteFileAtomic is the register it promises to be: every behaviour of its
\* system calls is one of AtomicRegister (oshelper.go:314-351).
THEOREM FileIsRegister == Spec => ImplementsRegister
<1>1. Init => Register!Init
  BY InitHolds
<1>2. IInv /\ [Next]_vars => [Register!Next]_(Register!vars)
  BY StepMaps
<1>3. QED
  BY <1>1, <1>2, InvariantHolds, PTL DEF Spec, ImplementsRegister, Register!Spec

=============================================================================
