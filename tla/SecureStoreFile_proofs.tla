----------------------- MODULE SecureStoreFile_proofs -----------------------
(***************************************************************************)
(* Theorems about SecureStoreFile for any number of callers, changes and    *)
(* temporary names and every choice of faults: the invariants of the file,  *)
(* and that it implements AtomicFile.                                       *)
(***************************************************************************)
EXTENDS SecureStoreFile, SequenceTheorems, TLAPS

-----------------------------------------------------------------------------
(* The inductive invariant                                                  *)

\* What a caller at label l has in its job j.
JobAt(l, j) ==
  /\ l \in Locked \cup {"lock"} =>
       /\ j.id \in Ids
       /\ j.op = IF kind = "config" THEN "update" ELSE "replace"
  /\ l \in Writing \cup {"syncdir", "cleanup"} => j.name \in Names
  /\ j.done => l \in {"cleanup", "unlock"}
  /\ l = "remove" => kind = "cache"

\* What a caller inside the lock knows of the files.
FilesAt(c) ==
  LET l == pc[c]  j == job[c] IN
  /\ l \in Locked => holder = c
  /\ l \in Writing => j.name \in present
  /\ l \in {"create"} \cup Writing /\ kind = "config" => j.seen = Visible.data
  /\ l \in {"sync", "rename"} =>
       temp[j.name].data = NewContent(j) /\ temp[j.name].whole
  /\ l = "rename" => temp[j.name].synced
  /\ l = "syncdir" /\ kind = "config" => j.id \in Visible.data
  /\ j.done /\ kind = "config" => \A i \in 1..Len(disk) : j.id \in disk[i].data

\* Every file the path may lead to is complete and durable, and contains
\* what callers were told of.
DiskOK ==
  \A i \in 1..Len(disk) :
    /\ disk[i].whole /\ disk[i].synced
    /\ kind = "config" => acked \subseteq disk[i].data

IInv ==
  /\ TypeOK /\ DiskOK
  /\ \A c \in Callers : JobAt(pc[c], job[c]) /\ FilesAt(c)

-----------------------------------------------------------------------------
(* Files in order                                                           *)

LEMMA VisibleType == TypeOK => Visible \in FileSet /\ Len(disk) \in Nat \ {0}
BY DEF TypeOK, Visible, Last

LEMMA AppendOK ==
  ASSUME TypeOK, NEW f \in FileSet, disk' = Append(disk, f)
  PROVE  /\ disk' \in Seq(FileSet) /\ disk' # <<>> /\ Visible' = f
         /\ Len(disk') = Len(disk) + 1
         /\ \A i \in 1..Len(disk') :
              disk'[i] = IF i = Len(disk) + 1 THEN f ELSE disk[i]
BY DEF TypeOK, Visible, Last

LEMMA TailOK ==
  ASSUME TypeOK, Len(disk) > 1, disk' = Tail(disk)
  PROVE  /\ disk' \in Seq(FileSet) /\ disk' # <<>> /\ Visible' = Visible
         /\ Len(disk') = Len(disk) - 1
         /\ \A i \in 1..Len(disk') :
              i + 1 \in 1..Len(disk) /\ disk'[i] = disk[i + 1]
<1>1. /\ disk' \in Seq(FileSet) /\ Len(disk') = Len(disk) - 1
      /\ \A i \in 1..Len(disk') : disk'[i] = disk[i + 1]
  BY HeadTailProperties DEF TypeOK
<1>2. Len(disk) \in Nat
  BY DEF TypeOK
<1>3. disk' # <<>> /\ Len(disk') \in 1..Len(disk')
  <2>1. Len(disk') # 0 /\ Len(disk') \in 1..Len(disk')
    BY <1>1, <1>2
  <2>. QED  BY <2>1, EmptySeq
<1>4. disk'[Len(disk')] = disk[Len(disk)]
  BY <1>1, <1>2, <1>3
<1>. QED  BY <1>1, <1>2, <1>3, <1>4 DEF Visible, Last

LEMMA SingleOK ==
  ASSUME NEW f \in FileSet, disk' = <<f>>
  PROVE  /\ disk' \in Seq(FileSet) /\ disk' # <<>> /\ Visible' = f
         /\ Len(disk') = 1 /\ disk'[1] = f
BY DEF Visible, Last

-----------------------------------------------------------------------------
(* Steps in general                                                         *)

\* What a caller knows outlives the steps of the others: they are outside
\* the lock, or they own it and then it knows nothing.
LEMMA OthersOK ==
  ASSUME IInv, NEW c \in Callers, NEW q \in Callers, q # c,
         kind' = kind, pc'[q] = pc[q], job'[q] = job[q],
         \/ holder \in {c, NoCaller}
         \/ /\ UNCHANGED <<holder, present, temp>>
            /\ kind = "config" => UNCHANGED disk
  PROVE  JobAt(pc[q], job[q])' /\ FilesAt(q)'
<1>1. JobAt(pc[q], job[q])'
  BY DEF IInv, JobAt
<1>2. CASE pc[q] \in Locked
  <2>1. holder = q /\ q # NoCaller
    BY <1>2, FileAssumption DEF IInv, FilesAt, FileAssumption
  <2>2. /\ UNCHANGED <<holder, present, temp>>
        /\ kind = "config" => UNCHANGED disk
    BY <2>1
  <2>. QED  BY <1>1, <2>2 DEF IInv, FilesAt, Visible, NewContent
<1>3. CASE pc[q] \notin Locked
  BY <1>3 DEF IInv, JobAt, FilesAt, Locked, Writing
<1>. QED  BY <1>1, <1>2, <1>3

LEMMA MoveOK ==
  ASSUME IInv, NEW c \in Callers, NEW l \in PCs, NEW j \in JobSet,
         pc' = [pc EXCEPT ![c] = l], job' = [job EXCEPT ![c] = j],
         kind' = kind, TypeOK', DiskOK', JobAt(l, j), FilesAt(c)',
         \/ holder \in {c, NoCaller}
         \/ /\ UNCHANGED <<holder, present, temp>>
            /\ kind = "config" => UNCHANGED disk
  PROVE  IInv'
<1>1. /\ pc'[c] = l /\ job'[c] = j
      /\ \A q \in Callers : q # c => pc'[q] = pc[q] /\ job'[q] = job[q]
  BY DEF IInv, TypeOK
<1>2. JobAt(pc[c], job[c])'
  BY <1>1 DEF JobAt
<1>3. \A q \in Callers : JobAt(pc[q], job[q])' /\ FilesAt(q)'
  BY <1>1, <1>2, OthersOK
<1>. QED  BY <1>3 DEF IInv

\* A step that leaves the files alone.
LEMMA StillOK ==
  ASSUME IInv, UNCHANGED <<kind, disk, acked>>
  PROVE  DiskOK' /\ Visible' = Visible
BY DEF IInv, DiskOK, Visible

LEMMA NoJobType == NoJob \in JobSet
BY FileAssumption DEF NoJob, JobSet, FileAssumption

LEMMA InitIInv == Init => IInv
<1>. SUFFICES ASSUME Init PROVE IInv
  OBVIOUS
<1>1. NoFile \in FileSet /\ Empty \in FileSet
  BY DEF NoFile, Empty, FileSet
<1>2. disk \in Seq(FileSet) /\ Len(disk) = 1 /\ disk[1] = NoFile
  BY <1>1 DEF Init
<1>3. TypeOK
  BY <1>1, <1>2, NoJobType, FileAssumption
  DEF Init, TypeOK, PCs, FileAssumption, Ids
<1>4. DiskOK
  BY <1>2 DEF Init, DiskOK, NoFile
<1>5. \A c \in Callers : JobAt(pc[c], job[c]) /\ FilesAt(c)
  BY DEF Init, JobAt, FilesAt, NoJob, Locked, Writing
<1>. QED  BY <1>3, <1>4, <1>5 DEF IInv

\* A caller that moves and changes nothing else.
LEMMA GotoOK ==
  ASSUME IInv, NEW c \in Callers, NEW l \in PCs, Goto(c, l),
         UNCHANGED <<kind, disk, present, temp, holder, job, used, acked>>,
         UNCHANGED orphans,
         JobAt(l, job[c]),
         l \in Locked => holder = c,
         l \notin Writing \cup {"create", "syncdir"}
  PROVE  IInv'
<1>1. pc' = [pc EXCEPT ![c] = l] /\ job' = [job EXCEPT ![c] = job[c]]
  BY DEF Goto, IInv, TypeOK
<1>2. TypeOK'
  BY <1>1 DEF IInv, TypeOK
<1>3. FilesAt(c)'
  BY <1>1 DEF IInv, TypeOK, FilesAt, Writing
<1>4. job[c] \in JobSet
  BY DEF IInv, TypeOK
<1>. QED  BY <1>1, <1>2, <1>3, <1>4, StillOK, MoveOK

LEMMA FailsOK ==
  ASSUME IInv, NEW c \in Callers, NEW from \in PCs, NEW to \in PCs,
         Fails(c, from, to),
         \/ from \in {"lock", "remove"} /\ to = "idle"
         \/ from \in Writing \cup {"syncdir"} /\ to = "cleanup"
  PROVE  IInv'
<1>1. /\ pc[c] = from /\ Goto(c, to)
      /\ UNCHANGED <<kind, disk, present, temp, holder, job, used, acked>>
      /\ UNCHANGED orphans
  BY DEF Fails
<1>2. JobAt(from, job[c]) /\ FilesAt(c)
  BY <1>1 DEF IInv
<1>3. JobAt(to, job[c])
  BY <1>2 DEF JobAt, Locked, Writing
<1>4. to \in Locked => holder = c
  BY <1>1, <1>2 DEF FilesAt, Locked, Writing
<1>. QED  BY <1>1, <1>3, <1>4, GotoOK DEF Writing

-----------------------------------------------------------------------------
(* UpdateFile                                                               *)

LEMMA BeginOK ==
  ASSUME IInv, NEW c \in Callers, Begin(c)
  PROVE  IInv'
<1>1. PICK op \in IF kind = "config" THEN {"update"}
                  ELSE {"replace", "remove"} :
        /\ job' = [job EXCEPT ![c] = [NoJob EXCEPT !.op = op, !.id = used']]
        /\ Goto(c, IF op = "remove" THEN "remove" ELSE "lock")
  BY DEF Begin
<1>2. /\ used < MaxId /\ used' = used + 1
      /\ UNCHANGED <<kind, disk, present, temp, holder, acked, orphans>>
  BY DEF Begin
<1>. DEFINE j == [NoJob EXCEPT !.op = op, !.id = used']
            l == IF op = "remove" THEN "remove" ELSE "lock"
<1>3. used' \in 0..MaxId /\ used' \in Ids
  BY <1>2, FileAssumption DEF IInv, TypeOK, FileAssumption, Ids
<1>4. /\ j \in JobSet /\ j.op = op /\ j.id = used' /\ ~j.done
      /\ l \in {"remove", "lock"} /\ (l = "remove" <=> op = "remove")
  BY <1>1, <1>3, NoJobType DEF JobSet, NoJob
<1>5. pc' = [pc EXCEPT ![c] = l] /\ job' = [job EXCEPT ![c] = j]
  BY <1>1 DEF Goto
<1>. HIDE DEF j, l
<1>6. TypeOK'
  BY <1>2, <1>3, <1>4, <1>5 DEF IInv, TypeOK, PCs
<1>7. JobAt(l, j)
  BY <1>1, <1>3, <1>4 DEF JobAt, Locked, Writing, IInv, TypeOK
<1>8. FilesAt(c)'
  BY <1>4, <1>5 DEF FilesAt, Locked, Writing, IInv, TypeOK
<1>. QED  BY <1>2, <1>4, <1>5, <1>6, <1>7, <1>8, StillOK, MoveOK DEF PCs

LEMMA LockOK ==
  ASSUME IInv, NEW c \in Callers, Lock(c)
  PROVE  IInv'
<1>1. /\ pc[c] = "lock" /\ holder = NoCaller /\ holder' = c
      /\ pc' = [pc EXCEPT ![c] = "read"] /\ job' = [job EXCEPT ![c] = job[c]]
      /\ UNCHANGED <<kind, disk, present, temp, job, used, acked, orphans>>
  BY DEF Lock, Goto, IInv, TypeOK
<1>2. TypeOK' /\ job[c] \in JobSet
  BY <1>1 DEF IInv, TypeOK, PCs, Locked
<1>3. JobAt("lock", job[c])
  BY <1>1 DEF IInv
<1>4. JobAt("read", job[c])
  BY <1>3 DEF JobAt, Locked, Writing
<1>5. FilesAt(c)'
  BY <1>1, <1>3 DEF FilesAt, JobAt, Writing, IInv, TypeOK
<1>. QED  BY <1>1, <1>2, <1>4, <1>5, StillOK, MoveOK DEF PCs, Locked

LEMMA ReadOK ==
  ASSUME IInv, NEW c \in Callers, Read(c)
  PROVE  IInv'
<1>. DEFINE j == [job[c] EXCEPT !.seen = Visible.data]
<1>1. /\ pc[c] = "read" /\ pc' = [pc EXCEPT ![c] = "create"]
      /\ job' = [job EXCEPT ![c] = j]
      /\ UNCHANGED <<kind, disk, present, temp, holder, used, acked, orphans>>
  BY DEF Read, Goto
<1>2. JobAt("read", job[c]) /\ holder = c
  BY <1>1 DEF IInv, FilesAt, Locked
<1>3. /\ j \in JobSet /\ j.seen = Visible.data /\ j.op = job[c].op
      /\ j.id = job[c].id /\ j.done = job[c].done
  BY VisibleType DEF IInv, TypeOK, JobSet, FileSet
<1>. HIDE DEF j
<1>4. TypeOK'
  BY <1>1, <1>3 DEF IInv, TypeOK, PCs, Locked
<1>5. JobAt("create", j)
  BY <1>2, <1>3 DEF JobAt, Locked, Writing
<1>6. FilesAt(c)'
  BY <1>1, <1>2, <1>3, <1>5, StillOK
  DEF FilesAt, JobAt, Writing, IInv, TypeOK
<1>. QED
  BY <1>1, <1>2, <1>3, <1>4, <1>5, <1>6, StillOK, MoveOK DEF PCs, Locked

LEMMA RefuseOK ==
  ASSUME IInv, NEW c \in Callers, Refuse(c) \/ CreateFails(c)
  PROVE  IInv'
<1>1. /\ pc[c] \in {"read", "create"} /\ Goto(c, "unlock")
      /\ UNCHANGED <<kind, disk, present, temp, holder, job, used, acked>>
      /\ UNCHANGED orphans
  BY DEF Refuse, CreateFails
<1>2. JobAt(pc[c], job[c]) /\ holder = c
  BY <1>1 DEF IInv, FilesAt, Locked
<1>3. JobAt("unlock", job[c])
  BY <1>1, <1>2 DEF JobAt, Locked, Writing
<1>. QED  BY <1>1, <1>2, <1>3, GotoOK DEF PCs, Locked, Writing

-----------------------------------------------------------------------------
(* atomicWrite                                                              *)

LEMMA CreateOK ==
  ASSUME IInv, NEW c \in Callers, Create(c)
  PROVE  IInv'
<1>1. PICK n \in Names \ present :
        /\ present' = present \cup {n}
        /\ temp' = [temp EXCEPT ![n] = Empty]
        /\ job' = [job EXCEPT ![c].name = n]
  BY DEF Create
<1>. DEFINE j == [job[c] EXCEPT !.name = n]
<1>2. /\ pc[c] = "create" /\ pc' = [pc EXCEPT ![c] = "write"]
      /\ job' = [job EXCEPT ![c] = j]
      /\ UNCHANGED <<kind, disk, holder, used, acked, orphans>>
  BY <1>1 DEF Create, Goto
<1>3. JobAt("create", job[c]) /\ FilesAt(c)
  BY <1>2 DEF IInv
<1>4. /\ j \in JobSet /\ j.name = n /\ j.seen = job[c].seen
      /\ j.op = job[c].op /\ j.id = job[c].id /\ j.done = job[c].done
  BY DEF IInv, TypeOK, JobSet
<1>. HIDE DEF j
<1>5. TypeOK'
  BY <1>1, <1>2, <1>4 DEF IInv, TypeOK, PCs, Locked, Writing, Empty, FileSet
<1>6. JobAt("write", j)
  BY <1>3, <1>4 DEF JobAt, Locked, Writing
<1>7. holder = c /\ (kind = "config" => job[c].seen = Visible.data) /\ ~j.done
  BY <1>2, <1>3, <1>4 DEF FilesAt, JobAt, Locked
<1>8. pc'[c] = "write" /\ job'[c] = j
  BY <1>2 DEF IInv, TypeOK
<1>9. FilesAt(c)'
  BY <1>1, <1>2, <1>4, <1>7, <1>8, StillOK DEF FilesAt
<1>. QED
  BY <1>2, <1>4, <1>5, <1>6, <1>7, <1>9, StillOK, MoveOK
  DEF PCs, Locked, Writing

LEMMA CreateLeavesOK ==
  ASSUME IInv, NEW c \in Callers, CreateLeaves(c)
  PROVE  IInv'
<1>1. PICK n \in Names \ present :
        /\ present' = present \cup {n}
        /\ temp' = [temp EXCEPT ![n] = Empty]
        /\ orphans' = orphans \cup {n}
  BY DEF CreateLeaves
<1>2. /\ pc[c] = "create" /\ pc' = [pc EXCEPT ![c] = "unlock"]
      /\ job' = [job EXCEPT ![c] = job[c]]
      /\ UNCHANGED <<kind, disk, holder, job, used, acked>>
  BY <1>1 DEF CreateLeaves, Goto, IInv, TypeOK
<1>3. JobAt("create", job[c]) /\ holder = c /\ job[c] \in JobSet
  BY <1>2 DEF IInv, FilesAt, Locked, TypeOK
<1>4. TypeOK'
  BY <1>1, <1>2 DEF IInv, TypeOK, PCs, Locked, Empty, FileSet
<1>5. JobAt("unlock", job[c]) /\ ~job[c].done
  BY <1>3 DEF JobAt, Locked, Writing
<1>6. pc'[c] = "unlock"
  BY <1>2 DEF IInv, TypeOK
<1>7. FilesAt(c)'
  BY <1>2, <1>3, <1>5, <1>6 DEF FilesAt, Writing
<1>. QED
  BY <1>2, <1>3, <1>4, <1>5, <1>7, StillOK, MoveOK DEF PCs, Locked

\* What a caller about to rename knows makes its content a whole one.
LEMMA NewContentOK ==
  ASSUME IInv, NEW c \in Callers, pc[c] \in Writing
  PROVE  /\ NewContent(job[c]) \in SUBSET Ids
         /\ kind = "config" =>
              /\ acked \subseteq NewContent(job[c])
              /\ job[c].id \in NewContent(job[c])
<1>1. JobAt(pc[c], job[c]) /\ FilesAt(c) /\ job[c] \in JobSet
  BY DEF IInv, TypeOK
<1>2. job[c].id \in Ids /\ job[c].seen \in SUBSET Ids
  BY <1>1 DEF JobAt, JobSet, Locked
<1>3. NewContent(job[c]) \in SUBSET Ids
  BY <1>2 DEF NewContent
<1>4. ASSUME kind = "config"
      PROVE  acked \subseteq job[c].seen /\ job[c].op = "update"
  <2>1. job[c].seen = Visible.data /\ job[c].op = "update"
    BY <1>1, <1>4 DEF FilesAt, JobAt, Locked
  <2>2. acked \subseteq disk[Len(disk)].data
    BY <1>4, VisibleType DEF IInv, DiskOK
  <2>. QED  BY <2>1, <2>2 DEF Visible, Last
<1>. QED  BY <1>3, <1>4 DEF NewContent

LEMMA WriteOK ==
  ASSUME IInv, NEW c \in Callers, Write(c)
  PROVE  IInv'
<1>. DEFINE f == [data |-> NewContent(job[c]), whole |-> TRUE, synced |-> FALSE]
<1>1. /\ pc[c] = "write" /\ pc' = [pc EXCEPT ![c] = "sync"]
      /\ temp' = [temp EXCEPT ![job[c].name] = f]
      /\ job' = [job EXCEPT ![c] = job[c]]
      /\ UNCHANGED <<kind, disk, present, holder, job, used, acked, orphans>>
  BY DEF Write, Goto, IInv, TypeOK
<1>2. JobAt("write", job[c]) /\ FilesAt(c) /\ job[c] \in JobSet
  BY <1>1 DEF IInv, TypeOK
<1>3. f \in FileSet /\ f.data = NewContent(job[c]) /\ f.whole
  BY <1>1, NewContentOK DEF FileSet, Writing
<1>. HIDE DEF f
<1>4. TypeOK'
  BY <1>1, <1>3 DEF IInv, TypeOK, PCs, Locked, Writing
<1>5. JobAt("sync", job[c])
  BY <1>2 DEF JobAt, Locked, Writing
<1>6. /\ holder = c /\ job[c].name \in present /\ job[c].name \in Names
      /\ kind = "config" => job[c].seen = Visible.data
      /\ ~job[c].done
  BY <1>1, <1>2 DEF FilesAt, JobAt, Locked, Writing
<1>7. pc'[c] = "sync" /\ temp'[job[c].name] = f
  BY <1>1, <1>6 DEF IInv, TypeOK
<1>8. FilesAt(c)'
  BY <1>1, <1>3, <1>6, <1>7, StillOK DEF FilesAt, NewContent
<1>. QED
  BY <1>1, <1>2, <1>4, <1>5, <1>6, <1>8, StillOK, MoveOK
  DEF PCs, Locked, Writing

LEMMA SyncFileOK ==
  ASSUME IInv, NEW c \in Callers, SyncFile(c)
  PROVE  IInv'
<1>. DEFINE f == [temp[job[c].name] EXCEPT !.synced = TRUE]
<1>1. /\ pc[c] = "sync" /\ pc' = [pc EXCEPT ![c] = "rename"]
      /\ temp' = [temp EXCEPT ![job[c].name] = f]
      /\ job' = [job EXCEPT ![c] = job[c]]
      /\ UNCHANGED <<kind, disk, present, holder, job, used, acked, orphans>>
  BY DEF SyncFile, Goto, IInv, TypeOK
<1>2. JobAt("sync", job[c]) /\ FilesAt(c) /\ job[c] \in JobSet
  BY <1>1 DEF IInv, TypeOK
<1>3. /\ holder = c /\ job[c].name \in present /\ job[c].name \in Names
      /\ kind = "config" => job[c].seen = Visible.data
      /\ temp[job[c].name].data = NewContent(job[c])
      /\ temp[job[c].name].whole /\ ~job[c].done
  BY <1>1, <1>2 DEF FilesAt, JobAt, Locked, Writing
<1>4. /\ f \in FileSet /\ f.data = NewContent(job[c]) /\ f.whole /\ f.synced
  BY <1>3 DEF FileSet, IInv, TypeOK
<1>. HIDE DEF f
<1>5. TypeOK'
  BY <1>1, <1>4 DEF IInv, TypeOK, PCs, Locked, Writing
<1>6. JobAt("rename", job[c])
  BY <1>2 DEF JobAt, Locked, Writing
<1>7. pc'[c] = "rename" /\ temp'[job[c].name] = f
  BY <1>1, <1>3 DEF IInv, TypeOK
<1>8. FilesAt(c)'
  BY <1>1, <1>3, <1>4, <1>7, StillOK DEF FilesAt, NewContent
<1>. QED
  BY <1>1, <1>2, <1>3, <1>5, <1>6, <1>8, StillOK, MoveOK
  DEF PCs, Locked, Writing

LEMMA RenameOK ==
  ASSUME IInv, NEW c \in Callers, Rename(c)
  PROVE  IInv'
<1>. DEFINE f == temp[job[c].name]
<1>1. /\ pc[c] = "rename" /\ pc' = [pc EXCEPT ![c] = "syncdir"]
      /\ disk' = Append(disk, f) /\ present' = present \ {job[c].name}
      /\ job' = [job EXCEPT ![c] = job[c]]
      /\ UNCHANGED <<kind, temp, holder, job, used, acked, orphans>>
  BY DEF Rename, Goto, IInv, TypeOK
<1>2. JobAt("rename", job[c]) /\ FilesAt(c) /\ job[c] \in JobSet
  BY <1>1 DEF IInv, TypeOK
<1>3. /\ holder = c /\ job[c].name \in Names
      /\ f.data = NewContent(job[c]) /\ f.whole /\ f.synced /\ ~job[c].done
  BY <1>1, <1>2 DEF FilesAt, JobAt, Locked, Writing
<1>4. f \in FileSet
  BY <1>3 DEF IInv, TypeOK
<1>5. kind = "config" => acked \subseteq f.data /\ job[c].id \in f.data
  BY <1>1, <1>3, NewContentOK DEF Writing
<1>. HIDE DEF f
<1>6. /\ disk' \in Seq(FileSet) /\ disk' # <<>> /\ Visible' = f
      /\ Len(disk') = Len(disk) + 1
      /\ \A i \in 1..Len(disk') :
           disk'[i] = IF i = Len(disk) + 1 THEN f ELSE disk[i]
  BY <1>1, <1>4, AppendOK DEF IInv
<1>7. TypeOK'
  BY <1>1, <1>6 DEF IInv, TypeOK, PCs, Locked
<1>8. DiskOK'
  BY <1>1, <1>3, <1>5, <1>6, VisibleType DEF DiskOK, IInv
<1>9. JobAt("syncdir", job[c])
  BY <1>2 DEF JobAt, Locked, Writing
<1>10. pc'[c] = "syncdir"
  BY <1>1 DEF IInv, TypeOK
<1>11. FilesAt(c)'
  BY <1>1, <1>3, <1>5, <1>6, <1>10 DEF FilesAt, Writing
<1>. QED
  BY <1>1, <1>2, <1>3, <1>7, <1>8, <1>9, <1>11, MoveOK DEF PCs, Locked

LEMMA SyncDirOK ==
  ASSUME IInv, NEW c \in Callers, SyncDir(c)
  PROVE  IInv'
<1>. DEFINE j == [job[c] EXCEPT !.done = TRUE]
<1>1. /\ pc[c] = "syncdir" /\ pc' = [pc EXCEPT ![c] = "cleanup"]
      /\ disk' = <<Visible>> /\ job' = [job EXCEPT ![c] = j]
      /\ UNCHANGED <<kind, present, temp, holder, used, acked, orphans>>
  BY DEF SyncDir, Goto
<1>2. JobAt("syncdir", job[c]) /\ FilesAt(c)
  BY <1>1 DEF IInv
<1>3. /\ j \in JobSet /\ j.name = job[c].name /\ j.op = job[c].op
      /\ j.id = job[c].id
  BY DEF IInv, TypeOK, JobSet
<1>. HIDE DEF j
<1>4. /\ disk' \in Seq(FileSet) /\ disk' # <<>> /\ Visible' = Visible
      /\ Len(disk') = 1 /\ disk'[1] = Visible
  BY <1>1, VisibleType, SingleOK DEF IInv
<1>5. TypeOK'
  BY <1>1, <1>3, <1>4 DEF IInv, TypeOK, PCs, Locked
<1>6. /\ Visible.whole /\ Visible.synced
      /\ kind = "config" => acked \subseteq Visible.data
  BY VisibleType DEF IInv, DiskOK, Visible, Last
<1>7. DiskOK'
  BY <1>1, <1>4, <1>6 DEF DiskOK
<1>8. JobAt("cleanup", j)
  BY <1>2, <1>3 DEF JobAt, Locked, Writing
<1>9. pc'[c] = "cleanup" /\ job'[c] = j /\ holder = c
  BY <1>1, <1>2 DEF IInv, TypeOK, FilesAt, Locked
<1>10. kind = "config" => j.id \in Visible.data
  BY <1>1, <1>2, <1>3 DEF FilesAt
<1>11. FilesAt(c)'
  BY <1>1, <1>4, <1>9, <1>10 DEF FilesAt, Writing
<1>. QED
  BY <1>1, <1>3, <1>5, <1>7, <1>8, <1>9, <1>11, MoveOK DEF PCs, Locked

LEMMA CleanupOK ==
  ASSUME IInv, NEW c \in Callers, Cleanup(c) \/ CleanupFails(c)
  PROVE  IInv'
<1>1. /\ pc[c] = "cleanup" /\ pc' = [pc EXCEPT ![c] = "unlock"]
      /\ present' \subseteq present
      /\ orphans' \subseteq orphans \cup present
      /\ job' = [job EXCEPT ![c] = job[c]]
      /\ UNCHANGED <<kind, disk, temp, holder, job, used, acked>>
  BY DEF Cleanup, CleanupFails, Goto, IInv, TypeOK
<1>2. JobAt("cleanup", job[c]) /\ FilesAt(c) /\ job[c] \in JobSet
  BY <1>1 DEF IInv, TypeOK
<1>3. TypeOK'
  BY <1>1 DEF IInv, TypeOK, PCs, Locked
<1>4. JobAt("unlock", job[c])
  BY <1>2 DEF JobAt, Locked, Writing
<1>5. pc'[c] = "unlock" /\ holder = c
  BY <1>1, <1>2 DEF IInv, TypeOK, FilesAt, Locked
<1>6. FilesAt(c)'
  BY <1>1, <1>2, <1>5 DEF FilesAt, Writing
<1>. QED
  BY <1>1, <1>2, <1>3, <1>4, <1>5, <1>6, StillOK, MoveOK DEF PCs, Locked

LEMMA UnlockOK ==
  ASSUME IInv, NEW c \in Callers, Unlock(c)
  PROVE  IInv'
<1>1. /\ pc[c] = "unlock" /\ pc' = [pc EXCEPT ![c] = "idle"]
      /\ job' = [job EXCEPT ![c] = NoJob] /\ holder' = NoCaller
      /\ acked' = acked \cup (IF job[c].done THEN {job[c].id} ELSE {})
      /\ UNCHANGED <<kind, disk, present, temp, used, orphans>>
  BY DEF Unlock, Goto
<1>2. JobAt("unlock", job[c]) /\ FilesAt(c)
  BY <1>1 DEF IInv
<1>3. job[c].id \in Ids /\ holder = c
  BY <1>1, <1>2 DEF JobAt, FilesAt, Locked
<1>4. TypeOK'
  BY <1>1, <1>3, NoJobType DEF IInv, TypeOK, PCs
<1>5. DiskOK'
  BY <1>1, <1>2 DEF DiskOK, FilesAt, IInv
<1>6. JobAt("idle", NoJob) /\ FilesAt(c)'
  BY <1>1 DEF JobAt, FilesAt, NoJob, Locked, Writing, IInv, TypeOK
<1>. QED
  BY <1>1, <1>3, <1>4, <1>5, <1>6, NoJobType, MoveOK DEF PCs

-----------------------------------------------------------------------------
(* Caches, the file system and failures                                     *)

LEMMA RemoveFileOK ==
  ASSUME IInv, NEW c \in Callers, RemoveFile(c)
  PROVE  IInv'
<1>1. /\ pc[c] = "remove" /\ pc' = [pc EXCEPT ![c] = "idle"]
      /\ disk' = (IF Visible = NoFile THEN disk ELSE Append(disk, NoFile))
      /\ job' = [job EXCEPT ![c] = job[c]]
      /\ UNCHANGED <<kind, present, temp, holder, job, used, acked, orphans>>
  BY DEF RemoveFile, Goto, IInv, TypeOK
<1>2. JobAt("remove", job[c]) /\ job[c] \in JobSet
  BY <1>1 DEF IInv, TypeOK
<1>3. kind = "cache" /\ ~job[c].done
  BY <1>2 DEF JobAt
<1>4. NoFile \in FileSet /\ NoFile.whole /\ NoFile.synced
  BY DEF NoFile, FileSet
<1>5. TypeOK' /\ DiskOK'
  <2>1. CASE disk' = disk
    BY <1>1, <2>1 DEF IInv, TypeOK, DiskOK, PCs
  <2>2. CASE disk' = Append(disk, NoFile)
    <3>1. /\ disk' \in Seq(FileSet) /\ disk' # <<>>
          /\ Len(disk') = Len(disk) + 1
          /\ \A i \in 1..Len(disk') :
               disk'[i] = IF i = Len(disk) + 1 THEN NoFile ELSE disk[i]
      BY <1>4, <2>2, AppendOK DEF IInv
    <3>2. TypeOK'
      BY <1>1, <3>1 DEF IInv, TypeOK, PCs
    <3>3. DiskOK'
      BY <1>1, <1>3, <1>4, <3>1, VisibleType DEF DiskOK, IInv
    <3>. QED  BY <3>2, <3>3
  <2>. QED  BY <1>1, <2>1, <2>2
<1>6. JobAt("idle", job[c])
  BY <1>3 DEF JobAt, Locked, Writing
<1>7. FilesAt(c)'
  BY <1>1, <1>3 DEF FilesAt, Locked, Writing, IInv, TypeOK
<1>. QED  BY <1>1, <1>2, <1>3, <1>5, <1>6, <1>7, MoveOK DEF PCs

LEMMA CrashOK ==
  ASSUME IInv, NEW c \in Callers, Crash(c)
  PROVE  IInv'
<1>1. /\ pc' = [pc EXCEPT ![c] = "idle"] /\ job' = [job EXCEPT ![c] = NoJob]
      /\ holder' = (IF holder = c THEN NoCaller ELSE holder)
      /\ orphans' \subseteq orphans \cup present
      /\ UNCHANGED <<kind, disk, present, temp, used, acked>>
  BY DEF Crash, Goto
<1>2. TypeOK'
  BY <1>1, NoJobType DEF IInv, TypeOK, PCs
<1>3. JobAt("idle", NoJob) /\ FilesAt(c)'
  BY <1>1 DEF JobAt, FilesAt, NoJob, Locked, Writing, IInv, TypeOK
<1>4. holder \in {c, NoCaller} \/ UNCHANGED holder
  BY <1>1
<1>. QED
  BY <1>1, <1>2, <1>3, <1>4, NoJobType, StillOK, MoveOK DEF PCs

LEMMA WriteBackOK ==
  ASSUME IInv, WriteBack
  PROVE  IInv'
<1>1. /\ Len(disk) > 1 /\ disk' = Tail(disk)
      /\ UNCHANGED <<kind, present, temp, holder, pc, job, used, acked>>
      /\ UNCHANGED orphans
  BY DEF WriteBack
<1>2. /\ disk' \in Seq(FileSet) /\ disk' # <<>> /\ Visible' = Visible
      /\ \A i \in 1..Len(disk') :
           i + 1 \in 1..Len(disk) /\ disk'[i] = disk[i + 1]
  BY <1>1, TailOK DEF IInv
<1>3. TypeOK'
  BY <1>1, <1>2 DEF IInv, TypeOK
<1>4. DiskOK'
  BY <1>1, <1>2 DEF DiskOK, IInv
<1>5. \A c \in Callers : JobAt(pc[c], job[c])' /\ FilesAt(c)'
  BY <1>1, <1>2 DEF IInv, JobAt, FilesAt, NewContent
<1>. QED  BY <1>3, <1>4, <1>5 DEF IInv

LEMMA PowerLossOK ==
  ASSUME IInv, PowerLoss
  PROVE  IInv'
<1>1. PICK n \in 1..Len(disk), kept \in BOOLEAN :
        disk' = <<[disk[n] EXCEPT !.whole = @ /\ (kept \/ disk[n].synced)]>>
  BY DEF PowerLoss
<1>2. /\ present' \subseteq present /\ orphans' = present' /\ holder' = NoCaller
      /\ pc' = [c \in Callers |-> "idle"] /\ job' = [c \in Callers |-> NoJob]
      /\ UNCHANGED <<kind, temp, used, acked>>
  BY DEF PowerLoss
<1>3. disk[n] \in FileSet
  BY <1>1 DEF IInv, TypeOK
<1>4. /\ disk[n].whole /\ disk[n].synced
      /\ kind = "config" => acked \subseteq disk[n].data
  BY <1>1 DEF IInv, DiskOK
<1>5. disk' = <<disk[n]>>
  BY <1>1, <1>3, <1>4 DEF FileSet
<1>6. /\ disk' \in Seq(FileSet) /\ disk' # <<>>
      /\ Len(disk') = 1 /\ disk'[1] = disk[n]
  BY <1>3, <1>5, SingleOK
<1>7. TypeOK'
  BY <1>2, <1>6, NoJobType DEF IInv, TypeOK, PCs
<1>8. DiskOK'
  BY <1>2, <1>4, <1>6 DEF DiskOK
<1>9. \A c \in Callers : JobAt(pc[c], job[c])' /\ FilesAt(c)'
  BY <1>2 DEF JobAt, FilesAt, NoJob, Locked, Writing
<1>. QED  BY <1>7, <1>8, <1>9 DEF IInv

-----------------------------------------------------------------------------
(* Every step                                                               *)

LEMMA UpdateStepOK ==
  ASSUME IInv, NEW c \in Callers, UpdateStep(c)
  PROVE  IInv'
<1>1. ASSUME LockFails(c) PROVE IInv'
  BY <1>1, FailsOK DEF LockFails, PCs
<1>2. ASSUME \/ WriteFails(c) \/ SyncFails(c)
             \/ RenameFails(c) \/ SyncDirFails(c)
      PROVE IInv'
  BY <1>2, FailsOK
  DEF WriteFails, SyncFails, RenameFails, SyncDirFails, PCs, Locked, Writing
<1>. QED
  BY <1>1, <1>2, LockOK, ReadOK, RefuseOK, CreateOK, CreateLeavesOK, WriteOK,
     SyncFileOK, RenameOK, SyncDirOK, CleanupOK, UnlockOK DEF UpdateStep

LEMMA NextIInv == IInv /\ [Next]_vars => IInv'
<1>. SUFFICES ASSUME IInv, [Next]_vars PROVE IInv'
  OBVIOUS
<1>1. CASE UNCHANGED vars
  BY <1>1 DEF vars, IInv, TypeOK, DiskOK, JobAt, FilesAt, Visible, NewContent
<1>2. ASSUME NEW c \in Callers,
             \/ Begin(c) \/ UpdateStep(c) \/ Crash(c)
             \/ RemoveFile(c) \/ RemoveFails(c)
      PROVE  IInv'
  <2>1. ASSUME RemoveFails(c) PROVE IInv'
    BY <2>1, FailsOK DEF RemoveFails, PCs
  <2>. QED  BY <1>2, <2>1, BeginOK, UpdateStepOK, RemoveFileOK, CrashOK
<1>. QED  BY <1>1, <1>2, WriteBackOK, PowerLossOK DEF Next, Rest

\* What a caller inside the lock knows of the files, and that every file the
\* path may lead to is complete, durable and has the changes callers were told
\* of (UpdateFile, atomicWrite).
THEOREM InductiveInvariant == Spec => []IInv
BY InitIInv, NextIInv, PTL DEF Spec

\* The variables keep their types.
THEOREM TypeCorrect == Spec => []TypeOK
<1>1. IInv => TypeOK
  BY DEF IInv
<1>. QED  BY <1>1, InductiveInvariant, PTL

\* Neither readers nor anybody after a power loss find a part of a content,
\* whatever fails: atomicWrite renames only what it has written and fsynced.
THEOREM FilesAreWhole == Spec => []NeverTorn
<1>1. IInv => NeverTorn
  BY DEF IInv, DiskOK, NeverTorn
<1>. QED  BY <1>1, InductiveInvariant, PTL

\* An update of the configuration that was reported as done is not lost: later
\* ones start from a file that has it, and the directory was fsynced.
THEOREM UpdatesSurvive == Spec => []AckedSurvives
<1>1. IInv => AckedSurvives
  BY DEF IInv, DiskOK, AckedSurvives
<1>. QED  BY <1>1, InductiveInvariant, PTL

\* Between its creation and its rename a temporary file is removed by nobody
\* else: the deferred cleanup runs inside the lock of the path.
THEOREM TemporaryFileStays == Spec => []OwnTempStays
<1>1. IInv => OwnTempStays
  BY DEF IInv, FilesAt, OwnTempStays
<1>. QED  BY <1>1, InductiveInvariant, PTL

-----------------------------------------------------------------------------
(* Temporary files                                                          *)

\* A caller has a name only while it writes and cleans up, and once it has
\* cleaned up the file is gone, or could not be removed.
NameAt(c) ==
  /\ pc[c] \notin Writing \cup {"syncdir", "cleanup", "unlock"} =>
       job[c].name = NoName
  /\ pc[c] = "unlock" => job[c].name \notin present \ orphans

NamesOK == NoTempLeft /\ \A c \in Callers : NameAt(c)

LEMMA InitNames == Init => NamesOK
BY DEF Init, NamesOK, NoTempLeft, NameAt, NoJob

\* The other callers when c moves.
LEMMA OtherNamesOK ==
  ASSUME IInv, NamesOK, NEW c \in Callers, NEW q \in Callers, q # c,
         pc'[q] = pc[q], job'[q] = job[q], orphans \subseteq orphans',
         present' \subseteq present \/ holder = c
  PROVE  NameAt(q)'
<1>1. NameAt(q) /\ FilesAt(q)
  BY DEF NamesOK, IInv
<1>2. pc[q] = "unlock" => holder = q
  BY <1>1 DEF FilesAt, Locked
<1>. QED  BY <1>1, <1>2 DEF NameAt

\* A step of c that makes no temporary file.
LEMMA MoveNamesOK ==
  ASSUME IInv, NamesOK, NEW c \in Callers, NEW l \in PCs, NEW j \in JobSet,
         pc' = [pc EXCEPT ![c] = l], job' = [job EXCEPT ![c] = j],
         present' \subseteq present, orphans \subseteq orphans',
         job[c].name \in present' => job[c].name \in orphans' \cup {j.name},
         l \notin Writing \cup {"syncdir", "cleanup", "unlock"} =>
           j.name = NoName,
         l = "unlock" => j.name \notin present' \ orphans'
  PROVE  NamesOK'
<1>1. /\ pc'[c] = l /\ job'[c] = j
      /\ \A q \in Callers : q # c => pc'[q] = pc[q] /\ job'[q] = job[q]
  BY DEF IInv, TypeOK
<1>2. NameAt(c)'
  BY <1>1 DEF NameAt
<1>3. \A q \in Callers : NameAt(q)'
  BY <1>1, <1>2, OtherNamesOK
<1>4. NoTempLeft'
  <2>. SUFFICES ASSUME NEW n \in present', n \notin orphans'
                PROVE  \E q \in Callers : n = job'[q].name
    BY DEF NoTempLeft
  <2>1. PICK q \in Callers : n = job[q].name
    BY DEF NamesOK, NoTempLeft
  <2>2. CASE q = c
    BY <1>1, <2>1, <2>2
  <2>3. CASE q # c
    BY <1>1, <2>1, <2>3
  <2>. QED  BY <2>2, <2>3
<1>. QED  BY <1>3, <1>4 DEF NamesOK

\* A step of c after which it has the same job.
LEMMA StayNamesOK ==
  ASSUME IInv, NamesOK, NEW c \in Callers, NEW l \in PCs, Goto(c, l),
         UNCHANGED job, present' \subseteq present, orphans \subseteq orphans',
         l \notin Writing \cup {"syncdir", "cleanup", "unlock"} =>
           job[c].name = NoName,
         l = "unlock" => job[c].name \notin present' \ orphans'
  PROVE  NamesOK'
<1>1. job[c] \in JobSet /\ job' = [job EXCEPT ![c] = job[c]]
  BY DEF IInv, TypeOK
<1>. QED  BY <1>1, MoveNamesOK DEF Goto

LEMMA CreateNamesOK ==
  ASSUME IInv, NamesOK, NEW c \in Callers, Create(c)
  PROVE  NamesOK'
<1>1. PICK n \in Names \ present :
        present' = present \cup {n} /\ job' = [job EXCEPT ![c].name = n]
  BY DEF Create
<1>2. pc[c] = "create" /\ pc' = [pc EXCEPT ![c] = "write"] /\ UNCHANGED orphans
  BY DEF Create, Goto
<1>3. holder = c /\ job[c].name = NoName
  BY <1>2 DEF IInv, FilesAt, Locked, NamesOK, NameAt, Writing
<1>4. /\ pc'[c] = "write" /\ job'[c].name = n
      /\ \A q \in Callers : q # c => pc'[q] = pc[q] /\ job'[q] = job[q]
  BY <1>1, <1>2 DEF IInv, TypeOK, JobSet
<1>5. \A q \in Callers : NameAt(q)'
  <2>1. NameAt(c)'
    BY <1>4 DEF NameAt, Writing
  <2>. QED  BY <1>2, <1>3, <1>4, <2>1, OtherNamesOK
<1>6. NoTempLeft'
  <2>. SUFFICES ASSUME NEW m \in present', m \notin orphans'
                PROVE  \E q \in Callers : m = job'[q].name
    BY DEF NoTempLeft
  <2>1. CASE m = n
    BY <1>4, <2>1
  <2>2. CASE m # n
    <3>1. m \in present \ orphans /\ m # NoName
      BY <1>1, <1>2, <2>2, FileAssumption DEF IInv, TypeOK, FileAssumption
    <3>2. PICK q \in Callers : m = job[q].name
      BY <3>1 DEF NamesOK, NoTempLeft
    <3>3. q # c
      BY <1>3, <3>1, <3>2
    <3>. QED  BY <1>4, <3>2, <3>3
  <2>. QED  BY <2>1, <2>2
<1>. QED  BY <1>5, <1>6 DEF NamesOK

LEMMA CreateLeavesNamesOK ==
  ASSUME IInv, NamesOK, NEW c \in Callers, CreateLeaves(c)
  PROVE  NamesOK'
<1>1. PICK n \in Names \ present :
        present' = present \cup {n} /\ orphans' = orphans \cup {n}
  BY DEF CreateLeaves
<1>2. pc[c] = "create" /\ pc' = [pc EXCEPT ![c] = "unlock"] /\ UNCHANGED job
  BY DEF CreateLeaves, Goto
<1>3. holder = c /\ job[c].name = NoName
  BY <1>2 DEF IInv, FilesAt, Locked, NamesOK, NameAt, Writing
<1>4. pc'[c] = "unlock" /\ \A q \in Callers : q # c => pc'[q] = pc[q]
  BY <1>2 DEF IInv, TypeOK
<1>5. NoName \notin present'
  BY <1>1, FileAssumption DEF IInv, TypeOK, FileAssumption
<1>6. NameAt(c)'
  BY <1>2, <1>3, <1>4, <1>5 DEF NameAt
<1>7. \A q \in Callers : NameAt(q)'
  BY <1>1, <1>2, <1>3, <1>4, <1>6, OtherNamesOK
<1>8. NoTempLeft'
  BY <1>1, <1>2 DEF NamesOK, NoTempLeft
<1>. QED  BY <1>7, <1>8 DEF NamesOK

LEMMA UpdateNamesOK ==
  ASSUME IInv, NamesOK, NEW c \in Callers, UpdateStep(c)
  PROVE  NamesOK'
<1>1. NameAt(c) /\ JobAt(pc[c], job[c])
  BY DEF NamesOK, IInv
<1>2. ASSUME Lock(c) \/ LockFails(c) PROVE NamesOK'
  BY <1>1, <1>2, StayNamesOK
  DEF Lock, LockFails, Fails, NameAt, PCs, Locked, Writing
<1>3. ASSUME Read(c) PROVE NamesOK'
  <2>. DEFINE j == [job[c] EXCEPT !.seen = Visible.data]
  <2>1. j \in JobSet /\ j.name = job[c].name
    BY VisibleType DEF IInv, TypeOK, JobSet, FileSet
  <2>2. /\ pc[c] = "read" /\ pc' = [pc EXCEPT ![c] = "create"]
        /\ job' = [job EXCEPT ![c] = j] /\ UNCHANGED <<present, orphans>>
    BY <1>3 DEF Read, Goto
  <2>. HIDE DEF j
  <2>3. j.name = NoName
    BY <1>1, <2>1, <2>2 DEF NameAt, Writing
  <2>. QED  BY <2>1, <2>2, <2>3, MoveNamesOK DEF PCs, Locked
<1>4. ASSUME Refuse(c) \/ CreateFails(c) PROVE NamesOK'
  <2>1. job[c].name = NoName /\ NoName \notin present'
    BY <1>1, <1>4, FileAssumption
    DEF Refuse, CreateFails, NameAt, Writing, FileAssumption, IInv, TypeOK
  <2>. QED  BY <1>4, <2>1, StayNamesOK DEF Refuse, CreateFails, PCs, Locked
<1>5. ASSUME \/ Write(c) \/ WriteFails(c) \/ SyncFile(c) \/ SyncFails(c)
             \/ RenameFails(c) \/ Rename(c) \/ SyncDirFails(c)
      PROVE  NamesOK'
  BY <1>5, StayNamesOK
  DEF Write, WriteFails, SyncFile, SyncFails, RenameFails, Rename,
      SyncDirFails, Fails, PCs, Locked, Writing
<1>6. ASSUME SyncDir(c) PROVE NamesOK'
  <2>. DEFINE j == [job[c] EXCEPT !.done = TRUE]
  <2>1. j \in JobSet /\ j.name = job[c].name
    BY DEF IInv, TypeOK, JobSet
  <2>2. /\ pc' = [pc EXCEPT ![c] = "cleanup"]
        /\ job' = [job EXCEPT ![c] = j] /\ UNCHANGED <<present, orphans>>
    BY <1>6 DEF SyncDir, Goto
  <2>. HIDE DEF j
  <2>. QED  BY <2>1, <2>2, MoveNamesOK DEF PCs, Locked
<1>7. ASSUME Cleanup(c) \/ CleanupFails(c) PROVE NamesOK'
  BY <1>7, StayNamesOK DEF Cleanup, CleanupFails, PCs, Locked
<1>8. ASSUME Unlock(c) PROVE NamesOK'
  <2>1. /\ pc[c] = "unlock" /\ pc' = [pc EXCEPT ![c] = "idle"]
        /\ job' = [job EXCEPT ![c] = NoJob] /\ UNCHANGED <<present, orphans>>
    BY <1>8 DEF Unlock, Goto
  <2>2. job[c].name \notin present \ orphans /\ NoJob.name = NoName
    BY <1>1, <2>1 DEF NameAt, NoJob
  <2>. QED  BY <2>1, <2>2, NoJobType, MoveNamesOK DEF PCs
<1>. QED
  BY <1>2, <1>3, <1>4, <1>5, <1>6, <1>7, <1>8, CreateNamesOK,
     CreateLeavesNamesOK DEF UpdateStep

LEMMA NextNames == IInv /\ NamesOK /\ [Next]_vars => NamesOK'
<1>. SUFFICES ASSUME IInv, NamesOK, [Next]_vars PROVE NamesOK'
  OBVIOUS
<1>1. CASE UNCHANGED vars
  BY <1>1 DEF vars, NamesOK, NoTempLeft, NameAt
<1>2. ASSUME NEW c \in Callers, Begin(c) PROVE NamesOK'
  <2>1. PICK op \in IF kind = "config" THEN {"update"}
                    ELSE {"replace", "remove"} :
          /\ job' = [job EXCEPT ![c] = [NoJob EXCEPT !.op = op, !.id = used']]
          /\ Goto(c, IF op = "remove" THEN "remove" ELSE "lock")
    BY <1>2 DEF Begin
  <2>. DEFINE j == [NoJob EXCEPT !.op = op, !.id = used']
              l == IF op = "remove" THEN "remove" ELSE "lock"
  <2>2. /\ pc[c] = "idle" /\ used' \in 0..MaxId
        /\ UNCHANGED <<present, orphans>>
    BY <1>2, FileAssumption DEF Begin, IInv, TypeOK, FileAssumption
  <2>3. j \in JobSet /\ j.name = NoName
    BY <2>1, <2>2, NoJobType DEF JobSet, NoJob
  <2>4. /\ l \in PCs
        /\ l \notin Writing \cup {"syncdir", "cleanup", "unlock"}
        /\ pc' = [pc EXCEPT ![c] = l] /\ job' = [job EXCEPT ![c] = j]
    BY <2>1 DEF Goto, PCs, Writing
  <2>. HIDE DEF j, l
  <2>5. job[c].name = NoName /\ NoName \notin present'
    BY <2>2, FileAssumption
    DEF NamesOK, NameAt, Writing, FileAssumption, IInv, TypeOK
  <2>. QED  BY <2>2, <2>3, <2>4, <2>5, MoveNamesOK
<1>3. ASSUME NEW c \in Callers, RemoveFile(c) \/ RemoveFails(c) PROVE NamesOK'
  <2>1. /\ pc[c] = "remove" /\ Goto(c, "idle")
        /\ UNCHANGED <<job, present, orphans>>
    BY <1>3 DEF RemoveFile, RemoveFails, Fails
  <2>2. job[c].name = NoName
    BY <2>1 DEF NamesOK, NameAt, Writing
  <2>. QED  BY <2>1, <2>2, StayNamesOK DEF PCs
<1>4. ASSUME NEW c \in Callers, Crash(c) PROVE NamesOK'
  <2>1. /\ pc' = [pc EXCEPT ![c] = "idle"] /\ job' = [job EXCEPT ![c] = NoJob]
        /\ orphans' = orphans \cup ({job[c].name} \cap present)
        /\ UNCHANGED present
    BY <1>4 DEF Crash, Goto
  <2>. QED  BY <2>1, NoJobType, MoveNamesOK DEF PCs, NoJob
<1>5. ASSUME WriteBack PROVE NamesOK'
  BY <1>5 DEF WriteBack, NamesOK, NoTempLeft, NameAt
<1>6. ASSUME PowerLoss PROVE NamesOK'
  BY <1>6 DEF PowerLoss, NamesOK, NoTempLeft, NameAt, NoJob
<1>. QED
  BY <1>1, <1>2, <1>3, <1>4, <1>5, <1>6, UpdateNamesOK DEF Next, Rest

\* Whoever fails after creating a temporary file has removed it when it
\* returns, unless that fails too (the deferred cleanup of atomicWrite).
THEOREM NothingIsLeft == Spec => []NoTempLeft
<1>1. NamesOK => NoTempLeft
  BY DEF NamesOK
<1>. QED  BY <1>1, InitNames, NextNames, InductiveInvariant, PTL DEF Spec

-----------------------------------------------------------------------------
(* SecureStoreFile implements AtomicFile                                    *)

\* The contents of files in order, as Abstract's versions.
Contents(files) == [i \in 1..Len(files) |-> files[i].data]

LEMMA ContentsType ==
  ASSUME NEW d \in Seq(FileSet)
  PROVE  /\ Contents(d) \in Seq(SUBSET Ids) /\ Len(Contents(d)) = Len(d)
         /\ \A i \in 1..Len(d) : Contents(d)[i] = d[i].data
         /\ Len(d) \in Nat
<1>1. Len(d) \in Nat
  OBVIOUS
<1>2. \A i \in 1..Len(d) : d[i].data \in SUBSET Ids
  <2>1. \A i \in 1..Len(d) : d[i] \in FileSet
    OBVIOUS
  <2>. QED  BY <2>1 DEF FileSet
<1>3. /\ Contents(d) \in Seq(SUBSET Ids) /\ Len(Contents(d)) = Len(d)
      /\ \A i \in 1..Len(d) : Contents(d)[i] = d[i].data
  BY <1>1, <1>2 DEF Contents
<1>. QED  BY <1>1, <1>3

LEMMA DiskContents ==
  ASSUME TypeOK
  PROVE  /\ Contents(disk) \in Seq(SUBSET Ids)
         /\ Len(Contents(disk)) = Len(disk)
         /\ \A i \in 1..Len(disk) : Contents(disk)[i] = disk[i].data
         /\ Len(disk) \in Nat \ {0}
         /\ Last(Contents(disk)) = Visible.data
<1>1. disk \in Seq(FileSet) /\ Len(disk) \in Nat \ {0}
  BY VisibleType DEF TypeOK
<1>2. /\ Contents(disk) \in Seq(SUBSET Ids) /\ Len(Contents(disk)) = Len(disk)
      /\ \A i \in 1..Len(disk) : Contents(disk)[i] = disk[i].data
  BY <1>1, ContentsType
<1>. QED  BY <1>1, <1>2 DEF Last, Visible

LEMMA ContentsAppend ==
  ASSUME TypeOK, TypeOK', NEW f \in FileSet, disk' = Append(disk, f)
  PROVE  Contents(disk') = Append(Contents(disk), f.data)
<1>1. /\ Len(disk') = Len(disk) + 1
      /\ \A i \in 1..Len(disk') :
           disk'[i] = IF i = Len(disk) + 1 THEN f ELSE disk[i]
  BY AppendOK
<1>2. f.data \in SUBSET Ids
  BY DEF FileSet
<1>3. /\ Contents(disk') \in Seq(SUBSET Ids)
      /\ Len(Contents(disk')) = Len(disk')
      /\ \A i \in 1..Len(disk') : Contents(disk')[i] = disk'[i].data
  BY ContentsType DEF TypeOK
<1>. DEFINE a == Append(Contents(disk), f.data)
<1>4. /\ a \in Seq(SUBSET Ids) /\ Len(a) = Len(Contents(disk)) + 1
      /\ \A i \in 1..Len(Contents(disk)) : a[i] = Contents(disk)[i]
      /\ a[Len(Contents(disk)) + 1] = f.data
  BY <1>2, DiskContents, AppendProperties
<1>. HIDE DEF a
<1>5. /\ Len(Contents(disk')) = Len(a)
      /\ \A i \in 1..Len(Contents(disk')) : Contents(disk')[i] = a[i]
  BY <1>1, <1>3, <1>4, DiskContents
<1>6. Contents(disk') = a
  BY <1>3, <1>4, <1>5, SeqEqual
<1>. QED  BY <1>6 DEF a

LEMMA ContentsSuffix ==
  ASSUME TypeOK, TypeOK', NEW n \in 1..Len(disk),
         Len(disk') = Len(disk) - n + 1,
         \A i \in 1..Len(disk') : disk'[i] = disk[n + i - 1]
  PROVE  /\ n \in 1..Len(Contents(disk))
         /\ Contents(disk') = SubSeq(Contents(disk), n, Len(Contents(disk)))
<1>1. /\ Contents(disk') \in Seq(SUBSET Ids)
      /\ Len(Contents(disk')) = Len(disk')
      /\ \A i \in 1..Len(disk') : Contents(disk')[i] = disk'[i].data
  BY ContentsType DEF TypeOK
<1>. DEFINE s == SubSeq(Contents(disk), n, Len(Contents(disk)))
<1>2. /\ s \in Seq(SUBSET Ids) /\ Len(s) = Len(disk) - n + 1
      /\ \A i \in 1..(Len(disk) - n + 1) : s[i] = Contents(disk)[n + i - 1]
  <2>1. n \in Int /\ Len(Contents(disk)) \in Int /\ n <= Len(Contents(disk))
    BY DiskContents
  <2>2. \A i \in n..Len(Contents(disk)) : Contents(disk)[i] \in SUBSET Ids
    BY DiskContents
  <2>. QED  BY <2>1, <2>2, DiskContents, SubSeqProperties
<1>. HIDE DEF s
<1>3. \A i \in 1..Len(disk') : Contents(disk')[i] = s[i]
  <2>. SUFFICES ASSUME NEW i \in 1..Len(disk') PROVE Contents(disk')[i] = s[i]
    OBVIOUS
  <2>1. n + i - 1 \in 1..Len(disk)
    BY DiskContents
  <2>. QED  BY <1>1, <1>2, <2>1, DiskContents
<1>4. Contents(disk') = s
  BY <1>1, <1>2, <1>3, SeqEqual
<1>. QED  BY <1>4, DiskContents DEF s

LEMMA InitAbstract == Init => Abstract!Init
<1>. SUFFICES ASSUME Init PROVE Abstract!Init
  OBVIOUS
<1>1. TypeOK /\ Len(disk) = 1 /\ disk[1] = NoFile
  BY InitIInv DEF IInv, Init
<1>2. /\ Contents(disk) \in Seq(SUBSET Ids)
      /\ Len(Contents(disk)) = 1 /\ Contents(disk)[1] = {}
  BY <1>1, DiskContents DEF NoFile
<1>3. Contents(disk) = <<{}>>
  BY <1>2
<1>. QED  BY <1>3 DEF Init, Abstract!Init, Contents

LEMMA RenameAbstract ==
  ASSUME IInv, IInv', NEW c \in Callers, Rename(c)
  PROVE  Abstract!Next
<1>. DEFINE f == temp[job[c].name]
<1>1. pc[c] = "rename" /\ disk' = Append(disk, f) /\ kind' = kind
  BY DEF Rename
<1>2. JobAt("rename", job[c]) /\ FilesAt(c)
  BY <1>1 DEF IInv
<1>3. /\ f \in FileSet /\ f.data = NewContent(job[c]) /\ job[c].id \in Ids
      /\ job[c].op = IF kind = "config" THEN "update" ELSE "replace"
      /\ kind = "config" => job[c].seen = Visible.data
  BY <1>1, <1>2 DEF JobAt, FilesAt, Locked, Writing, IInv, TypeOK
<1>4. Contents(disk') = Append(Contents(disk), f.data)
  BY <1>1, <1>3, ContentsAppend DEF IInv
<1>5. PICK u \in Ids : u = job[c].id
  BY <1>3
<1>6. CASE kind = "config"
  <2>1. f.data = Last(Contents(disk)) \cup {u}
    BY <1>3, <1>5, <1>6, DiskContents DEF NewContent, IInv
  <2>2. Abstract!Update(u)
    BY <1>1, <1>4, <1>6, <2>1
    DEF Abstract!Update, Abstract!Change, Abstract!Last, Last, Contents
  <2>. QED  BY <2>2 DEF Abstract!Next
<1>7. CASE kind = "cache"
  <2>1. f.data = {u}
    BY <1>3, <1>5, <1>7 DEF NewContent
  <2>2. Abstract!Replace(u)
    BY <1>1, <1>4, <1>7, <2>1
    DEF Abstract!Replace, Abstract!Change, Contents
  <2>. QED  BY <2>2 DEF Abstract!Next
<1>. QED  BY <1>6, <1>7 DEF IInv, TypeOK

LEMMA RemoveAbstract ==
  ASSUME IInv, IInv', NEW c \in Callers, RemoveFile(c),
         disk' = Append(disk, NoFile)
  PROVE  Abstract!Next
<1>1. kind = "cache" /\ kind' = kind
  BY DEF RemoveFile, IInv, JobAt
<1>2. NoFile \in FileSet /\ NoFile.data = {}
  BY DEF NoFile, FileSet
<1>3. Contents(disk') = Append(Contents(disk), {})
  BY <1>2, ContentsAppend DEF IInv
<1>. QED
  BY <1>1, <1>3
  DEF Abstract!Next, Abstract!Delete, Abstract!Change, Contents

LEMMA PersistAbstract ==
  ASSUME IInv, IInv', (\E c \in Callers : SyncDir(c)) \/ WriteBack
  PROVE  Abstract!Next
<1>1. ASSUME NEW n \in 1..Len(disk), kind' = kind,
             Len(disk') = Len(disk) - n + 1,
             \A i \in 1..Len(disk') : disk'[i] = disk[n + i - 1]
      PROVE  Abstract!Next
  <2>1. /\ n \in 1..Len(Contents(disk))
        /\ Contents(disk') = SubSeq(Contents(disk), n, Len(Contents(disk)))
    BY <1>1, ContentsSuffix DEF IInv
  <2>. QED
    BY <1>1, <2>1 DEF Abstract!Next, Abstract!Persist, Contents
<1>2. Len(disk) \in Nat \ {0}
  BY VisibleType DEF IInv
<1>3. ASSUME NEW c \in Callers, SyncDir(c) PROVE Abstract!Next
  <2>1. disk' = <<Visible>> /\ kind' = kind
    BY <1>3 DEF SyncDir
  <2>2. Len(disk') = 1 /\ disk'[1] = disk[Len(disk)]
    BY <2>1 DEF Visible, Last
  <2>. QED  BY <1>1, <1>2, <2>1, <2>2
<1>4. ASSUME WriteBack PROVE Abstract!Next
  <2>1. /\ Len(disk) > 1 /\ kind' = kind /\ Len(disk') = Len(disk) - 1
        /\ \A i \in 1..Len(disk') : disk'[i] = disk[i + 1]
    BY <1>4, TailOK DEF WriteBack, IInv
  <2>. QED  BY <1>1, <1>2, <2>1
<1>. QED  BY <1>3, <1>4

LEMMA PowerLossAbstract ==
  ASSUME IInv, IInv', PowerLoss
  PROVE  Abstract!Next
<1>1. PICK n \in 1..Len(disk), kept \in BOOLEAN :
        disk' = <<[disk[n] EXCEPT !.whole = @ /\ (kept \/ disk[n].synced)]>>
  BY DEF PowerLoss
<1>2. Len(disk') = 1 /\ disk'[1].data = disk[n].data /\ kind' = kind
  BY <1>1 DEF PowerLoss, IInv, TypeOK, FileSet
<1>3. Contents(disk') \in Seq(SUBSET Ids) /\ Len(Contents(disk')) = 1
      /\ Contents(disk')[1] = disk'[1].data
  BY <1>2, ContentsType DEF IInv, TypeOK
<1>4. n \in 1..Len(Contents(disk)) /\ Contents(disk') = <<Contents(disk)[n]>>
  BY <1>2, <1>3, DiskContents DEF IInv
<1>. QED
  BY <1>2, <1>4 DEF Abstract!Next, Abstract!PowerLoss, Contents

LEMMA NextAbstract ==
  IInv /\ IInv' /\ [Next]_vars =>
    [Abstract!Next]_<<kind, [i \in 1..Len(disk) |-> disk[i].data]>>
<1>. SUFFICES ASSUME IInv, IInv', [Next]_vars
              PROVE  Abstract!Next \/ UNCHANGED <<kind, disk>>
  OBVIOUS
<1>1. ASSUME NEW c \in Callers, UpdateStep(c)
      PROVE  Rename(c) \/ SyncDir(c) \/ UNCHANGED <<kind, disk>>
  BY <1>1
  DEF UpdateStep, Lock, LockFails, Read, Refuse, Create, CreateFails,
      CreateLeaves, Write, WriteFails, SyncFile, SyncFails, RenameFails,
      SyncDirFails, Cleanup, CleanupFails, Unlock, Fails
<1>2. ASSUME NEW c \in Callers,
             Begin(c) \/ RemoveFile(c) \/ RemoveFails(c) \/ Crash(c)
      PROVE  \/ RemoveFile(c) /\ disk' = Append(disk, NoFile)
             \/ UNCHANGED <<kind, disk>>
  BY <1>2 DEF Begin, RemoveFile, RemoveFails, Crash, Fails
<1>. QED
  BY <1>1, <1>2, RenameAbstract, RemoveAbstract, PersistAbstract,
     PowerLossAbstract DEF Next, Rest, vars

\* A file changes as AtomicFile says it does: as a whole, each update of the
\* configuration from the content it has at that moment, and back only as far
\* as it has not been made durable.
THEOREM FilesAreAtomic == Spec => ImplementsAtomicFile
BY InitAbstract, NextAbstract, InductiveInvariant, PTL
DEF Spec, ImplementsAtomicFile, Abstract!Spec

\* No file is torn, no temporary file is lost to its owner or left behind.
THEOREM FilesIntact == Spec => []FilesAreIntact
BY TypeCorrect, FilesAreWhole, TemporaryFileStays, NothingIsLeft, PTL
DEF FilesAreIntact
=============================================================================
