--------------------------- MODULE SecureStoreFile ---------------------------
(***************************************************************************)
(* UpdateFile and atomicWrite of internal/securestore on one path, step by  *)
(* step, and the removal of a cache file.  The path is config.json, which   *)
(* config.Update reads and rewrites, or a token or STS cache, which is       *)
(* written anew without being read.  Each caller is a process of its own,   *)
(* and the lock of the path is its owner, as PathLock promises.             *)
(*                                                                         *)
(* The file system keeps what was fsynced.  disk holds the files the path   *)
(* has led to, from the one it leads to after a power loss to the one it     *)
(* leads to now.                                                            *)
(***************************************************************************)
EXTENDS Integers, Sequences, SequencesExt

CONSTANTS
  Callers, NoCaller,
  Names, NoName,  \* what os.CreateTemp may call a temporary file
  MaxId,          \* bound on the changes made to the file
  Faults          \* what may go wrong: "io", "crash", "power"

Ids == 1..MaxId

ASSUME FileAssumption ==
  /\ NoCaller \notin Callers /\ NoName \notin Names
  /\ MaxId \in Nat
  /\ Faults \subseteq {"io", "crash", "power"}

VARIABLES
  kind,     \* "config" or "cache"
  disk,
  present,  \* names of the temporary files beside it
  temp,     \* and those files
  holder,   \* who is inside withPathLock
  pc, job,
  used,     \* number of changes begun
  acked,    \* changes whose caller was told that they are done
  orphans   \* temporary files whose process died or could not remove them

vars == <<kind, disk, present, temp, holder, pc, job, used, acked, orphans>>

\* A file has a content, all of which may not have been written, and which
\* may not have been fsynced.
FileSet == [data : SUBSET Ids, whole : BOOLEAN, synced : BOOLEAN]
NoFile == [data |-> {}, whole |-> TRUE, synced |-> TRUE]
Empty == [data |-> {}, whole |-> FALSE, synced |-> FALSE]
JobSet == [op : {"none", "update", "replace", "remove"}, id : 0..MaxId,
           seen : SUBSET Ids, name : Names \cup {NoName}, done : BOOLEAN]
NoJob == [op |-> "none", id |-> 0, seen |-> {}, name |-> NoName,
          done |-> FALSE]

\* Labels inside the lock, and those at which the temporary file is needed.
Writing == {"write", "sync", "rename"}
Locked == Writing \cup {"read", "create", "syncdir", "cleanup", "unlock"}
PCs == {"idle", "lock", "remove"} \cup Locked

TypeOK ==
  /\ kind \in {"config", "cache"}
  /\ disk \in Seq(FileSet) /\ disk # <<>>
  /\ present \subseteq Names /\ temp \in [Names -> FileSet]
  /\ holder \in Callers \cup {NoCaller}
  /\ pc \in [Callers -> PCs]
  /\ job \in [Callers -> JobSet]
  /\ used \in 0..MaxId /\ acked \subseteq Ids /\ orphans \subseteq Names

Init ==
  /\ kind \in {"config", "cache"}
  /\ disk = <<NoFile>>
  /\ present = {} /\ temp = [n \in Names |-> Empty]
  /\ holder = NoCaller
  /\ pc = [c \in Callers |-> "idle"]
  /\ job = [c \in Callers |-> NoJob]
  /\ used = 0 /\ acked = {} /\ orphans = {}

-----------------------------------------------------------------------------
(* Building blocks                                                          *)

Goto(c, label) == pc' = [pc EXCEPT ![c] = label]
Visible == Last(disk)

\* The content that the callback makes of the one it is given.
NewContent(j) == IF j.op = "update" THEN j.seen \cup {j.id} ELSE {j.id}

\* A call of the operating system fails, and the step it belongs to ends.
Fails(c, from, to) ==
  /\ "io" \in Faults
  /\ pc[c] = from
  /\ Goto(c, to)
  /\ UNCHANGED <<kind, disk, present, temp, holder, job, used, acked, orphans>>

Begin(c) ==
  /\ pc[c] = "idle" /\ used < MaxId
  /\ used' = used + 1
  /\ \E op \in IF kind = "config" THEN {"update"} ELSE {"replace", "remove"} :
       /\ job' = [job EXCEPT ![c] = [NoJob EXCEPT !.op = op, !.id = used']]
       /\ Goto(c, IF op = "remove" THEN "remove" ELSE "lock")
  /\ UNCHANGED <<kind, disk, present, temp, holder, acked, orphans>>

-----------------------------------------------------------------------------
(* UpdateFile                                                               *)

\* Mutant of Lock: nobody waits for the owner.
LockShared(c) ==
  /\ pc[c] = "lock"
  /\ holder' = c
  /\ Goto(c, "read")
  /\ UNCHANGED <<kind, disk, present, temp, job, used, acked, orphans>>

Lock(c) ==
  /\ pc[c] = "lock"
  /\ holder = NoCaller
  /\ holder' = c
  /\ Goto(c, "read")
  /\ UNCHANGED <<kind, disk, present, temp, job, used, acked, orphans>>

\* The directory is not private, or the lock cannot be taken.
LockFails(c) == Fails(c, "lock", "idle")

Read(c) ==
  /\ pc[c] = "read"
  /\ job' = [job EXCEPT ![c].seen = Visible.data]
  /\ Goto(c, "create")
  /\ UNCHANGED <<kind, disk, present, temp, holder, used, acked, orphans>>

\* The file cannot be read, or the callback refuses what it contains.
Refuse(c) ==
  /\ pc[c] = "read"
  /\ Goto(c, "unlock")
  /\ UNCHANGED <<kind, disk, present, temp, holder, job, used, acked, orphans>>

-----------------------------------------------------------------------------
(* atomicWrite                                                              *)

\* os.CreateTemp takes a name that no file has.
Create(c) ==
  /\ pc[c] = "create"
  /\ \E n \in Names \ present :
       /\ present' = present \cup {n}
       /\ temp' = [temp EXCEPT ![n] = Empty]
       /\ job' = [job EXCEPT ![c].name = n]
  /\ Goto(c, "write")
  /\ UNCHANGED <<kind, disk, holder, used, acked, orphans>>

\* No name is left, or the file cannot be made private and is removed.
CreateFails(c) ==
  /\ "io" \in Faults \/ present = Names
  /\ pc[c] = "create"
  /\ Goto(c, "unlock")
  /\ UNCHANGED <<kind, disk, present, temp, holder, job, used, acked, orphans>>

\* The file can be neither made private nor removed.
CreateLeaves(c) ==
  /\ "io" \in Faults
  /\ pc[c] = "create"
  /\ \E n \in Names \ present :
       /\ present' = present \cup {n}
       /\ temp' = [temp EXCEPT ![n] = Empty]
       /\ orphans' = orphans \cup {n}
  /\ Goto(c, "unlock")
  /\ UNCHANGED <<kind, disk, holder, job, used, acked>>

\* Mutant of Write: the file is renamed without having been fsynced.
WriteUnsynced(c) ==
  /\ pc[c] = "write"
  /\ temp' = [temp EXCEPT ![job[c].name] =
       [data |-> NewContent(job[c]), whole |-> TRUE, synced |-> FALSE]]
  /\ Goto(c, "rename")
  /\ UNCHANGED <<kind, disk, present, holder, job, used, acked, orphans>>

Write(c) ==
  /\ pc[c] = "write"
  /\ temp' = [temp EXCEPT ![job[c].name] =
       [data |-> NewContent(job[c]), whole |-> TRUE, synced |-> FALSE]]
  /\ Goto(c, "sync")
  /\ UNCHANGED <<kind, disk, present, holder, job, used, acked, orphans>>

\* An error or a short write leaves a part of the content.
WriteFails(c) == Fails(c, "write", "cleanup")

\* The file is fsynced and closed.
SyncFile(c) ==
  /\ pc[c] = "sync"
  /\ temp' = [temp EXCEPT ![job[c].name].synced = TRUE]
  /\ Goto(c, "rename")
  /\ UNCHANGED <<kind, disk, present, holder, job, used, acked, orphans>>

SyncFails(c) == Fails(c, "sync", "cleanup")

\* Mutant of Rename: the directory is not fsynced.
RenameUnsynced(c) ==
  /\ pc[c] = "rename" /\ job[c].name \in present
  /\ disk' = Append(disk, temp[job[c].name])
  /\ present' = present \ {job[c].name}
  /\ job' = [job EXCEPT ![c].done = TRUE]
  /\ Goto(c, "cleanup")
  /\ UNCHANGED <<kind, temp, holder, used, acked, orphans>>

Rename(c) ==
  /\ pc[c] = "rename" /\ job[c].name \in present
  /\ disk' = Append(disk, temp[job[c].name])
  /\ present' = present \ {job[c].name}
  /\ Goto(c, "syncdir")
  /\ UNCHANGED <<kind, temp, holder, job, used, acked, orphans>>

RenameFails(c) == Fails(c, "rename", "cleanup")

\* syncParentDirectory makes the rename durable.
SyncDir(c) ==
  /\ pc[c] = "syncdir"
  /\ disk' = <<Visible>>
  /\ job' = [job EXCEPT ![c].done = TRUE]
  /\ Goto(c, "cleanup")
  /\ UNCHANGED <<kind, present, temp, holder, used, acked, orphans>>

\* The update is reported as failed although everyone sees it.
SyncDirFails(c) == Fails(c, "syncdir", "cleanup")

\* The deferred cleanup removes whatever has the temporary name.
Cleanup(c) ==
  /\ pc[c] = "cleanup"
  /\ present' = present \ {job[c].name}
  /\ Goto(c, "unlock")
  /\ UNCHANGED <<kind, disk, temp, holder, job, used, acked, orphans>>

\* An error of the cleanup is ignored.
CleanupFails(c) ==
  /\ "io" \in Faults
  /\ pc[c] = "cleanup"
  /\ orphans' = orphans \cup ({job[c].name} \cap present)
  /\ Goto(c, "unlock")
  /\ UNCHANGED <<kind, disk, present, temp, holder, job, used, acked>>

\* withPathLock returns the error, or nil, to the caller.
Unlock(c) ==
  /\ pc[c] = "unlock"
  /\ holder' = NoCaller
  /\ acked' = acked \cup (IF job[c].done THEN {job[c].id} ELSE {})
  /\ job' = [job EXCEPT ![c] = NoJob]
  /\ Goto(c, "idle")
  /\ UNCHANGED <<kind, disk, present, temp, used, orphans>>

-----------------------------------------------------------------------------
(* Removing a cache file, without the lock of its path                      *)

\* The directory is not fsynced; removing no file is fine.
RemoveFile(c) ==
  /\ pc[c] = "remove"
  /\ disk' = IF Visible = NoFile THEN disk ELSE Append(disk, NoFile)
  /\ Goto(c, "idle")
  /\ UNCHANGED <<kind, present, temp, holder, job, used, acked, orphans>>

RemoveFails(c) == Fails(c, "remove", "idle")

-----------------------------------------------------------------------------
(* The file system, and the system                                          *)

\* The kernel writes directory entries back in order.
WriteBack ==
  /\ Len(disk) > 1
  /\ disk' = Tail(disk)
  /\ UNCHANGED <<kind, present, temp, holder, pc, job, used, acked, orphans>>

\* A process dies: its lock is free, its temporary file remains.
Crash(c) ==
  /\ "crash" \in Faults /\ pc[c] # "idle"
  /\ holder' = IF holder = c THEN NoCaller ELSE holder
  /\ orphans' = orphans \cup ({job[c].name} \cap present)
  /\ job' = [job EXCEPT ![c] = NoJob]
  /\ Goto(c, "idle")
  /\ UNCHANGED <<kind, disk, present, temp, used, acked>>

\* The path leads to a file it led to since the last write-back, which has
\* its content if that was fsynced.  Any temporary files may be left.
PowerLoss ==
  /\ "power" \in Faults
  /\ \E n \in 1..Len(disk), kept \in BOOLEAN :
       disk' = <<[disk[n] EXCEPT !.whole = @ /\ (kept \/ disk[n].synced)]>>
  /\ present' \in SUBSET present
  /\ orphans' = present'
  /\ holder' = NoCaller
  /\ pc' = [c \in Callers |-> "idle"]
  /\ job' = [c \in Callers |-> NoJob]
  /\ UNCHANGED <<kind, temp, used, acked>>

UpdateStep(c) ==
  \/ Lock(c) \/ LockFails(c) \/ Read(c) \/ Refuse(c)
  \/ Create(c) \/ CreateFails(c) \/ CreateLeaves(c)
  \/ Write(c) \/ WriteFails(c)
  \/ SyncFile(c) \/ SyncFails(c) \/ Rename(c) \/ RenameFails(c)
  \/ SyncDir(c) \/ SyncDirFails(c) \/ Cleanup(c) \/ CleanupFails(c)
  \/ Unlock(c)

\* Every caller has returned.
Rest == (\A c \in Callers : pc[c] = "idle") /\ UNCHANGED vars

Next ==
  \/ \E c \in Callers :
       Begin(c) \/ UpdateStep(c) \/ RemoveFile(c) \/ RemoveFails(c) \/ Crash(c)
  \/ WriteBack \/ PowerLoss
  \/ Rest

Spec == Init /\ [][Next]_vars

-----------------------------------------------------------------------------
(* Properties                                                               *)

\* Updates add to each other and none is lost, caches change as a whole, and
\* the path never leads to anything else (UpdateFile, atomicWrite).
Abstract == INSTANCE AtomicFile
  WITH versions <- [i \in 1..Len(disk) |-> disk[i].data]
ImplementsAtomicFile == Abstract!Spec

\* Neither a reader, who takes no lock, nor anybody after a power loss finds
\* a part of a content.
NeverTorn == \A i \in 1..Len(disk) : disk[i].whole

\* An update of the configuration that was reported as done survives later
\* updates, crashes and power losses.
AckedSurvives ==
  kind = "config" => \A i \in 1..Len(disk) : acked \subseteq disk[i].data

\* Nobody removes or renames the temporary file another caller is writing:
\* the name a renamed file gives up is not taken by somebody else before the
\* deferred cleanup has removed it once more.
OwnTempStays ==
  \A c \in Callers : pc[c] \in Writing => job[c].name \in present

\* A temporary file remains only where its process died or could not remove
\* it.
NoTempLeft ==
  present \subseteq orphans \cup {job[c].name : c \in Callers}

(***************************************************************************)
(* Nobody finds an incomplete file, not even after a power loss; a          *)
(* temporary file is its owner's until it is renamed, and none is left but  *)
(* by a crash or a failed removal.                                          *)
(***************************************************************************)
FilesAreIntact ==
  TypeOK /\ NeverTorn /\ OwnTempStays /\ NoTempLeft
=============================================================================
