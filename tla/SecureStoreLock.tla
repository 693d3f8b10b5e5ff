--------------------------- MODULE SecureStoreLock ---------------------------
(***************************************************************************)
(* internal/securestore: withPathLock on one lock path.  A caller first     *)
(* takes a lock of its own process - a channel of capacity one, found       *)
(* through a reference-counted registry - and then, as the only contender   *)
(* of that process, polls flock(2) on the lock file.  Threads stands for    *)
(* the goroutines, ProcessOf for the OS process each one runs in; the       *)
(* paths of a registry do not interact, so one path is modelled.            *)
(***************************************************************************)
EXTENDS FiniteSets, Naturals

CONSTANTS Threads,    \* goroutines that call withPathLock on the path
          Processes,  \* OS processes
          ProcessOf,  \* Threads -> Processes
          Locks,      \* identities of processLock objects on the heap
          NoThread, NoLock,
          OsErrors    \* whether opening or locking the file may fail

ASSUME LockAssumption ==
  /\ IsFiniteSet(Threads)
  /\ ProcessOf \in [Threads -> Processes]
  /\ NoThread \notin Threads
  /\ NoLock \notin Locks
  /\ OsErrors \in BOOLEAN

VARIABLES
  entry,      \* processLockRegistry.entries[path] of each process
  refs,       \* processLock.refs
  token,      \* processLock.token: TRUE while the channel holds its element
  mine,       \* the processLock a call has retained
  flock,      \* the open file description that owns the OS lock
  cancelled,  \* calls whose context is done
  pc

vars == <<entry, refs, token, mine, flock, cancelled, pc>>

(***************************************************************************)
(* Control points of withPathLock.  From "flock" to "untoken" the call owns *)
(* its process's token; from "inside" to "unflock" it owns the OS lock.     *)
(***************************************************************************)
HasToken == {"flock", "poll", "inside", "unflock", "untoken"}
HasFlock == {"inside", "unflock"}
PCs == {"idle", "select", "wait", "unretain"} \cup HasToken

TypeOK ==
  /\ entry \in [Processes -> Locks \cup {NoLock}]
  /\ refs \in [Locks -> Nat]
  /\ token \in [Locks -> BOOLEAN]
  /\ mine \in [Threads -> Locks \cup {NoLock}]
  /\ flock \in Threads \cup {NoThread}
  /\ cancelled \subseteq Threads
  /\ pc \in [Threads -> PCs]

Init ==
  /\ entry = [p \in Processes |-> NoLock]
  /\ refs = [l \in Locks |-> 0]
  /\ token = [l \in Locks |-> FALSE]
  /\ mine = [t \in Threads |-> NoLock]
  /\ flock = NoThread
  /\ cancelled = {}
  /\ pc = [t \in Threads |-> "idle"]

Goto(t, label) == pc' = [pc EXCEPT ![t] = label]

Users(l) == {t \in Threads : mine[t] = l}
Unreferenced(l) == Users(l) = {} /\ \A p \in Processes : entry[p] # l

(***************************************************************************)
(* retainProcessLock: under the registry mutex, reuse the entry or allocate *)
(* one.  An object nothing points to any more may be allocated again.       *)
(***************************************************************************)
Retain(t) ==
  /\ pc[t] = "idle"
  /\ Goto(t, "select")
  /\ LET p == ProcessOf[t] IN
     \E l \in Locks :
       /\ IF entry[p] # NoLock THEN l = entry[p] ELSE Unreferenced(l)
       /\ entry' = [entry EXCEPT ![p] = l]
       /\ refs' = [refs EXCEPT ![l] = IF entry[p] = NoLock THEN 1 ELSE @ + 1]
       /\ token' = [token EXCEPT ![l] = IF entry[p] = NoLock THEN FALSE ELSE @]
       /\ mine' = [mine EXCEPT ![t] = l]
  /\ UNCHANGED <<flock, cancelled>>

\* Sending on the channel succeeds, in either select.
TakeToken(t) ==
  /\ pc[t] \in {"select", "wait"}
  /\ ~token[mine[t]]
  /\ token' = [token EXCEPT ![mine[t]] = TRUE]
  /\ Goto(t, "flock")
  /\ UNCHANGED <<entry, refs, mine, flock, cancelled>>

\* The default branch of the first select: contended and not cancelled.
Contend(t) ==
  /\ pc[t] = "select"
  /\ token[mine[t]]
  /\ t \notin cancelled
  /\ Goto(t, "wait")
  /\ UNCHANGED <<entry, refs, token, mine, flock, cancelled>>

\* <-ctx.Done() wins, in either select.
GiveUpToken(t) ==
  /\ pc[t] \in {"select", "wait"}
  /\ t \in cancelled
  /\ Goto(t, "unretain")
  /\ UNCHANGED <<entry, refs, token, mine, flock, cancelled>>

\* Mutant of TryFlock: EWOULDBLOCK is not told from success.
TryFlockSteals(t) ==
  /\ pc[t] = "flock"
  /\ flock' = t
  /\ Goto(t, "inside")
  /\ UNCHANGED <<entry, refs, token, mine, cancelled>>

\* LOCK_EX|LOCK_NB: the lock, or EWOULDBLOCK and a 10ms timer.
TryFlock(t) ==
  /\ pc[t] = "flock"
  /\ IF flock = NoThread
       THEN flock' = t /\ Goto(t, "inside")
       ELSE Goto(t, "poll") /\ UNCHANGED flock
  /\ UNCHANGED <<entry, refs, token, mine, cancelled>>

\* Opening the lock file failed, or flock failed for another reason.
FlockError(t) ==
  /\ OsErrors
  /\ pc[t] = "flock"
  /\ Goto(t, "untoken")
  /\ UNCHANGED <<entry, refs, token, mine, flock, cancelled>>

\* Mutant of TimerFires: the loop is left instead of tried again.
TimerFallsThrough(t) ==
  /\ pc[t] = "poll"
  /\ Goto(t, "inside")
  /\ UNCHANGED <<entry, refs, token, mine, flock, cancelled>>

TimerFires(t) ==
  /\ pc[t] = "poll"
  /\ Goto(t, "flock")
  /\ UNCHANGED <<entry, refs, token, mine, flock, cancelled>>

GiveUpFlock(t) ==
  /\ pc[t] = "poll"
  /\ t \in cancelled
  /\ Goto(t, "untoken")
  /\ UNCHANGED <<entry, refs, token, mine, flock, cancelled>>

\* fn returned; a done context does not interrupt it.
CallbackReturns(t) ==
  /\ pc[t] = "inside"
  /\ Goto(t, "unflock")
  /\ UNCHANGED <<entry, refs, token, mine, flock, cancelled>>

\* release(): even when LOCK_UN fails, closing the file gives the lock up.
ReleaseFlock(t) ==
  /\ pc[t] = "unflock"
  /\ flock' = NoThread
  /\ Goto(t, "untoken")
  /\ UNCHANGED <<entry, refs, token, mine, cancelled>>

\* Mutant of ReturnToken: the channel is not drained.
ReturnTokenKeeps(t) ==
  /\ pc[t] = "untoken"
  /\ Goto(t, "unretain")
  /\ UNCHANGED <<entry, refs, token, mine, flock, cancelled>>

ReturnToken(t) ==
  /\ pc[t] = "untoken"
  /\ token' = [token EXCEPT ![mine[t]] = FALSE]
  /\ Goto(t, "unretain")
  /\ UNCHANGED <<entry, refs, mine, flock, cancelled>>

(***************************************************************************)
(* releaseProcessLock: drop the reference and, with the last one, the       *)
(* registry's entry if it still is this object.                             *)
(***************************************************************************)
Unretain(t) ==
  /\ pc[t] = "unretain"
  /\ LET l == mine[t]  p == ProcessOf[t] IN
     /\ refs' = [refs EXCEPT ![l] = @ - 1]
     /\ entry' = IF refs[l] = 1 /\ entry[p] = l
                   THEN [entry EXCEPT ![p] = NoLock] ELSE entry
  /\ mine' = [mine EXCEPT ![t] = NoLock]
  /\ cancelled' = cancelled \ {t}
  /\ Goto(t, "idle")
  /\ UNCHANGED <<token, flock>>

\* The caller's context is cancelled or times out.
Cancel(t) ==
  /\ pc[t] # "idle"
  /\ t \notin cancelled
  /\ cancelled' = cancelled \cup {t}
  /\ UNCHANGED <<entry, refs, token, mine, flock, pc>>

\* The process is killed: its heap is gone and the kernel closes its files.
Kill(p) ==
  LET dead == {t \in Threads : ProcessOf[t] = p}
      gone == {mine[t] : t \in dead} \cup {entry[p]}
  IN /\ \E t \in dead : pc[t] # "idle"
     /\ entry' = [entry EXCEPT ![p] = NoLock]
     /\ refs' = [l \in Locks |-> IF l \in gone THEN 0 ELSE refs[l]]
     /\ token' = [l \in Locks |-> IF l \in gone THEN FALSE ELSE token[l]]
     /\ mine' = [t \in Threads |-> IF t \in dead THEN NoLock ELSE mine[t]]
     /\ flock' = IF flock \in dead THEN NoThread ELSE flock
     /\ cancelled' = cancelled \ dead
     /\ pc' = [t \in Threads |-> IF t \in dead THEN "idle" ELSE pc[t]]

\* What a call does of its own accord once it is under way.
Step(t) ==
  \/ TakeToken(t) \/ Contend(t) \/ GiveUpToken(t)
  \/ TryFlock(t) \/ TimerFires(t) \/ GiveUpFlock(t)
  \/ ReleaseFlock(t) \/ ReturnToken(t) \/ Unretain(t)

Next ==
  \/ \E t \in Threads :
       Retain(t) \/ Step(t) \/ CallbackReturns(t) \/ FlockError(t) \/ Cancel(t)
  \/ \E p \in Processes : Kill(p)

Spec == Init /\ [][Next]_vars

(***************************************************************************)
(* The scheduler runs every goroutine and fires every timer, and the select *)
(* of the polling loop picks among its ready cases at random, so it does    *)
(* not pass over a done context for ever.  Nothing makes a callback return: *)
(* it may talk to a server or wait for a user.                              *)
(***************************************************************************)
FairSpec ==
  Spec /\ \A t \in Threads : WF_vars(Step(t)) /\ SF_vars(GiveUpFlock(t))

\* No context is cancelled, nobody is killed and no call of the OS fails.
Undisturbed ==
  \E t \in Threads : Retain(t) \/ Step(t) \/ CallbackReturns(t)

-----------------------------------------------------------------------------
(* Properties                                                               *)

\* The registry's counter of an object is the number of calls that retain
\* it, so that the entry is dropped by the last call and by no earlier one
\* (retainProcessLock, releaseProcessLock).
RefsCountHolders ==
  \A l \in Locks : refs[l] = Cardinality(Users(l))

\* All calls of a process on the path use one processLock, the registry's: a
\* second object would let two goroutines of a process past the token.
OneLockPerProcess ==
  \A t \in Threads : mine[t] # NoLock => mine[t] = entry[ProcessOf[t]]

\* At most one goroutine of a process is past the token, polling or owning
\* the OS lock (withPathLock's select).
OneContenderPerProcess ==
  \A t, u \in Threads :
    /\ pc[t] \in HasToken /\ pc[u] \in HasToken
    /\ ProcessOf[t] = ProcessOf[u]
    => t = u

\* Mutual exclusion over all processes: at most one callback runs.
MutualExclusion ==
  \A t, u \in Threads : pc[t] = "inside" /\ pc[u] = "inside" => t = u

\* A process none of whose calls is under way keeps no registry entry and no
\* OS lock, however its calls ended: return, cancellation, error or death.
QuiescentKeepsNothing ==
  \A p \in Processes :
    (\A t \in Threads : ProcessOf[t] = p => pc[t] = "idle")
    => /\ entry[p] = NoLock
       /\ \A t \in Threads : ProcessOf[t] = p => flock # t

\* The implementation of the abstract lock.
Abstract == INSTANCE PathLock WITH holder <- flock
ImplementsPathLock == Abstract!Spec

Waiting(t) == pc[t] \in {"select", "wait", "flock", "poll"}

\* A cancelled waiter returns although the owner may keep the lock for ever
\* (both selects and the polling loop watch ctx.Done()).
CancelledWaiterReturns ==
  \A t \in Threads : (Waiting(t) /\ t \in cancelled) ~> ~Waiting(t)

\* Once nothing disturbs the calls any more, somebody gets in whenever
\* somebody waits: no cancellation, error or death in the past has left the
\* token or the OS lock taken or unattended.
SomeoneGetsIn ==
  <>[][Undisturbed]_vars =>
    ((\E t \in Threads : Waiting(t)) ~>
       ((\E t \in Threads : pc[t] = "inside") \/ ~\E t \in Threads : Waiting(t)))

(***************************************************************************)
(* At most one callback runs on the machine, and what excludes the others   *)
(* is in order: the registry counts its users exactly, has one object and   *)
(* one contender per process, and a process at rest keeps nothing           *)
(* (store.go:380, store.go:418).                                            *)
(***************************************************************************)
LockSafety ==
  /\ TypeOK
  /\ RefsCountHolders
  /\ OneLockPerProcess
  /\ OneContenderPerProcess
  /\ MutualExclusion
  /\ QuiescentKeepsNothing

(***************************************************************************)
(* Nobody is kept waiting for good: a cancelled caller returns, and a lock  *)
(* that callers wait for is taken by one of them (store.go:380).            *)
(***************************************************************************)
LockProgress ==
  CancelledWaiterReturns /\ SomeoneGetsIn
=============================================================================
