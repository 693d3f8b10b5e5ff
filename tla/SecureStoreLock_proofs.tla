----------------------- MODULE SecureStoreLock_proofs -----------------------
(***************************************************************************)
(* Theorems about withPathLock for any number of goroutines and processes.  *)
(* The argument: the registry's reference counter is exact, so an entry     *)
(* lives as long as a call retains it (Registry); therefore all calls of a  *)
(* process share one token, owned by one of them (TokenOwned); and the OS   *)
(* lock belongs to the call that is between TryFlock and ReleaseFlock       *)
(* (FlockOwned).                                                            *)
(***************************************************************************)
EXTENDS SecureStoreLock, FiniteSetTheorems, TLAPS

Registry ==
  /\ \A t \in Threads : mine[t] = NoLock <=> pc[t] = "idle"
  /\ \A p, q \in Processes : entry[p] = entry[q] /\ entry[p] # NoLock => p = q
  /\ \A p \in Processes : entry[p] # NoLock =>
       \E t \in Threads : ProcessOf[t] = p /\ mine[t] = entry[p]

TokenOwned ==
  /\ \A t \in Threads : pc[t] \in HasToken => token[mine[t]]
  /\ \A t, u \in Threads :
       pc[t] \in HasToken /\ pc[u] \in HasToken /\ mine[t] = mine[u] => t = u

FlockOwned == \A t \in Threads : pc[t] \in HasFlock <=> flock = t

IInv ==
  /\ TypeOK /\ RefsCountHolders /\ OneLockPerProcess
  /\ Registry /\ TokenOwned /\ FlockOwned

-----------------------------------------------------------------------------
(* Counting the calls that retain an object                                 *)

\* The users of an object are finitely many (Threads is finite).
LEMMA UsersFinite == \A l : IsFiniteSet(Users(l))
<1>1. \A l : Users(l) \in SUBSET Threads
  BY DEF Users
<1>. QED  BY <1>1, FS_Subset, LockAssumption DEF LockAssumption

\* A counter of one or more is what releaseProcessLock finds when a call
\* returns; it is one exactly when nobody else retains the object.
LEMMA LastUser ==
  ASSUME NEW t \in Threads, RefsCountHolders, mine[t] \in Locks
  PROVE  /\ refs[mine[t]] \in Nat \ {0}
         /\ refs[mine[t]] = 1 <=> Users(mine[t]) = {t}
<1>. DEFINE S == Users(mine[t])
<1>1. t \in S /\ IsFiniteSet(S)
  BY UsersFinite DEF Users
<1>2. refs[mine[t]] = Cardinality(S)
  BY DEF RefsCountHolders
<1>3. Cardinality(S) \in Nat
  BY <1>1, FS_CardinalityType
<1>4. Cardinality(S) # 0
  BY <1>1, FS_EmptySet
<1>5. Cardinality(S) = 1 <=> S = {t}
  BY <1>1, FS_Singleton
<1>. QED  BY <1>2, <1>3, <1>4, <1>5

-----------------------------------------------------------------------------
(* The inductive invariant                                                  *)

LEMMA InitIInv == Init => IInv
<1>. SUFFICES ASSUME Init PROVE IInv
  OBVIOUS
<1>1. RefsCountHolders
  <2>1. \A l \in Locks : Users(l) = {}
    BY LockAssumption DEF Init, Users, LockAssumption
  <2>. QED  BY <2>1, FS_EmptySet DEF Init, RefsCountHolders
<1>2. TypeOK
  BY DEF Init, TypeOK, PCs
<1>. QED
  BY <1>1, <1>2, LockAssumption
  DEF Init, IInv, OneLockPerProcess, Registry, TokenOwned, FlockOwned,
      HasToken, HasFlock, LockAssumption

\* A step that leaves the registry and the retained objects alone keeps
\* the counters exact.
LEMMA SameUsers ==
  ASSUME RefsCountHolders, UNCHANGED <<refs, mine>>
  PROVE  RefsCountHolders'
<1>1. \A l : Users(l)' = Users(l)
  BY DEF Users
<1>. QED  BY <1>1 DEF RefsCountHolders

LEMMA RetainStep ==
  ASSUME IInv, NEW t \in Threads, Retain(t)
  PROVE  IInv'
<1>. DEFINE p == ProcessOf[t]
<1>1. PICK l \in Locks :
        /\ IF entry[p] # NoLock THEN l = entry[p] ELSE Unreferenced(l)
        /\ entry' = [entry EXCEPT ![p] = l]
        /\ refs' = [refs EXCEPT ![l] = IF entry[p] = NoLock THEN 1 ELSE @ + 1]
        /\ token' = [token EXCEPT ![l] =
                      IF entry[p] = NoLock THEN FALSE ELSE @]
        /\ mine' = [mine EXCEPT ![t] = l]
  BY DEF Retain
<1>2. p \in Processes /\ mine[t] = NoLock /\ l # NoLock
  BY LockAssumption DEF LockAssumption, Retain, IInv, Registry
<1>3. Users(l)' = Users(l) \cup {t} /\ t \notin Users(l)
  BY <1>1, <1>2 DEF Users, IInv, TypeOK
<1>4. \A k \in Locks : k # l => Users(k)' = Users(k)
  BY <1>1, <1>2, LockAssumption DEF Users, IInv, TypeOK, LockAssumption
<1>5. RefsCountHolders'
  <2>1. Cardinality(Users(l)') = Cardinality(Users(l)) + 1
    BY <1>3, UsersFinite, FS_AddElement
  <2>2. refs'[l] = Cardinality(Users(l)')
    <3>1. CASE entry[p] = NoLock
      <4>1. Users(l) = {}
        BY <1>1, <3>1 DEF Unreferenced
      <4>2. Cardinality(Users(l)') = 1
        BY <2>1, <4>1, FS_EmptySet
      <4>. QED  BY <1>1, <3>1, <4>2 DEF IInv, TypeOK
    <3>2. CASE entry[p] # NoLock
      BY <1>1, <2>1, <3>2 DEF IInv, TypeOK, RefsCountHolders
    <3>. QED  BY <3>1, <3>2
  <2>. QED
    BY <1>1, <1>4, <2>2 DEF IInv, TypeOK, RefsCountHolders
<1>6. TypeOK'
  <2>1. refs' \in [Locks -> Nat]
    BY <1>1 DEF IInv, TypeOK
  <2>2. token' \in [Locks -> BOOLEAN]
    BY <1>1 DEF IInv, TypeOK
  <2>. QED
    BY <1>1, <1>2, <2>1, <2>2 DEF Retain, Goto, IInv, TypeOK, PCs
<1>7. OneLockPerProcess' /\ Registry'
  BY <1>1, <1>2, LockAssumption
  DEF Retain, Goto, Unreferenced, Users, IInv, TypeOK, OneLockPerProcess,
      Registry, LockAssumption
<1>8. TokenOwned' /\ FlockOwned'
  <2>1. \A u \in Threads : pc'[u] \in HasToken => u # t /\ pc[u] = pc'[u]
    BY DEF Retain, Goto, IInv, TypeOK, HasToken
  <2>2. entry[p] = NoLock => \A u \in Threads : mine[u] # l
    BY <1>1 DEF Unreferenced, Users
  <2>3. TokenOwned'
    BY <1>1, <1>2, <2>1, <2>2 DEF IInv, TypeOK, TokenOwned, Registry, HasToken
  <2>4. FlockOwned'
    BY DEF Retain, Goto, IInv, TypeOK, FlockOwned, HasFlock
  <2>. QED  BY <2>3, <2>4
<1>. QED  BY <1>5, <1>6, <1>7, <1>8 DEF IInv

LEMMA UnretainStep ==
  ASSUME IInv, NEW t \in Threads, Unretain(t)
  PROVE  IInv'
<1>. DEFINE p == ProcessOf[t]
<1>1. PICK l \in Locks :
        mine[t] = l /\ p \in Processes /\ entry[p] = l /\ l # NoLock
  <2>1. p \in Processes
    BY LockAssumption DEF LockAssumption
  <2>2. pc[t] = "unretain"
    BY DEF Unretain
  <2>3. mine[t] # NoLock
    BY <2>2 DEF IInv, Registry
  <2>. QED
    BY <2>1, <2>3 DEF IInv, TypeOK, OneLockPerProcess
<1>2. /\ refs[l] \in Nat \ {0}
      /\ refs[l] = 1 <=> Users(l) = {t}
  BY <1>1, LastUser DEF IInv
<1>3. /\ refs' = [refs EXCEPT ![l] = @ - 1]
      /\ entry' = IF refs[l] = 1 THEN [entry EXCEPT ![p] = NoLock] ELSE entry
      /\ mine' = [mine EXCEPT ![t] = NoLock]
      /\ pc' = [pc EXCEPT ![t] = "idle"]
  BY <1>1 DEF Unretain, Goto
<1>4. Users(l)' = Users(l) \ {t} /\ t \in Users(l)
  BY <1>1, <1>3 DEF Users, IInv, TypeOK
<1>5. \A k \in Locks : k # l => Users(k)' = Users(k)
  BY <1>1, <1>3, LockAssumption DEF Users, IInv, TypeOK, LockAssumption
<1>6. RefsCountHolders'
  <2>1. Cardinality(Users(l)') = Cardinality(Users(l)) - 1
    BY <1>4, UsersFinite, FS_RemoveElement
  <2>. QED
    BY <1>1, <1>3, <1>5, <2>1 DEF IInv, TypeOK, RefsCountHolders
<1>7. TypeOK'
  BY <1>1, <1>2, <1>3 DEF Unretain, IInv, TypeOK, PCs
<1>8. OneLockPerProcess' /\ Registry'
  <2>1. \A u \in Threads : u # t /\ ProcessOf[u] = p /\ mine[u] # NoLock =>
          refs[l] # 1
    BY <1>1, <1>2 DEF Users, IInv, OneLockPerProcess
  <2>2. refs[l] # 1 => \E u \in Threads : u # t /\ mine[u] = l
    BY <1>1, <1>2 DEF Users
  <2>3. \A u \in Threads : mine[u] = l => ProcessOf[u] = p
    BY <1>1, LockAssumption
    DEF LockAssumption, IInv, OneLockPerProcess, Registry
  <2>4. OneLockPerProcess'
    BY <1>1, <1>3, <2>1, LockAssumption
    DEF LockAssumption, IInv, TypeOK, OneLockPerProcess
  <2>5. Registry'
    BY <1>1, <1>3, <2>2, <2>3, LockAssumption
    DEF LockAssumption, IInv, TypeOK, Registry
  <2>. QED  BY <2>4, <2>5
<1>9. TokenOwned' /\ FlockOwned'
  BY <1>1, <1>3
  DEF Unretain, IInv, TypeOK, TokenOwned, FlockOwned, HasToken, HasFlock
<1>. QED  BY <1>6, <1>7, <1>8, <1>9 DEF IInv

\* The kernel's and the heap's part in it: a death frees what the process
\* held and nothing else.
LEMMA KillStep ==
  ASSUME IInv, NEW p \in Processes, Kill(p)
  PROVE  IInv'
<1>. DEFINE dead == {t \in Threads : ProcessOf[t] = p}
<1>1. PICK gone :
        /\ gone = {mine[t] : t \in dead} \cup {entry[p]}
        /\ entry' = [entry EXCEPT ![p] = NoLock]
        /\ refs' = [l \in Locks |-> IF l \in gone THEN 0 ELSE refs[l]]
        /\ token' = [l \in Locks |-> IF l \in gone THEN FALSE ELSE token[l]]
        /\ mine' = [t \in Threads |-> IF t \in dead THEN NoLock ELSE mine[t]]
        /\ flock' = IF flock \in dead THEN NoThread ELSE flock
        /\ cancelled' = cancelled \ dead
        /\ pc' = [t \in Threads |-> IF t \in dead THEN "idle" ELSE pc[t]]
  BY DEF Kill
<1>2. \A l \in gone : l \in Locks => l = entry[p]
  BY <1>1, LockAssumption DEF LockAssumption, IInv, OneLockPerProcess
<1>3. \A u \in Threads \ dead : mine[u] \in Locks => mine[u] \notin gone
  BY <1>2, LockAssumption
  DEF LockAssumption, IInv, TypeOK, OneLockPerProcess, Registry
<1>4. TypeOK'
  BY <1>1 DEF IInv, TypeOK, PCs
<1>5. RefsCountHolders'
  <2>1. ASSUME NEW l \in Locks, l \in gone  PROVE Users(l)' = {}
    BY <1>1, <1>3, <2>1, LockAssumption DEF LockAssumption, Users
  <2>2. ASSUME NEW l \in Locks, l \notin gone  PROVE Users(l)' = Users(l)
    BY <1>1, <2>2, LockAssumption DEF LockAssumption, Users
  <2>. QED
    BY <1>1, <2>1, <2>2, FS_EmptySet DEF IInv, RefsCountHolders
<1>6. OneLockPerProcess' /\ Registry'
  BY <1>1, LockAssumption
  DEF LockAssumption, IInv, TypeOK, OneLockPerProcess, Registry
<1>7. TokenOwned'
  BY <1>1, <1>3, LockAssumption
  DEF LockAssumption, IInv, TypeOK, TokenOwned, Registry, HasToken
<1>8. FlockOwned'
  BY <1>1, LockAssumption
  DEF LockAssumption, IInv, TypeOK, FlockOwned, HasFlock
<1>. QED  BY <1>4, <1>5, <1>6, <1>7, <1>8 DEF IInv

\* The steps between taking a reference and giving it back.
LEMMA CallStep ==
  ASSUME IInv, NEW t \in Threads,
         \/ TakeToken(t) \/ Contend(t) \/ GiveUpToken(t)
         \/ TryFlock(t) \/ FlockError(t) \/ TimerFires(t) \/ GiveUpFlock(t)
         \/ CallbackReturns(t) \/ ReleaseFlock(t) \/ ReturnToken(t)
         \/ Cancel(t)
  PROVE  IInv'
<1>1. UNCHANGED <<entry, refs, mine>>
  BY DEF TakeToken, Contend, GiveUpToken, TryFlock, FlockError, TimerFires,
         GiveUpFlock, CallbackReturns, ReleaseFlock, ReturnToken, Cancel
<1>2. /\ mine[t] \in Locks
      /\ \E label \in PCs \ {"idle"} : pc' = [pc EXCEPT ![t] = label]
      /\ pc[t] # "idle"
  BY DEF TakeToken, Contend, GiveUpToken, TryFlock, FlockError, TimerFires,
         GiveUpFlock, CallbackReturns, ReleaseFlock, ReturnToken, Cancel,
         Goto, IInv, TypeOK, Registry, PCs, HasToken
<1>3. RefsCountHolders'
  BY <1>1, SameUsers DEF IInv
<1>4. OneLockPerProcess' /\ Registry'
  BY <1>1, <1>2 DEF IInv, TypeOK, OneLockPerProcess, Registry
<1>5. TypeOK' /\ TokenOwned' /\ FlockOwned'
  <2>1. CASE TakeToken(t)
    BY <1>1, <1>2, <2>1
    DEF TakeToken, Goto, IInv, TypeOK, TokenOwned, FlockOwned, HasToken,
        HasFlock, PCs
  <2>2. CASE \/ Contend(t) \/ GiveUpToken(t) \/ FlockError(t)
             \/ TimerFires(t) \/ GiveUpFlock(t) \/ Cancel(t)
    BY <1>1, <1>2, <2>2
    DEF Contend, GiveUpToken, FlockError, TimerFires, GiveUpFlock, Cancel,
        Goto, IInv, TypeOK, TokenOwned, FlockOwned, HasToken, HasFlock, PCs
  <2>3. CASE TryFlock(t)
    BY <1>1, <1>2, <2>3, LockAssumption
    DEF TryFlock, Goto, IInv, TypeOK, TokenOwned, FlockOwned, HasToken,
        HasFlock, PCs, LockAssumption
  <2>4. CASE CallbackReturns(t) \/ ReleaseFlock(t)
    BY <1>1, <1>2, <2>4, LockAssumption
    DEF CallbackReturns, ReleaseFlock, Goto, IInv, TypeOK, TokenOwned,
        FlockOwned, HasToken, HasFlock, PCs, LockAssumption
  <2>5. CASE ReturnToken(t)
    BY <1>1, <1>2, <2>5
    DEF ReturnToken, Goto, IInv, TypeOK, TokenOwned, FlockOwned, HasToken,
        HasFlock, PCs
  <2>. QED  BY <2>1, <2>2, <2>3, <2>4, <2>5
<1>. QED  BY <1>3, <1>4, <1>5 DEF IInv

LEMMA NextIInv == IInv /\ [Next]_vars => IInv'
<1>. SUFFICES ASSUME IInv, [Next]_vars PROVE IInv'
  OBVIOUS
<1>1. ASSUME NEW t \in Threads, Retain(t) PROVE IInv'
  BY <1>1, RetainStep
<1>2. ASSUME NEW t \in Threads, Unretain(t) PROVE IInv'
  BY <1>2, UnretainStep
<1>3. ASSUME NEW t \in Threads,
             Step(t) \/ CallbackReturns(t) \/ FlockError(t) \/ Cancel(t)
      PROVE  IInv'
  BY <1>2, <1>3, CallStep DEF Step
<1>4. ASSUME NEW p \in Processes, Kill(p) PROVE IInv'
  BY <1>4, KillStep
<1>5. CASE UNCHANGED vars
  <2>1. RefsCountHolders'
    BY <1>5, SameUsers DEF IInv, vars
  <2>. QED
    BY <1>5, <2>1
    DEF IInv, vars, TypeOK, OneLockPerProcess, Registry, TokenOwned,
        FlockOwned, Users
<1>. QED  BY <1>1, <1>3, <1>4, <1>5 DEF Next

THEOREM Invariant == Spec => []IInv
BY InitIInv, NextIInv, PTL DEF Spec

-----------------------------------------------------------------------------
(* The theorems                                                             *)

\* Every variable keeps its type; in particular no counter of the registry
\* drops below zero, however calls end.
THEOREM TypeCorrect == Spec => []TypeOK
<1>1. IInv => TypeOK
  BY DEF IInv
<1>. QED  BY <1>1, Invariant, PTL

\* retainProcessLock and releaseProcessLock count exactly.
THEOREM RefsExact == Spec => []RefsCountHolders
<1>1. IInv => RefsCountHolders
  BY DEF IInv
<1>. QED  BY <1>1, Invariant, PTL

\* All calls of a process share the registry's object, at any time.
THEOREM OneLock == Spec => []OneLockPerProcess
<1>1. IInv => OneLockPerProcess
  BY DEF IInv
<1>. QED  BY <1>1, Invariant, PTL

\* One goroutine per process is past the channel.
THEOREM OneContender == Spec => []OneContenderPerProcess
<1>1. IInv => OneContenderPerProcess
  BY DEF IInv, Registry, OneLockPerProcess, TokenOwned, OneContenderPerProcess,
         HasToken
<1>. QED  BY <1>1, Invariant, PTL

\* At most one callback runs on the machine.
THEOREM Exclusive == Spec => []MutualExclusion
<1>1. IInv => MutualExclusion
  BY DEF IInv, FlockOwned, HasFlock, MutualExclusion
<1>. QED  BY <1>1, Invariant, PTL

\* A process with no call under way leaves nothing behind.
THEOREM NothingKept == Spec => []QuiescentKeepsNothing
<1>1. IInv => QuiescentKeepsNothing
  BY LockAssumption
  DEF LockAssumption, IInv, Registry, FlockOwned, HasFlock,
      QuiescentKeepsNothing
<1>. QED  BY <1>1, Invariant, PTL

\* withPathLock implements the abstract lock: only the holder releases it,
\* and only a free lock is acquired.
THEOREM Refinement == Spec => ImplementsPathLock
<1>1. Init => Abstract!Init
  BY DEF Init, Abstract!Init
<1>2. IInv /\ [Next]_vars => [Abstract!Next]_flock
  <2>. SUFFICES ASSUME IInv, [Next]_vars PROVE [Abstract!Next]_flock
    OBVIOUS
  <2>1. ASSUME NEW t \in Threads, TryFlock(t) PROVE [Abstract!Next]_flock
    BY <2>1 DEF TryFlock, Abstract!Next, Abstract!Acquire
  <2>2. ASSUME NEW t \in Threads, ReleaseFlock(t)
        PROVE  [Abstract!Next]_flock
    <3>1. flock = t
      BY <2>2 DEF ReleaseFlock, IInv, FlockOwned, HasFlock
    <3>. QED  BY <2>2, <3>1 DEF ReleaseFlock, Abstract!Next, Abstract!Release
  <2>3. ASSUME NEW p \in Processes, Kill(p) PROVE [Abstract!Next]_flock
    BY <2>3 DEF Kill, Abstract!Next, Abstract!Release
  <2>4. CASE \/ UNCHANGED vars
             \/ \E t \in Threads :
                  \/ Retain(t) \/ TakeToken(t) \/ Contend(t) \/ GiveUpToken(t)
                  \/ TimerFires(t) \/ GiveUpFlock(t) \/ ReturnToken(t)
                  \/ Unretain(t) \/ CallbackReturns(t) \/ FlockError(t)
                  \/ Cancel(t)
    BY <2>4
    DEF vars, Retain, TakeToken, Contend, GiveUpToken, TimerFires, GiveUpFlock,
        ReturnToken, Unretain, CallbackReturns, FlockError, Cancel
  <2>. QED  BY <2>1, <2>2, <2>3, <2>4 DEF Next, Step
<1>. QED
  BY <1>1, <1>2, Invariant, PTL DEF Spec, ImplementsPathLock, Abstract!Spec

\* All that the runs check of the states of the lock: the registry and the
\* file lock are never inconsistent, whoever is cancelled, fails or dies.
THEOREM LockIsSafe == Spec => []LockSafety
BY TypeCorrect, RefsExact, OneLock, OneContender, Exclusive, NothingKept, PTL
DEF LockSafety
=============================================================================
