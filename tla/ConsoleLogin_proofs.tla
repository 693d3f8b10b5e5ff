------------------------- MODULE ConsoleLogin_proofs -------------------------
(***************************************************************************)
(* Theorems about ConsoleLogin for every number of processes, profiles and  *)
(* login sessions, every initial binding and every choice of faults.        *)
(***************************************************************************)
EXTENDS ConsoleLogin, TLAPS

-----------------------------------------------------------------------------
(* The inductive invariant                                                  *)

\* What a command whose program counter is l has in its job j.
JobAt(l, j) ==
  /\ l \in {"lock", "confirm"} \cup Inside => j.ses \in Sessions
  /\ l \in {"confirm", "snapshot", "write", "persist"} => j.tok # NoToken
  /\ l = "lock" /\ j.op = "login" => j.tok # NoToken
  /\ l \in {"snapshot", "write", "bind"} \/ (l = "lock" /\ j.op = "login")
       => j.known \in {NoSession, j.ses} \/ j.agreed
  /\ l \in {"delete", "unbind", "cleared"} => j.op # "login"

\* What it knows of the disk: its session's lock is its own, so that cache
\* and bindings are what it has seen or written.
DiskAt(p) ==
  LET s == job[p].ses  l == pc[p] IN
  /\ l \in Inside => lock[s] = p
  /\ l \in {"refresh", "return"} => job[p].tok = cache[s]
  /\ l \in {"refresh", "persist", "bind", "restore"} => cache[s] # NoToken
  /\ l \in {"unbind", "cleared"} => cache[s] = NoToken
  /\ l = "cleared" => ConsoleProfiles(s) = {}

IInv ==
  /\ TypeOK
  /\ \A p \in Procs : JobAt(pc[p], job[p]) /\ DiskAt(p)

\* A step of p leaves alone what belongs to the owner of another lock: the
\* lock, the cache, and the session's freedom from bindings.
Undisturbed(p) ==
  \A s \in Sessions : lock[s] \notin {p, NoProc} =>
    /\ lock'[s] = lock[s] /\ cache'[s] = cache[s]
    /\ ConsoleProfiles(s)' \subseteq ConsoleProfiles(s)

-----------------------------------------------------------------------------
(* Steps in general                                                         *)

\* What a process knows of the disk outlives the steps of the others.
LEMMA OthersOK ==
  ASSUME IInv, NEW p, Undisturbed(p), NEW q \in Procs, q # p,
         pc'[q] = pc[q], job'[q] = job[q]
  PROVE  DiskAt(q)'
<1>1. CASE pc[q] \in Inside
  <2>1. job[q].ses \in Sessions /\ lock[job[q].ses] = q
    BY <1>1 DEF IInv, JobAt, DiskAt
  <2>2. q # NoProc
    BY ConsoleAssumption DEF ConsoleAssumption
  <2>. QED  BY <2>1, <2>2 DEF IInv, DiskAt, Undisturbed
<1>2. CASE pc[q] \notin Inside
  BY <1>2 DEF DiskAt, Inside
<1>. QED  BY <1>1, <1>2

\* A step of process p that keeps to its own lock.
LEMMA MoveOK ==
  ASSUME IInv, NEW p \in Procs, NEW l \in PCs, NEW j \in JobSet,
         pc' = [pc EXCEPT ![p] = l], job' = [job EXCEPT ![p] = j],
         JobAt(l, j), SharedTypeOK', Undisturbed(p), DiskAt(p)'
  PROVE  IInv'
<1>1. TypeOK'
  BY DEF IInv, TypeOK
<1>2. \A q \in Procs : JobAt(pc'[q], job'[q])
  BY DEF IInv, TypeOK
<1>3. \A q \in Procs : DiskAt(q)'
  BY OthersOK DEF IInv, TypeOK
<1>. QED  BY <1>1, <1>2, <1>3 DEF IInv

\* A step that changes nothing another process can see.
LEMMA SharedOK ==
  ASSUME IInv, NEW p, UNCHANGED shared
  PROVE  /\ SharedTypeOK' /\ Undisturbed(p)
         /\ cache' = cache /\ lock' = lock
         /\ \A s : ConsoleProfiles(s)' = ConsoleProfiles(s)
BY DEF shared, IInv, TypeOK, SharedTypeOK, Undisturbed, ConsoleProfiles

LEMMA JobType == \A p \in Procs : IInv => job[p] \in JobSet
BY DEF IInv, TypeOK

\* Finish needs nothing but what the step did to the shared state.
LEMMA FinishOK ==
  ASSUME IInv, NEW p \in Procs, NEW v \in Verdicts, Finish(p, v),
         SharedTypeOK', Undisturbed(p)
  PROVE  IInv'
<1>. DEFINE j == [job[p] EXCEPT !.out = v]
<1>1. j \in JobSet
  BY JobType DEF JobSet
<1>2. pc' = [pc EXCEPT ![p] = "unwind"] /\ job' = [job EXCEPT ![p] = j]
  BY DEF Finish, Goto
<1>. HIDE DEF j
<1>3. JobAt("unwind", j)
  BY DEF JobAt, Inside
<1>4. DiskAt(p)'
  BY <1>2 DEF DiskAt, Inside, IInv, TypeOK
<1>. QED  BY <1>1, <1>2, <1>3, <1>4, MoveOK DEF PCs

LEMMA NoJobType == NoJob \in JobSet
BY DEF NoJob, JobSet, NoToken, TokenSet, Verdicts

LEMMA InitIInv == Init => IInv
<1>. SUFFICES ASSUME Init PROVE IInv
  OBVIOUS
<1>1. SharedTypeOK
  BY ConsoleAssumption
  DEF Init, ConsoleAssumption, SharedTypeOK, ProfileSet, Absent, TokenSet,
      NoToken, Ids
<1>2. TypeOK
  BY <1>1, NoJobType DEF Init, TypeOK, PCs
<1>3. \A p \in Procs : JobAt(pc[p], job[p]) /\ DiskAt(p)
  BY DEF Init, JobAt, DiskAt, Inside
<1>. QED  BY <1>2, <1>3 DEF IInv

\* The command ends: whatever lock p owned is free.
LEMMA ReleaseOK ==
  ASSUME IInv, NEW p \in Procs, Release(p)
  PROVE  IInv'
<1>1. SharedTypeOK'
  BY DEF Release, IInv, TypeOK, SharedTypeOK
<1>2. Undisturbed(p)
  BY DEF Release, Undisturbed, ConsoleProfiles, IInv, TypeOK, SharedTypeOK
<1>3. pc' = [pc EXCEPT ![p] = "idle"] /\ job' = [job EXCEPT ![p] = NoJob]
  BY DEF Release, Goto
<1>4. JobAt("idle", NoJob)
  BY DEF JobAt, Inside
<1>5. DiskAt(p)'
  BY <1>3 DEF DiskAt, Inside, IInv, TypeOK
<1>. QED  BY <1>1, <1>2, <1>3, <1>4, <1>5, NoJobType, MoveOK DEF PCs

-----------------------------------------------------------------------------
(* Starting and locking                                                     *)

\* A command starts without any lock.
LEMMA StartOK ==
  ASSUME IInv, NEW p \in Procs, NEW l \in {"authorize", "lock"},
         NEW j \in JobSet, Start(p, l, j), JobAt(l, j)
  PROVE  IInv'
<1>1. /\ pc' = [pc EXCEPT ![p] = l] /\ job' = [job EXCEPT ![p] = j]
      /\ cmds' = cmds + 1
      /\ UNCHANGED <<profile, cache, lock, issued, live, stale, admin>>
  BY DEF Start, Goto
<1>2. SharedTypeOK' /\ Undisturbed(p)
  BY <1>1 DEF IInv, TypeOK, SharedTypeOK, Undisturbed, ConsoleProfiles
<1>3. DiskAt(p)'
  BY <1>1 DEF DiskAt, Inside, IInv, TypeOK
<1>. QED  BY <1>1, <1>2, <1>3, MoveOK DEF PCs

LEMMA StartLoginOK ==
  ASSUME IInv, NEW p \in Procs, NEW f \in Profiles, StartLogin(p, f)
  PROVE  IInv'
<1>. DEFINE j == [NoJob EXCEPT !.op = "login", !.prof = f,
                    !.known = profile[f].ses]
<1>1. profile[f].ses \in Sessions \cup {NoSession}
  BY DEF IInv, TypeOK, SharedTypeOK, ProfileSet
<1>2. j \in JobSet
  BY <1>1, NoJobType DEF JobSet, Commands
<1>3. Start(p, "authorize", j)
  BY DEF StartLogin
<1>. HIDE DEF j
<1>4. JobAt("authorize", j)
  BY DEF JobAt, Inside
<1>. QED  BY <1>2, <1>3, <1>4, StartOK

LEMMA StartRetrieveOK ==
  ASSUME IInv, NEW p \in Procs, NEW f \in Profiles, StartRetrieve(p, f)
  PROVE  IInv'
<1>. DEFINE j == [NoJob EXCEPT !.op = "retrieve", !.prof = f,
                    !.ses = profile[f].ses]
<1>1. profile[f].ses \in Sessions
  BY DEF StartRetrieve, IInv, TypeOK, SharedTypeOK, ProfileSet
<1>2. j \in JobSet /\ j.op = "retrieve" /\ j.ses \in Sessions
  BY <1>1, NoJobType DEF JobSet, Commands
<1>3. Start(p, "lock", j)
  BY DEF StartRetrieve
<1>. HIDE DEF j
<1>4. JobAt("lock", j)
  BY <1>2 DEF JobAt, Inside
<1>. QED  BY <1>2, <1>3, <1>4, StartOK

LEMMA StartLogoutOK ==
  ASSUME IInv, NEW p \in Procs, NEW f \in Profiles, StartLogout(p, f)
  PROVE  IInv'
<1>1. profile[f].ses \in Sessions
  BY DEF StartLogout, IInv, TypeOK, SharedTypeOK, ProfileSet
<1>. DEFINE all == {profile[g].ses : g \in
                      {h \in Profiles : profile[h].mode = "console"}}
                          \ {NoSession, profile[f].ses}
<1>2. all \in SUBSET Sessions
  BY DEF IInv, TypeOK, SharedTypeOK, ProfileSet
<1>3. PICK others \in {{}, all} :
        Start(p, "lock", [NoJob EXCEPT !.op = "logout", !.prof = f,
                            !.ses = profile[f].ses, !.todo = others])
  BY DEF StartLogout
<1>. HIDE DEF all
<1>. DEFINE j == [NoJob EXCEPT !.op = "logout", !.prof = f,
                    !.ses = profile[f].ses, !.todo = others]
<1>4. j \in JobSet /\ j.op = "logout" /\ j.ses \in Sessions
  BY <1>1, <1>2, NoJobType DEF JobSet, Commands
<1>5. Start(p, "lock", j)
  BY <1>3
<1>. HIDE DEF j
<1>6. JobAt("lock", j)
  BY <1>4 DEF JobAt, Inside
<1>. QED  BY <1>4, <1>5, <1>6, StartOK

LEMMA AcquireLockOK ==
  ASSUME IInv, NEW p \in Procs, AcquireLock(p)
  PROVE  IInv'
<1>. DEFINE l == CASE job[p].op = "login" -> "snapshot"
                   [] job[p].op = "retrieve" -> "read"
                   [] OTHER -> "delete"
<1>1. /\ pc[p] = "lock" /\ lock[job[p].ses] = NoProc
      /\ lock' = [lock EXCEPT ![job[p].ses] = p]
      /\ pc' = [pc EXCEPT ![p] = l] /\ job' = [job EXCEPT ![p] = job[p]]
      /\ UNCHANGED <<profile, cache, issued, live, stale, cmds, admin>>
  BY DEF AcquireLock, Goto, IInv, TypeOK
<1>2. /\ l \in {"snapshot", "read", "delete"}
      /\ l = "snapshot" <=> job[p].op = "login"
  OBVIOUS
<1>. HIDE DEF l
<1>3. job[p].ses \in Sessions /\ JobAt("lock", job[p])
  BY <1>1 DEF IInv, JobAt
<1>4. JobAt(l, job[p])
  BY <1>2, <1>3 DEF JobAt, Inside
<1>5. SharedTypeOK' /\ Undisturbed(p)
  BY <1>1, <1>3
  DEF IInv, TypeOK, SharedTypeOK, Undisturbed, ConsoleProfiles
<1>6. DiskAt(p)'
  BY <1>1, <1>2, <1>3 DEF DiskAt, IInv, TypeOK, SharedTypeOK
<1>. QED  BY <1>1, <1>2, <1>4, <1>5, <1>6, JobType, MoveOK DEF PCs, Inside

-----------------------------------------------------------------------------
(* Login                                                                    *)

LEMMA AuthorizedOK ==
  ASSUME IInv, NEW p \in Procs, Authorized(p)
  PROVE  IInv'
<1>1. PICK s \in Sessions, rt \in {0, issued'} :
        /\ live' = live \cup ({rt} \ {0})
        /\ job' = [job EXCEPT ![p].ses = s,
                              ![p].tok = [at |-> issued', rt |-> rt]]
        /\ Goto(p, IF job[p].known \in {NoSession, s} THEN "lock" ELSE "confirm")
  BY DEF Authorized
<1>2. /\ pc[p] = "authorize" /\ issued < MaxId /\ issued' = issued + 1
      /\ UNCHANGED <<profile, cache, lock, stale, cmds, admin>>
  BY DEF Authorized
<1>. DEFINE tok == [at |-> issued', rt |-> rt]
            j == [job[p] EXCEPT !.ses = s, !.tok = tok]
            l == IF job[p].known \in {NoSession, s} THEN "lock" ELSE "confirm"
<1>3. issued' \in Ids /\ issued' \in 0..MaxId /\ issued' # 0
  BY <1>2, ConsoleAssumption
  DEF IInv, TypeOK, SharedTypeOK, ConsoleAssumption, Ids
<1>4. tok \in TokenSet /\ tok # NoToken
  BY <1>3 DEF TokenSet, NoToken, Ids
<1>5. job' = [job EXCEPT ![p] = j] /\ pc' = [pc EXCEPT ![p] = l]
  BY <1>1 DEF Goto, IInv, TypeOK
<1>. HIDE DEF tok
<1>6. /\ j \in JobSet /\ j.ses = s /\ j.tok = tok
      /\ j.known = job[p].known
  BY <1>4, JobType DEF JobSet
<1>7. l \in {"lock", "confirm"} /\ (l = "lock" => j.known \in {NoSession, s})
  BY <1>6
<1>. HIDE DEF j, l
<1>8. JobAt(l, j)
  BY <1>4, <1>6, <1>7 DEF JobAt, Inside
<1>9. SharedTypeOK' /\ Undisturbed(p)
  BY <1>1, <1>2, <1>3
  DEF IInv, TypeOK, SharedTypeOK, Undisturbed, ConsoleProfiles
<1>10. DiskAt(p)'
  BY <1>5, <1>7 DEF DiskAt, Inside, IInv, TypeOK
<1>. QED  BY <1>5, <1>6, <1>7, <1>8, <1>9, <1>10, MoveOK DEF PCs

LEMMA ConfirmOK ==
  ASSUME IInv, NEW p \in Procs, Confirm(p)
  PROVE  IInv'
<1>. DEFINE j == [job[p] EXCEPT !.agreed = TRUE]
<1>1. /\ pc[p] = "confirm" /\ pc' = [pc EXCEPT ![p] = "lock"]
      /\ job' = [job EXCEPT ![p] = j] /\ UNCHANGED shared
  BY DEF Confirm, Goto
<1>2. j \in JobSet /\ j.agreed /\ j.ses = job[p].ses /\ j.tok = job[p].tok
  BY JobType DEF JobSet
<1>. HIDE DEF j
<1>3. JobAt("lock", j)
  BY <1>1, <1>2 DEF IInv, JobAt, Inside
<1>4. DiskAt(p)'
  BY <1>1 DEF DiskAt, Inside, IInv, TypeOK
<1>. QED  BY <1>1, <1>2, <1>3, <1>4, SharedOK, MoveOK DEF PCs

LEMMA SnapshotOK ==
  ASSUME IInv, NEW p \in Procs, Snapshot(p)
  PROVE  IInv'
<1>. DEFINE j == [job[p] EXCEPT !.prior = cache[job[p].ses]]
<1>1. /\ pc[p] = "snapshot" /\ pc' = [pc EXCEPT ![p] = "write"]
      /\ job' = [job EXCEPT ![p] = j] /\ UNCHANGED shared
  BY DEF Snapshot, Goto
<1>2. job[p].ses \in Sessions /\ lock[job[p].ses] = p /\ JobAt("snapshot", job[p])
  BY <1>1 DEF IInv, JobAt, DiskAt, Inside
<1>3. cache[job[p].ses] \in TokenSet
  BY <1>2 DEF IInv, TypeOK, SharedTypeOK
<1>4. /\ j \in JobSet /\ j.ses = job[p].ses /\ j.tok = job[p].tok
      /\ j.known = job[p].known /\ j.agreed = job[p].agreed
  BY <1>3, JobType DEF JobSet
<1>. HIDE DEF j
<1>5. JobAt("write", j)
  BY <1>2, <1>4 DEF JobAt, Inside
<1>6. DiskAt(p)'
  BY <1>1, <1>2, <1>4 DEF DiskAt, IInv, TypeOK, shared
<1>. QED  BY <1>1, <1>4, <1>5, <1>6, SharedOK, MoveOK DEF PCs, Inside

\* The owner of a session's lock writes or deletes its cache.
LEMMA CacheStepOK ==
  ASSUME IInv, NEW p \in Procs, pc[p] \in Inside,
         NEW t \in TokenSet, NEW o,
         cache' = [cache EXCEPT ![job[p].ses] = After(o, t, @)],
         UNCHANGED <<profile, lock, issued, live, stale, cmds, admin>>
  PROVE  /\ job[p].ses \in Sessions /\ lock[job[p].ses] = p
         /\ cache'[job[p].ses] = After(o, t, cache[job[p].ses])
         /\ \A s : ConsoleProfiles(s)' = ConsoleProfiles(s)
         /\ SharedTypeOK' /\ Undisturbed(p)
<1>1. job[p].ses \in Sessions /\ lock[job[p].ses] = p
  BY DEF IInv, JobAt, DiskAt
<1>2. cache'[job[p].ses] = After(o, t, cache[job[p].ses])
  BY <1>1 DEF IInv, TypeOK, SharedTypeOK
<1>3. SharedTypeOK'
  BY <1>1 DEF IInv, TypeOK, SharedTypeOK, After
<1>4. \A s : ConsoleProfiles(s)' = ConsoleProfiles(s)
  BY DEF ConsoleProfiles
<1>5. Undisturbed(p)
  BY <1>1, <1>4 DEF Undisturbed, IInv, TypeOK, SharedTypeOK
<1>. QED  BY <1>1, <1>2, <1>3, <1>4, <1>5

\* A step that moves p on without touching its job.
LEMMA GotoOK ==
  ASSUME IInv, NEW p \in Procs, NEW l \in PCs, Goto(p, l), job' = job,
         JobAt(l, job[p]), SharedTypeOK', Undisturbed(p), DiskAt(p)'
  PROVE  IInv'
<1>1. job' = [job EXCEPT ![p] = job[p]]
  BY DEF IInv, TypeOK
<1>. QED  BY <1>1, JobType, MoveOK DEF Goto

LEMMA WriteOK ==
  ASSUME IInv, NEW p \in Procs, Write(p)
  PROVE  IInv'
<1>1. PICK o \in WriteOutcomes :
        /\ cache' = [cache EXCEPT ![job[p].ses] = After(o, job[p].tok, @)]
        /\ IF o = "ok" THEN Goto(p, "bind") /\ UNCHANGED job
                       ELSE Finish(p, "unsaved")
  BY DEF Write
<1>2. /\ pc[p] = "write"
      /\ UNCHANGED <<profile, lock, issued, live, stale, cmds, admin>>
  BY DEF Write
<1>3. JobAt("write", job[p]) /\ job[p].tok \in TokenSet
  BY <1>2, JobType DEF IInv, JobSet
<1>4. /\ job[p].ses \in Sessions /\ lock[job[p].ses] = p
      /\ cache'[job[p].ses] = After(o, job[p].tok, cache[job[p].ses])
      /\ SharedTypeOK' /\ Undisturbed(p)
  BY <1>1, <1>2, <1>3, CacheStepOK DEF Inside
<1>5. CASE o = "ok"
  <2>1. JobAt("bind", job[p])
    BY <1>3 DEF JobAt, Inside
  <2>2. DiskAt(p)'
    BY <1>1, <1>2, <1>3, <1>4, <1>5
    DEF DiskAt, JobAt, After, Goto, IInv, TypeOK
  <2>. QED  BY <1>1, <1>4, <1>5, <2>1, <2>2, GotoOK DEF PCs, Inside
<1>6. CASE o # "ok"
  BY <1>1, <1>4, <1>6, FinishOK DEF Verdicts
<1>. QED  BY <1>5, <1>6

\* Binding a profile to the session p owns disturbs no other owner.
LEMMA BindOK ==
  ASSUME IInv, NEW p \in Procs, Bind(p)
  PROVE  IInv'
<1>. DEFINE f == job[p].prof
            bound == [mode |-> "console", ses |-> job[p].ses]
<1>1. PICK o : /\ profile' = [profile EXCEPT ![f] = After(o, bound, @)]
               /\ IF o = "ok" THEN Finish(p, "ok")
                              ELSE Goto(p, "restore") /\ UNCHANGED job
  BY DEF Bind
<1>2. /\ pc[p] = "bind"
      /\ UNCHANGED <<cache, lock, issued, live, stale, cmds, admin>>
  BY DEF Bind
<1>3. /\ job[p].ses \in Sessions /\ lock[job[p].ses] = p
      /\ cache[job[p].ses] # NoToken /\ JobAt("bind", job[p])
  BY <1>2 DEF IInv, JobAt, DiskAt, Inside
<1>4. bound \in ProfileSet
  BY <1>3 DEF ProfileSet
<1>5. SharedTypeOK'
  BY <1>1, <1>2, <1>4 DEF IInv, TypeOK, SharedTypeOK, After
<1>6. ASSUME NEW s \in Sessions, lock[s] \notin {p, NoProc}
      PROVE  ConsoleProfiles(s)' \subseteq ConsoleProfiles(s)
  <2>1. s # job[p].ses
    BY <1>3, <1>6
  <2>. QED  BY <1>1, <2>1
       DEF ConsoleProfiles, After, IInv, TypeOK, SharedTypeOK
<1>7. Undisturbed(p)
  BY <1>2, <1>6 DEF Undisturbed
<1>8. CASE o = "ok"
  BY <1>1, <1>5, <1>7, <1>8, FinishOK DEF Verdicts
<1>9. CASE o # "ok"
  <2>1. JobAt("restore", job[p])
    BY <1>3 DEF JobAt, Inside
  <2>2. DiskAt(p)'
    BY <1>1, <1>2, <1>3, <1>9 DEF DiskAt, Goto, IInv, TypeOK
  <2>. QED  BY <1>1, <1>5, <1>7, <1>9, <2>1, <2>2, GotoOK DEF PCs, Inside
<1>. QED  BY <1>8, <1>9

LEMMA RestoreOK ==
  ASSUME IInv, NEW p \in Procs, Restore(p)
  PROVE  IInv'
<1>1. PICK o : /\ cache' = [cache EXCEPT
                    ![job[p].ses] = After(o, job[p].prior, @)]
               /\ Finish(p, IF o = "ok" THEN "failed" ELSE "unrolled")
  BY DEF Restore
<1>2. /\ pc[p] = "restore"
      /\ UNCHANGED <<profile, lock, issued, live, stale, cmds, admin>>
      /\ job[p].prior \in TokenSet
  BY JobType DEF Restore, JobSet
<1>3. SharedTypeOK' /\ Undisturbed(p)
  BY <1>1, <1>2, CacheStepOK DEF Inside
<1>. QED  BY <1>1, <1>3, FinishOK DEF Verdicts

LEMMA LoginStepOK ==
  ASSUME IInv, NEW p \in Procs, LoginStep(p)
  PROVE  IInv'
<1>1. ASSUME NEW v \in Verdicts, Finish(p, v), UNCHANGED shared
      PROVE  IInv'
  BY <1>1, SharedOK, FinishOK
<1>2. CASE NotAuthorized(p) \/ Decline(p) \/ SnapshotFails(p)
  BY <1>1, <1>2 DEF NotAuthorized, Decline, SnapshotFails, ReadFails, Verdicts
<1>. QED
  BY <1>2, AuthorizedOK, ConfirmOK, SnapshotOK, WriteOK, BindOK, RestoreOK
  DEF LoginStep

-----------------------------------------------------------------------------
(* Retrieve                                                                 *)

LEMMA ReadOK ==
  ASSUME IInv, NEW p \in Procs, Read(p)
  PROVE  IInv'
<1>. DEFINE tok == cache[job[p].ses]
            j == [job[p] EXCEPT !.tok = tok]
            l == IF Fresh(tok.at) THEN "return" ELSE "refresh"
<1>1. pc[p] = "read" /\ UNCHANGED shared
  BY DEF Read
<1>2. job[p].ses \in Sessions /\ lock[job[p].ses] = p
  BY <1>1 DEF IInv, JobAt, DiskAt, Inside
<1>3. CASE tok = NoToken \/ (~Fresh(tok.at) /\ tok.rt = 0)
  BY <1>1, <1>3, SharedOK, FinishOK DEF Read, Verdicts
<1>4. CASE ~(tok = NoToken \/ (~Fresh(tok.at) /\ tok.rt = 0))
  <2>1. pc' = [pc EXCEPT ![p] = l] /\ job' = [job EXCEPT ![p] = j]
    BY <1>4 DEF Read, Goto
  <2>2. tok \in TokenSet /\ tok # NoToken
    BY <1>2, <1>4 DEF IInv, TypeOK, SharedTypeOK
  <2>3. j \in JobSet /\ j.tok = tok /\ j.ses = job[p].ses
    BY <2>2, JobType DEF JobSet
  <2>4. l \in {"return", "refresh"}
    OBVIOUS
  <2>5. cache'[job[p].ses] = tok /\ lock'[job[p].ses] = p
    BY <1>1, <1>2 DEF shared
  <2>. HIDE DEF j, l, tok
  <2>6. JobAt(l, j)
    BY <1>2, <2>3, <2>4 DEF JobAt, Inside
  <2>7. DiskAt(p)'
    BY <2>1, <2>2, <2>3, <2>4, <2>5 DEF DiskAt, IInv, TypeOK
  <2>. QED
    BY <1>1, <2>1, <2>3, <2>4, <2>6, <2>7, SharedOK, MoveOK DEF PCs, Inside
<1>. QED  BY <1>3, <1>4

LEMMA RefreshGrantedOK ==
  ASSUME IInv, NEW p \in Procs, RefreshGranted(p)
  PROVE  IInv'
<1>1. PICK rt \in {job[p].tok.rt, issued'} :
        /\ live' = (live \ {job[p].tok.rt}) \cup {rt}
        /\ job' = [job EXCEPT ![p].tok = [at |-> issued', rt |-> rt]]
  BY DEF RefreshGranted
<1>2. /\ pc[p] = "refresh" /\ job[p].tok.rt \in live
      /\ issued < MaxId /\ issued' = issued + 1
      /\ pc' = [pc EXCEPT ![p] = "persist"]
      /\ UNCHANGED <<profile, cache, lock, stale, cmds, admin>>
  BY DEF RefreshGranted, Goto
<1>. DEFINE tok == [at |-> issued', rt |-> rt]
            j == [job[p] EXCEPT !.tok = tok]
<1>3. issued' \in Ids /\ issued' \in 0..MaxId /\ issued' # 0
  BY <1>2, ConsoleAssumption
  DEF IInv, TypeOK, SharedTypeOK, ConsoleAssumption, Ids
<1>4. rt \in Ids
  BY <1>1, <1>2, <1>3 DEF IInv, TypeOK, SharedTypeOK
<1>5. tok \in TokenSet /\ tok # NoToken
  BY <1>3, <1>4 DEF TokenSet, NoToken, Ids
<1>6. job' = [job EXCEPT ![p] = j]
  BY <1>1
<1>. HIDE DEF tok
<1>7. j \in JobSet /\ j.tok = tok /\ j.ses = job[p].ses
  BY <1>5, JobType DEF JobSet
<1>. HIDE DEF j
<1>8. /\ job[p].ses \in Sessions /\ lock[job[p].ses] = p
      /\ cache[job[p].ses] # NoToken
  BY <1>2 DEF IInv, JobAt, DiskAt, Inside
<1>9. JobAt("persist", j)
  BY <1>5, <1>7, <1>8 DEF JobAt, Inside
<1>10. SharedTypeOK' /\ Undisturbed(p)
  BY <1>1, <1>2, <1>3, <1>4
  DEF IInv, TypeOK, SharedTypeOK, Undisturbed, ConsoleProfiles
<1>11. DiskAt(p)'
  BY <1>2, <1>6, <1>7, <1>8 DEF DiskAt, IInv, TypeOK
<1>. QED  BY <1>2, <1>6, <1>7, <1>9, <1>10, <1>11, MoveOK DEF PCs, Inside

LEMMA RefreshWastedOK ==
  ASSUME IInv, NEW p \in Procs, RefreshWasted(p)
  PROVE  IInv'
<1>1. issued < MaxId /\ issued' = issued + 1
  BY DEF RefreshWasted
<1>2. issued' \in Ids /\ issued' \in 0..MaxId
  BY <1>1, ConsoleAssumption
  DEF IInv, TypeOK, SharedTypeOK, ConsoleAssumption, Ids
<1>3. SharedTypeOK' /\ Undisturbed(p)
  BY <1>2
  DEF RefreshWasted, IInv, TypeOK, SharedTypeOK, Undisturbed, ConsoleProfiles
<1>. QED  BY <1>3, FinishOK DEF RefreshWasted, Verdicts

LEMMA PersistOK ==
  ASSUME IInv, NEW p \in Procs, Persist(p)
  PROVE  IInv'
<1>1. PICK o \in WriteOutcomes :
        /\ cache' = [cache EXCEPT ![job[p].ses] = After(o, job[p].tok, @)]
        /\ IF o = "ok" THEN Goto(p, "return") /\ UNCHANGED job
                       ELSE Finish(p, "failed")
  BY DEF Persist
<1>2. /\ pc[p] = "persist"
      /\ UNCHANGED <<profile, lock, issued, live, stale, cmds, admin>>
  BY DEF Persist
<1>3. JobAt("persist", job[p]) /\ job[p].tok \in TokenSet
  BY <1>2, JobType DEF IInv, JobSet
<1>4. /\ job[p].ses \in Sessions /\ lock[job[p].ses] = p
      /\ cache'[job[p].ses] = After(o, job[p].tok, cache[job[p].ses])
      /\ SharedTypeOK' /\ Undisturbed(p)
  BY <1>1, <1>2, <1>3, CacheStepOK DEF Inside
<1>5. CASE o = "ok"
  <2>1. JobAt("return", job[p])
    BY <1>3 DEF JobAt, Inside
  <2>2. DiskAt(p)'
    BY <1>1, <1>2, <1>4, <1>5 DEF DiskAt, After, Goto, IInv, TypeOK
  <2>. QED  BY <1>1, <1>4, <1>5, <2>1, <2>2, GotoOK DEF PCs, Inside
<1>6. CASE o # "ok"
  BY <1>1, <1>4, <1>6, FinishOK DEF Verdicts
<1>. QED  BY <1>5, <1>6

LEMMA RetrieveStepOK ==
  ASSUME IInv, NEW p \in Procs, RetrieveStep(p)
  PROVE  IInv'
<1>1. ASSUME NEW v \in Verdicts, Finish(p, v), UNCHANGED shared
      PROVE  IInv'
  BY <1>1, SharedOK, FinishOK
<1>2. CASE CacheUnusable(p) \/ RefreshRefused(p) \/ Return(p)
  BY <1>1, <1>2 DEF CacheUnusable, RefreshRefused, Return, ReadFails, Verdicts
<1>. QED
  BY <1>2, ReadOK, RefreshGrantedOK, RefreshWastedOK, PersistOK
  DEF RetrieveStep

-----------------------------------------------------------------------------
(* Logout                                                                   *)

LEMMA DeleteOK ==
  ASSUME IInv, NEW p \in Procs, Delete(p)
  PROVE  IInv'
<1>1. PICK o \in DeleteOutcomes :
        /\ cache' = [cache EXCEPT ![job[p].ses] = After(o, NoToken, @)]
        /\ IF o = "ok" THEN Goto(p, "unbind") /\ UNCHANGED job
                       ELSE Finish(p, "failed")
  BY DEF Delete
<1>2. /\ pc[p] = "delete" /\ NoToken \in TokenSet
      /\ UNCHANGED <<profile, lock, issued, live, stale, cmds, admin>>
  BY DEF Delete, NoToken, TokenSet
<1>3. /\ job[p].ses \in Sessions /\ lock[job[p].ses] = p
      /\ cache'[job[p].ses] = After(o, NoToken, cache[job[p].ses])
      /\ SharedTypeOK' /\ Undisturbed(p)
  BY <1>1, <1>2, CacheStepOK DEF Inside
<1>4. CASE o = "ok"
  <2>1. JobAt("unbind", job[p])
    BY <1>2, <1>3 DEF IInv, JobAt, Inside
  <2>2. DiskAt(p)'
    BY <1>1, <1>2, <1>3, <1>4 DEF DiskAt, After, Goto, IInv, TypeOK
  <2>. QED  BY <1>1, <1>3, <1>4, <2>1, <2>2, GotoOK DEF PCs, Inside
<1>5. CASE o # "ok"
  BY <1>1, <1>3, <1>5, FinishOK DEF Verdicts
<1>. QED  BY <1>4, <1>5

\* Unbinding only takes bindings away, and a complete one takes them all.
LEMMA UnbindOK ==
  ASSUME IInv, NEW p \in Procs, Unbind(p)
  PROVE  IInv'
<1>. DEFINE s == job[p].ses
            freed(f) == IF f \in ConsoleProfiles(s)
                          THEN [profile[f] EXCEPT !.ses = NoSession]
                          ELSE profile[f]
<1>1. PICK o \in WriteOutcomes :
        /\ profile' = [f \in Profiles |-> After(o, freed(f), profile[f])]
        /\ IF o = "ok" THEN Goto(p, "cleared") /\ UNCHANGED job
                       ELSE Finish(p, "partial")
  BY DEF Unbind
<1>2. /\ pc[p] = "unbind"
      /\ UNCHANGED <<cache, lock, issued, live, stale, cmds, admin>>
  BY DEF Unbind
<1>3. /\ s \in Sessions /\ lock[s] = p /\ cache[s] = NoToken
      /\ JobAt("cleared", job[p])
  BY <1>2 DEF IInv, JobAt, DiskAt, Inside
<1>4. \A f \in Profiles :
        profile[f] \in ProfileSet /\ freed(f) \in ProfileSet
  BY DEF IInv, TypeOK, SharedTypeOK, ProfileSet
<1>5. SharedTypeOK'
  BY <1>1, <1>2, <1>4 DEF IInv, TypeOK, SharedTypeOK, After
<1>6. \A t \in Sessions : ConsoleProfiles(t)' \subseteq ConsoleProfiles(t)
  <2>1. NoSession \notin Sessions
    BY ConsoleAssumption DEF ConsoleAssumption
  <2>2. ASSUME NEW t \in Sessions, NEW f \in Profiles,
               profile'[f].mode = "console", profile'[f].ses = t
        PROVE  profile[f].mode = "console" /\ profile[f].ses = t
    BY <1>1, <1>4, <2>1, <2>2 DEF After, ProfileSet
  <2>. QED  BY <2>2 DEF ConsoleProfiles
<1>7. Undisturbed(p)
  BY <1>2, <1>6 DEF Undisturbed
<1>8. CASE o = "ok"
  <2>1. ConsoleProfiles(s)' = {}
    <3>1. NoSession # s
      BY <1>3, ConsoleAssumption DEF ConsoleAssumption
    <3>2. ASSUME NEW f \in Profiles,
                 profile'[f].mode = "console", profile'[f].ses = s
          PROVE  FALSE
      <4>1. profile'[f] = freed(f)
        BY <1>1, <1>8 DEF After
      <4>2. CASE f \in ConsoleProfiles(s)
        BY <1>4, <3>1, <3>2, <4>1, <4>2 DEF ProfileSet
      <4>3. CASE f \notin ConsoleProfiles(s)
        BY <3>2, <4>1, <4>3 DEF ConsoleProfiles
      <4>. QED  BY <4>2, <4>3
    <3>3. job' = job
      BY <1>1, <1>8
    <3>. QED  BY <3>2, <3>3 DEF ConsoleProfiles
  <2>2. DiskAt(p)'
    BY <1>1, <1>2, <1>3, <1>8, <2>1 DEF DiskAt, Goto, IInv, TypeOK
  <2>. QED
    BY <1>1, <1>3, <1>5, <1>7, <1>8, <2>2, GotoOK DEF PCs, Inside
<1>9. CASE o # "ok"
  BY <1>1, <1>5, <1>7, <1>9, FinishOK DEF Verdicts
<1>. QED  BY <1>8, <1>9

\* The lock is given back, and the next one waited for without any.
LEMMA NextSessionOK ==
  ASSUME IInv, NEW p \in Procs, NextSession(p)
  PROVE  IInv'
<1>1. PICK s \in job[p].todo :
        job' = [job EXCEPT ![p].ses = s, ![p].todo = @ \ {s}]
  BY DEF NextSession
<1>2. /\ pc[p] = "cleared" /\ pc' = [pc EXCEPT ![p] = "lock"]
      /\ lock' = [lock EXCEPT ![job[p].ses] = NoProc]
      /\ UNCHANGED <<profile, cache, issued, live, stale, cmds, admin>>
  BY DEF NextSession, Goto
<1>. DEFINE j == [job[p] EXCEPT !.ses = s, !.todo = @ \ {s}]
<1>3. job' = [job EXCEPT ![p] = j]
  BY <1>1 DEF IInv, TypeOK
<1>4. s \in Sessions /\ j \in JobSet /\ j.ses = s /\ j.op = job[p].op
  BY JobType DEF JobSet
<1>. HIDE DEF j
<1>5. JobAt("lock", j)
  BY <1>2, <1>4 DEF IInv, JobAt, Inside
<1>6. job[p].ses \in Sessions /\ lock[job[p].ses] = p
  BY <1>2 DEF IInv, JobAt, DiskAt, Inside
<1>7. SharedTypeOK' /\ Undisturbed(p)
  BY <1>2, <1>6 DEF IInv, TypeOK, SharedTypeOK, Undisturbed, ConsoleProfiles
<1>8. DiskAt(p)'
  BY <1>2 DEF DiskAt, Inside, IInv, TypeOK
<1>. QED  BY <1>2, <1>3, <1>4, <1>5, <1>7, <1>8, MoveOK DEF PCs

LEMMA LogoutStepOK ==
  ASSUME IInv, NEW p \in Procs, LogoutStep(p)
  PROVE  IInv'
<1>1. CASE AllCleared(p)
  BY <1>1, SharedOK, FinishOK DEF AllCleared, Verdicts
<1>. QED  BY <1>1, DeleteOK, UnbindOK, NextSessionOK DEF LogoutStep

-----------------------------------------------------------------------------
(* The whole system                                                         *)

\* Time and the other configuration commands: no process moves, and no
\* session becomes bound.
LEMMA EnvironmentOK ==
  ASSUME IInv, Environment
  PROVE  IInv'
<1>1. UNCHANGED <<cache, lock, pc, job>>
  BY DEF Environment, Expire, Administer, ConfigureDelete, ConfigureSetMode,
         ConfigureSso
<1>2. SharedTypeOK'
  <2>1. CASE \E i \in Ids : Expire(i)
    BY <2>1 DEF Expire, IInv, TypeOK, SharedTypeOK
  <2>2. ASSUME NEW f \in Profiles,
               ConfigureDelete(f) \/ ConfigureSetMode(f) \/ ConfigureSso(f)
        PROVE  SharedTypeOK'
    <3>1. Absent \in ProfileSet
      BY DEF Absent, ProfileSet
    <3>2. /\ [profile[f] EXCEPT !.mode = "other"] \in ProfileSet
          /\ [mode |-> "other", ses |-> NoSession] \in ProfileSet
      BY DEF IInv, TypeOK, SharedTypeOK, ProfileSet
    <3>. QED
      BY <2>2, <3>1, <3>2
      DEF ConfigureDelete, ConfigureSetMode, ConfigureSso, Administer, IInv,
          TypeOK, SharedTypeOK
  <2>. QED  BY <2>1, <2>2 DEF Environment
<1>3. ASSUME NEW s \in Sessions
      PROVE  ConsoleProfiles(s)' \subseteq ConsoleProfiles(s)
  <2>1. CASE \E i \in Ids : Expire(i)
    BY <2>1 DEF Expire, ConsoleProfiles
  <2>2. ASSUME NEW f \in Profiles, ConfigureDelete(f)
        PROVE  ConsoleProfiles(s)' \subseteq ConsoleProfiles(s)
    BY <2>2
    DEF ConfigureDelete, Absent, ConsoleProfiles, IInv, TypeOK, SharedTypeOK
  <2>3. ASSUME NEW f \in Profiles, ConfigureSetMode(f)
        PROVE  ConsoleProfiles(s)' \subseteq ConsoleProfiles(s)
    BY <2>3
    DEF ConfigureSetMode, ConsoleProfiles, IInv, TypeOK, SharedTypeOK,
        ProfileSet
  <2>4. ASSUME NEW f \in Profiles, ConfigureSso(f)
        PROVE  ConsoleProfiles(s)' \subseteq ConsoleProfiles(s)
    BY <2>4
    DEF ConfigureSso, ConsoleProfiles, IInv, TypeOK, SharedTypeOK
  <2>. QED  BY <2>1, <2>2, <2>3, <2>4 DEF Environment
<1>4. ASSUME NEW p \in Procs
      PROVE  JobAt(pc'[p], job'[p]) /\ DiskAt(p)'
  <2>1. pc[p] = "cleared" => job[p].ses \in Sessions
    BY DEF IInv, JobAt, Inside
  <2>. QED  BY <1>1, <1>3, <2>1 DEF IInv, DiskAt
<1>. QED  BY <1>1, <1>2, <1>4 DEF IInv, TypeOK

LEMMA StepOK ==
  ASSUME IInv, NEW p \in Procs, Step(p)
  PROVE  IInv'
<1>1. CASE LockFails(p)
  BY <1>1, SharedOK, FinishOK DEF LockFails, Verdicts
<1>2. CASE Unwind(p)
  BY <1>2, ReleaseOK DEF Unwind
<1>. QED
  BY <1>1, <1>2, AcquireLockOK, LoginStepOK, RetrieveStepOK, LogoutStepOK
  DEF Step

LEMMA NextIInv == IInv /\ [Next]_vars => IInv'
<1>. SUFFICES ASSUME IInv, [Next]_vars PROVE IInv'
  OBVIOUS
<1>1. CASE UNCHANGED vars
  BY <1>1
  DEF vars, IInv, TypeOK, SharedTypeOK, JobAt, DiskAt, ConsoleProfiles
<1>2. ASSUME NEW p \in Procs, StartCommand(p)
      PROVE  IInv'
  BY <1>2, StartLoginOK, StartRetrieveOK, StartLogoutOK DEF StartCommand
<1>3. ASSUME NEW p \in Procs, Crash(p)
      PROVE  IInv'
  BY <1>3, ReleaseOK DEF Crash
<1>. QED  BY <1>1, <1>2, <1>3, StepOK, EnvironmentOK DEF Next, Rest

\* The actions that touch no cache, and those that touch no profile.
LEMMA WhoWritesCaches ==
  ASSUME Next, cache' # cache
  PROVE  \E p \in Procs : Write(p) \/ Restore(p) \/ Persist(p) \/ Delete(p)
<1>1. \A p \in Procs : ~StartCommand(p) /\ ~Crash(p)
  BY DEF StartCommand, StartLogin, StartRetrieve, StartLogout, Start, Crash,
         Release
<1>2. ~Environment /\ ~Rest
  BY DEF Environment, Expire, Administer, ConfigureDelete, ConfigureSetMode,
         ConfigureSso, Rest, vars
<1>3. PICK p \in Procs : Step(p)
  BY <1>1, <1>2 DEF Next
<1>4. LoginStep(p) => Write(p) \/ Restore(p)
  BY DEF LoginStep, Authorized, NotAuthorized, Confirm, Decline, Snapshot,
         SnapshotFails, ReadFails, Bind, shared
<1>5. RetrieveStep(p) => Persist(p)
  BY DEF RetrieveStep, Read, CacheUnusable, ReadFails, RefreshGranted,
         RefreshWasted, RefreshRefused, Return, shared
<1>6. LogoutStep(p) => Delete(p)
  BY DEF LogoutStep, Unbind, NextSession, AllCleared, shared
<1>7. ~AcquireLock(p) /\ ~LockFails(p) /\ ~Unwind(p)
  BY DEF AcquireLock, LockFails, Unwind, Release, shared
<1>. QED  BY <1>3, <1>4, <1>5, <1>6, <1>7 DEF Step

LEMMA WhoWritesProfiles ==
  ASSUME Next, profile' # profile, ~Environment
  PROVE  \E p \in Procs : Bind(p) \/ Unbind(p)
<1>1. \A p \in Procs : ~StartCommand(p) /\ ~Crash(p)
  BY DEF StartCommand, StartLogin, StartRetrieve, StartLogout, Start, Crash,
         Release
<1>2. ~Rest
  BY DEF Rest, vars
<1>3. PICK p \in Procs : Step(p)
  BY <1>1, <1>2 DEF Next
<1>4. LoginStep(p) => Bind(p)
  BY DEF LoginStep, Authorized, NotAuthorized, Confirm, Decline, Snapshot,
         SnapshotFails, ReadFails, Write, Restore, shared
<1>5. ~RetrieveStep(p)
  BY DEF RetrieveStep, Read, CacheUnusable, ReadFails, RefreshGranted,
         RefreshWasted, RefreshRefused, Persist, Return, shared
<1>6. LogoutStep(p) => Unbind(p)
  BY DEF LogoutStep, Delete, NextSession, AllCleared, shared
<1>7. ~AcquireLock(p) /\ ~LockFails(p) /\ ~Unwind(p)
  BY DEF AcquireLock, LockFails, Unwind, Release, shared
<1>. QED  BY <1>3, <1>4, <1>5, <1>6, <1>7 DEF Step

\* The inductive invariant holds in every reachable state.
THEOREM InductiveInvariant == Spec => []IInv
<1>. QED  BY InitIInv, NextIInv, PTL DEF Spec

\* The configuration, the caches, the locks and what each command holds in
\* memory have their types.
THEOREM TypeCorrect == Spec => []TypeOK
<1>1. IInv => TypeOK
  BY DEF IInv
<1>. QED  BY <1>1, InductiveInvariant, PTL

\* Retrieve returns what the cache file holds: new credentials are persisted
\* before they are handed out, whatever write fails.
THEOREM ReturnedIsPersisted == Spec => []ReturnsPersisted
<1>1. IInv => ReturnsPersisted
  BY DEF IInv, DiskAt, ReturnsPersisted
<1>. QED  BY <1>1, InductiveInvariant, PTL

\* The refresh token presented is that of the cache file of the session.
THEOREM RefreshIsExclusive == Spec => []RefreshUsesCachedToken
<1>1. IInv => RefreshUsesCachedToken
  BY DEF IInv, DiskAt, RefreshUsesCachedToken
<1>. QED  BY <1>1, InductiveInvariant, PTL

\* A logout that gives up a session's lock has left neither its cache nor a
\* binding to it.
THEOREM LogoutClears == Spec => []LogoutIsComplete
<1>1. IInv => LogoutIsComplete
  BY DEF IInv, DiskAt, LogoutIsComplete
<1>. QED  BY <1>1, InductiveInvariant, PTL

\* Only the write of a login creates a session's cache: no refresh and no
\* rollback revives one that a logout deleted.
THEOREM NothingRevives == Spec => NoRevival
<1>. DEFINE A == \A s \in Sessions :
                   cache[s] = NoToken /\ cache'[s] # NoToken
                   => \E p \in Procs : pc[p] = "write" /\ job[p].ses = s
<1>1. IInv /\ [Next]_vars => [A]_vars
  <2>. SUFFICES ASSUME IInv, Next, NEW s \in Sessions,
                       cache[s] = NoToken, cache'[s] # NoToken
                PROVE  \E p \in Procs : pc[p] = "write" /\ job[p].ses = s
    OBVIOUS
  <2>1. PICK p \in Procs :
          Write(p) \/ Restore(p) \/ Persist(p) \/ Delete(p)
    BY WhoWritesCaches
  <2>2. PICK o, t : cache' = [cache EXCEPT ![job[p].ses] = After(o, t, @)]
    BY <2>1 DEF Write, Restore, Persist, Delete
  <2>3. job[p].ses = s
    BY <2>2 DEF IInv, TypeOK, SharedTypeOK
  <2>4. ~Restore(p) /\ ~Persist(p)
    BY <2>3 DEF Restore, Persist, IInv, DiskAt
  <2>5. ~Delete(p)
    BY <2>3 DEF Delete, After, IInv, TypeOK, SharedTypeOK
  <2>. QED  BY <2>1, <2>3, <2>4, <2>5 DEF Write
<1>2. NoRevival <=> [][A]_vars
  BY DEF NoRevival
<1>. HIDE DEF A
<1>. QED  BY <1>1, <1>2, InductiveInvariant, PTL DEF Spec

\* A profile bound to one session is only bound to another one with the
\* consent of its user to the replacement of the very session it had.
THEOREM ReplacementIsAgreed == Spec => NoSilentReplacement
<1>. DEFINE A == \A f \in Profiles :
                   /\ profile[f].ses # NoSession
                   /\ profile'[f].ses \notin {NoSession, profile[f].ses}
                   => \E p \in Procs :
                        /\ pc[p] = "bind" /\ job[p].prof = f
                        /\ job[p].known = profile[f].ses /\ job[p].agreed
<1>1. IInv /\ [Next]_vars => [A]_vars
  <2>. SUFFICES ASSUME IInv, Next, NEW f \in Profiles,
                       profile[f].ses # NoSession,
                       profile'[f].ses \notin {NoSession, profile[f].ses}
                PROVE  \E p \in Procs :
                         /\ pc[p] = "bind" /\ job[p].prof = f
                         /\ job[p].known = profile[f].ses /\ job[p].agreed
    OBVIOUS
  <2>1. profile' # profile
    OBVIOUS
  <2>2. ~Environment
    BY DEF Environment, Expire, ConfigureDelete, ConfigureSetMode,
           ConfigureSso, Absent, IInv, TypeOK, SharedTypeOK, ProfileSet
  <2>3. PICK p \in Procs : Bind(p) \/ Unbind(p)
    BY <2>1, <2>2, WhoWritesProfiles
  <2>4. ~Unbind(p)
    BY DEF Unbind, After, IInv, TypeOK, SharedTypeOK, ProfileSet
  <2>5. JobAt("bind", job[p]) /\ pc[p] = "bind"
    BY <2>3, <2>4 DEF Bind, IInv
  <2>6. PICK o : /\ profile' = [profile EXCEPT ![job[p].prof] =
                       After(o, [mode |-> "console", ses |-> job[p].ses], @)]
                 /\ o # "lost" => profile[job[p].prof].ses
                                    \in {NoSession, job[p].ses, job[p].known}
    BY <2>3, <2>4 DEF Bind
  <2>7. /\ f = job[p].prof /\ o # "lost" /\ profile'[f].ses = job[p].ses
    BY <2>6 DEF After, IInv, TypeOK, SharedTypeOK
  <2>8. profile[f].ses = job[p].known /\ job[p].known \notin {NoSession, job[p].ses}
    BY <2>6, <2>7
  <2>. QED  BY <2>5, <2>7, <2>8 DEF JobAt
<1>2. NoSilentReplacement <=> [][A]_vars
  BY DEF NoSilentReplacement
<1>. HIDE DEF A
<1>. QED  BY <1>1, <1>2, InductiveInvariant, PTL DEF Spec

\* What is returned, and what is presented to the server, is on disk.
THEOREM PersistedIsUsed == Spec => []OnlyPersistedIsUsed
BY TypeCorrect, ReturnedIsPersisted, RefreshIsExclusive, PTL
DEF OnlyPersistedIsUsed

\* Bindings are replaced with consent, and caches appear with a login only.
THEOREM ChangesAreAgreed == Spec => CachesChangeAsAgreed
BY NothingRevives, ReplacementIsAgreed DEF CachesChangeAsAgreed

-----------------------------------------------------------------------------
(* Bindings and caches                                                      *)

\* A process leaves what the others hold in memory alone.
LEMMA OnlyOwn ==
  ASSUME IInv, NEW p \in Procs, StartCommand(p) \/ Step(p) \/ Crash(p),
         NEW q \in Procs, q # p
  PROVE  pc'[q] = pc[q] /\ job'[q] = job[q]
<1>1. /\ pc \in [Procs -> PCs] /\ job \in [Procs -> JobSet]
  BY DEF IInv, TypeOK
<1>2. CASE StartCommand(p) \/ Crash(p) \/ Unwind(p)
  BY <1>1, <1>2
  DEF StartCommand, StartLogin, StartRetrieve, StartLogout, Start, Goto, Crash,
      Unwind, Release
<1>3. CASE AcquireLock(p) \/ LockFails(p)
  BY <1>1, <1>3 DEF AcquireLock, LockFails, Goto, Finish
<1>4. CASE LoginStep(p)
  BY <1>1, <1>4
  DEF LoginStep, Authorized, NotAuthorized, Confirm, Decline, Snapshot, SnapshotFails,
      ReadFails, Write, Bind, Restore, Goto, Finish
<1>5. CASE RetrieveStep(p)
  BY <1>1, <1>5
  DEF RetrieveStep, Read, CacheUnusable, ReadFails, RefreshGranted, RefreshWasted,
      RefreshRefused, Persist, Return, Goto, Finish
<1>6. CASE LogoutStep(p)
  BY <1>1, <1>6 DEF LogoutStep, Delete, Unbind, NextSession, AllCleared, Goto, Finish
<1>. QED  BY <1>2, <1>3, <1>4, <1>5, <1>6 DEF Step

\* No process dies and no access to a file fails.
Undying == Faults \cap {"crash", "io"} = {}

\* A login session with a binding has a cache, unless a logout has deleted it
\* and is about to unbind.
Backed ==
  \A f \in Profiles :
    profile[f].mode = "console" /\ profile[f].ses # NoSession
    => \/ cache[profile[f].ses] # NoToken
       \/ \E p \in Procs : pc[p] = "unbind" /\ job[p].ses = profile[f].ses

\* Nobody depends on the cache that a login creates until it has bound.
Unbacked(p) ==
  pc[p] \in {"write", "bind", "restore"} /\ job[p].prior = NoToken
  => ConsoleProfiles(job[p].ses) = {}

BackedInv == IInv /\ Backed /\ \A p \in Procs : Unbacked(p)

LEMMA Types ==
  ASSUME IInv
  PROVE  /\ pc \in [Procs -> PCs] /\ job \in [Procs -> JobSet]
         /\ profile \in [Profiles -> ProfileSet] /\ cache \in [Sessions -> TokenSet]
         /\ lock \in [Sessions -> Procs \cup {NoProc}]
         /\ issued \in Nat /\ NoSession \notin Sessions /\ NoProc \notin Procs
BY ConsoleAssumption DEF ConsoleAssumption, IInv, TypeOK, SharedTypeOK

\* Inside a session there is one process.
LEMMA InsideAlone ==
  ASSUME IInv, NEW p \in Procs, NEW q \in Procs, pc[p] \in Inside, pc[q] \in Inside,
         job[p].ses = job[q].ses
  PROVE  p = q
BY DEF IInv, DiskAt

\* What a step of p, or the environment, may do to bindings: those to sessions
\* in the hands of other processes only go away.
BindsOwn(p) ==
  \A f \in Profiles :
    \/ profile'[f].mode # "console" \/ profile'[f].ses = NoSession
    \/ profile'[f] = profile[f]
    \/ pc[p] = "bind" /\ profile'[f].ses = job[p].ses

LEMMA WhatBinds ==
  ASSUME IInv, NEW p \in Procs, StartCommand(p) \/ Step(p) \/ Crash(p)
  PROVE  BindsOwn(p)
<1>1. CASE UNCHANGED profile
  BY <1>1 DEF BindsOwn
<1>2. CASE StartCommand(p) \/ Crash(p) \/ Unwind(p) \/ AcquireLock(p) \/ LockFails(p)
  BY <1>1, <1>2
  DEF StartCommand, StartLogin, StartRetrieve, StartLogout, Start, Crash,
      Unwind, Release, AcquireLock, LockFails, shared
<1>3. CASE LoginStep(p) /\ ~Bind(p)
  BY <1>1, <1>3
  DEF LoginStep, Authorized, NotAuthorized, Confirm, Decline, Snapshot, SnapshotFails,
      ReadFails, Write, Restore, shared
<1>4. CASE RetrieveStep(p)
  BY <1>1, <1>4
  DEF RetrieveStep, Read, CacheUnusable, ReadFails, RefreshGranted, RefreshWasted,
      RefreshRefused, Persist, Return, shared
<1>5. CASE LogoutStep(p) /\ ~Unbind(p)
  BY <1>1, <1>5 DEF LogoutStep, Delete, NextSession, AllCleared, shared
<1>6. CASE Bind(p)
  <2>1. PICK o : /\ pc[p] = "bind"
                 /\ profile' = [profile EXCEPT ![job[p].prof] =
                       After(o, [mode |-> "console", ses |-> job[p].ses], @)]
    BY <1>6 DEF Bind
  <2>. QED  BY <2>1, Types DEF After, BindsOwn
<1>7. CASE Unbind(p)
  <2>1. PICK o : profile' = [f \in Profiles |->
            After(o, IF f \in ConsoleProfiles(job[p].ses)
                       THEN [profile[f] EXCEPT !.ses = NoSession]
                       ELSE profile[f], profile[f])]
    BY <1>7 DEF Unbind
  <2>. QED  BY <2>1, Types DEF After, BindsOwn, ProfileSet
<1>. QED  BY <1>2, <1>3, <1>4, <1>5, <1>6, <1>7 DEF Step

LEMMA EnvironmentUnbinds ==
  ASSUME IInv, Environment \/ Rest \/ UNCHANGED vars
  PROVE  /\ UNCHANGED <<cache, lock, pc, job>>
         /\ \A f \in Profiles :
              \/ profile'[f].mode # "console" \/ profile'[f].ses = NoSession
              \/ profile'[f] = profile[f]
<1>1. ASSUME NEW f \in Profiles,
             ConfigureDelete(f) \/ ConfigureSetMode(f) \/ ConfigureSso(f)
      PROVE  /\ UNCHANGED <<cache, lock, pc, job>>
             /\ \A g \in Profiles :
                  \/ profile'[g].mode # "console" \/ profile'[g].ses = NoSession
                  \/ profile'[g] = profile[g]
  BY <1>1, Types
  DEF ConfigureDelete, ConfigureSetMode, ConfigureSso, Administer, Absent, ProfileSet
<1>. QED  BY <1>1 DEF Environment, Expire, Rest, vars

\* What others hold for certain stays: bindings that their login must not
\* leave behind do not appear.
LEMMA OthersUnbacked ==
  ASSUME IInv, NEW p \in Procs, BindsOwn(p), NEW q \in Procs, q # p, Unbacked(q),
         pc'[q] = pc[q], job'[q] = job[q]
  PROVE  Unbacked(q)'
<1>1. SUFFICES ASSUME pc[q] \in {"write", "bind", "restore"},
                      ConsoleProfiles(job[q].ses) = {}
               PROVE  ConsoleProfiles(job[q].ses)' = {}
  BY DEF Unbacked
<1>2. job[q].ses # NoSession /\ pc[q] \in Inside
  BY <1>1, Types DEF IInv, JobAt, Inside
<1>3. pc[p] = "bind" => job[p].ses # job[q].ses
  BY <1>2, InsideAlone DEF Inside
<1>. QED  BY <1>1, <1>2, <1>3 DEF BindsOwn, ConsoleProfiles

\* A step that touches neither caches nor bindings, of a process that is not
\* about to unbind.
LEMMA QuietBacked ==
  ASSUME IInv, Backed, NEW p \in Procs, UNCHANGED <<profile, cache>>,
         pc[p] # "unbind", \A q \in Procs \ {p} : pc'[q] = pc[q] /\ job'[q] = job[q]
  PROVE  Backed'
<1>1. ASSUME NEW f \in Profiles, profile[f].mode = "console",
             profile[f].ses # NoSession, cache[profile[f].ses] = NoToken
      PROVE  \E q \in Procs : pc'[q] = "unbind" /\ job'[q].ses = profile[f].ses
  <2>1. PICK q \in Procs : pc[q] = "unbind" /\ job[q].ses = profile[f].ses
    BY <1>1 DEF Backed
  <2>. QED  BY <2>1
<1>. QED  BY <1>1 DEF Backed

\* A step that writes a token to the cache of its own session.
LEMMA WritesBacked ==
  ASSUME IInv, Backed, NEW p \in Procs, UNCHANGED profile, NEW t, t # NoToken,
         cache' = [cache EXCEPT ![job[p].ses] = t],
         pc[p] # "unbind", \A q \in Procs \ {p} : pc'[q] = pc[q] /\ job'[q] = job[q]
  PROVE  Backed'
<1>1. ASSUME NEW f \in Profiles, profile[f].mode = "console",
             profile[f].ses # NoSession, cache'[profile[f].ses] = NoToken
      PROVE  \E q \in Procs : pc'[q] = "unbind" /\ job'[q].ses = profile[f].ses
  <2>1. cache[profile[f].ses] = NoToken
    BY <1>1, Types DEF ProfileSet
  <2>2. PICK q \in Procs : pc[q] = "unbind" /\ job[q].ses = profile[f].ses
    BY <1>1, <2>1 DEF Backed
  <2>. QED  BY <2>2
<1>. QED  BY <1>1 DEF Backed

LEMMA BindBacked ==
  ASSUME IInv, Backed, NEW p \in Procs, Bind(p),
         \A q \in Procs \ {p} : pc'[q] = pc[q] /\ job'[q] = job[q]
  PROVE  Backed'
<1>1. pc[p] = "bind" /\ cache' = cache
  BY DEF Bind
<1>2. cache[job[p].ses] # NoToken
  BY <1>1 DEF IInv, DiskAt
<1>3. ASSUME NEW f \in Profiles, profile'[f].mode = "console",
             profile'[f].ses # NoSession, cache[profile'[f].ses] = NoToken
      PROVE  \E q \in Procs : pc'[q] = "unbind" /\ job'[q].ses = profile'[f].ses
  <2>1. profile'[f] = profile[f]
    BY <1>2, <1>3, WhatBinds DEF Step, LoginStep, BindsOwn
  <2>2. PICK q \in Procs : pc[q] = "unbind" /\ job[q].ses = profile[f].ses
    BY <1>3, <2>1 DEF Backed
  <2>. QED  BY <1>1, <2>1, <2>2
<1>. QED  BY <1>1, <1>3 DEF Backed

LEMMA RestoreBacked ==
  ASSUME IInv, Undying, Backed, NEW p \in Procs, Unbacked(p), Restore(p),
         \A q \in Procs \ {p} : pc'[q] = pc[q] /\ job'[q] = job[q]
  PROVE  Backed'
<1>1. /\ pc[p] = "restore" /\ profile' = profile
      /\ cache' = [cache EXCEPT ![job[p].ses] = job[p].prior]
  BY DEF Restore, Undying, WriteOutcomes, DeleteOutcomes, After
<1>2. CASE job[p].prior # NoToken
  BY <1>1, <1>2, WritesBacked
<1>3. CASE job[p].prior = NoToken
  <2>1. ConsoleProfiles(job[p].ses) = {}
    BY <1>1, <1>3 DEF Unbacked
  <2>2. ASSUME NEW f \in Profiles, profile[f].mode = "console",
               profile[f].ses # NoSession, cache'[profile[f].ses] = NoToken
        PROVE  \E q \in Procs : pc'[q] = "unbind" /\ job'[q].ses = profile[f].ses
    <3>1. profile[f].ses # job[p].ses
      BY <2>1, <2>2 DEF ConsoleProfiles
    <3>2. cache[profile[f].ses] = NoToken
      BY <1>1, <2>2, <3>1, Types DEF ProfileSet
    <3>3. PICK q \in Procs : pc[q] = "unbind" /\ job[q].ses = profile[f].ses
      BY <2>2, <3>2 DEF Backed
    <3>. QED  BY <1>1, <3>3
  <2>. QED  BY <1>1, <2>2 DEF Backed
<1>. QED  BY <1>2, <1>3

LEMMA DeleteBacked ==
  ASSUME IInv, Undying, Backed, NEW p \in Procs, Delete(p),
         \A q \in Procs \ {p} : pc'[q] = pc[q] /\ job'[q] = job[q]
  PROVE  Backed'
<1>1. /\ pc[p] = "delete" /\ profile' = profile /\ job' = job
      /\ cache' = [cache EXCEPT ![job[p].ses] = NoToken]
      /\ pc' = [pc EXCEPT ![p] = "unbind"]
  BY DEF Delete, Undying, DeleteOutcomes, After, Goto
<1>2. ASSUME NEW f \in Profiles, profile[f].mode = "console",
             profile[f].ses # NoSession, cache'[profile[f].ses] = NoToken
      PROVE  \E q \in Procs : pc'[q] = "unbind" /\ job'[q].ses = profile[f].ses
  <2>1. CASE profile[f].ses = job[p].ses
    BY <1>1, <2>1, Types
  <2>2. CASE profile[f].ses # job[p].ses
    <3>1. cache[profile[f].ses] = NoToken
      BY <1>1, <1>2, <2>2, Types DEF ProfileSet
    <3>2. PICK q \in Procs : pc[q] = "unbind" /\ job[q].ses = profile[f].ses
      BY <1>2, <3>1 DEF Backed
    <3>. QED  BY <1>1, <3>2
  <2>. QED  BY <2>1, <2>2
<1>. QED  BY <1>1, <1>2 DEF Backed

LEMMA UnbindBacked ==
  ASSUME IInv, Undying, Backed, NEW p \in Procs, Unbind(p),
         \A q \in Procs \ {p} : pc'[q] = pc[q] /\ job'[q] = job[q]
  PROVE  Backed'
<1>1. /\ pc[p] = "unbind" /\ cache' = cache
      /\ profile' = [f \in Profiles |->
            IF f \in ConsoleProfiles(job[p].ses)
              THEN [profile[f] EXCEPT !.ses = NoSession] ELSE profile[f]]
  BY DEF Unbind, Undying, WriteOutcomes, After
<1>2. ASSUME NEW f \in Profiles, profile'[f].mode = "console",
             profile'[f].ses # NoSession, cache[profile'[f].ses] = NoToken
      PROVE  \E q \in Procs : pc'[q] = "unbind" /\ job'[q].ses = profile'[f].ses
  <2>1. f \notin ConsoleProfiles(job[p].ses) /\ profile'[f] = profile[f]
    BY <1>1, <1>2, Types DEF ProfileSet
  <2>2. profile[f].ses # job[p].ses
    BY <1>2, <2>1 DEF ConsoleProfiles
  <2>3. PICK q \in Procs : pc[q] = "unbind" /\ job[q].ses = profile[f].ses
    BY <1>2, <2>1 DEF Backed
  <2>. QED  BY <2>1, <2>2, <2>3
<1>. QED  BY <1>1, <1>2 DEF Backed

LEMMA StepBacked ==
  ASSUME IInv, Undying, Backed, NEW p \in Procs, Unbacked(p),
         StartCommand(p) \/ Step(p) \/ Crash(p)
  PROVE  Backed'
<1>1. \A q \in Procs \ {p} : pc'[q] = pc[q] /\ job'[q] = job[q]
  BY OnlyOwn
<1>2. CASE StartCommand(p) \/ Crash(p) \/ Unwind(p) \/ AcquireLock(p) \/ LockFails(p)
  <2>1. UNCHANGED <<profile, cache>> /\ pc[p] # "unbind"
    BY <1>2
    DEF StartCommand, StartLogin, StartRetrieve, StartLogout, Start, Crash,
        Unwind, Release, AcquireLock, LockFails, shared, Undying
  <2>. QED  BY <1>1, <2>1, QuietBacked
<1>3. CASE LoginStep(p)
  <2>1. CASE Write(p)
    <3>1. /\ pc[p] = "write" /\ profile' = profile
          /\ cache' = [cache EXCEPT ![job[p].ses] = job[p].tok]
      BY <2>1 DEF Write, Undying, WriteOutcomes, After
    <3>2. job[p].tok # NoToken
      BY <3>1 DEF IInv, JobAt
    <3>. QED  BY <1>1, <3>1, <3>2, WritesBacked
  <2>2. CASE Bind(p) \/ Restore(p)
    BY <1>1, <2>2, BindBacked, RestoreBacked
  <2>3. CASE ~Write(p) /\ ~Bind(p) /\ ~Restore(p)
    <3>1. UNCHANGED <<profile, cache>> /\ pc[p] # "unbind"
      BY <1>3, <2>3
      DEF LoginStep, Authorized, NotAuthorized, Confirm, Decline, Snapshot, SnapshotFails,
          ReadFails, shared
    <3>. QED  BY <1>1, <3>1, QuietBacked
  <2>. QED  BY <2>1, <2>2, <2>3
<1>4. CASE RetrieveStep(p)
  <2>1. CASE Persist(p)
    <3>1. /\ pc[p] = "persist" /\ profile' = profile
          /\ cache' = [cache EXCEPT ![job[p].ses] = job[p].tok]
      BY <2>1 DEF Persist, Undying, WriteOutcomes, After
    <3>2. job[p].tok # NoToken
      BY <3>1 DEF IInv, JobAt
    <3>. QED  BY <1>1, <3>1, <3>2, WritesBacked
  <2>2. CASE ~Persist(p)
    <3>1. UNCHANGED <<profile, cache>> /\ pc[p] # "unbind"
      BY <1>4, <2>2
      DEF RetrieveStep, Read, CacheUnusable, ReadFails, RefreshGranted, RefreshWasted,
          RefreshRefused, Return, shared
    <3>. QED  BY <1>1, <3>1, QuietBacked
  <2>. QED  BY <2>1, <2>2
<1>5. CASE LogoutStep(p)
  <2>1. CASE Delete(p) \/ Unbind(p)
    BY <1>1, <2>1, DeleteBacked, UnbindBacked
  <2>2. CASE NextSession(p) \/ AllCleared(p)
    <3>1. UNCHANGED <<profile, cache>> /\ pc[p] # "unbind"
      BY <2>2 DEF NextSession, AllCleared, shared
    <3>. QED  BY <1>1, <3>1, QuietBacked
  <2>. QED  BY <1>5, <2>1, <2>2 DEF LogoutStep
<1>. QED  BY <1>2, <1>3, <1>4, <1>5 DEF Step

\* A login that finds no cache finds no binding either, and gets none before
\* its own.
LEMMA StepUnbacked ==
  ASSUME IInv, Undying, Backed, NEW p \in Procs, Unbacked(p),
         StartCommand(p) \/ Step(p) \/ Crash(p)
  PROVE  Unbacked(p)'
<1>1. ASSUME pc'[p] \notin {"write", "bind", "restore"} PROVE Unbacked(p)'
  BY <1>1 DEF Unbacked
<1>2. /\ pc \in [Procs -> PCs] /\ job \in [Procs -> JobSet]
  BY Types
<1>3. CASE Snapshot(p)
  <2>1. /\ pc[p] = "snapshot" /\ UNCHANGED profile /\ job[p].ses \in Sessions
        /\ job' = [job EXCEPT ![p].prior = cache[job[p].ses]]
    BY <1>3 DEF Snapshot, shared, IInv, JobAt, Inside
  <2>2. job'[p].ses = job[p].ses /\ job'[p].prior = cache[job[p].ses]
    BY <1>2, <2>1 DEF JobSet
  <2>3. ASSUME cache[job[p].ses] = NoToken, NEW f \in ConsoleProfiles(job[p].ses)
        PROVE  FALSE
    <3>1. PICK q \in Procs : pc[q] = "unbind" /\ job[q].ses = job[p].ses
      BY <2>1, <2>3, Types DEF Backed, ConsoleProfiles
    <3>. QED  BY <2>1, <3>1, InsideAlone DEF Inside
  <2>. QED  BY <2>1, <2>2, <2>3 DEF Unbacked, ConsoleProfiles
<1>4. CASE Write(p)
  BY <1>2, <1>4 DEF Write, Undying, WriteOutcomes, Unbacked, ConsoleProfiles
<1>5. CASE Bind(p)
  <2>1. CASE pc'[p] = "restore"
    <3>1. /\ pc[p] = "bind" /\ UNCHANGED job
          /\ \E o \in {"lost"} : profile' = [profile EXCEPT ![job[p].prof] =
               After(o, [mode |-> "console", ses |-> job[p].ses], @)]
      BY <1>2, <1>5, <2>1 DEF Bind, Finish, Goto, Undying, WriteOutcomes
    <3>2. UNCHANGED profile
      BY <3>1, Types DEF After
    <3>. QED  BY <3>1, <3>2 DEF Unbacked, ConsoleProfiles
  <2>2. CASE pc'[p] # "restore"
    BY <1>1, <1>2, <1>5, <2>2 DEF Bind, Finish, Goto
  <2>. QED  BY <2>1, <2>2
<1>6. CASE \/ StartCommand(p) \/ Crash(p) \/ Unwind(p) \/ AcquireLock(p) \/ LockFails(p)
           \/ LoginStep(p) /\ ~Snapshot(p) /\ ~Write(p) /\ ~Bind(p)
  BY <1>1, <1>2, <1>6
  DEF StartCommand, StartLogin, StartRetrieve, StartLogout, Start, Goto, Crash,
      Unwind, Release, AcquireLock, LockFails, Finish, LoginStep, Authorized,
      NotAuthorized, Confirm, Decline, SnapshotFails, ReadFails, Restore
<1>7. CASE RetrieveStep(p) \/ LogoutStep(p)
  BY <1>1, <1>2, <1>7
  DEF RetrieveStep, Read, CacheUnusable, ReadFails, RefreshGranted, RefreshWasted,
      RefreshRefused, Persist, Return, LogoutStep, Delete, Unbind, NextSession,
      AllCleared, Goto, Finish
<1>. QED  BY <1>3, <1>4, <1>5, <1>6, <1>7 DEF Step

LEMMA NextBacked ==
  ASSUME Undying, BackedInv, [Next]_vars
  PROVE  BackedInv'
<1>1. IInv /\ IInv' /\ Backed /\ \A p \in Procs : Unbacked(p)
  BY NextIInv DEF BackedInv
<1>2. CASE Environment \/ Rest \/ UNCHANGED vars
  <2>1. /\ UNCHANGED <<cache, lock, pc, job>>
        /\ \A f \in Profiles :
              \/ profile'[f].mode # "console" \/ profile'[f].ses = NoSession
              \/ profile'[f] = profile[f]
    BY <1>1, <1>2, EnvironmentUnbinds
  <2>2. Backed'
    BY <1>1, <2>1 DEF Backed
  <2>3. ASSUME NEW p \in Procs PROVE Unbacked(p)'
    <3>1. pc[p] \in {"write", "bind", "restore"} => job[p].ses # NoSession
      BY <1>1, Types DEF IInv, JobAt, Inside
    <3>. QED  BY <1>1, <2>1, <3>1 DEF Unbacked, ConsoleProfiles
  <2>. QED  BY <1>1, <2>2, <2>3 DEF BackedInv
<1>3. ASSUME NEW p \in Procs, StartCommand(p) \/ Step(p) \/ Crash(p)
      PROVE  BackedInv'
  <2>1. Backed' /\ Unbacked(p)'
    BY <1>1, <1>3, StepBacked, StepUnbacked
  <2>2. ASSUME NEW q \in Procs, q # p PROVE Unbacked(q)'
    BY <1>1, <1>3, <2>2, OnlyOwn, WhatBinds, OthersUnbacked
  <2>. QED  BY <1>1, <2>1, <2>2 DEF BackedInv
<1>. QED  BY <1>2, <1>3 DEF Next

\* Where no process dies and no access to a file fails, a bound login session
\* that nobody is working on has a cache, whatever answers of the server are
\* lost and whatever locks cannot be taken.
THEOREM BindingsHaveCaches ==
  ASSUME Undying
  PROVE  Spec => []BindingHasCache
<1>1. Init => BackedInv
  <2>1. Init => Backed
    BY ConsoleAssumption
    DEF ConsoleAssumption, Init, Backed, Absent, NoToken
  <2>2. ASSUME Init, NEW p \in Procs PROVE Unbacked(p)
    BY <2>2 DEF Init, Unbacked
  <2>. QED  BY <2>1, <2>2, InitIInv DEF BackedInv
<1>2. BackedInv /\ [Next]_vars => BackedInv'
  BY NextBacked
<1>3. BackedInv => BindingHasCache
  <2>1. ASSUME IInv, NEW p \in Procs, pc[p] = "unbind" PROVE lock[job[p].ses] = p
    BY <2>1 DEF IInv, DiskAt, Inside
  <2>. QED  BY <2>1, Types DEF BackedInv, Backed, BindingHasCache
<1>. QED  BY <1>1, <1>2, <1>3, PTL DEF Spec

-----------------------------------------------------------------------------
(* Refresh tokens                                                           *)

\* Nothing is lost: no process dies, no file access fails, every answer arrives.
Reliable == Faults \cap {"crash", "io", "net"} = {}

\* The refresh tokens a session has: in its cache, in what a refresh is about to
\* persist, in what a login may have to restore.
Claims(r, p) ==
  \/ pc[p] = "persist" /\ job[p].tok.rt = r
  \/ pc[p] \in {"write", "bind", "restore"} /\ job[p].prior.rt = r
InSession(r, s) ==
  cache[s].rt = r \/ \E p \in Procs : job[p].ses = s /\ Claims(r, p)

\* A login that has been granted a token and not yet written it.
Pending(p) ==
  \/ pc[p] \in {"confirm", "snapshot", "write"}
  \/ pc[p] = "lock" /\ job[p].op = "login"
InLogin(r, p) == Pending(p) /\ job[p].tok.rt = r

\* A refresh token belongs to one session or to one login on its way to one.
OneOwner ==
  \A r \in Nat \ {0} :
    /\ \A s, t \in Sessions : InSession(r, s) /\ InSession(r, t) => s = t
    /\ \A p, q \in Procs : InLogin(r, p) /\ InLogin(r, q) => p = q
    /\ \A s \in Sessions, q \in Procs : ~(InSession(r, s) /\ InLogin(r, q))

Issued ==
  \A r \in Nat :
    /\ \A s \in Sessions : InSession(r, s) => r <= issued
    /\ \A q \in Procs : InLogin(r, q) => r <= issued

\* It is live, but for one in a cache whose successor is about to be persisted.
LiveCache ==
  \A s \in Sessions :
    \/ cache[s].rt \in live \cup {0}
    \/ \E p \in Procs : pc[p] = "persist" /\ job[p].ses = s

LiveJob(p) ==
  /\ pc[p] = "refresh" => job[p].tok.rt # 0
  /\ \A r \in Nat : Claims(r, p) \/ InLogin(r, p) => r \in live \cup {0}

LiveInv == OneOwner /\ Issued /\ LiveCache /\ \A p \in Procs : LiveJob(p)

LEMMA TokenTypes ==
  ASSUME IInv
  PROVE  /\ \A s \in Sessions : cache[s].rt \in Nat
         /\ \A p \in Procs : job[p].tok.rt \in Nat /\ job[p].prior.rt \in Nat
BY Types DEF TokenSet, JobSet

\* A step of p that moves tokens around within the session it has locked.
LEMMA TokensKept ==
  ASSUME IInv, LiveInv, NEW p \in Procs, UNCHANGED <<issued, live>>,
         \A q \in Procs \ {p} : pc'[q] = pc[q] /\ job'[q] = job[q],
         \A s \in Sessions : cache'[s].rt = 0 \/ InSession(cache'[s].rt, s),
         \A s \in Sessions :
           \/ cache'[s].rt \in live \cup {0}
           \/ \E q \in Procs \ {p} : pc[q] = "persist" /\ job[q].ses = s,
         \A r \in Nat \ {0} : Claims(r, p)' => InSession(r, job'[p].ses),
         \A r \in Nat \ {0} : InLogin(r, p)' => InLogin(r, p),
         LiveJob(p)'
  PROVE  LiveInv'
<1>1. ASSUME NEW r \in Nat \ {0}, NEW s \in Sessions, InSession(r, s)'
      PROVE  InSession(r, s)
  <2>1. CASE cache'[s].rt = r
    BY <2>1
  <2>2. ASSUME NEW q \in Procs, job'[q].ses = s, Claims(r, q)' PROVE InSession(r, s)
    BY <2>2 DEF Claims, InSession
  <2>. QED  BY <1>1, <2>1, <2>2 DEF InSession
<1>2. ASSUME NEW r \in Nat \ {0}, NEW q \in Procs, InLogin(r, q)'
      PROVE  InLogin(r, q)
  BY <1>2 DEF InLogin, Pending
<1>3. OneOwner'
  BY <1>1, <1>2 DEF LiveInv, OneOwner
<1>4. Issued'
  BY <1>1, <1>2, Types DEF LiveInv, Issued
<1>5. LiveCache'
  BY DEF LiveCache
<1>6. ASSUME NEW q \in Procs PROVE LiveJob(q)'
  BY DEF LiveInv, LiveJob, Claims, InLogin, Pending
<1>. QED  BY <1>3, <1>4, <1>5, <1>6 DEF LiveInv

\* A step of p that writes no cache and leaves p with no more than it had.
LEMMA QuietTokens ==
  ASSUME IInv, LiveInv, NEW p \in Procs, UNCHANGED <<cache, issued, live>>,
         \A q \in Procs \ {p} : pc'[q] = pc[q] /\ job'[q] = job[q],
         pc[p] # "persist",
         \A r \in Nat \ {0} : Claims(r, p)' => InSession(r, job'[p].ses),
         \A r \in Nat \ {0} : InLogin(r, p)' => InLogin(r, p),
         LiveJob(p)'
  PROVE  LiveInv'
<1>1. \A s \in Sessions : cache'[s].rt = 0 \/ InSession(cache'[s].rt, s)
  BY DEF InSession
<1>2. \A s \in Sessions :
        \/ cache'[s].rt \in live \cup {0}
        \/ \E q \in Procs \ {p} : pc[q] = "persist" /\ job[q].ses = s
  BY DEF LiveInv, LiveCache
<1>. QED  BY <1>1, <1>2, TokensKept

\* Where a command has no refresh token in its hands that is not in its cache.
Bare == {"idle", "authorize", "unwind", "read", "return", "delete", "unbind", "cleared"}

LEMMA BareTokens ==
  ASSUME IInv, LiveInv, NEW p \in Procs, UNCHANGED <<cache, issued, live>>,
         \A q \in Procs \ {p} : pc'[q] = pc[q] /\ job'[q] = job[q],
         pc[p] # "persist",
         pc'[p] \in Bare \/ (pc'[p] = "lock" /\ job'[p].op # "login")
  PROVE  LiveInv'
<1>1. \A r \in Nat : ~Claims(r, p)' /\ ~InLogin(r, p)'
  BY DEF Bare, Claims, InLogin, Pending
<1>2. LiveJob(p)'
  BY <1>1 DEF LiveJob, Bare
<1>. QED  BY <1>1, <1>2, QuietTokens

\* What p finds in the cache of the session it has locked is live, unless p has
\* just refreshed it.
LEMMA FoundLive ==
  ASSUME IInv, LiveInv, NEW p \in Procs, pc[p] \in Inside, pc[p] # "persist"
  PROVE  cache[job[p].ses].rt \in live \cup {0}
<1>1. job[p].ses \in Sessions
  BY DEF IInv, JobAt
<1>2. ASSUME NEW q \in Procs, pc[q] = "persist", job[q].ses = job[p].ses PROVE FALSE
  BY <1>2, InsideAlone DEF Inside
<1>. QED  BY <1>1, <1>2 DEF LiveInv, LiveCache

\* A step of p that writes to the cache a token its session has.
LEMMA WritesKept ==
  ASSUME IInv, LiveInv, NEW p \in Procs, UNCHANGED <<issued, live>>,
         \A q \in Procs \ {p} : pc'[q] = pc[q] /\ job'[q] = job[q],
         pc[p] \in Inside, pc'[p] \in Bare, NEW t \in TokenSet,
         cache' = [cache EXCEPT ![job[p].ses] = t],
         t.rt \in live \cup {0}, t.rt = 0 \/ InSession(t.rt, job[p].ses)
  PROVE  LiveInv'
<1>1. job[p].ses \in Sessions
  BY DEF IInv, JobAt
<1>2. ASSUME NEW s \in Sessions PROVE cache'[s].rt = 0 \/ InSession(cache'[s].rt, s)
  BY <1>1, Types DEF InSession
<1>3. ASSUME NEW s \in Sessions
      PROVE  \/ cache'[s].rt \in live \cup {0}
             \/ \E q \in Procs \ {p} : pc[q] = "persist" /\ job[q].ses = s
  BY <1>1, Types DEF LiveInv, LiveCache
<1>4. \A r \in Nat : ~Claims(r, p)' /\ ~InLogin(r, p)'
  BY DEF Bare, Claims, InLogin, Pending
<1>5. LiveJob(p)'
  BY <1>4 DEF LiveJob, Bare
<1>. QED  BY <1>2, <1>3, <1>4, <1>5, TokensKept

\* The login gets a token nobody has.
LEMMA AuthorizedLive ==
  ASSUME IInv, LiveInv, NEW p \in Procs, Authorized(p),
         \A q \in Procs \ {p} : pc'[q] = pc[q] /\ job'[q] = job[q]
  PROVE  LiveInv'
<1>. DEFINE i == issued + 1
<1>1. PICK rt \in {0, i} :
        /\ pc[p] = "authorize" /\ issued' = i /\ cache' = cache
        /\ live' = live \cup ({rt} \ {0})
        /\ \E s : job' = [job EXCEPT ![p].ses = s, ![p].tok = [at |-> i, rt |-> rt]]
  BY Types DEF Authorized, Goto
<1>2. pc'[p] \in {"lock", "confirm"}
  BY Types DEF Authorized, Goto
<1>3. job'[p].tok.rt = rt
  <2>1. PICK s : job' = [job EXCEPT ![p].ses = s, ![p].tok = [at |-> i, rt |-> rt]]
    BY <1>1
  <2>. DEFINE t == [at |-> i, rt |-> rt]
  <2>2. t.rt = rt
    OBVIOUS
  <2>. HIDE DEF t
  <2>3. job' = [job EXCEPT ![p].ses = s, ![p].tok = t]
    BY <2>1 DEF t
  <2>4. job'[p].tok = t
    BY <2>3, Types DEF JobSet
  <2>. QED  BY <2>2, <2>4
<1>4. \A r \in Nat : ~Claims(r, p)' /\ ~Claims(r, p)
  BY <1>1, <1>2 DEF Claims
<1>5. ASSUME NEW r \in Nat \ {0}, NEW s \in Sessions, InSession(r, s)'
      PROVE  InSession(r, s) /\ r <= issued
  <2>1. InSession(r, s)
    BY <1>1, <1>4, <1>5 DEF InSession, Claims
  <2>. QED  BY <2>1 DEF LiveInv, Issued
<1>6. ASSUME NEW r \in Nat \ {0}, NEW q \in Procs, InLogin(r, q)'
      PROVE  \/ InLogin(r, q) /\ r <= issued
             \/ q = p /\ r = i
  <2>1. CASE q = p
    BY <1>3, <1>6, <2>1 DEF InLogin
  <2>2. CASE q # p
    <3>1. InLogin(r, q)
      BY <1>6, <2>2 DEF InLogin, Pending
    <3>. QED  BY <3>1 DEF LiveInv, Issued
  <2>. QED  BY <2>1, <2>2
<1>7. i > issued /\ i \in Nat
  BY Types
<1>8. OneOwner'
  BY <1>5, <1>6, <1>7, Types DEF LiveInv, OneOwner
<1>9. Issued'
  BY <1>1, <1>5, <1>6, <1>7, Types DEF LiveInv, Issued
<1>10. LiveCache'
  <2>1. ASSUME NEW s \in Sessions, NEW q \in Procs, pc[q] = "persist", job[q].ses = s
        PROVE  pc'[q] = "persist" /\ job'[q].ses = s
    BY <1>1, <2>1
  <2>. QED  BY <1>1, <2>1 DEF LiveInv, LiveCache
<1>11. ASSUME NEW q \in Procs PROVE LiveJob(q)'
  <2>1. CASE q = p
    BY <1>1, <1>2, <1>3, <1>4, <2>1 DEF LiveJob, InLogin
  <2>2. CASE q # p
    BY <1>1, <2>2 DEF LiveInv, LiveJob, Claims, InLogin, Pending
  <2>. QED  BY <2>1, <2>2
<1>. QED  BY <1>8, <1>9, <1>10, <1>11 DEF LiveInv

\* The refresh token that is rotated away is in no other session's cache, and in
\* no login's hands.
LEMMA RefreshedLive ==
  ASSUME IInv, LiveInv, NEW p \in Procs, RefreshGranted(p),
         \A q \in Procs \ {p} : pc'[q] = pc[q] /\ job'[q] = job[q]
  PROVE  LiveInv'
<1>. DEFINE i == issued + 1
            old == job[p].tok.rt
            ses == job[p].ses
<1>1. PICK rt \in {old, i} :
        /\ pc[p] = "refresh" /\ issued' = i /\ cache' = cache
        /\ live' = (live \ {old}) \cup {rt}
        /\ job' = [job EXCEPT ![p].tok = [at |-> i, rt |-> rt]]
        /\ pc' = [pc EXCEPT ![p] = "persist"]
  BY DEF RefreshGranted, Goto
<1>2. /\ ses \in Sessions /\ cache[ses] = job[p].tok /\ old \in Nat \ {0}
      /\ pc'[p] = "persist" /\ i > issued /\ i \in Nat
  <2>1. /\ ses \in Sessions /\ cache[ses] = job[p].tok
    BY <1>1 DEF IInv, JobAt, DiskAt, Inside
  <2>2. old # 0
    BY <1>1 DEF LiveInv, LiveJob
  <2>. QED  BY <1>1, <2>1, <2>2, Types, TokenTypes
<1>3. job'[p].tok.rt = rt /\ job'[p].ses = ses
  <2>. DEFINE t == [at |-> i, rt |-> rt]
  <2>1. t.rt = rt
    OBVIOUS
  <2>. HIDE DEF t
  <2>2. job' = [job EXCEPT ![p].tok = t]
    BY <1>1 DEF t
  <2>3. job'[p].tok = t /\ job'[p].ses = ses
    BY <2>2, Types DEF JobSet
  <2>. QED  BY <2>1, <2>3
<1>4. InSession(old, ses)
  BY <1>2 DEF InSession
<1>5. ASSUME NEW r \in Nat \ {0}, NEW s \in Sessions, InSession(r, s)'
      PROVE  \/ InSession(r, s) /\ r <= issued
             \/ s = ses /\ r = i
  <2>1. CASE cache'[s].rt = r
    <3>1. InSession(r, s)
      BY <1>1, <2>1 DEF InSession
    <3>. QED  BY <3>1 DEF LiveInv, Issued
  <2>2. ASSUME NEW q \in Procs, job'[q].ses = s, Claims(r, q)'
        PROVE  \/ InSession(r, s) /\ r <= issued
               \/ s = ses /\ r = i
    <3>1. CASE q = p
      <4>1. s = ses /\ r = rt
        BY <1>2, <1>3, <2>2, <3>1 DEF Claims
      <4>. QED  BY <1>1, <1>4, <4>1 DEF LiveInv, Issued
    <3>2. CASE q # p
      <4>1. InSession(r, s)
        BY <2>2, <3>2 DEF InSession, Claims
      <4>. QED  BY <4>1 DEF LiveInv, Issued
    <3>. QED  BY <3>1, <3>2
  <2>. QED  BY <1>5, <2>1, <2>2 DEF InSession
<1>6. ASSUME NEW r \in Nat \ {0}, NEW q \in Procs, InLogin(r, q)'
      PROVE  q # p /\ InLogin(r, q) /\ r <= issued
  <2>1. q # p
    BY <1>2, <1>6 DEF InLogin, Pending
  <2>2. InLogin(r, q)
    BY <1>6, <2>1 DEF InLogin, Pending
  <2>. QED  BY <2>1, <2>2 DEF LiveInv, Issued
<1>7. OneOwner'
  BY <1>2, <1>5, <1>6, Types DEF LiveInv, OneOwner
<1>8. Issued'
  BY <1>1, <1>2, <1>5, <1>6, Types DEF LiveInv, Issued
<1>9. ASSUME NEW s \in Sessions
      PROVE  \/ cache'[s].rt \in live' \cup {0}
             \/ \E q \in Procs : pc'[q] = "persist" /\ job'[q].ses = s
  <2>1. CASE s = ses
    BY <1>2, <1>3, <2>1
  <2>2. ASSUME s # ses, NEW q \in Procs, pc[q] = "persist", job[q].ses = s
        PROVE  pc'[q] = "persist" /\ job'[q].ses = s
    BY <1>1, <2>2
  <2>3. CASE s # ses /\ cache[s].rt \in live \cup {0}
    <3>1. cache[s].rt # old
      BY <1>2, <1>4, <2>3 DEF LiveInv, OneOwner, InSession
    <3>. QED  BY <1>1, <2>3, <3>1
  <2>. QED  BY <2>1, <2>2, <2>3 DEF LiveInv, LiveCache
<1>10. ASSUME NEW q \in Procs PROVE LiveJob(q)'
  <2>1. CASE q = p
    <3>1. ASSUME NEW r \in Nat, Claims(r, p)' \/ InLogin(r, p)' PROVE r = rt
      BY <1>2, <1>3, <3>1 DEF Claims, InLogin, Pending
    <3>. QED  BY <1>1, <1>2, <2>1, <3>1 DEF LiveJob
  <2>2. CASE q # p
    <3>1. ASSUME NEW r \in Nat, Claims(r, q) PROVE r # old
      <4>1. pc[q] \in Inside /\ job[q].ses \in Sessions /\ job[q].ses # ses
        BY <1>1, <2>2, <3>1, InsideAlone DEF Claims, Inside, IInv, JobAt
      <4>2. InSession(r, job[q].ses)
        BY <3>1 DEF InSession
      <4>. QED  BY <1>2, <1>4, <4>1, <4>2 DEF LiveInv, OneOwner
    <3>2. ASSUME NEW r \in Nat, InLogin(r, q) PROVE r # old
      BY <1>2, <1>4, <3>2 DEF LiveInv, OneOwner
    <3>3. \A r \in Nat : Claims(r, q) \/ InLogin(r, q) => r \in live \cup {0}
      BY DEF LiveInv, LiveJob
    <3>4. pc'[q] = pc[q] /\ job'[q] = job[q]
      BY <2>2
    <3>5. \A r \in Nat : Claims(r, q)' \/ InLogin(r, q)' => r \in live' \cup {0}
      BY <1>1, <3>1, <3>2, <3>3, <3>4 DEF Claims, InLogin, Pending
    <3>. QED  BY <3>4, <3>5 DEF LiveInv, LiveJob
  <2>. QED  BY <2>1, <2>2
<1>. QED  BY <1>7, <1>8, <1>9, <1>10 DEF LiveInv, LiveCache

\* The token of a login becomes the session's.
LEMMA WriteLive ==
  ASSUME IInv, LiveInv, Reliable, NEW p \in Procs, Write(p),
         \A q \in Procs \ {p} : pc'[q] = pc[q] /\ job'[q] = job[q]
  PROVE  LiveInv'
<1>. DEFINE new == job[p].tok.rt
            ses == job[p].ses
<1>1. /\ pc[p] = "write" /\ UNCHANGED <<job, issued, live>>
      /\ cache' = [cache EXCEPT ![ses] = job[p].tok]
      /\ pc' = [pc EXCEPT ![p] = "bind"]
  BY DEF Write, Reliable, WriteOutcomes, After, Goto
<1>2. /\ ses \in Sessions /\ cache'[ses] = job[p].tok /\ pc'[p] = "bind"
      /\ \A s \in Sessions \ {ses} : cache'[s] = cache[s]
      /\ InLogin(new, p) /\ new \in Nat
  BY <1>1, Types, TokenTypes DEF IInv, JobAt, Inside, InLogin, Pending
<1>3. ASSUME NEW r \in Nat \ {0}, NEW q \in Procs PROVE Claims(r, q)' => Claims(r, q)
  BY <1>1, Types DEF Claims
<1>4. ASSUME NEW r \in Nat \ {0}, NEW s \in Sessions, InSession(r, s)'
      PROVE  InSession(r, s) \/ (s = ses /\ r = new)
  BY <1>1, <1>2, <1>3, <1>4 DEF InSession
<1>5. ASSUME NEW r \in Nat \ {0}, NEW q \in Procs, InLogin(r, q)'
      PROVE  q # p /\ InLogin(r, q)
  BY <1>1, <1>2, <1>5, Types DEF InLogin, Pending
<1>6. OneOwner'
  BY <1>2, <1>4, <1>5 DEF LiveInv, OneOwner
<1>7. Issued'
  BY <1>1, <1>2, <1>4, <1>5, Types DEF LiveInv, Issued
<1>8. ASSUME NEW s \in Sessions
      PROVE  \/ cache'[s].rt \in live' \cup {0}
             \/ \E q \in Procs : pc'[q] = "persist" /\ job'[q].ses = s
  <2>1. CASE s = ses
    <3>1. new \in live \cup {0}
      BY <1>2 DEF LiveInv, LiveJob
    <3>. QED  BY <1>1, <1>2, <2>1, <3>1
  <2>2. CASE s # ses
    <3>1. ASSUME NEW q \in Procs, pc[q] = "persist", job[q].ses = s
          PROVE  pc'[q] = "persist" /\ job'[q].ses = s
      BY <1>1, <3>1
    <3>. QED  BY <1>1, <1>2, <2>2, <3>1 DEF LiveInv, LiveCache
  <2>. QED  BY <2>1, <2>2
<1>9. ASSUME NEW q \in Procs PROVE LiveJob(q)'
  <2>1. pc'[q] = "refresh" => pc[q] = "refresh"
    BY <1>1, <1>2
  <2>2. \A r \in Nat \ {0} : Claims(r, q)' \/ InLogin(r, q)' => r \in live'
    BY <1>1, <1>3, <1>5 DEF LiveInv, LiveJob
  <2>. QED  BY <1>1, <2>1, <2>2 DEF LiveInv, LiveJob
<1>. QED  BY <1>6, <1>7, <1>8, <1>9 DEF LiveInv, LiveCache

LEMMA StepLive ==
  ASSUME IInv, IInv', LiveInv, Reliable, NEW p \in Procs,
         StartCommand(p) \/ Step(p) \/ Crash(p)
  PROVE  LiveInv'
<1>1. \A q \in Procs \ {p} : pc'[q] = pc[q] /\ job'[q] = job[q]
  BY OnlyOwn
<1>2. /\ pc \in [Procs -> PCs] /\ job \in [Procs -> JobSet]
  BY Types
<1>3. CASE StartCommand(p)
  <2>1. pc[p] = "idle" /\ UNCHANGED <<cache, issued, live>>
    BY <1>3 DEF StartCommand, StartLogin, StartRetrieve, StartLogout, Start
  <2>2. PICK f \in Profiles : StartLogin(p, f) \/ StartRetrieve(p, f) \/ StartLogout(p, f)
    BY <1>3 DEF StartCommand
  <2>3. CASE StartLogin(p, f)
    <3>1. pc'[p] \in Bare
      BY <1>2, <2>3 DEF StartLogin, Start, Goto, Bare
    <3>. QED  BY <1>1, <2>1, <3>1, BareTokens
  <2>4. CASE StartRetrieve(p, f)
    <3>. DEFINE j == [NoJob EXCEPT !.op = "retrieve", !.prof = f, !.ses = profile[f].ses]
    <3>1. j.op = "retrieve"
      BY DEF NoJob
    <3>2. Start(p, "lock", j)
      BY <2>4 DEF StartRetrieve
    <3>. HIDE DEF j
    <3>3. pc'[p] = "lock" /\ job'[p].op = "retrieve"
      BY <1>2, <3>1, <3>2 DEF Start, Goto
    <3>. QED  BY <1>1, <2>1, <3>3, BareTokens
  <2>5. CASE StartLogout(p, f)
    <3>1. PICK others :
            Start(p, "lock", [NoJob EXCEPT !.op = "logout", !.prof = f,
                                !.ses = profile[f].ses, !.todo = others])
      BY <2>5 DEF StartLogout
    <3>. DEFINE j == [NoJob EXCEPT !.op = "logout", !.prof = f,
                        !.ses = profile[f].ses, !.todo = others]
    <3>2. j.op = "logout"
      BY DEF NoJob
    <3>3. Start(p, "lock", j)
      BY <3>1
    <3>. HIDE DEF j
    <3>4. pc'[p] = "lock" /\ job'[p].op = "logout"
      BY <1>2, <3>2, <3>3 DEF Start, Goto
    <3>. QED  BY <1>1, <2>1, <3>4, BareTokens
  <2>. QED  BY <2>2, <2>3, <2>4, <2>5
<1>4. CASE Crash(p)
  BY <1>4 DEF Crash, Reliable
<1>5. CASE Unwind(p) \/ LockFails(p)
  <2>1. pc[p] # "persist" /\ pc'[p] \in Bare /\ UNCHANGED <<cache, issued, live>>
    BY <1>2, <1>5 DEF Unwind, Release, LockFails, Finish, Goto, Bare, shared
  <2>. QED  BY <1>1, <2>1, BareTokens
<1>6. CASE AcquireLock(p)
  <2>1. /\ pc[p] = "lock" /\ UNCHANGED <<cache, issued, live, job>>
        /\ pc'[p] \in Bare \/ (pc'[p] = "snapshot" /\ job[p].op = "login")
    BY <1>2, <1>6 DEF AcquireLock, Goto, Bare
  <2>2. CASE pc'[p] \in Bare
    BY <1>1, <2>1, <2>2, BareTokens
  <2>3. CASE pc'[p] = "snapshot" /\ job[p].op = "login"
    <3>1. \A r \in Nat : ~Claims(r, p)'
      BY <2>3 DEF Claims
    <3>2. \A r \in Nat : InLogin(r, p)' <=> InLogin(r, p)
      BY <2>1, <2>3 DEF InLogin, Pending
    <3>3. LiveJob(p)'
      BY <2>1, <2>3, <3>1, <3>2 DEF LiveInv, LiveJob
    <3>. QED  BY <1>1, <2>1, <3>1, <3>2, <3>3, QuietTokens
  <2>. QED  BY <2>1, <2>2, <2>3
<1>7. CASE Authorized(p) \/ RefreshGranted(p) \/ Write(p)
  BY <1>1, <1>7, AuthorizedLive, RefreshedLive, WriteLive
<1>8. CASE RefreshWasted(p)
  BY <1>8 DEF RefreshWasted, Reliable
<1>9. CASE \/ NotAuthorized(p) \/ Decline(p) \/ SnapshotFails(p) \/ CacheUnusable(p)
           \/ RefreshRefused(p) \/ Return(p) \/ Unbind(p) \/ AllCleared(p)
  <2>1. pc[p] # "persist" /\ pc'[p] \in Bare /\ UNCHANGED <<cache, issued, live>>
    BY <1>2, <1>9
    DEF NotAuthorized, Decline, SnapshotFails, CacheUnusable, ReadFails, RefreshRefused,
        Return, Unbind, AllCleared, Finish, Goto, Bare, shared
  <2>. QED  BY <1>1, <2>1, BareTokens
<1>10. CASE NextSession(p)
  <2>1. /\ pc[p] = "cleared" /\ pc'[p] = "lock" /\ UNCHANGED <<cache, issued, live>>
        /\ \E s : job' = [job EXCEPT ![p].ses = s, ![p].todo = @ \ {s}]
    BY <1>2, <1>10 DEF NextSession, Goto
  <2>2. PICK s : job' = [job EXCEPT ![p].ses = s, ![p].todo = @ \ {s}]
    BY <2>1
  <2>3. job'[p].op = job[p].op /\ job[p].op # "login"
    BY <1>2, <2>1, <2>2 DEF JobSet, IInv, JobAt
  <2>. QED  BY <1>1, <2>1, <2>3, BareTokens
<1>11. CASE Confirm(p)
  <2>1. /\ pc[p] = "confirm" /\ pc'[p] = "lock" /\ UNCHANGED <<cache, issued, live>>
        /\ job'[p].tok = job[p].tok
    BY <1>2, <1>11 DEF Confirm, Goto, shared, JobSet
  <2>2. \A r \in Nat : ~Claims(r, p)'
    BY <2>1 DEF Claims
  <2>3. \A r \in Nat : InLogin(r, p)' => InLogin(r, p)
    BY <2>1 DEF InLogin, Pending
  <2>4. LiveJob(p)'
    BY <2>1, <2>2, <2>3 DEF LiveInv, LiveJob
  <2>. QED  BY <1>1, <2>1, <2>2, <2>3, <2>4, QuietTokens
<1>12. CASE Snapshot(p)
  <2>1. /\ pc[p] = "snapshot" /\ pc'[p] = "write" /\ UNCHANGED <<cache, issued, live>>
        /\ job'[p].tok = job[p].tok /\ job'[p].ses = job[p].ses
        /\ job'[p].prior = cache[job[p].ses]
    BY <1>2, <1>12 DEF Snapshot, Goto, shared, JobSet
  <2>2. \A r \in Nat \ {0} : Claims(r, p)' => InSession(r, job'[p].ses)
    BY <2>1 DEF Claims, InSession
  <2>3. \A r \in Nat : InLogin(r, p)' => InLogin(r, p)
    BY <2>1 DEF InLogin, Pending
  <2>4. cache[job[p].ses].rt \in live \cup {0}
    BY <2>1, FoundLive DEF Inside
  <2>5. LiveJob(p)'
    BY <2>1, <2>3, <2>4 DEF LiveInv, LiveJob, Claims
  <2>. QED  BY <1>1, <2>1, <2>2, <2>3, <2>5, QuietTokens
<1>13. CASE Bind(p)
  <2>1. /\ pc[p] = "bind" /\ UNCHANGED <<cache, issued, live>>
        /\ pc'[p] \in Bare \/ (pc'[p] = "restore" /\ UNCHANGED job)
    BY <1>2, <1>13 DEF Bind, Finish, Goto, Bare
  <2>2. CASE pc'[p] \in Bare
    BY <1>1, <2>1, <2>2, BareTokens
  <2>3. CASE pc'[p] = "restore" /\ UNCHANGED job
    <3>1. \A r \in Nat : Claims(r, p)' => Claims(r, p)
      BY <2>1, <2>3 DEF Claims
    <3>2. \A r \in Nat : ~InLogin(r, p)'
      BY <2>3 DEF InLogin, Pending
    <3>3. \A r \in Nat \ {0} : Claims(r, p)' => InSession(r, job'[p].ses)
      BY <2>3, <3>1 DEF InSession
    <3>4. LiveJob(p)'
      BY <2>1, <2>3, <3>1, <3>2 DEF LiveInv, LiveJob
    <3>. QED  BY <1>1, <2>1, <3>2, <3>3, <3>4, QuietTokens
  <2>. QED  BY <2>1, <2>2, <2>3
<1>14. CASE Restore(p)
  <2>1. /\ pc[p] = "restore" /\ pc'[p] \in Bare /\ UNCHANGED <<issued, live>>
        /\ cache' = [cache EXCEPT ![job[p].ses] = job[p].prior]
    BY <1>2, <1>14
    DEF Restore, Reliable, WriteOutcomes, DeleteOutcomes, After, Finish, Goto, Bare
  <2>2. job[p].prior \in TokenSet /\ job[p].prior.rt \in Nat
    BY <1>2, TokenTypes DEF JobSet
  <2>3. Claims(job[p].prior.rt, p)
    BY <2>1 DEF Claims
  <2>4. InSession(job[p].prior.rt, job[p].ses) /\ job[p].prior.rt \in live \cup {0}
    BY <2>2, <2>3 DEF InSession, LiveInv, LiveJob
  <2>. QED  BY <1>1, <2>1, <2>2, <2>4, WritesKept DEF Inside
<1>15. CASE Read(p)
  <2>1. /\ pc[p] = "read" /\ UNCHANGED <<cache, issued, live>>
        /\ \/ pc'[p] \in Bare
           \/ /\ pc'[p] = "refresh"
              /\ job' = [job EXCEPT ![p].tok = cache[job[p].ses]]
              /\ cache[job[p].ses].rt # 0
    BY <1>2, <1>15 DEF Read, Finish, Goto, Bare, shared
  <2>2. CASE pc'[p] \in Bare
    BY <1>1, <2>1, <2>2, BareTokens
  <2>3. CASE /\ pc'[p] = "refresh"
             /\ job' = [job EXCEPT ![p].tok = cache[job[p].ses]]
             /\ cache[job[p].ses].rt # 0
    <3>1. \A r \in Nat : ~Claims(r, p)' /\ ~InLogin(r, p)'
      BY <2>3 DEF Claims, InLogin, Pending
    <3>2. job'[p].tok.rt # 0
      BY <1>2, <2>3 DEF JobSet
    <3>3. LiveJob(p)'
      BY <3>1, <3>2 DEF LiveJob
    <3>. QED  BY <1>1, <2>1, <3>1, <3>3, QuietTokens
  <2>. QED  BY <2>1, <2>2, <2>3
<1>16. CASE Persist(p)
  <2>1. /\ pc[p] = "persist" /\ pc'[p] \in Bare /\ UNCHANGED <<issued, live>>
        /\ cache' = [cache EXCEPT ![job[p].ses] = job[p].tok]
    BY <1>2, <1>16 DEF Persist, Reliable, WriteOutcomes, After, Finish, Goto, Bare
  <2>2. job[p].tok \in TokenSet /\ job[p].tok.rt \in Nat
    BY <1>2, TokenTypes DEF JobSet
  <2>3. Claims(job[p].tok.rt, p)
    BY <2>1 DEF Claims
  <2>4. InSession(job[p].tok.rt, job[p].ses) /\ job[p].tok.rt \in live \cup {0}
    BY <2>2, <2>3 DEF InSession, LiveInv, LiveJob
  <2>. QED  BY <1>1, <2>1, <2>2, <2>4, WritesKept DEF Inside
<1>17. CASE Delete(p)
  <2>1. /\ pc[p] = "delete" /\ pc'[p] \in Bare /\ UNCHANGED <<issued, live>>
        /\ cache' = [cache EXCEPT ![job[p].ses] = NoToken]
    BY <1>2, <1>17 DEF Delete, Reliable, DeleteOutcomes, After, Finish, Goto, Bare
  <2>2. NoToken \in TokenSet /\ NoToken.rt = 0
    BY DEF NoToken, TokenSet
  <2>. QED  BY <1>1, <2>1, <2>2, WritesKept DEF Inside
<1>. QED
  BY <1>3, <1>4, <1>5, <1>6, <1>7, <1>8, <1>9, <1>10, <1>11, <1>12, <1>13, <1>14, <1>15,
     <1>16, <1>17
  DEF Step, LoginStep, RetrieveStep, LogoutStep

LEMMA OutsideLive ==
  ASSUME LiveInv, UNCHANGED <<cache, pc, job, issued, live>>
  PROVE  LiveInv'
BY DEF LiveInv, OneOwner, Issued, LiveCache, LiveJob, InSession, InLogin, Claims, Pending

LEMMA NextLive ==
  ASSUME Reliable, IInv, LiveInv, [Next]_vars
  PROVE  LiveInv'
<1>1. CASE Environment \/ Rest \/ UNCHANGED vars
  <2>1. UNCHANGED <<cache, pc, job, issued, live>>
    BY <1>1
    DEF Environment, Expire, ConfigureDelete, ConfigureSetMode, ConfigureSso,
        Administer, Rest, vars
  <2>. QED  BY <2>1, OutsideLive
<1>2. ASSUME NEW p \in Procs, StartCommand(p) \/ Step(p) \/ Crash(p) PROVE LiveInv'
  BY <1>2, NextIInv, StepLive DEF Next
<1>. QED  BY <1>1, <1>2 DEF Next

LEMMA InitLive == Init => LiveInv
<1>. SUFFICES ASSUME Init PROVE LiveInv
  OBVIOUS
<1>1. ASSUME NEW r, NEW p \in Procs PROVE ~Claims(r, p) /\ ~InLogin(r, p)
  BY DEF Init, Claims, InLogin, Pending
<1>2. ASSUME NEW s \in Sessions PROVE cache[s].rt = IF s = LoggedIn THEN 1 ELSE 0
  BY DEF Init, NoToken
<1>3. ASSUME NEW r, NEW s \in Sessions, InSession(r, s)
      PROVE  r = IF s = LoggedIn THEN 1 ELSE 0
  BY <1>1, <1>2, <1>3 DEF InSession
<1>4. OneOwner
  BY <1>1, <1>3 DEF OneOwner
<1>5. issued = 1 /\ live = {1}
  BY DEF Init
<1>6. Issued
  BY <1>1, <1>3, <1>5 DEF Issued
<1>7. LiveCache
  BY <1>2, <1>5 DEF LiveCache
<1>8. ASSUME NEW p \in Procs PROVE LiveJob(p)
  BY <1>1 DEF Init, LiveJob
<1>. QED  BY <1>4, <1>6, <1>7, <1>8 DEF LiveInv

\* Where nothing is lost, nobody presents a refresh token that was rotated
\* away, not even after the rollback of a login.
THEOREM RefreshesAreLive ==
  ASSUME Reliable
  PROVE  Spec => []RefreshTokenIsLive
<1>1. IInv /\ LiveInv /\ [Next]_vars => LiveInv'
  BY NextLive
<1>2. IInv /\ LiveInv => RefreshTokenIsLive
  <2>1. ASSUME IInv, LiveInv, NEW p \in Procs, pc[p] = "refresh"
        PROVE  job[p].tok.rt \in live
    <3>1. job[p].tok = cache[job[p].ses] /\ pc[p] \in Inside
      BY <2>1 DEF IInv, DiskAt, Inside
    <3>2. cache[job[p].ses].rt \in live \cup {0}
      BY <2>1, <3>1, FoundLive
    <3>. QED  BY <2>1, <3>1, <3>2 DEF LiveInv, LiveJob
  <2>. QED  BY <2>1 DEF RefreshTokenIsLive
<1>. QED  BY <1>1, <1>2, InitLive, InductiveInvariant, PTL DEF Spec
==============================================================================
