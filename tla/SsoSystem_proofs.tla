-------------------------- MODULE SsoSystem_proofs --------------------------
(***************************************************************************)
(* Theorems about SsoSystem for every number of processes, profiles,        *)
(* sessions, start URLs and roles, every initial configuration and every    *)
(* choice of faults.                                                        *)
(***************************************************************************)
EXTENDS SsoSystem, TLAPS

-----------------------------------------------------------------------------
(* Types, and which command is where                                        *)

\* A profile with a session has a role, and an SSO profile has a session.
ProfileOK(f) ==
  /\ profile[f].ses # NoSession => profile[f].role \in Roles
  /\ profile[f].mode = "sso" => profile[f].ses \in Sessions

\* A command whose program counter is l and whose job is j is at a control
\* point of its own, and has in its job what that control point works with.
JobAt(l, j) ==
  /\ l = "idle" <=> j.op = "none"
  /\ l \in RetrievePCs => j.op = "retrieve"
  /\ l \in LoginPCs => j.op \in {"login", "configure"}
  /\ l \in {"bind", "deleteOldSts", "commit"} => j.op = "configure"
  /\ l \in LogoutPCs => j.op = "logout"
  /\ l = "lockSts" => j.op # "login"
  /\ j.op # "none" => j.url \in Urls /\ j.ses \in Sessions
  /\ j.op \in {"retrieve", "configure"} => j.prof \in Profiles /\ j.role \in Roles
  /\ j.op = "configure" /\ j.orig.ses # NoSession =>
       j.orig.ses \in Sessions /\ j.orig.role \in Roles
  /\ j.op = "configure" /\ (l \in {"lockSts", "deleteOldSts"} \/ j.sts # NoSts)
       => j.orig.ses # NoSession
  /\ l = "restoreSts" => j.op = "configure" /\ j.sts # NoSts
  /\ j.op \in {"login", "logout"} => j.sts = NoSts

JobOK(p) == JobAt(pc[p], job[p])

WellFormed ==
  /\ TypeOK
  /\ \A f \in Profiles : ProfileOK(f)
  /\ \A p \in Procs : JobOK(p)

\* A step of process p.
StepOf(p) == StartCommand(p) \/ Step(p) \/ Crash(p)

\* A step of process p that leaves its own state and the shared one well
\* formed.
LEMMA MoveOK ==
  ASSUME WellFormed, NEW p \in Procs, NEW l \in PCs, NEW j \in JobSet,
         pc' = [pc EXCEPT ![p] = l], job' = [job EXCEPT ![p] = j], JobAt(l, j),
         SharedTypeOK', \A f \in Profiles : ProfileOK(f)'
  PROVE  WellFormed'
BY DEF WellFormed, TypeOK, JobOK

\* A step that changes nothing another process can see.
LEMMA SharedOK ==
  ASSUME WellFormed, UNCHANGED shared
  PROVE  SharedTypeOK' /\ \A f \in Profiles : ProfileOK(f)'
BY DEF shared, configVars, cacheVars, lockVars, serverVars, budgetVars,
       WellFormed, TypeOK, SharedTypeOK, ProfileOK

\* Finish, whatever the step does to the shared state.
LEMMA FinishOK ==
  ASSUME WellFormed, NEW p \in Procs, NEW v \in Verdicts, pc[p] # "idle",
         Finish(p, v), SharedTypeOK', \A f \in Profiles : ProfileOK(f)'
  PROVE  WellFormed'
<1>. DEFINE j == [job[p] EXCEPT !.out = v]
<1>1. job[p] \in JobSet
  BY DEF WellFormed, TypeOK
<1>2. j \in JobSet
  BY <1>1 DEF JobSet
<1>3. job' = [job EXCEPT ![p] = j] /\ pc' = [pc EXCEPT ![p] = "unwind"]
  BY DEF Finish, Goto
<1>4. /\ j.op = job[p].op /\ j.url = job[p].url /\ j.ses = job[p].ses
      /\ j.prof = job[p].prof /\ j.role = job[p].role
      /\ j.orig = job[p].orig /\ j.sts = job[p].sts
  BY <1>1 DEF JobSet
<1>5. JobAt("unwind", j)
  BY <1>4 DEF WellFormed, JobOK, JobAt, RetrievePCs, LoginPCs, LogoutPCs
<1>. HIDE DEF j
<1>. QED  BY <1>2, <1>3, <1>5, MoveOK DEF PCs

LEMMA NoJobType == NoJob \in JobSet
BY DEF NoJob, JobSet, Absent, NoToken, NoSts, ProfileSet, TokenSet, StsSet,
       Verdicts

LEMMA InitWellFormed == Init => WellFormed
<1>. SUFFICES ASSUME Init PROVE WellFormed
  OBVIOUS
<1>1. profile \in [Profiles -> ProfileSet]
  BY StoreAssumption
  DEF Init, StoreAssumption, ProfileSet, Absent, StsKeys
<1>2. TypeOK
  BY <1>1, NoJobType, StoreAssumption
  DEF Init, StoreAssumption, TypeOK, SharedTypeOK, TokenSet, StsSet, NoToken, NoSts,
      PCs, Ids, TokenKeys, StsKeys
<1>3. \A f \in Profiles : ProfileOK(f)
  BY StoreAssumption
  DEF Init, StoreAssumption, ProfileOK, Absent, StsKeys
<1>4. \A p \in Procs : JobOK(p)
  BY DEF Init, JobOK, JobAt, NoJob, RetrievePCs, LoginPCs, LogoutPCs
<1>. QED  BY <1>2, <1>3, <1>4 DEF WellFormed

\* A command starts with a job of its own type at the token lock.
LEMMA StartOK ==
  ASSUME WellFormed, NEW p \in Procs, NEW j \in JobSet, Start(p, j),
         JobAt("lockToken", j)
  PROVE  WellFormed'
<1>1. /\ pc' = [pc EXCEPT ![p] = "lockToken"]
      /\ job' = [job EXCEPT ![p] = j]
      /\ cmds' = cmds + 1
      /\ UNCHANGED <<configVars, cacheVars, lockVars, serverVars, stale, admin,
                     patched>>
  BY DEF Start, Goto
<1>2. SharedTypeOK'
  BY <1>1
  DEF WellFormed, TypeOK, SharedTypeOK, configVars, cacheVars, lockVars,
      serverVars
<1>3. \A f \in Profiles : ProfileOK(f)'
  BY <1>1 DEF WellFormed, ProfileOK, configVars
<1>. QED  BY <1>1, <1>2, <1>3, MoveOK DEF PCs

\* What NewJob returns.
LEMMA NewJobOK ==
  ASSUME WellFormed, NEW s \in Sessions, NEW f \in Profiles \cup {NoProfile},
         NEW command \in Commands
  PROVE  /\ NewJob(command, f, s) \in JobSet
         /\ NewJob(command, f, s).op = command
         /\ NewJob(command, f, s).prof = f
         /\ NewJob(command, f, s).sts = NoSts
         /\ NewJob(command, f, s).url \in Urls
         /\ NewJob(command, f, s).ses \in Sessions
<1>1. PICK u \in Urls : u = sessionUrl[s]
  BY DEF WellFormed, TypeOK, SharedTypeOK
<1>2. PICK w \in SUBSET TokenKeys : w = {<<u, s>>}
  <2>1. PICK k \in TokenKeys : k = <<u, s>>
    BY DEF TokenKeys
  <2>. QED  BY <2>1
<1>3. NewJob(command, f, s) =
        [NoJob EXCEPT !.op = command, !.prof = f, !.url = u, !.ses = s,
                      !.want = w]
  BY <1>1, <1>2 DEF NewJob
<1>4. NoJob.sts = NoSts
  BY DEF NoJob
<1>5. NewJob(command, f, s) \in JobSet
  <2>. DEFINE j == [NoJob EXCEPT !.op = command, !.prof = f, !.url = u,
                                 !.ses = s]
  <2>1. j \in JobSet
    BY NoJobType DEF JobSet
  <2>2. NewJob(command, f, s) = [j EXCEPT !.want = w]
    BY <1>3
  <2>. HIDE DEF j
  <2>. QED  BY <2>1, <2>2 DEF JobSet
<1>6. /\ NewJob(command, f, s).op = command
      /\ NewJob(command, f, s).prof = f
      /\ NewJob(command, f, s).url = u
      /\ NewJob(command, f, s).ses = s
      /\ NewJob(command, f, s).sts = NoSts
  BY <1>3, <1>4, NoJobType DEF JobSet
<1>. QED
  BY <1>5, <1>6

LEMMA StartWellFormed ==
  ASSUME WellFormed, NEW p \in Procs, StartCommand(p)
  PROVE  WellFormed'
<1>1. ASSUME NEW f \in Profiles, StartRetrieve(p, f) PROVE WellFormed'
  <2>1. PICK s \in Sessions, r \in Roles, i \in JobSet, j \in JobSet :
          /\ s = profile[f].ses /\ r = profile[f].role
          /\ i = NewJob("retrieve", f, s) /\ j = [i EXCEPT !.role = r]
          /\ Start(p, j)
    <3>1. profile[f].ses \in Sessions /\ profile[f].role \in Roles
      BY <1>1, StoreAssumption
      DEF StartRetrieve, WellFormed, ProfileOK, StoreAssumption
    <3>2. NewJob("retrieve", f, profile[f].ses) \in JobSet
      BY <1>1, <3>1, NewJobOK DEF Commands
    <3>3. \A i \in JobSet, r \in Roles : [i EXCEPT !.role = r] \in JobSet
      BY DEF JobSet
    <3>. QED  BY <1>1, <3>1, <3>2, <3>3 DEF StartRetrieve
  <2>3. /\ j.op = "retrieve" /\ j.prof = f /\ j.role = r /\ j.sts = NoSts
        /\ j.url \in Urls /\ j.ses \in Sessions
    BY <1>1, <2>1, NewJobOK DEF Commands, JobSet
  <2>4. JobAt("lockToken", j)
    BY <1>1, <2>3
    DEF JobAt, RetrievePCs, LoginPCs, LogoutPCs, TokenKey, StsKey, TokenKeys,
        StsKeys
  <2>. QED  BY <2>1, <2>4, StartOK
<1>2. ASSUME NEW s \in Sessions, NEW f \in Profiles \cup {NoProfile},
             StartLogin(p, s, f) \/ StartLogout(p, s, f)
      PROVE  WellFormed'
  <2>1. PICK command \in {"login", "logout"}, j \in JobSet :
          j = NewJob(command, f, s) /\ Start(p, j)
    BY <1>2, NewJobOK DEF StartLogin, StartLogout, Commands
  <2>3. /\ j.op = command /\ j.sts = NoSts
        /\ j.url \in Urls /\ j.ses \in Sessions
    BY <1>2, <2>1, NewJobOK DEF Commands
  <2>4. JobAt("lockToken", j)
    BY <2>1, <2>3
    DEF JobAt, RetrievePCs, LoginPCs, LogoutPCs, TokenKey, TokenKeys
  <2>. QED  BY <2>1, <2>4, StartOK
<1>3. ASSUME NEW f \in Profiles, NEW s \in Sessions, NEW r \in Roles,
             StartConfigure(p, f, s, r)
      PROVE  WellFormed'
  <2>1. PICK w \in SUBSET TokenKeys, i \in JobSet, j \in JobSet :
          /\ i = NewJob("configure", f, s)
          /\ j = [i EXCEPT !.role = r, !.orig = profile[f], !.want = @ \cup w]
          /\ Start(p, j)
    <3>1. NewJob("configure", f, s) \in JobSet
      BY <1>3, NewJobOK DEF Commands
    <3>2. PICK w \in SUBSET TokenKeys :
            w = IF profile[f].ses = NoSession THEN {}
                ELSE {<<sessionUrl[profile[f].ses], profile[f].ses>>}
      BY <1>3 DEF WellFormed, TypeOK, SharedTypeOK, ProfileSet, TokenKeys
    <3>3. \A i \in JobSet, o \in ProfileSet :
            [i EXCEPT !.role = r, !.orig = o, !.want = @ \cup w] \in JobSet
      BY <1>3 DEF JobSet
    <3>4. profile[f] \in ProfileSet
      BY <1>3 DEF WellFormed, TypeOK, SharedTypeOK
    <3>. QED  BY <1>3, <3>1, <3>2, <3>3, <3>4 DEF StartConfigure
  <2>3. /\ j.op = "configure" /\ j.prof = f /\ j.role = r /\ j.sts = NoSts
        /\ j.url \in Urls /\ j.ses \in Sessions /\ j.orig = profile[f]
    BY <1>3, <2>1, NewJobOK DEF Commands, JobSet
  <2>4. JobAt("lockToken", j)
    BY <1>3, <2>3
    DEF JobAt, RetrievePCs, LoginPCs, LogoutPCs, TokenKey, StsKey, OldKey,
        TokenKeys, StsKeys, WellFormed, TypeOK, SharedTypeOK, ProfileSet, ProfileOK
  <2>. QED  BY <2>1, <2>4, StartOK
<1>. QED  BY <1>1, <1>2, <1>3 DEF StartCommand

\* What a step leaves alone of a running command's job.
Kept(j, k) ==
  /\ k.op = j.op /\ k.prof = j.prof /\ k.url = j.url
  /\ k.ses = j.ses /\ k.role = j.role /\ k.orig = j.orig

\* The fields a step does update, one at a time.
LEMMA SetTok ==
  ASSUME NEW j \in JobSet, NEW t \in TokenSet
  PROVE  LET k == [j EXCEPT !.tok = t] IN
         k \in JobSet /\ Kept(j, k) /\ k.sts = j.sts
BY DEF JobSet, Kept

KeySets == SUBSET (TokenKeys \cup StsKeys)
LEMMA SetWant ==
  ASSUME NEW j \in JobSet, NEW w \in KeySets
  PROVE  LET k == [j EXCEPT !.want = w] IN
         k \in JobSet /\ Kept(j, k) /\ k.sts = j.sts
BY DEF JobSet, Kept, KeySets

LEMMA SetSts ==
  ASSUME NEW j \in JobSet, NEW c \in StsSet
  PROVE  LET k == [j EXCEPT !.sts = c] IN
         k \in JobSet /\ Kept(j, k) /\ k.sts = c
BY DEF JobSet, Kept

LEMMA SetOut ==
  ASSUME NEW j \in JobSet, NEW v \in Verdicts
  PROVE  LET k == [j EXCEPT !.out = v] IN
         k \in JobSet /\ Kept(j, k) /\ k.sts = j.sts
BY DEF JobSet, Kept

LEMMA SetNew ==
  ASSUME NEW j \in JobSet, NEW n \in Nat
  PROVE  LET k == [j EXCEPT !.new = n] IN
         k \in JobSet /\ Kept(j, k) /\ k.sts = j.sts
BY DEF JobSet, Kept

LEMMA SetExch ==
  ASSUME NEW j \in JobSet
  PROVE  LET k == [j EXCEPT !.exch = TRUE] IN
         k \in JobSet /\ Kept(j, k) /\ k.sts = j.sts
BY DEF JobSet, Kept

\* Types of what a running command works with.
LEMMA JobTypes ==
  ASSUME WellFormed, NEW p \in Procs
  PROVE  /\ job[p] \in JobSet /\ pc[p] \in PCs /\ JobAt(pc[p], job[p])
         /\ job[p].tok \in TokenSet /\ job[p].sts \in StsSet
         /\ job[p].new \in Nat
         /\ pc[p] # "idle" => TokenKey(p) \in TokenKeys
         /\ job[p].op \in {"retrieve", "configure"} => StsKey(p) \in StsKeys
         /\ job[p].op = "configure" /\ job[p].orig.ses # NoSession =>
              OldKey(p) \in StsKeys
<1>1. job[p] \in JobSet /\ pc[p] \in PCs /\ JobAt(pc[p], job[p])
  BY DEF WellFormed, TypeOK, JobOK
<1>. QED
  BY <1>1 DEF JobSet, JobAt, TokenKey, StsKey, OldKey, TokenKeys, StsKeys

\* Where a command may be.
Own(op) ==
  CASE op = "retrieve" -> RetrievePCs \cup {"lockSts"}
    [] op = "login" -> {"snapshot", "authorize", "persistLogin", "checkLogin",
                        "restoreToken"}
    [] op = "configure" -> LoginPCs \ {"deleteOldSts", "restoreSts"}
    [] op = "logout" -> LogoutPCs \cup {"lockSts"}
    [] OTHER -> {}

\* A step at which p goes from one point of the same command to another.
LEMMA GoOn ==
  ASSUME WellFormed, NEW p \in Procs, pc[p] # "idle",
         NEW l \in PCs, NEW k \in JobSet,
         pc' = [pc EXCEPT ![p] = l], job' = [job EXCEPT ![p] = k],
         Kept(job[p], k),
         \/ l \in Own(job[p].op) \cup {"lockToken", "unwind"}
         \/ /\ l \in {"lockSts", "deleteOldSts", "restoreSts"}
            /\ job[p].op = "configure" /\ job[p].orig.ses # NoSession
            /\ l = "restoreSts" => k.sts # NoSts,
         \/ k.sts = job[p].sts
         \/ job[p].op = "retrieve"
         \/ job[p].op = "configure" /\ job[p].orig.ses # NoSession,
         SharedTypeOK', \A f \in Profiles : ProfileOK(f)'
  PROVE  WellFormed'
<1>1. JobAt(pc[p], job[p]) /\ job[p].op \in Commands
  BY JobTypes DEF JobAt, JobSet
<1>2. k.op = job[p].op /\ l # "idle"
  BY <1>1 DEF Own, Kept, RetrievePCs, LoginPCs, LogoutPCs, Commands
<1>3. /\ l \in RetrievePCs => k.op = "retrieve"
      /\ l \in LoginPCs => k.op \in {"login", "configure"}
      /\ l \in {"bind", "deleteOldSts", "commit"} => k.op = "configure"
      /\ l \in LogoutPCs => k.op = "logout"
      /\ l = "lockSts" => k.op # "login"
  BY <1>1, <1>2 DEF Own, RetrievePCs, LoginPCs, LogoutPCs, Commands
<1>4. /\ k.op # "none" => k.url \in Urls /\ k.ses \in Sessions
      /\ k.op \in {"retrieve", "configure"} =>
           k.prof \in Profiles /\ k.role \in Roles
      /\ k.op = "configure" /\ k.orig.ses # NoSession =>
           k.orig.ses \in Sessions /\ k.orig.role \in Roles
      /\ k.op \in {"login", "logout"} => k.sts = NoSts
  BY <1>1 DEF JobAt, Kept
<1>5. /\ k.op = "configure" /\ (l \in {"lockSts", "deleteOldSts"}
                                \/ k.sts # NoSts) => k.orig.ses # NoSession
      /\ l = "restoreSts" => k.op = "configure" /\ k.sts # NoSts
  BY <1>1 DEF JobAt, Kept, Own, RetrievePCs, LoginPCs, LogoutPCs, Commands
<1>6. JobAt(l, k)
  BY <1>1, <1>2, <1>3, <1>4, <1>5 DEF JobAt, Commands
<1>. QED  BY <1>6, MoveOK

-----------------------------------------------------------------------------
(* Steps of Retrieve                                                        *)

LEMMA RetrieveQuietWellFormed ==
  ASSUME WellFormed, NEW p \in Procs,
         \/ ReadToken(p) \/ ReadTokenFails(p) \/ RefreshRefused(p)
         \/ ReadSts(p) \/ ReadStsFails(p) \/ ExchangeFails(p)
         \/ Reread(p) \/ RereadFails(p) \/ Return(p)
  PROVE  WellFormed'
<1>1. /\ UNCHANGED shared
      /\ pc[p] \in RetrievePCs
  BY DEF ReadToken, ReadTokenFails, RefreshRefused, ReadSts, ReadStsFails,
         ExchangeFails, Reread, RereadFails, Return, ReadFails, RetrievePCs,
         shared
<1>2. SharedTypeOK' /\ \A f \in Profiles : ProfileOK(f)'
  BY <1>1, SharedOK
<1>3. pc[p] # "idle" /\ job[p].op = "retrieve"
  BY <1>1, JobTypes DEF JobAt, RetrievePCs
<1>4. ASSUME NEW v \in Verdicts, Finish(p, v) PROVE WellFormed'
  BY <1>2, <1>3, <1>4, FinishOK
<1>5. CASE ReadToken(p)
  <2>1. ASSUME ~Finish(p, "failed") PROVE WellFormed'
    <3>1. PICK l \in {"lockSts", "refresh"}, t \in TokenSet,
               w \in KeySets :
            /\ pc' = [pc EXCEPT ![p] = l]
            /\ job' = [job EXCEPT ![p].tok = t, ![p].want = w]
      <4>1. tokenCache[TokenKey(p)] \in TokenSet
        BY <1>3, JobTypes DEF WellFormed, TypeOK, SharedTypeOK, JobAt
      <4>2. NeedSts(p) \in KeySets
        BY <1>3, JobTypes DEF NeedSts, KeySets
      <4>. QED  BY <1>5, <2>1, <4>1, <4>2 DEF ReadToken, Goto
    <3>2. PICK i \in JobSet :
            i = [job[p] EXCEPT !.tok = t] /\ Kept(job[p], i)
              /\ i.sts = job[p].sts
      BY JobTypes, SetTok
    <3>3. PICK k \in JobSet :
            k = [i EXCEPT !.want = w] /\ Kept(job[p], k) /\ k.sts = job[p].sts
      <4>1. w \in KeySets
        BY <3>1
      <4>2. PICK k \in JobSet :
              k = [i EXCEPT !.want = w] /\ Kept(i, k) /\ k.sts = i.sts
        BY <4>1, SetWant
      <4>. QED  BY <3>2, <4>2 DEF Kept
    <3>4. job' = [job EXCEPT ![p] = k]
      BY <3>1, <3>2, <3>3 DEF WellFormed, TypeOK
    <3>. QED
      BY <1>2, <1>3, <3>1, <3>3, <3>4, GoOn DEF Own, PCs, RetrievePCs
  <2>. QED  BY <1>4, <2>1 DEF Verdicts
<1>6. CASE ReadSts(p)
  <2>1. PICK l \in {"return", "patch", "exchange", "refresh"}, k \in JobSet :
          /\ pc' = [pc EXCEPT ![p] = l]
          /\ job' = [job EXCEPT ![p] = k] /\ Kept(job[p], k)
    <3>1. stsCache[StsKey(p)] \in StsSet
      BY <1>3, JobTypes DEF WellFormed, TypeOK, SharedTypeOK
    <3>. QED  BY <1>6, <3>1, JobTypes, SetSts, SetExch DEF ReadSts, Goto
  <2>. QED  BY <1>2, <1>3, <2>1, GoOn DEF Own, PCs, RetrievePCs
<1>7. CASE Reread(p)
  <2>1. ASSUME ~Finish(p, "failed") PROVE WellFormed'
    <3>1. PICK k \in JobSet :
            /\ pc' = [pc EXCEPT ![p] = "return"]
            /\ job' = [job EXCEPT ![p] = k] /\ Kept(job[p], k)
      <4>1. stsCache[StsKey(p)] \in StsSet
        BY <1>3, JobTypes DEF WellFormed, TypeOK, SharedTypeOK
      <4>. QED  BY <1>7, <2>1, <4>1, JobTypes, SetSts DEF Reread, Goto
    <3>. QED  BY <1>2, <1>3, <3>1, GoOn DEF Own, PCs, RetrievePCs
  <2>. QED  BY <1>4, <2>1 DEF Verdicts
<1>. QED
  BY <1>4, <1>5, <1>6, <1>7
  DEF ReadTokenFails, RefreshRefused, ReadStsFails, ExchangeFails, RereadFails,
      Return, ReadFails, Verdicts

\* The file and the server steps of Retrieve.
LEMMA RetrieveWellFormed ==
  ASSUME WellFormed, NEW p \in Procs, RetrieveStep(p)
  PROVE  WellFormed'
<1>1. pc[p] \in RetrievePCs
  BY DEF RetrieveStep, ReadToken, ReadTokenFails, RefreshGranted,
         RefreshAnswerLost, RefreshRefused, PersistToken, ReadSts,
         ReadStsFails, ExchangeGranted, ExchangeFails, PersistSts,
         PatchProfile, PatchMismatch, Mark, Reread, RereadFails, Return,
         RetrievePCs
<1>2. /\ pc[p] # "idle" /\ job[p].op = "retrieve"
      /\ job[p] \in JobSet /\ job[p].tok \in TokenSet /\ job[p].sts \in StsSet
      /\ job[p].prof \in Profiles
      /\ TokenKey(p) \in TokenKeys /\ StsKey(p) \in StsKeys
  BY <1>1, JobTypes DEF JobAt, RetrievePCs
<1>3. ASSUME NEW v \in {"ok", "failed"}, Finish(p, v), SharedTypeOK',
             \A f \in Profiles : ProfileOK(f)'
      PROVE  WellFormed'
  BY <1>2, <1>3, FinishOK DEF Verdicts
<1>4. ASSUME NEW l \in RetrievePCs \cup {"lockSts"}, NEW k \in JobSet,
             pc' = [pc EXCEPT ![p] = l], job' = [job EXCEPT ![p] = k],
             Kept(job[p], k), SharedTypeOK', \A f \in Profiles : ProfileOK(f)'
      PROVE  WellFormed'
  BY <1>2, <1>4, GoOn DEF Own, PCs, RetrievePCs
<1>5. Kept(job[p], job[p]) /\ job = [job EXCEPT ![p] = job[p]]
  BY DEF Kept, WellFormed, TypeOK
<1>6. UNCHANGED profile => \A f \in Profiles : ProfileOK(f)'
  BY DEF WellFormed, ProfileOK
<1>7. CASE RefreshGranted(p)
  <2>1. PICK t \in TokenSet, k \in JobSet :
          /\ k = [job[p] EXCEPT !.tok = t] /\ Kept(job[p], k)
          /\ job' = [job EXCEPT ![p].tok = t]
    <3>1. \A n \in Nat : [at |-> issued', rt |-> n] \in TokenSet
      BY <1>7 DEF RefreshGranted, WellFormed, TypeOK, SharedTypeOK, TokenSet
    <3>2. job[p].tok.rt \in Nat /\ issued' \in Nat
      BY <1>2, <1>7
      DEF RefreshGranted, WellFormed, TypeOK, SharedTypeOK, TokenSet
    <3>. QED  BY <1>2, <1>7, <3>1, <3>2, SetTok DEF RefreshGranted
  <2>2. SharedTypeOK'
    BY <1>2, <1>7, StoreAssumption
    DEF RefreshGranted, WellFormed, TypeOK, SharedTypeOK, Ids, configVars,
        cacheVars, lockVars, budgetVars, StoreAssumption
  <2>. QED
    BY <1>4, <1>6, <1>7, <2>1, <2>2
    DEF RefreshGranted, Goto, configVars, RetrievePCs
<1>8. CASE RefreshAnswerLost(p)
  <2>1. SharedTypeOK'
    <3>1. issued' \in 0..MaxId /\ issued' \in Ids
      BY <1>8, StoreAssumption
      DEF RefreshAnswerLost, WellFormed, TypeOK, SharedTypeOK, Ids,
          StoreAssumption
    <3>. QED
      BY <1>8, <3>1
      DEF RefreshAnswerLost, WellFormed, TypeOK, SharedTypeOK, configVars,
          cacheVars, lockVars, budgetVars
  <2>. QED
    BY <1>3, <1>6, <1>8, <2>1 DEF RefreshAnswerLost, configVars
<1>9. CASE PersistToken(p)
  <2>1. SharedTypeOK' /\ UNCHANGED profile
    BY <1>2, <1>9
    DEF PersistToken, After, WellFormed, TypeOK, SharedTypeOK, configVars,
        lockVars, serverVars, budgetVars
  <2>2. ASSUME ~Finish(p, "failed") PROVE WellFormed'
    <3>1. PICK w \in KeySets :
            /\ pc' = [pc EXCEPT ![p] = WithUsableToken(p)]
            /\ job' = [job EXCEPT ![p].want = w]
      BY <1>2, <1>9, <2>2 DEF PersistToken, Goto, NeedSts, KeySets
    <3>2. w \in KeySets
      BY <3>1
    <3>3. PICK k \in JobSet : k = [job[p] EXCEPT !.want = w] /\ Kept(job[p], k)
      BY <1>2, <3>2, SetWant
    <3>. QED
      BY <1>4, <1>6, <2>1, <3>1, <3>3 DEF WithUsableToken, RetrievePCs
  <2>. QED  BY <1>3, <1>6, <2>1, <2>2
<1>10. CASE ExchangeGranted(p)
  <2>1. PICK c \in StsSet, k \in JobSet :
          /\ k = [job[p] EXCEPT !.sts = c] /\ Kept(job[p], k)
          /\ job' = [job EXCEPT ![p].sts = c]
    <3>1. [id |-> issued', targets |-> {}] \in StsSet
      BY <1>10 DEF ExchangeGranted, WellFormed, TypeOK, SharedTypeOK, StsSet
    <3>. QED  BY <1>2, <1>10, <3>1, SetSts DEF ExchangeGranted
  <2>2. SharedTypeOK'
    BY <1>10, StoreAssumption
    DEF ExchangeGranted, WellFormed, TypeOK, SharedTypeOK, configVars,
        cacheVars, lockVars, budgetVars, StoreAssumption
  <2>. QED
    BY <1>4, <1>6, <1>10, <2>1, <2>2
    DEF ExchangeGranted, Goto, configVars, RetrievePCs
<1>11. CASE PersistSts(p)
  <2>1. SharedTypeOK' /\ UNCHANGED profile
    BY <1>2, <1>11
    DEF PersistSts, After, WellFormed, TypeOK, SharedTypeOK, configVars,
        lockVars, serverVars, budgetVars
  <2>. QED
    BY <1>2, <1>3, <1>4, <1>5, <1>6, <1>11, <2>1
    DEF PersistSts, Goto, RetrievePCs
<1>12. CASE PatchProfile(p)
  <2>1. PICK n \in Nat : profile' = [profile EXCEPT ![job[p].prof].exp = n]
    BY <1>2, <1>12
    DEF PatchProfile, After, WellFormed, TypeOK, SharedTypeOK, StsSet,
        ProfileSet
  <2>2. profile' \in [Profiles -> ProfileSet]
    BY <1>2, <2>1 DEF WellFormed, TypeOK, SharedTypeOK, ProfileSet
  <2>3. patched' \subseteq Profiles \X StsKeys \X Nat
    BY <1>2, <1>12
    DEF PatchProfile, After, WellFormed, TypeOK, SharedTypeOK, StsSet
  <2>4. SharedTypeOK'
    BY <1>12, <2>2, <2>3
    DEF PatchProfile, WellFormed, TypeOK, SharedTypeOK, cacheVars, lockVars,
        serverVars, budgetVars
  <2>5. \A f \in Profiles : ProfileOK(f)'
    BY <2>1 DEF WellFormed, TypeOK, SharedTypeOK, ProfileSet, ProfileOK
  <2>. QED
    BY <1>2, <1>3, <1>4, <1>5, <1>12, <2>4, <2>5
    DEF PatchProfile, Goto, RetrievePCs
<1>13. CASE PatchMismatch(p)
  <2>1. SharedTypeOK' /\ UNCHANGED profile
    BY <1>2, <1>13
    DEF PatchMismatch, After, WellFormed, TypeOK, SharedTypeOK, configVars,
        lockVars, serverVars, budgetVars, NoSts, StsSet
  <2>. QED  BY <1>3, <1>6, <1>13, <2>1 DEF PatchMismatch
<1>14. CASE Mark(p)
  <2>1. PICK c \in StsSet, k \in JobSet :
          /\ c = [job[p].sts EXCEPT !.targets = @ \cup {job[p].prof}]
          /\ k = [job[p] EXCEPT !.sts = c] /\ Kept(job[p], k)
    <3>1. [job[p].sts EXCEPT !.targets = @ \cup {job[p].prof}] \in StsSet
      BY <1>2 DEF StsSet
    <3>2. \A c \in StsSet : LET k == [job[p] EXCEPT !.sts = c] IN
            k \in JobSet /\ Kept(job[p], k)
      BY <1>2, SetSts
    <3>. QED  BY <3>1, <3>2
  <2>2. SharedTypeOK' /\ UNCHANGED profile
    BY <1>2, <1>14, <2>1
    DEF Mark, After, WellFormed, TypeOK, SharedTypeOK, configVars,
        lockVars, serverVars, budgetVars
  <2>. QED
    BY <1>3, <1>4, <1>6, <1>14, <2>1, <2>2 DEF Mark, Goto, RetrievePCs
<1>. QED
  BY <1>7, <1>8, <1>9, <1>10, <1>11, <1>12, <1>13, <1>14,
     RetrieveQuietWellFormed DEF RetrieveStep

-----------------------------------------------------------------------------
(* Steps of the logins                                                      *)

LEMMA LoginWellFormed ==
  ASSUME WellFormed, NEW p \in Procs, LoginStep(p)
  PROVE  WellFormed'
<1>1. pc[p] \in LoginPCs
  BY DEF LoginStep, Snapshot, SnapshotFails, Authorized, NotAuthorized,
         PersistLogin, CheckLogin, LoginStepFails, Bind, DeleteOldSts,
         DeleteOldStsFails, CommitBinding, RestoreToken, RestoreSts, LoginPCs
<1>2. /\ pc[p] # "idle" /\ job[p].op \in {"login", "configure"}
      /\ job[p] \in JobSet /\ job[p].tok \in TokenSet /\ job[p].sts \in StsSet
      /\ TokenKey(p) \in TokenKeys
      /\ pc[p] \in {"bind", "deleteOldSts", "commit"} => job[p].op = "configure"
      /\ job[p].op = "configure" =>
           job[p].prof \in Profiles /\ job[p].ses \in Sessions
             /\ job[p].role \in Roles
      /\ job[p].sts # NoSts \/ pc[p] \in {"deleteOldSts", "restoreSts"} =>
           job[p].op = "configure" /\ job[p].orig.ses # NoSession
  BY <1>1, JobTypes DEF JobAt, LoginPCs
<1>3. job[p].op = "configure" /\ job[p].orig.ses # NoSession =>
        OldKey(p) \in StsKeys
  BY JobTypes
<1>4. ASSUME NEW v \in Verdicts, Finish(p, v), SharedTypeOK',
             \A f \in Profiles : ProfileOK(f)'
      PROVE  WellFormed'
  BY <1>2, <1>4, FinishOK
<1>5. ASSUME NEW l \in {"authorize", "persistLogin", "checkLogin", "restoreToken",
                        "unwind"},
             NEW k \in JobSet,
             pc' = [pc EXCEPT ![p] = l], job' = [job EXCEPT ![p] = k],
             Kept(job[p], k), k.sts = job[p].sts, SharedTypeOK',
             \A f \in Profiles : ProfileOK(f)'
      PROVE  WellFormed'
  <2>1. l \in Own(job[p].op) \cup {"unwind"}
    BY <1>2, <1>5 DEF Own, LoginPCs
  <2>. QED  BY <1>2, <1>5, <2>1, GoOn DEF PCs, LoginPCs
<1>6. /\ Kept(job[p], job[p]) /\ job = [job EXCEPT ![p] = job[p]]
      /\ UNCHANGED profile => \A f \in Profiles : ProfileOK(f)'
  BY DEF Kept, WellFormed, TypeOK, ProfileOK
<1>7. ASSUME Rollback(p), SharedTypeOK', \A f \in Profiles : ProfileOK(f)'
      PROVE  WellFormed'
  BY <1>2, <1>5, <1>6, <1>7 DEF Rollback, Goto
<1>8. UNCHANGED shared => SharedTypeOK' /\ \A f \in Profiles : ProfileOK(f)'
  BY SharedOK
<1>9. CASE Snapshot(p)
  <2>1. ASSUME ~Finish(p, "failed") PROVE WellFormed'
    <3>1. tokenCache[TokenKey(p)] \in TokenSet
      BY <1>2 DEF WellFormed, TypeOK, SharedTypeOK
    <3>2. PICK k \in JobSet :
            /\ k = [job[p] EXCEPT !.tok = tokenCache[TokenKey(p)]]
            /\ Kept(job[p], k) /\ k.sts = job[p].sts
      BY <1>2, <3>1, SetTok
    <3>. QED  BY <1>5, <1>8, <1>9, <2>1, <3>2 DEF Snapshot, Goto
  <2>. QED  BY <1>4, <1>8, <1>9, <2>1 DEF Snapshot, Verdicts
<1>10. CASE Authorized(p)
  <2>1. issued' \in 0..MaxId /\ issued' \in Ids /\ issued' \in Nat
    BY <1>10, StoreAssumption
    DEF Authorized, WellFormed, TypeOK, SharedTypeOK, Ids, StoreAssumption
  <2>2. PICK k \in JobSet :
          /\ k = [job[p] EXCEPT !.new = issued'] /\ Kept(job[p], k)
          /\ k.sts = job[p].sts
    BY <1>2, <2>1, SetNew
  <2>3. SharedTypeOK' /\ UNCHANGED profile
    BY <1>10, <2>1
    DEF Authorized, WellFormed, TypeOK, SharedTypeOK, configVars, cacheVars,
        lockVars, budgetVars
  <2>. QED  BY <1>5, <1>6, <1>10, <2>2, <2>3 DEF Authorized, Goto
<1>11. CASE PersistLogin(p)
  <2>1. SharedTypeOK' /\ UNCHANGED profile
    <3>1. [at |-> job[p].new, rt |-> job[p].new] \in TokenSet
      BY <1>2 DEF JobSet, TokenSet
    <3>. QED
      BY <1>2, <1>11, <3>1
      DEF PersistLogin, After, WellFormed, TypeOK, SharedTypeOK, configVars,
          lockVars, serverVars, budgetVars
  <2>2. CASE pc' = [pc EXCEPT ![p] = "bind"] /\ job[p].op = "configure"
               /\ UNCHANGED job
    BY <1>2, <1>6, <2>1, <2>2, GoOn DEF Own, PCs, LoginPCs
  <2>. QED
    BY <1>2, <1>5, <1>6, <1>7, <1>11, <2>1, <2>2 DEF PersistLogin, Goto
<1>12. CASE Bind(p)
  <2>1. CASE OldBindingChanged(p)
    <3>1. {OldKey(p)} \in KeySets /\ job[p].orig.ses # NoSession
      BY <1>2, <1>3, <1>12, <2>1 DEF Bind, OldBindingChanged, KeySets
    <3>2. PICK k \in JobSet :
            /\ k = [job[p] EXCEPT !.want = {OldKey(p)}] /\ Kept(job[p], k)
            /\ k.sts = job[p].sts
      BY <1>2, <3>1, SetWant
    <3>. QED
      BY <1>2, <1>8, <1>12, <2>1, <3>1, <3>2, GoOn DEF Bind, Goto, PCs
  <2>2. CASE ~OldBindingChanged(p)
    BY <1>2, <1>6, <1>8, <1>12, <2>2, GoOn DEF Bind, Goto, Own, PCs, LoginPCs
  <2>. QED  BY <2>1, <2>2
<1>13. CASE DeleteOldSts(p)
  <2>1. OldKey(p) \in StsKeys /\ job[p].op = "configure"
          /\ job[p].orig.ses # NoSession
    BY <1>2, <1>3, <1>13 DEF DeleteOldSts
  <2>2. stsCache[OldKey(p)] \in StsSet
    BY <2>1 DEF WellFormed, TypeOK, SharedTypeOK
  <2>3. PICK k \in JobSet :
          k = [job[p] EXCEPT !.sts = stsCache[OldKey(p)]] /\ Kept(job[p], k)
    BY <1>2, <2>2, SetSts
  <2>4. SharedTypeOK' /\ UNCHANGED profile
    BY <1>13
    DEF DeleteOldSts, WellFormed, TypeOK, SharedTypeOK, configVars, lockVars,
        serverVars, budgetVars, NoSts, StsSet
  <2>. QED
    BY <1>2, <1>6, <1>13, <2>1, <2>3, <2>4, GoOn
    DEF DeleteOldSts, Goto, Own, PCs, LoginPCs
<1>14. CASE CommitBinding(p)
  <2>1. profile' \in [Profiles -> ProfileSet]
          /\ \A f \in Profiles : ProfileOK(f)'
    <3>. DEFINE b == [mode |-> "sso", ses |-> job[p].ses, role |-> job[p].role,
                      exp |-> 0]
    <3>1. b \in ProfileSet /\ b.ses \in Sessions /\ b.role \in Roles
      BY <1>2, <1>14 DEF CommitBinding, ProfileSet
    <3>2. UNCHANGED profile \/ profile' = [profile EXCEPT ![job[p].prof] = b]
      BY <1>14 DEF CommitBinding, After, WellFormed, TypeOK, SharedTypeOK
    <3>. HIDE DEF b
    <3>. QED
      BY <3>1, <3>2 DEF WellFormed, TypeOK, SharedTypeOK, ProfileOK
  <2>2. SharedTypeOK'
    BY <1>14, <2>1
    DEF CommitBinding, WellFormed, TypeOK, SharedTypeOK, cacheVars, lockVars,
        serverVars, budgetVars
  <2>. QED
    BY <1>4, <1>7, <1>14, <2>1, <2>2 DEF CommitBinding, Verdicts
<1>15. CASE RestoreToken(p)
  <2>1. SharedTypeOK' /\ UNCHANGED profile
    BY <1>2, <1>15
    DEF RestoreToken, After, WellFormed, TypeOK, SharedTypeOK, configVars,
        lockVars, serverVars, budgetVars
  <2>2. PICK v \in Verdicts : job' = [job EXCEPT ![p].out = v]
    BY <1>15 DEF RestoreToken, Verdicts
  <2>3. PICK k \in JobSet :
          /\ k = [job[p] EXCEPT !.out = v] /\ Kept(job[p], k)
          /\ k.sts = job[p].sts
    BY <1>2, <2>2, SetOut
  <2>4. CASE job[p].sts = NoSts
    BY <1>5, <1>6, <1>15, <2>1, <2>2, <2>3, <2>4 DEF RestoreToken, Goto
  <2>5. CASE job[p].sts # NoSts
    BY <1>2, <1>6, <1>15, <2>1, <2>2, <2>3, <2>5, GoOn
    DEF RestoreToken, Goto, PCs, LoginPCs
  <2>. QED  BY <2>4, <2>5
<1>16. CASE RestoreSts(p)
  <2>1. SharedTypeOK' /\ UNCHANGED profile
    BY <1>2, <1>16
    DEF RestoreSts, After, WellFormed, TypeOK, SharedTypeOK, configVars,
        lockVars, serverVars, budgetVars
  <2>2. job[p].out \in Verdicts
    BY <1>2 DEF JobSet
  <2>. QED  BY <1>4, <1>6, <1>16, <2>1, <2>2 DEF RestoreSts, Verdicts
<1>17. CASE \/ SnapshotFails(p) \/ NotAuthorized(p) \/ CheckLogin(p)
            \/ LoginStepFails(p) \/ DeleteOldStsFails(p)
  BY <1>4, <1>7, <1>8, <1>17
  DEF SnapshotFails, ReadFails, NotAuthorized, CheckLogin, LoginStepFails,
      DeleteOldStsFails, Verdicts
<1>. QED
  BY <1>9, <1>10, <1>11, <1>12, <1>13, <1>14, <1>15, <1>16, <1>17
  DEF LoginStep

-----------------------------------------------------------------------------
(* Steps of the logout                                                      *)

LEMMA SetKeys ==
  ASSUME NEW j \in JobSet, NEW w \in KeySets, NEW x \in SUBSET StsKeys
  PROVE  LET k == [j EXCEPT !.want = w, !.keys = x] IN
         k \in JobSet /\ Kept(j, k) /\ k.sts = j.sts
BY DEF JobSet, Kept, KeySets

LEMMA SetTokOut ==
  ASSUME NEW j \in JobSet, NEW t \in TokenSet, NEW v \in Verdicts
  PROVE  LET k == [j EXCEPT !.tok = t, !.out = v] IN
         k \in JobSet /\ Kept(j, k) /\ k.sts = j.sts
BY DEF JobSet, Kept

LEMMA SetOutWant ==
  ASSUME NEW j \in JobSet, NEW w \in KeySets, NEW v \in Verdicts
  PROVE  LET k == [j EXCEPT !.out = v, !.want = w] IN
         k \in JobSet /\ Kept(j, k) /\ k.sts = j.sts
BY DEF JobSet, Kept, KeySets

LEMMA LogoutWellFormed ==
  ASSUME WellFormed, NEW p \in Procs, LogoutStep(p)
  PROVE  WellFormed'
<1>1. pc[p] \in LogoutPCs
  BY DEF LogoutStep, CollectKeys, CollectFails, CheckKeys, CheckFails,
         DeleteToken, DeleteSts, ClearProfiles, Revoke, LogoutPCs
<1>2. /\ pc[p] # "idle" /\ job[p].op = "logout"
      /\ job[p] \in JobSet /\ job[p].out \in Verdicts
      /\ job[p].keys \in SUBSET StsKeys /\ job[p].want \in KeySets
      /\ TokenKey(p) \in TokenKeys /\ job[p].ses \in Sessions
  BY <1>1, JobTypes DEF JobAt, LogoutPCs, JobSet, KeySets
<1>3. ASSUME NEW v \in Verdicts, Finish(p, v), SharedTypeOK',
             \A f \in Profiles : ProfileOK(f)'
      PROVE  WellFormed'
  BY <1>2, <1>3, FinishOK
<1>4. ASSUME NEW l \in LogoutPCs \cup {"lockSts", "unwind"}, NEW k \in JobSet,
             pc' = [pc EXCEPT ![p] = l], job' = [job EXCEPT ![p] = k],
             Kept(job[p], k), k.sts = job[p].sts, SharedTypeOK',
             \A f \in Profiles : ProfileOK(f)'
      PROVE  WellFormed'
  BY <1>2, <1>4, GoOn DEF Own, PCs, LogoutPCs
<1>5. UNCHANGED profile => \A f \in Profiles : ProfileOK(f)'
  BY DEF WellFormed, ProfileOK
<1>6. \A o : Worse(p, o) \in Verdicts
  BY <1>2 DEF Worse, Verdicts
<1>7. UNCHANGED shared => SharedTypeOK' /\ \A f \in Profiles : ProfileOK(f)'
  BY SharedOK
<1>7a. \A w \in KeySets, v \in Verdicts :
         LET k == [job[p] EXCEPT !.out = v, !.want = w] IN
         k \in JobSet /\ Kept(job[p], k) /\ k.sts = job[p].sts
  BY <1>2, SetOutWant
<1>8. CASE CollectKeys(p)
  <2>1. KeysOf(job[p].ses) \in SUBSET StsKeys
    <3>1. ASSUME NEW f \in BoundTo(job[p].ses), profile[f].role # NoRole
          PROVE  Binding(f) \in StsKeys
      BY <1>2, <3>1
      DEF BoundTo, Binding, WellFormed, TypeOK, SharedTypeOK, ProfileSet, StsKeys
    <3>. QED  BY <3>1 DEF KeysOf
  <2>2. KeysOf(job[p].ses) \in KeySets
    BY <2>1 DEF KeySets
  <2>3. PICK k \in JobSet :
          /\ k = [job[p] EXCEPT !.want = KeysOf(job[p].ses),
                               !.keys = KeysOf(job[p].ses)]
          /\ Kept(job[p], k) /\ k.sts = job[p].sts
    <3>1. \A w \in KeySets, x \in SUBSET StsKeys :
            LET k == [job[p] EXCEPT !.want = w, !.keys = x] IN
            k \in JobSet /\ Kept(job[p], k) /\ k.sts = job[p].sts
      BY <1>2, SetKeys
    <3>. QED  BY <2>1, <2>2, <3>1
  <2>4. ASSUME ~Finish(p, "failed") PROVE WellFormed'
    BY <1>4, <1>7, <1>8, <2>3, <2>4
    DEF CollectKeys, Goto, LogoutPCs, WellFormed, TypeOK
  <2>. QED  BY <1>3, <1>7, <1>8, <2>4 DEF CollectKeys, Verdicts
<1>9. CASE CheckKeys(p)
  <2>1. SharedTypeOK' /\ UNCHANGED profile
    BY <1>9
    DEF CheckKeys, WellFormed, TypeOK, SharedTypeOK, configVars, cacheVars,
        serverVars, budgetVars
  <2>2. tokenCache[TokenKey(p)] \in TokenSet
    BY <1>2 DEF WellFormed, TypeOK, SharedTypeOK
  <2>3. PICK k \in JobSet :
          /\ k = [job[p] EXCEPT !.tok = tokenCache[TokenKey(p)], !.out = "ok"]
          /\ Kept(job[p], k) /\ k.sts = job[p].sts
    BY <1>2, <2>2, SetTokOut DEF Verdicts
  <2>4. ASSUME ~Finish(p, "failed") PROVE WellFormed'
    BY <1>4, <1>5, <1>9, <2>1, <2>3, <2>4
    DEF CheckKeys, Goto, LogoutPCs, WellFormed, TypeOK
  <2>. QED  BY <1>3, <1>5, <1>9, <2>1, <2>4 DEF CheckKeys, Verdicts
<1>10. CASE DeleteToken(p)
  <2>1. SharedTypeOK' /\ UNCHANGED profile
    BY <1>2, <1>10
    DEF DeleteToken, After, WellFormed, TypeOK, SharedTypeOK, configVars,
        lockVars, serverVars, budgetVars, NoToken, TokenSet
  <2>2. PICK v \in Verdicts :
          job' = [job EXCEPT ![p].out = v, ![p].want = job[p].keys]
    BY <1>6, <1>10 DEF DeleteToken
  <2>3. job[p].keys \in KeySets
    BY <1>2 DEF KeySets
  <2>4. PICK k \in JobSet :
          /\ k = [job[p] EXCEPT !.out = v, !.want = job[p].keys]
          /\ Kept(job[p], k) /\ k.sts = job[p].sts
    BY <1>7a, <2>3
  <2>. QED
    BY <1>4, <1>5, <1>10, <2>1, <2>2, <2>4
    DEF DeleteToken, Goto, LogoutPCs, WellFormed, TypeOK
<1>11. CASE DeleteSts(p)
  <2>1. SharedTypeOK' /\ UNCHANGED profile
    BY <1>11
    DEF DeleteSts, After, WellFormed, TypeOK, SharedTypeOK, configVars,
        lockVars, serverVars, budgetVars, NoSts, StsSet
  <2>2. PICK v \in Verdicts, w \in KeySets :
          job' = [job EXCEPT ![p].out = v, ![p].want = w]
    <3>1. PICK x, o : job' = [job EXCEPT ![p].out = Worse(p, o),
                                         ![p].want = job[p].want \ {x}]
      BY <1>11 DEF DeleteSts
    <3>2. job[p].want \ {x} \in KeySets
      BY <1>2 DEF KeySets
    <3>. QED  BY <1>6, <3>1, <3>2
  <2>3. w \in KeySets
    BY <2>2
  <2>4. PICK k \in JobSet :
          /\ k = [job[p] EXCEPT !.out = v, !.want = w]
          /\ Kept(job[p], k) /\ k.sts = job[p].sts
    BY <1>7a, <2>3
  <2>5. PICK l \in {"clearProfiles", "deleteSts"} : pc' = [pc EXCEPT ![p] = l]
    BY <1>11 DEF DeleteSts, Goto
  <2>6. job' = [job EXCEPT ![p] = k]
    BY <2>2, <2>4 DEF WellFormed, TypeOK
  <2>. QED  BY <1>4, <1>5, <2>1, <2>4, <2>5, <2>6 DEF LogoutPCs
<1>12. CASE ClearProfiles(p)
  <2>1. PICK o : profile' = [f \in Profiles |->
                   IF f \in BoundTo(job[p].ses)
                     THEN [profile[f] EXCEPT !.exp = After(o, 0, @)]
                     ELSE profile[f]]
    BY <1>12 DEF ClearProfiles
  <2>2. /\ profile' \in [Profiles -> ProfileSet]
        /\ \A f \in Profiles : ProfileOK(f)'
    BY <2>1 DEF After, WellFormed, TypeOK, SharedTypeOK, ProfileSet, ProfileOK
  <2>3. SharedTypeOK'
    BY <1>12, <2>2
    DEF ClearProfiles, WellFormed, TypeOK, SharedTypeOK, cacheVars, serverVars,
        budgetVars
  <2>4. PICK v \in Verdicts : job' = [job EXCEPT ![p].out = v]
    BY <1>6, <1>12 DEF ClearProfiles
  <2>5. PICK k \in JobSet :
          /\ k = [job[p] EXCEPT !.out = v] /\ Kept(job[p], k)
          /\ k.sts = job[p].sts
    BY <1>2, <2>4, SetOut
  <2>. QED
    BY <1>4, <1>12, <2>2, <2>3, <2>4, <2>5 DEF ClearProfiles, Goto, LogoutPCs
<1>13. CASE Revoke(p)
  <2>1. SharedTypeOK' /\ UNCHANGED profile
    BY <1>13
    DEF Revoke, After, WellFormed, TypeOK, SharedTypeOK, configVars, cacheVars,
        lockVars, budgetVars
  <2>. QED  BY <1>3, <1>5, <1>6, <1>13, <2>1 DEF Revoke
<1>14. CASE CollectFails(p) \/ CheckFails(p)
  BY <1>3, <1>7, <1>14 DEF CollectFails, CheckFails, ReadFails, Verdicts
<1>. QED
  BY <1>8, <1>9, <1>10, <1>11, <1>12, <1>13, <1>14 DEF LogoutStep

-----------------------------------------------------------------------------
(* Locks, crashes, the environment                                          *)

LEMMA LockWellFormed ==
  ASSUME WellFormed, NEW p \in Procs,
         \/ AcquireTokenLock(p) \/ AcquireStsLock(p) \/ LockFails(p)
         \/ Unwind(p) \/ Crash(p)
  PROVE  WellFormed'
<1>1. /\ pc[p] # "idle" /\ job[p] \in JobSet /\ job[p].want \in KeySets
      /\ job[p].op \in Commands
      /\ pc[p] = "lockSts" => job[p].op # "login"
      /\ pc[p] = "lockSts" /\ job[p].op = "configure" =>
           job[p].orig.ses # NoSession
  BY JobTypes
  DEF AcquireTokenLock, AcquireStsLock, LockFails, Unwind, Crash, JobAt, JobSet,
      KeySets
<1>2. UNCHANGED profile => \A f \in Profiles : ProfileOK(f)'
  BY DEF WellFormed, ProfileOK
<1>3. \A x : \E k \in JobSet :
        /\ k = [job[p] EXCEPT !.want = @ \ {x}]
        /\ Kept(job[p], k) /\ k.sts = job[p].sts
  <2>1. TAKE x
  <2>2. job[p].want \ {x} \in KeySets
    BY <1>1 DEF KeySets
  <2>. QED  BY <1>1, <2>2, SetWant
<1>4. CASE AcquireTokenLock(p)
  <2>1. SharedTypeOK' /\ UNCHANGED profile
    BY <1>4
    DEF AcquireTokenLock, WellFormed, TypeOK, SharedTypeOK, configVars,
        cacheVars, serverVars, budgetVars
  <2>2. PICK x : job' = [job EXCEPT ![p].want = @ \ {x}]
    BY <1>4 DEF AcquireTokenLock
  <2>3. PICK k \in JobSet :
          /\ job' = [job EXCEPT ![p] = k] /\ Kept(job[p], k)
          /\ k.sts = job[p].sts
    BY <1>3, <2>2
  <2>4. PICK l \in Own(job[p].op) \cup {"lockToken"} :
          pc' = [pc EXCEPT ![p] = l]
    BY <1>1, <1>4
    DEF AcquireTokenLock, AfterTokenLocks, Goto, Own, Commands, RetrievePCs, LogoutPCs, LoginPCs,
        WellFormed, TypeOK
  <2>5. l \in PCs
    BY <1>1, <2>4 DEF PCs, Own, Commands, RetrievePCs, LoginPCs, LogoutPCs
  <2>. QED  BY <1>1, <1>2, <2>1, <2>3, <2>4, <2>5, GoOn
<1>5. CASE AcquireStsLock(p)
  <2>1. SharedTypeOK' /\ UNCHANGED profile
    BY <1>5
    DEF AcquireStsLock, WellFormed, TypeOK, SharedTypeOK, configVars,
        cacheVars, serverVars, budgetVars
  <2>2. PICK x : job' = [job EXCEPT ![p].want = @ \ {x}]
    BY <1>5 DEF AcquireStsLock
  <2>3. PICK k \in JobSet :
          /\ job' = [job EXCEPT ![p] = k] /\ Kept(job[p], k)
          /\ k.sts = job[p].sts
    BY <1>3, <2>2
  <2>4. PICK l \in PCs :
          /\ pc' = [pc EXCEPT ![p] = l]
          /\ \/ l \in Own(job[p].op)
             \/ l \in {"lockSts", "deleteOldSts"} /\ job[p].op = "configure"
                  /\ job[p].orig.ses # NoSession
    BY <1>1, <1>5
    DEF AcquireStsLock, Goto, Own, Commands, PCs, RetrievePCs, LogoutPCs,
        LoginPCs, WellFormed, TypeOK
  <2>. QED  BY <1>1, <1>2, <2>1, <2>3, <2>4, GoOn
<1>6. CASE LockFails(p)
  BY <1>1, <1>6, SharedOK, FinishOK DEF LockFails, Verdicts
<1>7. CASE Unwind(p) \/ Crash(p)
  <2>1. SharedTypeOK' /\ UNCHANGED profile
    BY <1>7
    DEF Unwind, Crash, Release, WellFormed, TypeOK, SharedTypeOK, configVars,
        cacheVars, serverVars, budgetVars
  <2>2. JobAt("idle", NoJob)
    BY DEF JobAt, NoJob, RetrievePCs, LoginPCs, LogoutPCs
  <2>. QED
    BY <1>2, <1>7, <2>1, <2>2, NoJobType, MoveOK
    DEF Unwind, Crash, Release, Goto, PCs
<1>. QED  BY <1>4, <1>5, <1>6, <1>7

LEMMA EnvironmentWellFormed ==
  ASSUME WellFormed, Environment
  PROVE  WellFormed'
<1>1. UNCHANGED <<pc, job>>
  BY DEF Environment, Expire, ConfigureDelete, ConfigureSession,
         ConfigureSetMode, Administer
<1>2. ASSUME SharedTypeOK', \A f \in Profiles : ProfileOK(f)'
      PROVE  WellFormed'
  BY <1>1, <1>2 DEF WellFormed, TypeOK, JobOK
<1>3. ASSUME NEW i \in Ids, Expire(i) PROVE WellFormed'
  <2>1. SharedTypeOK' /\ UNCHANGED profile
    BY <1>3
    DEF Expire, WellFormed, TypeOK, SharedTypeOK, configVars, cacheVars,
        lockVars, serverVars
  <2>. QED  BY <1>2, <2>1 DEF WellFormed, ProfileOK
<1>4. ASSUME NEW f \in Profiles, ConfigureDelete(f) PROVE WellFormed'
  <2>1. Absent \in ProfileSet
    BY DEF Absent, ProfileSet
  <2>2. SharedTypeOK'
    BY <1>4, <2>1
    DEF ConfigureDelete, Administer, WellFormed, TypeOK, SharedTypeOK,
        cacheVars, lockVars, serverVars
  <2>3. \A g \in Profiles : ProfileOK(g)'
    BY <1>4
    DEF ConfigureDelete, WellFormed, TypeOK, SharedTypeOK, ProfileOK, Absent
  <2>. QED  BY <1>2, <2>2, <2>3
<1>5. ASSUME NEW s \in Sessions, NEW u \in Urls, ConfigureSession(s, u)
      PROVE  WellFormed'
  <2>1. SharedTypeOK' /\ UNCHANGED profile
    BY <1>5
    DEF ConfigureSession, Administer, WellFormed, TypeOK, SharedTypeOK,
        cacheVars, lockVars, serverVars
  <2>. QED  BY <1>2, <2>1 DEF WellFormed, ProfileOK
<1>6. ASSUME NEW f \in Profiles, NEW r \in Roles \cup {NoRole},
             ConfigureSetMode(f, r)
      PROVE  WellFormed'
  <2>1. profile' = [profile EXCEPT
          ![f] = [profile[f] EXCEPT !.mode = "other", !.role = r]]
    BY <1>6 DEF ConfigureSetMode, WellFormed, TypeOK, SharedTypeOK
  <2>2. r \in Roles \/ r = profile[f].role
    BY <1>6 DEF ConfigureSetMode
  <2>3. profile' \in [Profiles -> ProfileSet]
    BY <1>6, <2>1 DEF WellFormed, TypeOK, SharedTypeOK, ProfileSet
  <2>4. SharedTypeOK'
    BY <1>6, <2>3
    DEF ConfigureSetMode, Administer, WellFormed, TypeOK, SharedTypeOK,
        cacheVars, lockVars, serverVars
  <2>5. \A g \in Profiles : ProfileOK(g)'
    BY <1>6, <2>1, <2>2
    DEF WellFormed, TypeOK, SharedTypeOK, ProfileSet, ProfileOK
  <2>. QED  BY <1>2, <2>4, <2>5
<1>. QED  BY <1>3, <1>4, <1>5, <1>6 DEF Environment

LEMMA NextWellFormed == WellFormed /\ [Next]_vars => WellFormed'
<1>. SUFFICES ASSUME WellFormed, [Next]_vars PROVE WellFormed'
  OBVIOUS
<1>1. ASSUME NEW p \in Procs, StartCommand(p) \/ Step(p) \/ Crash(p)
      PROVE  WellFormed'
  BY <1>1, StartWellFormed, RetrieveWellFormed, LoginWellFormed,
     LogoutWellFormed, LockWellFormed DEF Step
<1>2. CASE UNCHANGED vars
  <2>1. SharedTypeOK' /\ \A f \in Profiles : ProfileOK(f)'
    BY <1>2, SharedOK DEF vars, shared
  <2>. QED  BY <1>2, <2>1 DEF vars, WellFormed, TypeOK, JobOK
<1>. QED  BY <1>1, <1>2, EnvironmentWellFormed DEF Next, Rest

THEOREM AlwaysWellFormed == Spec => []WellFormed
BY InitWellFormed, NextWellFormed, PTL DEF Spec

\* Every variable keeps its type: no command works with a profile, a session
\* or a lock key it has not loaded, whatever fails and whoever interferes.
THEOREM TypeCorrect == Spec => []TypeOK
<1>1. WellFormed => TypeOK
  BY DEF WellFormed
<1>. QED  BY <1>1, AlwaysWellFormed, PTL

-----------------------------------------------------------------------------
(* Commit markers and expirations                                           *)

\* The credential c of the key k names only profiles patched to it.
Marked(k, c) == \A f \in c.targets : <<f, k, c.id>> \in patched

\* Whose credential a command holds in memory.
HeldKey(p) == IF job[p].op = "retrieve" THEN StsKey(p) ELSE OldKey(p)

\* Markers are right on disk, in memory, and where the next write adds one.
Markers ==
  /\ \A k \in StsKeys : Marked(k, stsCache[k])
  /\ \A p \in Procs : Marked(HeldKey(p), job[p].sts)
  /\ \A p \in Procs : pc[p] = "mark" =>
       <<job[p].prof, StsKey(p), job[p].sts.id>> \in patched

\* Most steps: no STS cache changes, and every command keeps its credential
\* or drops it.
KeepsSts ==
  /\ UNCHANGED <<stsCache, patched>>
  /\ \A q \in Procs :
       /\ \/ job'[q].sts = NoSts
          \/ job'[q].sts = job[q].sts /\ Kept(job[q], job'[q])
       /\ pc'[q] = "mark" => pc[q] = "mark" /\ job'[q] = job[q]

LEMMA MarkersKept ==
  ASSUME Markers, KeepsSts
  PROVE  Markers'
<1>1. \A q \in Procs : Marked(HeldKey(q), job[q].sts)'
  BY DEF KeepsSts, Markers, Marked, HeldKey, StsKey, OldKey, Kept, NoSts
<1>2. \A k \in StsKeys : Marked(k, stsCache[k])'
  BY DEF KeepsSts, Markers, Marked
<1>. QED
  BY <1>1, <1>2 DEF KeepsSts, Markers, StsKey

\* The commands' steps that touch neither an STS cache nor a credential.
LEMMA MostKeepSts ==
  ASSUME WellFormed, NEW p \in Procs,
         \/ AcquireTokenLock(p) \/ AcquireStsLock(p) \/ ReadToken(p)
         \/ RefreshGranted(p) \/ PersistToken(p) \/ Snapshot(p)
         \/ Authorized(p) \/ PersistLogin(p) \/ CheckLogin(p)
         \/ LoginStepFails(p) \/ Bind(p) \/ DeleteOldStsFails(p)
         \/ CommitBinding(p) \/ RestoreToken(p) \/ CollectKeys(p)
         \/ CheckKeys(p) \/ DeleteToken(p) \/ ClearProfiles(p) \/ Revoke(p)
         \/ Unwind(p) \/ Crash(p) \/ LockFails(p) \/ ReadTokenFails(p)
         \/ RefreshAnswerLost(p) \/ RefreshRefused(p) \/ ReadStsFails(p)
         \/ ExchangeFails(p) \/ RereadFails(p) \/ Return(p)
         \/ SnapshotFails(p) \/ NotAuthorized(p) \/ CollectFails(p)
         \/ CheckFails(p)
  PROVE  KeepsSts
<1>1. CASE AcquireTokenLock(p)
  BY <1>1
  DEF AcquireTokenLock, AfterTokenLocks, KeepsSts, Kept, WellFormed, TypeOK, JobSet, Goto, Finish,
      shared, configVars, cacheVars, lockVars, serverVars, budgetVars
<1>2. CASE AcquireStsLock(p)
  BY <1>2
  DEF AcquireStsLock, KeepsSts, Kept, WellFormed, TypeOK, JobSet, Goto, Finish,
      shared, configVars, cacheVars, lockVars, serverVars, budgetVars
<1>3. CASE ReadToken(p)
  BY <1>3
  DEF ReadToken, KeepsSts, Kept, WellFormed, TypeOK, JobSet, Goto, Finish,
      shared, configVars, cacheVars, lockVars, serverVars, budgetVars
<1>4. CASE RefreshGranted(p)
  BY <1>4
  DEF RefreshGranted, KeepsSts, Kept, WellFormed, TypeOK, JobSet, Goto, Finish,
      shared, configVars, cacheVars, lockVars, serverVars, budgetVars
<1>5. CASE PersistToken(p)
  BY <1>5
  DEF PersistToken, WithUsableToken, KeepsSts, Kept, WellFormed, TypeOK, JobSet, Goto, Finish,
      shared, configVars, cacheVars, lockVars, serverVars, budgetVars
<1>6. CASE Snapshot(p)
  BY <1>6
  DEF Snapshot, KeepsSts, Kept, WellFormed, TypeOK, JobSet, Goto, Finish,
      shared, configVars, cacheVars, lockVars, serverVars, budgetVars
<1>7. CASE Authorized(p)
  BY <1>7
  DEF Authorized, KeepsSts, Kept, WellFormed, TypeOK, JobSet, Goto, Finish,
      shared, configVars, cacheVars, lockVars, serverVars, budgetVars
<1>8. CASE PersistLogin(p)
  BY <1>8
  DEF PersistLogin, Rollback, KeepsSts, Kept, WellFormed, TypeOK, JobSet, Goto, Finish,
      shared, configVars, cacheVars, lockVars, serverVars, budgetVars
<1>9. CASE CheckLogin(p)
  BY <1>9
  DEF CheckLogin, Rollback, KeepsSts, Kept, WellFormed, TypeOK, JobSet, Goto, Finish,
      shared, configVars, cacheVars, lockVars, serverVars, budgetVars
<1>10. CASE LoginStepFails(p)
  BY <1>10
  DEF LoginStepFails, Rollback, KeepsSts, Kept, WellFormed, TypeOK, JobSet, Goto, Finish,
      shared, configVars, cacheVars, lockVars, serverVars, budgetVars
<1>11. CASE Bind(p)
  BY <1>11
  DEF Bind, KeepsSts, Kept, WellFormed, TypeOK, JobSet, Goto, Finish,
      shared, configVars, cacheVars, lockVars, serverVars, budgetVars
<1>12. CASE DeleteOldStsFails(p)
  BY <1>12
  DEF DeleteOldStsFails, Rollback, KeepsSts, Kept, WellFormed, TypeOK, JobSet, Goto, Finish,
      shared, configVars, cacheVars, lockVars, serverVars, budgetVars
<1>13. CASE CommitBinding(p)
  BY <1>13
  DEF CommitBinding, Rollback, KeepsSts, Kept, WellFormed, TypeOK, JobSet, Goto, Finish,
      shared, configVars, cacheVars, lockVars, serverVars, budgetVars
<1>14. CASE RestoreToken(p)
  BY <1>14
  DEF RestoreToken, KeepsSts, Kept, WellFormed, TypeOK, JobSet, Goto, Finish,
      shared, configVars, cacheVars, lockVars, serverVars, budgetVars
<1>15. CASE CollectKeys(p)
  BY <1>15
  DEF CollectKeys, KeepsSts, Kept, WellFormed, TypeOK, JobSet, Goto, Finish,
      shared, configVars, cacheVars, lockVars, serverVars, budgetVars
<1>16. CASE CheckKeys(p)
  BY <1>16
  DEF CheckKeys, KeepsSts, Kept, WellFormed, TypeOK, JobSet, Goto, Finish,
      shared, configVars, cacheVars, lockVars, serverVars, budgetVars
<1>17. CASE DeleteToken(p)
  <2>1. PICK v : job' = [job EXCEPT ![p].out = v, ![p].want = job[p].keys]
    BY <1>17 DEF DeleteToken
  <2>3. PICK l \in {"clearProfiles", "deleteSts"} : pc' = [pc EXCEPT ![p] = l]
    BY <1>17 DEF DeleteToken, Goto
  <2>2. UNCHANGED <<stsCache, patched>>
    BY <1>17 DEF DeleteToken
  <2>. QED
    BY <2>1, <2>2, <2>3 DEF KeepsSts, Kept, WellFormed, TypeOK, JobSet
<1>18. CASE ClearProfiles(p)
  BY <1>18
  DEF ClearProfiles, KeepsSts, Kept, WellFormed, TypeOK, JobSet, Goto, Finish,
      shared, configVars, cacheVars, lockVars, serverVars, budgetVars
<1>19. CASE Revoke(p)
  BY <1>19
  DEF Revoke, KeepsSts, Kept, WellFormed, TypeOK, JobSet, Goto, Finish,
      shared, configVars, cacheVars, lockVars, serverVars, budgetVars
<1>20. CASE Unwind(p) \/ Crash(p)
  BY <1>20
  DEF Unwind, Crash, Release, KeepsSts, Kept, WellFormed, TypeOK, NoJob, Goto,
      configVars, cacheVars, serverVars, budgetVars
<1>21. ASSUME NEW v, Finish(p, v), UNCHANGED <<stsCache, patched>>
      PROVE  KeepsSts
  BY <1>21 DEF Finish, Goto, KeepsSts, Kept, WellFormed, TypeOK, JobSet
<1>22. CASE NotAuthorized(p)
  BY <1>22
  DEF NotAuthorized, Rollback, KeepsSts, Kept, WellFormed, TypeOK, Goto,
      shared, cacheVars
<1>23. CASE \/ LockFails(p) \/ ReadTokenFails(p) \/ RefreshAnswerLost(p)
            \/ RefreshRefused(p) \/ ReadStsFails(p) \/ ExchangeFails(p)
            \/ RereadFails(p) \/ Return(p) \/ SnapshotFails(p)
            \/ CollectFails(p) \/ CheckFails(p)
  BY <1>21, <1>23
  DEF LockFails, ReadTokenFails, RefreshAnswerLost, RefreshRefused,
      ReadStsFails, ExchangeFails, RereadFails, Return, SnapshotFails,
      CollectFails, CheckFails, ReadFails, shared, cacheVars
<1>. QED
  BY <1>1, <1>2, <1>3, <1>4, <1>5, <1>6, <1>7, <1>8, <1>9, <1>10, <1>11, <1>12, <1>13, <1>14, <1>15, <1>16, <1>17, <1>18, <1>19, <1>20, <1>22, <1>23

LEMMA StartMarkers ==
  ASSUME WellFormed, NEW p \in Procs, StartCommand(p)
  PROVE  KeepsSts
<1>1. ASSUME NEW s \in Sessions, NEW f \in Profiles \cup {NoProfile},
             NEW c \in Commands
      PROVE  NewJob(c, f, s) \in JobSet /\ NewJob(c, f, s).sts = NoSts
  BY NewJobOK
<1>2. PICK j : Start(p, j) /\ j.sts = NoSts
  <2>1. ASSUME NEW f \in Profiles, StartRetrieve(p, f)
        PROVE  \E j : Start(p, j) /\ j.sts = NoSts
    <3>1. profile[f].ses \in Sessions
      BY <2>1 DEF StartRetrieve, WellFormed, ProfileOK
    <3>2. PICK i \in JobSet :
            i = NewJob("retrieve", f, profile[f].ses) /\ i.sts = NoSts
      BY <1>1, <2>1, <3>1 DEF Commands
    <3>. QED  BY <2>1, <3>2 DEF StartRetrieve, JobSet
  <2>2. ASSUME NEW s \in Sessions, NEW f \in Profiles \cup {NoProfile},
               StartLogin(p, s, f) \/ StartLogout(p, s, f)
        PROVE  \E j : Start(p, j) /\ j.sts = NoSts
    BY <1>1, <2>2 DEF StartLogin, StartLogout, Commands
  <2>3. ASSUME NEW f \in Profiles, NEW s \in Sessions, NEW r \in Roles,
               StartConfigure(p, f, s, r)
        PROVE  \E j : Start(p, j) /\ j.sts = NoSts
    <3>1. PICK i \in JobSet : i = NewJob("configure", f, s) /\ i.sts = NoSts
      BY <1>1, <2>3 DEF Commands
    <3>. DEFINE w == IF profile[f].ses = NoSession THEN {}
                     ELSE {<<sessionUrl[profile[f].ses], profile[f].ses>>}
    <3>2. Start(p, [i EXCEPT !.role = r, !.orig = profile[f],
                             !.want = @ \cup w])
      BY <2>3, <3>1 DEF StartConfigure
    <3>. HIDE DEF w
    <3>3. [i EXCEPT !.role = r, !.orig = profile[f], !.want = @ \cup w].sts
            = NoSts
      BY <3>1 DEF JobSet
    <3>. QED  BY <3>2, <3>3
  <2>. QED  BY <2>1, <2>2, <2>3 DEF StartCommand
<1>. QED
  BY <1>2 DEF Start, Goto, KeepsSts, Kept, WellFormed, TypeOK, cacheVars

\* The steps that write an STS cache or load one into memory.
LEMMA StsStepMarkers ==
  ASSUME WellFormed, Markers, NEW p \in Procs,
         \/ ReadSts(p) \/ ExchangeGranted(p) \/ PersistSts(p)
         \/ PatchProfile(p) \/ PatchMismatch(p) \/ Mark(p) \/ Reread(p)
         \/ DeleteOldSts(p) \/ RestoreSts(p) \/ DeleteSts(p)
  PROVE  Markers'
<1>1. /\ job[p] \in JobSet /\ job[p].sts \in StsSet /\ job[p].op \in Commands
      /\ pc[p] \in RetrievePCs => job[p].op = "retrieve"
      /\ pc[p] \in {"deleteOldSts", "restoreSts"} => job[p].op = "configure"
      /\ job[p].op = "retrieve" => StsKey(p) \in StsKeys
      /\ pc[p] \in {"deleteOldSts", "restoreSts"} => OldKey(p) \in StsKeys
  BY JobTypes
  DEF ReadSts, ExchangeGranted, PersistSts, PatchProfile, PatchMismatch, Mark,
      Reread, DeleteOldSts, RestoreSts, DeleteSts, JobAt, RetrievePCs,
      LoginPCs, LogoutPCs, Commands
<1>2. \A q \in Procs \ {p} : job'[q] = job[q] /\ pc'[q] = pc[q]
  BY DEF ReadSts, ExchangeGranted, PersistSts, PatchProfile, PatchMismatch,
         Mark, Reread, DeleteOldSts, RestoreSts, DeleteSts, Finish, Goto,
         WellFormed, TypeOK
\* The other commands are where they were, and patched only grows.
<1>3. ASSUME patched \subseteq patched', Marked(HeldKey(p), job[p].sts)',
             \A k \in StsKeys : Marked(k, stsCache[k])',
             pc'[p] = "mark" =>
               <<job'[p].prof, StsKey(p)', job'[p].sts.id>> \in patched'
      PROVE  Markers'
  BY <1>2, <1>3 DEF Markers, Marked, HeldKey, StsKey, OldKey
<1>4. \A k : Marked(k, NoSts)'
  BY DEF Marked, NoSts
<1>5. CASE ReadSts(p)
  <2>1. UNCHANGED <<stsCache, patched>>
    BY <1>5 DEF ReadSts, shared, cacheVars
  <2>2. job[p].op = "retrieve" /\ StsKey(p) \in StsKeys
    BY <1>1, <1>5 DEF ReadSts, RetrievePCs
  <2>3. Marked(HeldKey(p), job[p].sts)'
    BY <1>1, <1>5, <2>1, <2>2
    DEF ReadSts, Markers, Marked, HeldKey, StsKey, WellFormed, TypeOK, JobSet
  <2>4. pc'[p] # "mark"
    BY <1>5 DEF ReadSts, Goto, WellFormed, TypeOK
  <2>. QED  BY <1>3, <2>1, <2>3, <2>4 DEF Markers, Marked
<1>6. CASE Reread(p)
  <2>1. UNCHANGED <<stsCache, patched>>
    BY <1>6 DEF Reread, shared, cacheVars
  <2>2. job[p].op = "retrieve" /\ StsKey(p) \in StsKeys
    BY <1>1, <1>6 DEF Reread, RetrievePCs
  <2>3. Marked(HeldKey(p), job[p].sts)'
    BY <1>1, <1>6, <2>1, <2>2
    DEF Reread, Finish, Markers, Marked, HeldKey, StsKey, WellFormed, TypeOK,
        JobSet
  <2>4. pc'[p] # "mark"
    BY <1>6 DEF Reread, Finish, Goto, WellFormed, TypeOK
  <2>. QED  BY <1>3, <2>1, <2>3, <2>4 DEF Markers, Marked
<1>7. CASE ExchangeGranted(p)
  <2>1. UNCHANGED <<stsCache, patched>> /\ pc'[p] # "mark"
    BY <1>7 DEF ExchangeGranted, Goto, cacheVars, WellFormed, TypeOK
  <2>2. Marked(HeldKey(p), job[p].sts)'
    BY <1>1, <1>7
    DEF ExchangeGranted, Marked, WellFormed, TypeOK, JobSet
  <2>. QED  BY <1>3, <2>1, <2>2 DEF Markers, Marked
<1>8. CASE PersistSts(p) \/ RestoreSts(p)
  <2>1. UNCHANGED patched /\ pc'[p] # "mark"
    BY <1>8
    DEF PersistSts, RestoreSts, Finish, Goto, WellFormed, TypeOK
  <2>2. job'[p].sts = job[p].sts /\ Kept(job[p], job'[p])
    BY <1>1, <1>8
    DEF PersistSts, RestoreSts, Finish, Kept, WellFormed, TypeOK, JobSet
  <2>3. Marked(HeldKey(p), job[p].sts)'
    BY <2>1, <2>2 DEF Markers, Marked, HeldKey, StsKey, OldKey, Kept
  <2>4. HeldKey(p) \in StsKeys /\
          \/ UNCHANGED stsCache
          \/ stsCache' = [stsCache EXCEPT ![HeldKey(p)] = job[p].sts]
    BY <1>1, <1>8
    DEF PersistSts, RestoreSts, After, HeldKey, RetrievePCs, WellFormed,
        TypeOK, SharedTypeOK
  <2>5. \A k \in StsKeys : Marked(k, stsCache[k])'
    BY <2>1, <2>4 DEF Markers, Marked, WellFormed, TypeOK, SharedTypeOK
  <2>. QED  BY <1>3, <2>1, <2>3, <2>5
<1>9. CASE PatchProfile(p)
  <2>1. UNCHANGED stsCache /\ patched \subseteq patched'
    BY <1>9 DEF PatchProfile, After, cacheVars
  <2>2. job'[p].sts = job[p].sts /\ Kept(job[p], job'[p])
    BY <1>1, <1>9
    DEF PatchProfile, Finish, Kept, WellFormed, TypeOK, JobSet
  <2>3. Marked(HeldKey(p), job[p].sts)'
    BY <2>1, <2>2 DEF Markers, Marked, HeldKey, StsKey, OldKey, Kept
  <2>4. pc'[p] = "mark" => <<job[p].prof, StsKey(p), job[p].sts.id>> \in patched'
    BY <1>9
    DEF PatchProfile, After, Finish, Goto, WellFormed, TypeOK
  <2>5. StsKey(p)' = StsKey(p) /\ job'[p].prof = job[p].prof
    BY <2>2 DEF StsKey, Kept
  <2>. QED  BY <1>3, <2>1, <2>2, <2>3, <2>4, <2>5 DEF Markers, Marked
<1>10. CASE Mark(p)
  <2>. DEFINE c == [job[p].sts EXCEPT !.targets = @ \cup {job[p].prof}]
  <2>1. UNCHANGED patched /\ pc'[p] # "mark" /\ StsKey(p) \in StsKeys
          /\ job[p].op = "retrieve"
    BY <1>1, <1>10
    DEF Mark, Finish, Goto, RetrievePCs, WellFormed, TypeOK
  <2>2. c.id = job[p].sts.id /\ c.targets = job[p].sts.targets \cup {job[p].prof}
    BY <1>1 DEF StsSet
  <2>3. Marked(StsKey(p), c)
    BY <1>10, <2>1, <2>2 DEF Mark, Markers, Marked, HeldKey
  <2>. HIDE DEF c
  <2>4. /\ job'[p].sts = c \/ job'[p].sts = job[p].sts
        /\ Kept(job[p], job'[p])
    <3>1. Finish(p, "failed") \/ job' = [job EXCEPT ![p].sts = c]
      BY <1>10 DEF c, Mark
    <3>. QED  BY <1>1, <3>1 DEF Finish, Kept, WellFormed, TypeOK, JobSet
  <2>5. Marked(HeldKey(p), job[p].sts)'
    BY <2>1, <2>3, <2>4 DEF Markers, Marked, HeldKey, StsKey, Kept
  <2>6. UNCHANGED stsCache \/ stsCache' = [stsCache EXCEPT ![StsKey(p)] = c]
    BY <1>10 DEF c, Mark, After, WellFormed, TypeOK, SharedTypeOK
  <2>7. \A k \in StsKeys : Marked(k, stsCache[k])'
    BY <2>1, <2>3, <2>6 DEF Markers, Marked, WellFormed, TypeOK, SharedTypeOK
  <2>. QED  BY <1>3, <2>1, <2>5, <2>7
<1>11. CASE PatchMismatch(p) \/ DeleteSts(p)
  <2>1. UNCHANGED patched /\ pc'[p] # "mark"
    BY <1>11
    DEF PatchMismatch, DeleteSts, Finish, Goto, WellFormed, TypeOK
  <2>2. job'[p].sts = job[p].sts /\ Kept(job[p], job'[p])
    <3>1. CASE PatchMismatch(p)
      BY <1>1, <3>1 DEF PatchMismatch, Finish, Kept, WellFormed, TypeOK, JobSet
    <3>2. CASE DeleteSts(p)
      <4>1. PICK v, w : job' = [job EXCEPT ![p].out = v, ![p].want = w]
        BY <3>2 DEF DeleteSts
      <4>. QED  BY <1>1, <4>1 DEF Kept, WellFormed, TypeOK, JobSet
    <3>. QED  BY <1>11, <3>1, <3>2
  <2>3. Marked(HeldKey(p), job[p].sts)'
    BY <2>1, <2>2 DEF Markers, Marked, HeldKey, StsKey, OldKey, Kept
  <2>4. \A k \in StsKeys : stsCache'[k] \in {NoSts, stsCache[k]}
    BY <1>11
    DEF PatchMismatch, DeleteSts, After, WellFormed, TypeOK, SharedTypeOK
  <2>5. \A k \in StsKeys : Marked(k, stsCache[k])'
    BY <2>1, <2>4 DEF Markers, Marked, NoSts
  <2>. QED  BY <1>3, <2>1, <2>3, <2>5
<1>12. CASE DeleteOldSts(p)
  <2>1. UNCHANGED patched /\ pc'[p] # "mark" /\ OldKey(p) \in StsKeys
          /\ job[p].op = "configure"
    BY <1>1, <1>12 DEF DeleteOldSts, Goto, WellFormed, TypeOK
  <2>2. job'[p].sts = stsCache[OldKey(p)] /\ Kept(job[p], job'[p])
    BY <1>1, <1>12 DEF DeleteOldSts, Kept, WellFormed, TypeOK, JobSet
  <2>3. Marked(HeldKey(p), job[p].sts)'
    BY <2>1, <2>2 DEF Markers, Marked, HeldKey, OldKey, Kept
  <2>4. \A k \in StsKeys : stsCache'[k] \in {NoSts, stsCache[k]}
    BY <1>12 DEF DeleteOldSts, WellFormed, TypeOK, SharedTypeOK
  <2>5. \A k \in StsKeys : Marked(k, stsCache[k])'
    BY <2>1, <2>4 DEF Markers, Marked, NoSts
  <2>. QED  BY <1>3, <2>1, <2>3, <2>5
<1>. QED
  BY <1>5, <1>6, <1>7, <1>8, <1>9, <1>10, <1>11, <1>12

IInv == WellFormed /\ Markers /\ ExpirationIsOfBinding

LEMMA NextMarkers == IInv /\ [Next]_vars => Markers'
<1>. SUFFICES ASSUME IInv, [Next]_vars PROVE Markers'
  OBVIOUS
<1>1. ASSUME NEW p \in Procs, StartCommand(p) \/ Step(p) \/ Crash(p)
      PROVE  Markers'
  BY <1>1, StartMarkers, MostKeepSts, StsStepMarkers, MarkersKept
  DEF IInv, Step, RetrieveStep, LoginStep, LogoutStep
<1>2. CASE UNCHANGED <<pc, job, stsCache, patched>>
  BY <1>2 DEF IInv, Markers, Marked, HeldKey, StsKey, OldKey
<1>3. ASSUME Environment PROVE UNCHANGED <<pc, job, stsCache, patched>>
  BY <1>3
  DEF Environment, Expire, ConfigureDelete, ConfigureSession, ConfigureSetMode,
      Administer, cacheVars
<1>. QED
  BY <1>1, <1>2, <1>3 DEF Next, Rest, vars, shared, cacheVars

\* sts-expiration is patched under its binding, and reset with it.
LEMMA NextExpiration == IInv /\ [Next]_vars => ExpirationIsOfBinding'
<1>. SUFFICES ASSUME IInv, [Next]_vars PROVE ExpirationIsOfBinding'
  OBVIOUS
<1>1. ASSUME UNCHANGED <<profile, patched>> PROVE ExpirationIsOfBinding'
  BY <1>1 DEF IInv, ExpirationIsOfBinding, Binding
<1>2. ASSUME NEW p \in Procs, PatchProfile(p) PROVE ExpirationIsOfBinding'
  <2>1. /\ job[p].prof \in Profiles /\ job[p].sts \in StsSet
        /\ Binding(job[p].prof) = StsKey(p)
    BY <1>2, JobTypes
    DEF IInv, PatchProfile, Matches, Binding, StsKey, JobAt, RetrievePCs
  <2>2. PICK o : /\ profile' = [profile EXCEPT ![job[p].prof].exp =
                                  After(o, job[p].sts.id, @)]
                 /\ patched' = After(o, patched \cup
                      {<<job[p].prof, StsKey(p), job[p].sts.id>>}, patched)
    BY <1>2 DEF PatchProfile
  <2>3. \A f \in Profiles : Binding(f)' = Binding(f)
    BY <2>2 DEF Binding, IInv, WellFormed, TypeOK, SharedTypeOK, ProfileSet
  <2>4. CASE o = "lost"
    BY <1>1, <2>2, <2>4
    DEF After, IInv, WellFormed, TypeOK, SharedTypeOK, ProfileSet
  <2>5. CASE o # "lost"
    <3>1. /\ profile'[job[p].prof].exp = job[p].sts.id
          /\ <<job[p].prof, StsKey(p), job[p].sts.id>> \in patched'
          /\ patched \subseteq patched'
      BY <2>1, <2>2, <2>5
      DEF After, IInv, WellFormed, TypeOK, SharedTypeOK, ProfileSet
    <3>2. \A f \in Profiles \ {job[p].prof} : profile'[f] = profile[f]
      BY <2>2 DEF IInv, WellFormed, TypeOK, SharedTypeOK
    <3>. QED
      BY <2>1, <2>3, <3>1, <3>2 DEF IInv, ExpirationIsOfBinding
  <2>. QED  BY <2>4, <2>5
<1>3. ASSUME NEW p \in Procs, CommitBinding(p) PROVE ExpirationIsOfBinding'
  <2>1. UNCHANGED patched
    BY <1>3 DEF CommitBinding
  <2>2. PICK b : b.exp = 0 /\ \/ UNCHANGED profile
                              \/ profile' = [profile EXCEPT ![job[p].prof] = b]
    BY <1>3
    DEF CommitBinding, After, IInv, WellFormed, TypeOK, SharedTypeOK
  <2>. QED
    BY <1>1, <2>1, <2>2
    DEF IInv, ExpirationIsOfBinding, Binding, WellFormed, TypeOK, SharedTypeOK
<1>4. ASSUME NEW p \in Procs, ClearProfiles(p) PROVE ExpirationIsOfBinding'
  <2>1. UNCHANGED patched
    BY <1>4 DEF ClearProfiles
  <2>2. ASSUME NEW f \in Profiles
        PROVE  /\ profile'[f].exp \in {0, profile[f].exp}
               /\ profile'[f].mode = profile[f].mode
               /\ profile'[f].ses = profile[f].ses
               /\ profile'[f].role = profile[f].role
    <3>1. profile[f] \in ProfileSet
      BY DEF IInv, WellFormed, TypeOK, SharedTypeOK
    <3>2. PICK n \in {0, profile[f].exp} :
            profile'[f] = [profile[f] EXCEPT !.exp = n] \/ profile'[f] = profile[f]
      BY <1>4 DEF ClearProfiles, After
    <3>. QED  BY <3>1, <3>2 DEF ProfileSet
  <2>. QED  BY <2>1, <2>2 DEF IInv, ExpirationIsOfBinding, Binding
<1>5. ASSUME NEW f \in Profiles, NEW r,
             ConfigureDelete(f) \/ ConfigureSetMode(f, r)
      PROVE  ExpirationIsOfBinding'
  BY <1>5
  DEF ConfigureDelete, ConfigureSetMode, Administer, Absent, IInv,
      ExpirationIsOfBinding, Binding, WellFormed, TypeOK, SharedTypeOK,
      ProfileSet
<1>6. ASSUME NEW p \in Procs,
             \/ StartCommand(p) \/ Crash(p) \/ AcquireTokenLock(p)
             \/ AcquireStsLock(p) \/ LockFails(p) \/ Unwind(p)
      PROVE  UNCHANGED <<profile, patched>>
  BY <1>6
  DEF StartCommand, StartRetrieve, StartLogin, StartConfigure, StartLogout,
      Start, Crash, Unwind, Release, AcquireTokenLock, AcquireStsLock,
      LockFails, configVars, shared
<1>7. ASSUME NEW p \in Procs, RetrieveStep(p), ~PatchProfile(p)
      PROVE  UNCHANGED <<profile, patched>>
  BY <1>7
  DEF RetrieveStep, ReadToken, ReadTokenFails, RefreshGranted,
      RefreshAnswerLost, RefreshRefused, PersistToken, ReadSts, ReadStsFails,
      ExchangeGranted, ExchangeFails, PersistSts, PatchMismatch, Mark, Reread,
      RereadFails, Return, ReadFails, configVars, shared
<1>8. ASSUME NEW p \in Procs, LoginStep(p), ~CommitBinding(p)
      PROVE  UNCHANGED <<profile, patched>>
  BY <1>8
  DEF LoginStep, Snapshot, SnapshotFails, Authorized, NotAuthorized,
      PersistLogin, CheckLogin, LoginStepFails, Bind, DeleteOldSts,
      DeleteOldStsFails, RestoreToken, RestoreSts, ReadFails, configVars, shared
<1>9. ASSUME NEW p \in Procs, LogoutStep(p), ~ClearProfiles(p)
      PROVE  UNCHANGED <<profile, patched>>
  BY <1>9
  DEF LogoutStep, CollectKeys, CollectFails, CheckKeys, CheckFails, DeleteToken,
      DeleteSts, Revoke, ReadFails, configVars, shared
<1>10. CASE Environment
  BY <1>1, <1>5, <1>10 DEF Environment, Expire, ConfigureSession, Administer, configVars
<1>. QED
  BY <1>1, <1>2, <1>3, <1>4, <1>6, <1>7, <1>8, <1>9, <1>10
  DEF Next, Step, Rest, vars, shared, configVars

LEMMA InitIInv == Init => IInv
<1>. SUFFICES ASSUME Init PROVE IInv
  OBVIOUS
<1>1. Markers
  BY DEF Init, Markers, Marked, NoSts, NoJob
<1>2. ExpirationIsOfBinding
  BY DEF Init, ExpirationIsOfBinding, Absent
<1>. QED  BY <1>1, <1>2, InitWellFormed DEF IInv

THEOREM Invariant == Spec => []IInv
<1>1. IInv /\ [Next]_vars => IInv'
  BY NextWellFormed, NextMarkers, NextExpiration DEF IInv
<1>. QED  BY <1>1, InitIInv, PTL DEF Spec

\* A commit marker is never ahead of the patch it stands for: not after a
\* crash or a failed write at any step of Retrieve, nor after the rollback of
\* a rebind that had removed the cache.
THEOREM MarkersArePatched == Spec => []MarkedWasPatched
<1>1. IInv => MarkedWasPatched
  BY DEF IInv, Markers, Marked, MarkedWasPatched
<1>. QED  BY <1>1, Invariant, PTL

\* No profile carries the expiration of a credential of another binding.
THEOREM ExpirationsMatch == Spec => []ExpirationIsOfBinding
<1>1. IInv => ExpirationIsOfBinding
  BY DEF IInv
<1>. QED  BY <1>1, Invariant, PTL

\* A commit marker and an sts-expiration say what is true of the profile and
\* of the cache they belong to.
THEOREM MarkersTrue == Spec => []MarkersAreTrue
BY TypeCorrect, MarkersArePatched, ExpirationsMatch, PTL DEF MarkersAreTrue

-----------------------------------------------------------------------------
(* Who holds which lock                                                     *)

\* Where a command is inside the callback of its token locks.
Inside == PCs \ {"idle", "lockToken", "unwind"}

\* A command that is inside holds the lock of its token; after a login has got a
\* new token it holds it to the end.
HoldsToken(q) ==
  /\ \/ pc[q] \in Inside
     \/ (pc[q] = "unwind" /\ job[q].new # 0)
     \/ (pc[q] = "lockToken" /\ TokenKey(q) \notin job[q].want)
     => tokenLock[TokenKey(q)] = q
  /\ pc[q] \in {"lockToken", "snapshot", "authorize"} => job[q].new = 0
  /\ job[q].op \in {"retrieve", "logout"} => job[q].new = 0

\* Retrieve holds the lock of its STS cache from its first look at it on.
HoldsSts(q) ==
  job[q].op = "retrieve" =>
    /\ \/ pc[q] \in {"readSts", "exchange", "persistSts", "patch", "mark",
                     "reread", "return"}
       \/ (job[q].exch /\ pc[q] # "unwind")
       => stsLock[StsKey(q)] = q
    /\ pc[q] \in {"lockToken", "readToken", "lockSts"} => ~job[q].exch
    /\ pc[q] = "lockSts" => job[q].want = {StsKey(q)}

\* A rebind holds the lock of the STS cache it deletes, until that is restored or
\* the profile is bound anew.
HoldsOld(q) ==
  job[q].op = "configure" =>
    /\ pc[q] = "lockSts" => job[q].want = {OldKey(q)}
    /\ \/ pc[q] = "deleteOldSts" \/ job[q].sts # NoSts
       \/ (pc[q] = "commit" /\ OldBindingChanged(q))
       => stsLock[OldKey(q)] = q
    /\ pc[q] \in {"lockToken", "snapshot", "authorize", "persistLogin", "bind",
                  "lockSts"} => job[q].sts = NoSts

\* A logout holds the locks of all the STS caches it deletes.
HoldsAll(q) ==
  job[q].op = "logout" =>
    /\ pc[q] = "lockSts" =>
         \A k \in job[q].keys : k \in job[q].want \/ stsLock[k] = q
    /\ pc[q] \in {"check", "deleteToken", "deleteSts"} =>
         \A k \in job[q].keys : stsLock[k] = q
    /\ pc[q] \in {"lockSts", "deleteSts"} => job[q].want \subseteq job[q].keys

LockOK(q) == HoldsToken(q) /\ HoldsSts(q) /\ HoldsOld(q) /\ HoldsAll(q)

-----------------------------------------------------------------------------
(* What a command knows of the caches it has locked                         *)

\* The token in memory is that of the cache; the STS credential from its being
\* written on, and the profile is marked in it from the mark on.
KnowsCaches(q) ==
  /\ /\ job[q].op = "retrieve"
     /\ pc[q] \in {"lockSts", "readSts", "refresh", "exchange", "persistSts",
                   "patch", "mark"}
     => job[q].tok = tokenCache[TokenKey(q)]
  /\ /\ job[q].op = "retrieve"
     /\ pc[q] \in {"lockSts", "readSts", "refresh", "exchange", "persistSts",
                   "persistToken", "patch", "mark"}
     => job[q].tok # NoToken
  /\ pc[q] \in {"patch", "mark", "reread", "return"} =>
       job[q].sts = stsCache[StsKey(q)]
  /\ pc[q] \in {"reread", "return"} => job[q].prof \in job[q].sts.targets

\* The old STS cache of a rebind is away when the profile is bound.
OldIsAway(q) ==
  pc[q] = "commit" /\ OldBindingChanged(q) => stsCache[OldKey(q)] = NoSts

\* What a login has put back, unless it could not take the old STS lock.
PutBack(q) ==
  "lock" \notin Faults =>
    /\ /\ job[q].out = "failed"
       /\ pc[q] = "restoreSts" \/ (pc[q] = "unwind" /\ job[q].new # 0)
       => tokenCache[TokenKey(q)] = job[q].tok
    /\ pc[q] = "unwind" /\ job[q].new # 0 /\ job[q].out = "failed"
         /\ job[q].sts # NoSts
       => stsCache[OldKey(q)] = job[q].sts

CacheOK(q) == KnowsCaches(q) /\ OldIsAway(q) /\ PutBack(q)

\* What a step of process p leaves to the others.
Disciplined(p) ==
  /\ \A k \in TokenKeys : \A q \in Procs \ {p} : tokenLock[k] = q => tokenLock'[k] = q
  /\ \A k \in StsKeys : \A q \in Procs \ {p} : stsLock[k] = q => stsLock'[k] = q
  /\ \A k \in TokenKeys : tokenCache'[k] # tokenCache[k] => tokenLock[k] = p
  /\ \A k \in StsKeys : stsCache'[k] # stsCache[k] => stsLock[k] = p

SafeOK(q) == LockOK(q) /\ CacheOK(q)

\* The keys of a command that is running.
LEMMA KeysOK ==
  ASSUME WellFormed, NEW q \in Procs
  PROVE  /\ pc[q] # "idle" => TokenKey(q) \in TokenKeys
         /\ job[q].op = "retrieve" => StsKey(q) \in StsKeys
         /\ job[q].op = "configure" /\ job[q].orig.ses # NoSession =>
              OldKey(q) \in StsKeys
         /\ job[q].keys \subseteq StsKeys
BY JobTypes DEF JobSet

\* The lock another command holds keeps what it knows true.
LEMMA OthersOK ==
  ASSUME WellFormed, NEW p \in Procs, NEW q \in Procs \ {p}, SafeOK(q),
         pc'[q] = pc[q], job'[q] = job[q], Disciplined(p)
  PROVE  SafeOK(q)'
<1>1. /\ TokenKey(q)' = TokenKey(q) /\ StsKey(q)' = StsKey(q)
      /\ OldKey(q)' = OldKey(q) /\ OldBindingChanged(q)' = OldBindingChanged(q)
  BY DEF TokenKey, StsKey, OldKey, OldBindingChanged
<1>2. /\ JobAt(pc[q], job[q]) /\ q # p /\ job[q] \in JobSet
  BY JobTypes
<1>3. ASSUME tokenLock[TokenKey(q)] = q, pc[q] # "idle"
      PROVE  /\ tokenLock'[TokenKey(q)] = q
             /\ tokenCache'[TokenKey(q)] = tokenCache[TokenKey(q)]
  BY <1>2, <1>3, KeysOK DEF Disciplined
<1>4. ASSUME NEW k \in StsKeys, stsLock[k] = q
      PROVE  stsLock'[k] = q /\ stsCache'[k] = stsCache[k]
  BY <1>2, <1>4 DEF Disciplined
<1>5. HoldsToken(q)'
  BY <1>1, <1>2, <1>3 DEF SafeOK, LockOK, HoldsToken, Inside
<1>6. HoldsSts(q)'
  BY <1>1, <1>4, KeysOK DEF SafeOK, LockOK, HoldsSts
<1>7. HoldsOld(q)'
  BY <1>1, <1>2, <1>4, KeysOK DEF SafeOK, LockOK, HoldsOld, JobAt, OldBindingChanged
<1>8. HoldsAll(q)'
  BY <1>1, <1>4, KeysOK DEF SafeOK, LockOK, HoldsAll
<1>9. KnowsCaches(q)'
  <2>1. /\ pc[q] \in {"patch", "mark", "reread", "return"} =>
             job[q].op = "retrieve" /\ stsLock[StsKey(q)] = q
    BY <1>2 DEF SafeOK, LockOK, HoldsSts, JobAt, RetrievePCs
  <2>2. pc[q] \in {"patch", "mark", "reread", "return"} =>
          stsCache'[StsKey(q)] = stsCache[StsKey(q)]
    BY <1>4, <2>1, KeysOK
  <2>3. pc[q] \in {"lockSts", "readSts", "refresh", "exchange", "persistSts",
                    "patch", "mark"} =>
          tokenCache'[TokenKey(q)] = tokenCache[TokenKey(q)]
    BY <1>3
    DEF SafeOK, LockOK, HoldsToken, Inside, PCs, RetrievePCs, LoginPCs, LogoutPCs
  <2>. QED  BY <1>1, <2>2, <2>3 DEF SafeOK, CacheOK, KnowsCaches
<1>10. OldIsAway(q)'
  <2>1. pc[q] = "commit" => job[q].op = "configure"
    BY <1>2 DEF JobAt
  <2>2. pc[q] = "commit" /\ OldBindingChanged(q) => stsLock[OldKey(q)] = q
    BY <2>1 DEF SafeOK, LockOK, HoldsOld
  <2>3. pc[q] = "commit" /\ OldBindingChanged(q) => OldKey(q) \in StsKeys
    BY <2>1, KeysOK DEF OldBindingChanged
  <2>. QED  BY <1>1, <1>4, <2>2, <2>3 DEF SafeOK, CacheOK, OldIsAway
<1>11. PutBack(q)'
  <2>1. pc[q] = "restoreSts" \/ (pc[q] = "unwind" /\ job[q].new # 0) =>
          tokenCache'[TokenKey(q)] = tokenCache[TokenKey(q)]
    BY <1>3
    DEF SafeOK, LockOK, HoldsToken, Inside, PCs, RetrievePCs, LoginPCs, LogoutPCs
  <2>2. pc[q] = "unwind" /\ job[q].new # 0 /\ job[q].sts # NoSts =>
          stsLock[OldKey(q)] = q /\ OldKey(q) \in StsKeys
    BY <1>2, KeysOK
    DEF SafeOK, LockOK, HoldsToken, HoldsOld, JobAt, JobSet, Commands
  <2>3. pc[q] = "unwind" /\ job[q].new # 0 /\ job[q].sts # NoSts =>
          stsCache'[OldKey(q)] = stsCache[OldKey(q)]
    BY <1>4, <2>2
  <2>. QED  BY <1>1, <2>1, <2>3 DEF SafeOK, CacheOK, PutBack
<1>. QED
  BY <1>5, <1>6, <1>7, <1>8, <1>9, <1>10, <1>11 DEF SafeOK, LockOK, CacheOK

\* A step that leaves locks and caches alone is disciplined.
LEMMA QuietDisciplined ==
  ASSUME NEW p \in Procs, UNCHANGED <<tokenLock, stsLock, tokenCache, stsCache>>
  PROVE  Disciplined(p)
BY DEF Disciplined

\* A command that finishes.
LEMMA FinishSafe ==
  ASSUME WellFormed, NEW p \in Procs, NEW v \in Verdicts, SafeOK(p), Finish(p, v),
         pc[p] \in Inside \cup {"lockToken"}, UNCHANGED <<tokenLock, stsLock>>,
         v = "failed" => job[p].new = 0 \/ "lock" \in Faults
  PROVE  SafeOK(p)'
<1>1. JobAt(pc[p], job[p]) /\ job[p] \in JobSet /\ pc[p] \in PCs
  BY JobTypes
<1>2. /\ pc'[p] = "unwind" /\ Kept(job[p], job'[p]) /\ job'[p].out = v
      /\ job'[p].new = job[p].new /\ job'[p].sts = job[p].sts
  BY <1>1 DEF Finish, Goto, WellFormed, TypeOK, JobSet, Kept
<1>3. TokenKey(p)' = TokenKey(p) /\ OldKey(p)' = OldKey(p)
  BY <1>2 DEF Kept, TokenKey, OldKey
<1>4. HoldsToken(p)'
  BY <1>2, <1>3 DEF SafeOK, LockOK, HoldsToken, Inside, Kept
<1>5. HoldsOld(p)'
  BY <1>2, <1>3 DEF SafeOK, LockOK, HoldsOld, Kept
<1>6. HoldsSts(p)' /\ HoldsAll(p)' /\ KnowsCaches(p)' /\ OldIsAway(p)'
  BY <1>2 DEF HoldsSts, HoldsAll, KnowsCaches, OldIsAway
<1>7. PutBack(p)'
  BY <1>2 DEF PutBack
<1>. QED  BY <1>4, <1>5, <1>6, <1>7 DEF SafeOK, LockOK, CacheOK

-----------------------------------------------------------------------------
(* Starting, waiting, leaving                                               *)

\* A command starts with nothing but the token locks it wants.
LEMMA StartSafe ==
  ASSUME WellFormed, NEW p \in Procs, SafeOK(p), StartCommand(p)
  PROVE  SafeOK(p)' /\ Disciplined(p)
<1>1. PICK j : /\ Start(p, j) /\ j.new = 0 /\ j.sts = NoSts /\ ~j.exch
               /\ <<j.url, j.ses>> \in j.want
  <2>1. ASSUME NEW command, NEW f, NEW s
        PROVE  LET j == NewJob(command, f, s) IN
               /\ j.new = 0 /\ j.sts = NoSts /\ ~j.exch
               /\ j.url = sessionUrl[s] /\ j.ses = s
               /\ j.want = {<<sessionUrl[s], s>>}
    BY DEF NewJob, NoJob
  <2>2. ASSUME NEW f \in Profiles, StartRetrieve(p, f)
        PROVE  \E j : /\ Start(p, j) /\ j.new = 0 /\ j.sts = NoSts /\ ~j.exch
                      /\ <<j.url, j.ses>> \in j.want
    <3>. DEFINE s == profile[f].ses
                j == [NewJob("retrieve", f, s) EXCEPT !.role = profile[f].role]
    <3>1. /\ j.new = 0 /\ j.sts = NoSts /\ ~j.exch
          /\ <<j.url, j.ses>> \in j.want
      BY DEF NewJob, NoJob
    <3>. QED  BY <2>2, <3>1 DEF StartRetrieve
  <2>3. ASSUME NEW f \in Profiles, NEW s \in Sessions, NEW r \in Roles,
               StartConfigure(p, f, s, r)
        PROVE  \E j : /\ Start(p, j) /\ j.new = 0 /\ j.sts = NoSts /\ ~j.exch
                      /\ <<j.url, j.ses>> \in j.want
    <3>. DEFINE w == IF profile[f].ses = NoSession THEN {}
                     ELSE {<<sessionUrl[profile[f].ses], profile[f].ses>>}
                j == [NewJob("configure", f, s) EXCEPT
                        !.role = r, !.orig = profile[f], !.want = @ \cup w]
    <3>1. /\ j.new = 0 /\ j.sts = NoSts /\ ~j.exch
          /\ <<j.url, j.ses>> \in j.want
      BY DEF NewJob, NoJob
    <3>. QED  BY <2>3, <3>1 DEF StartConfigure
  <2>. QED  BY <2>1, <2>2, <2>3 DEF StartCommand, StartLogin, StartLogout
<1>2. /\ pc'[p] = "lockToken" /\ job'[p] = j
      /\ UNCHANGED <<tokenLock, stsLock, tokenCache, stsCache>>
  BY <1>1 DEF Start, Goto, WellFormed, TypeOK, cacheVars, lockVars
<1>3. SafeOK(p)'
  BY <1>1, <1>2
  DEF SafeOK, LockOK, HoldsToken, HoldsSts, HoldsOld, HoldsAll, CacheOK,
      KnowsCaches, OldIsAway, PutBack, Inside, TokenKey, StartCommand, WellFormed
<1>. QED  BY <1>2, <1>3, QuietDisciplined

LEMMA LeaveSafe ==
  ASSUME WellFormed, NEW p \in Procs, Unwind(p) \/ Crash(p)
  PROVE  SafeOK(p)' /\ Disciplined(p)
<1>1. Release(p)
  BY DEF Unwind, Crash
<1>2. pc'[p] = "idle" /\ job'[p] = NoJob
  BY <1>1 DEF Release, Goto, WellFormed, TypeOK
<1>3. SafeOK(p)'
  BY <1>2
  DEF SafeOK, LockOK, HoldsToken, HoldsSts, HoldsOld, HoldsAll, CacheOK,
      KnowsCaches, OldIsAway, PutBack, Inside, NoJob
<1>4. Disciplined(p)
  BY <1>1 DEF Release, Disciplined, cacheVars
<1>. QED  BY <1>3, <1>4

LEMMA LockFailsSafe ==
  ASSUME WellFormed, NEW p \in Procs, SafeOK(p), LockFails(p)
  PROVE  SafeOK(p)' /\ Disciplined(p)
<1>1. /\ UNCHANGED <<tokenLock, stsLock, tokenCache, stsCache>>
      /\ Finish(p, "failed") /\ "lock" \in Faults
      /\ pc[p] \in Inside \cup {"lockToken"}
  BY DEF LockFails, shared, lockVars, cacheVars, Inside, PCs
<1>. QED  BY <1>1, FinishSafe, QuietDisciplined DEF Verdicts

\* One token lock after the other: the last one, or the one of its own token, is
\* held from then on.
LEMMA AcquireTokenSafe ==
  ASSUME WellFormed, NEW p \in Procs, SafeOK(p), AcquireTokenLock(p)
  PROVE  SafeOK(p)' /\ Disciplined(p)
<1>1. PICK k \in job[p].want \cap TokenKeys :
        /\ tokenLock[k] = NoProc
        /\ tokenLock' = [tokenLock EXCEPT ![k] = p]
        /\ job' = [job EXCEPT ![p].want = @ \ {k}]
        /\ IF job[p].want = {k} THEN Goto(p, AfterTokenLocks(p)) ELSE UNCHANGED pc
  BY DEF AcquireTokenLock
<1>2. /\ pc[p] = "lockToken" /\ UNCHANGED <<stsLock, tokenCache, stsCache>>
      /\ JobAt(pc[p], job[p]) /\ job[p] \in JobSet
  BY JobTypes DEF AcquireTokenLock, cacheVars
<1>3. /\ Kept(job[p], job'[p]) /\ job'[p].want = job[p].want \ {k}
      /\ job'[p].new = job[p].new /\ job'[p].sts = job[p].sts
      /\ job'[p].exch = job[p].exch
  BY <1>1, <1>2 DEF Kept, JobSet, WellFormed, TypeOK
<1>4. \/ pc'[p] = "lockToken"
      \/ /\ job[p].want = {k} /\ pc'[p] = AfterTokenLocks(p)
         /\ pc'[p] \in {"readToken", "collect", "snapshot"}
         /\ pc'[p] = "readToken" => job[p].op = "retrieve"
         /\ pc'[p] = "collect" => job[p].op = "logout"
  BY <1>1, <1>2 DEF AfterTokenLocks, Goto, WellFormed, TypeOK
<1>5. \A m \in TokenKeys : tokenLock'[m] = IF m = k THEN p ELSE tokenLock[m]
  BY <1>1 DEF WellFormed, TypeOK, SharedTypeOK
<1>6. /\ TokenKey(p)' = TokenKey(p) /\ StsKey(p)' = StsKey(p)
      /\ OldKey(p)' = OldKey(p) /\ TokenKey(p) \in TokenKeys
  BY <1>2, <1>3, KeysOK DEF Kept, TokenKey, StsKey, OldKey
<1>7. TokenKey(p) \notin job[p].want \ {k} => tokenLock'[TokenKey(p)] = p
  BY <1>2, <1>5, <1>6 DEF SafeOK, LockOK, HoldsToken
<1>8. job[p].new = 0 /\ ~(job[p].op = "retrieve" /\ job[p].exch)
  BY <1>2 DEF SafeOK, LockOK, HoldsToken, HoldsSts
<1>9. HoldsToken(p)'
  BY <1>3, <1>4, <1>6, <1>7, <1>8 DEF HoldsToken, Inside, Kept
<1>10. HoldsSts(p)' /\ HoldsOld(p)' /\ HoldsAll(p)'
  BY <1>2, <1>3, <1>4, <1>6, <1>8
  DEF HoldsSts, HoldsOld, HoldsAll, Kept, SafeOK, LockOK, OldBindingChanged
<1>11. CacheOK(p)'
  BY <1>4 DEF CacheOK, KnowsCaches, OldIsAway, PutBack
<1>12. Disciplined(p)
  <2>1. p # NoProc /\ NoProc \notin Procs
    BY StoreAssumption DEF StoreAssumption
  <2>. QED  BY <1>1, <1>2, <1>5, <2>1 DEF Disciplined
<1>. QED  BY <1>9, <1>10, <1>11, <1>12 DEF SafeOK, LockOK

LEMMA AcquireStsSafe ==
  ASSUME WellFormed, NEW p \in Procs, SafeOK(p), AcquireStsLock(p)
  PROVE  SafeOK(p)' /\ Disciplined(p)
<1>1. PICK k \in job[p].want \cap StsKeys :
        /\ stsLock[k] = NoProc
        /\ stsLock' = [stsLock EXCEPT ![k] = p]
        /\ job' = [job EXCEPT ![p].want = @ \ {k}]
        /\ IF job[p].want = {k}
             THEN Goto(p, CASE job[p].op = "retrieve" -> "readSts"
                            [] job[p].op = "logout" -> "check"
                            [] OTHER -> "deleteOldSts")
             ELSE UNCHANGED pc
  BY DEF AcquireStsLock
<1>2. /\ pc[p] = "lockSts" /\ UNCHANGED <<tokenLock, tokenCache, stsCache>>
      /\ JobAt(pc[p], job[p]) /\ job[p] \in JobSet
      /\ job[p].op \in {"retrieve", "logout", "configure"}
  BY JobTypes DEF AcquireStsLock, cacheVars, JobAt, JobSet, Commands
<1>3. /\ Kept(job[p], job'[p]) /\ job'[p].want = job[p].want \ {k}
      /\ job'[p].new = job[p].new /\ job'[p].sts = job[p].sts
      /\ job'[p].exch = job[p].exch /\ job'[p].keys = job[p].keys
      /\ job'[p].tok = job[p].tok
  BY <1>1, <1>2 DEF Kept, JobSet, WellFormed, TypeOK
<1>4. \/ pc'[p] = "lockSts" /\ job[p].want # {k}
      \/ /\ job[p].want = {k}
         /\ \/ pc'[p] = "readSts" /\ job[p].op = "retrieve"
            \/ pc'[p] = "check" /\ job[p].op = "logout"
            \/ pc'[p] = "deleteOldSts" /\ job[p].op = "configure"
  BY <1>1, <1>2 DEF Goto, WellFormed, TypeOK
<1>5. \A m \in StsKeys : stsLock'[m] = IF m = k THEN p ELSE stsLock[m]
  BY <1>1 DEF WellFormed, TypeOK, SharedTypeOK
<1>6. /\ TokenKey(p)' = TokenKey(p) /\ StsKey(p)' = StsKey(p)
      /\ OldKey(p)' = OldKey(p) /\ TokenKey(p) \in TokenKeys
      /\ job[p].keys \subseteq StsKeys
  BY <1>2, <1>3, KeysOK DEF Kept, TokenKey, StsKey, OldKey
<1>7. HoldsToken(p)'
  BY <1>2, <1>3, <1>4, <1>6 DEF SafeOK, LockOK, HoldsToken, Inside, Kept, PCs
<1>8. HoldsSts(p)'
  BY <1>1, <1>2, <1>3, <1>4, <1>5, <1>6 DEF SafeOK, LockOK, HoldsSts, Kept
<1>9. HoldsOld(p)'
  BY <1>1, <1>2, <1>3, <1>4, <1>5, <1>6 DEF SafeOK, LockOK, HoldsOld, Kept
<1>10. HoldsAll(p)'
  BY <1>1, <1>2, <1>3, <1>4, <1>5, <1>6 DEF SafeOK, LockOK, HoldsAll, Kept
<1>11. KnowsCaches(p)'
  BY <1>2, <1>3, <1>4, <1>6 DEF SafeOK, CacheOK, KnowsCaches, Kept
<1>12. OldIsAway(p)' /\ PutBack(p)'
  BY <1>4 DEF OldIsAway, PutBack
<1>13. Disciplined(p)
  <2>1. NoProc \notin Procs
    BY StoreAssumption DEF StoreAssumption
  <2>. QED  BY <1>1, <1>2, <1>5, <2>1 DEF Disciplined
<1>. QED
  BY <1>7, <1>8, <1>9, <1>10, <1>11, <1>12, <1>13 DEF SafeOK, LockOK, CacheOK

-----------------------------------------------------------------------------
(* Retrieve                                                                 *)

\* A step that writes a cache under its lock is disciplined.
LEMMA TokenWriteDisciplined ==
  ASSUME WellFormed, NEW p \in Procs, NEW v, UNCHANGED <<tokenLock, stsLock, stsCache>>,
         tokenCache' = [tokenCache EXCEPT ![TokenKey(p)] = v],
         tokenLock[TokenKey(p)] = p
  PROVE  Disciplined(p)
BY DEF Disciplined, WellFormed, TypeOK, SharedTypeOK

LEMMA StsWriteDisciplined ==
  ASSUME WellFormed, NEW p \in Procs, NEW v, NEW k,
         UNCHANGED <<tokenLock, stsLock, tokenCache>>,
         stsCache' = [stsCache EXCEPT ![k] = v], stsLock[k] = p
  PROVE  Disciplined(p)
BY DEF Disciplined, WellFormed, TypeOK, SharedTypeOK

\* Where Retrieve holds the STS lock.
UnderSts == {"readSts", "exchange", "persistSts", "patch", "mark", "reread", "return"}

\* Retrieve goes from one of its points to another.
RetrieveMove(p) ==
  /\ pc[p] \in RetrievePCs
  /\ pc'[p] \in (RetrievePCs \ {"readToken", "readSts"}) \cup {"lockSts"}
  /\ Kept(job[p], job'[p]) /\ job'[p].new = job[p].new
  /\ pc'[p] \in UnderSts \/ job'[p].exch => pc[p] \in UnderSts \/ job[p].exch
  /\ pc'[p] = "lockSts" => ~job'[p].exch /\ job'[p].want = {StsKey(p)}

LEMMA RetrieveGoesOn ==
  ASSUME WellFormed, NEW p \in Procs, SafeOK(p), RetrieveMove(p),
         UNCHANGED <<tokenLock, stsLock>>, KnowsCaches(p)'
  PROVE  SafeOK(p)'
<1>. USE DEF RetrieveMove
<1>1. job[p].op = "retrieve" /\ job'[p].op = "retrieve"
  BY JobTypes DEF JobAt, Kept
<1>2. /\ TokenKey(p)' = TokenKey(p) /\ StsKey(p)' = StsKey(p)
  BY DEF Kept, TokenKey, StsKey
<1>3. tokenLock[TokenKey(p)] = p /\ job'[p].new = 0
  BY <1>1 DEF SafeOK, LockOK, HoldsToken, Inside, RetrievePCs, PCs
<1>4. pc[p] \in UnderSts \/ job[p].exch => stsLock[StsKey(p)] = p
  BY <1>1 DEF SafeOK, LockOK, HoldsSts, UnderSts, RetrievePCs
<1>5. HoldsToken(p)'
  BY <1>2, <1>3 DEF HoldsToken, RetrievePCs
<1>6. HoldsSts(p)'
  BY <1>2, <1>4 DEF HoldsSts, UnderSts, RetrievePCs
<1>7. HoldsOld(p)' /\ HoldsAll(p)'
  BY <1>1 DEF HoldsOld, HoldsAll
<1>8. OldIsAway(p)' /\ PutBack(p)'
  BY <1>3 DEF OldIsAway, PutBack, RetrievePCs
<1>. QED  BY <1>5, <1>6, <1>7, <1>8 DEF SafeOK, LockOK, CacheOK

LEMMA RetrieveFinishes ==
  ASSUME WellFormed, NEW p \in Procs, SafeOK(p), pc[p] \in RetrievePCs,
         NEW v \in Verdicts, Finish(p, v), UNCHANGED <<tokenLock, stsLock>>
  PROVE  SafeOK(p)'
<1>1. job[p].op = "retrieve" /\ job[p].new = 0
  BY JobTypes DEF JobAt, SafeOK, LockOK, HoldsToken
<1>. QED  BY <1>1, FinishSafe DEF Inside, PCs, RetrievePCs

\* The steps that change no file.
LEMMA RetrieveQuietSafe ==
  ASSUME WellFormed, NEW p \in Procs, SafeOK(p),
         \/ ReadToken(p) \/ ReadTokenFails(p)
         \/ RefreshGranted(p) \/ RefreshAnswerLost(p) \/ RefreshRefused(p)
         \/ ReadSts(p) \/ ReadStsFails(p)
         \/ ExchangeGranted(p) \/ ExchangeFails(p)
         \/ Reread(p) \/ RereadFails(p) \/ Return(p)
  PROVE  SafeOK(p)' /\ Disciplined(p)
<1>1. /\ pc[p] \in RetrievePCs /\ UNCHANGED <<tokenLock, stsLock>>
      /\ UNCHANGED <<tokenLock, stsLock, tokenCache, stsCache>>
  BY DEF ReadToken, ReadTokenFails, RefreshGranted, RefreshAnswerLost, RefreshRefused,
         ReadSts, ReadStsFails, ExchangeGranted, ExchangeFails, Reread, RereadFails,
         Return, ReadFails, RetrievePCs, shared, cacheVars, lockVars
<1>2. Disciplined(p)
  BY <1>1, QuietDisciplined
<1>3. /\ job[p].op = "retrieve" /\ job[p] \in JobSet
      /\ TokenKey(p) \in TokenKeys /\ StsKey(p) \in StsKeys
  BY <1>1, JobTypes DEF JobAt, RetrievePCs
<1>4. ASSUME NEW v \in Verdicts, Finish(p, v) PROVE SafeOK(p)'
  BY <1>1, <1>4, RetrieveFinishes
<1>5. Kept(job[p], job'[p]) =>
        TokenKey(p)' = TokenKey(p) /\ StsKey(p)' = StsKey(p)
  BY DEF Kept, TokenKey, StsKey
<1>6. CASE ReadToken(p) /\ ~Finish(p, "failed")
  <2>. DEFINE tok == tokenCache[TokenKey(p)]
  <2>1. /\ tok # NoToken
        /\ pc'[p] = IF Fresh(tok.at) THEN "lockSts" ELSE "refresh"
        /\ job' = [job EXCEPT ![p].tok = tok, ![p].want = NeedSts(p)]
    BY <1>6 DEF ReadToken, Goto, WellFormed, TypeOK
  <2>2. /\ Kept(job[p], job'[p]) /\ job'[p].tok = tok /\ job'[p].want = NeedSts(p)
        /\ job'[p].new = job[p].new /\ job'[p].exch = job[p].exch
    BY <1>3, <2>1 DEF Kept, JobSet, WellFormed, TypeOK
  <2>3. ~job[p].exch
    BY <1>3, <1>6 DEF ReadToken, SafeOK, LockOK, HoldsSts
  <2>4. KnowsCaches(p)'
    BY <1>1, <1>5, <2>1, <2>2 DEF KnowsCaches
  <2>5. RetrieveMove(p)
    BY <1>1, <2>1, <2>2, <2>3
    DEF NeedSts, RetrieveMove, RetrievePCs, UnderSts
  <2>. QED  BY <1>1, <1>2, <2>4, <2>5, RetrieveGoesOn
<1>7. CASE RefreshGranted(p)
  <2>1. PICK rt : job' = [job EXCEPT ![p].tok = [at |-> issued', rt |-> rt]]
    BY <1>7 DEF RefreshGranted
  <2>2. /\ Kept(job[p], job'[p]) /\ job'[p].tok = [at |-> issued', rt |-> rt]
        /\ job'[p].new = job[p].new /\ job'[p].exch = job[p].exch
    BY <1>3, <2>1 DEF Kept, JobSet, WellFormed, TypeOK
  <2>3. pc[p] = "refresh" /\ pc'[p] = "persistToken"
    BY <1>7 DEF RefreshGranted, Goto, WellFormed, TypeOK
  <2>4. job'[p].tok # NoToken
    <3>1. issued \in Nat /\ issued' = issued + 1
      BY <1>7 DEF RefreshGranted, WellFormed, TypeOK, SharedTypeOK
    <3>. QED  BY <2>2, <3>1 DEF NoToken
  <2>5. KnowsCaches(p)'
    BY <2>3, <2>4 DEF KnowsCaches
  <2>6. RetrieveMove(p)
    BY <1>1, <2>2, <2>3
    DEF RetrieveMove, RetrievePCs, UnderSts
  <2>. QED  BY <1>1, <1>2, <2>5, <2>6, RetrieveGoesOn
<1>8. CASE ReadSts(p)
  <2>. DEFINE sts == stsCache[StsKey(p)]
  <2>1. pc[p] = "readSts" /\ pc[p] \in UnderSts
    BY <1>8 DEF ReadSts, UnderSts
  <2>2. CASE sts # NoSts /\ Fresh(sts.id)
    <3>1. /\ pc'[p] = IF job[p].prof \in sts.targets THEN "return" ELSE "patch"
          /\ job' = [job EXCEPT ![p].sts = sts]
      BY <1>8, <2>2 DEF ReadSts, Goto, WellFormed, TypeOK
    <3>2. /\ Kept(job[p], job'[p]) /\ job'[p].tok = job[p].tok
          /\ job'[p].new = job[p].new /\ job'[p].sts = sts
      BY <1>3, <3>1 DEF Kept, JobSet, WellFormed, TypeOK
    <3>3. /\ job[p].tok = tokenCache[TokenKey(p)] /\ job[p].tok # NoToken
      BY <1>3, <2>1 DEF SafeOK, CacheOK, KnowsCaches
    <3>4. KnowsCaches(p)'
      BY <1>1, <1>5, <3>1, <3>2, <3>3 DEF KnowsCaches, Kept
    <3>5. RetrieveMove(p)
      BY <1>1, <2>1, <3>1, <3>2
      DEF RetrieveMove, RetrievePCs, UnderSts
    <3>. QED  BY <1>1, <1>2, <3>4, <3>5, RetrieveGoesOn
  <2>3. CASE ~(sts # NoSts /\ Fresh(sts.id))
    <3>1. /\ pc'[p] \in {"exchange", "refresh"}
          /\ job' = [job EXCEPT ![p].exch = TRUE]
      BY <1>8, <2>3 DEF ReadSts, Goto, WellFormed, TypeOK
    <3>2. /\ Kept(job[p], job'[p]) /\ job'[p].tok = job[p].tok
          /\ job'[p].new = job[p].new
      BY <1>3, <3>1 DEF Kept, JobSet, WellFormed, TypeOK
    <3>3. /\ job[p].tok = tokenCache[TokenKey(p)] /\ job[p].tok # NoToken
      BY <1>3, <2>1 DEF SafeOK, CacheOK, KnowsCaches
    <3>4. KnowsCaches(p)'
      BY <1>1, <1>5, <3>1, <3>2, <3>3 DEF KnowsCaches, Kept
    <3>5. RetrieveMove(p)
      BY <1>1, <2>1, <3>1, <3>2
      DEF RetrieveMove, RetrievePCs, UnderSts
    <3>. QED  BY <1>1, <1>2, <3>4, <3>5, RetrieveGoesOn
  <2>. QED  BY <2>2, <2>3
<1>9. CASE ExchangeGranted(p)
  <2>1. /\ pc[p] = "exchange" /\ pc'[p] = "persistSts" /\ pc[p] \in UnderSts
        /\ job' = [job EXCEPT ![p].sts = [id |-> issued', targets |-> {}]]
    BY <1>9 DEF ExchangeGranted, Goto, WellFormed, TypeOK, UnderSts
  <2>2. /\ Kept(job[p], job'[p]) /\ job'[p].tok = job[p].tok
        /\ job'[p].new = job[p].new
    BY <1>3, <2>1 DEF Kept, JobSet, WellFormed, TypeOK
  <2>3. /\ job[p].tok = tokenCache[TokenKey(p)] /\ job[p].tok # NoToken
    BY <1>3, <2>1 DEF SafeOK, CacheOK, KnowsCaches
  <2>4. KnowsCaches(p)'
    BY <1>1, <1>5, <2>1, <2>2, <2>3 DEF KnowsCaches
  <2>5. RetrieveMove(p)
    BY <1>1, <2>1, <2>2
    DEF RetrieveMove, RetrievePCs, UnderSts
  <2>. QED  BY <1>1, <1>2, <2>4, <2>5, RetrieveGoesOn
<1>10. CASE Reread(p) /\ ~Finish(p, "failed")
  <2>1. /\ pc[p] = "reread" /\ pc'[p] = "return" /\ pc[p] \in UnderSts
        /\ job' = [job EXCEPT ![p].sts = stsCache[StsKey(p)]]
    BY <1>10 DEF Reread, Goto, WellFormed, TypeOK, UnderSts
  <2>2. /\ Kept(job[p], job'[p]) /\ job'[p].tok = job[p].tok
        /\ job'[p].new = job[p].new /\ job'[p].sts = stsCache[StsKey(p)]
    BY <1>3, <2>1 DEF Kept, JobSet, WellFormed, TypeOK
  <2>3. /\ job[p].sts = stsCache[StsKey(p)] /\ job[p].prof \in job[p].sts.targets
    BY <2>1 DEF SafeOK, CacheOK, KnowsCaches
  <2>4. KnowsCaches(p)'
    BY <1>1, <1>5, <2>1, <2>2, <2>3 DEF KnowsCaches, Kept
  <2>5. RetrieveMove(p)
    BY <1>1, <2>1, <2>2
    DEF RetrieveMove, RetrievePCs, UnderSts
  <2>. QED  BY <1>1, <1>2, <2>4, <2>5, RetrieveGoesOn
<1>. QED
  BY <1>2, <1>4, <1>6, <1>7, <1>8, <1>9, <1>10
  DEF ReadTokenFails, RefreshAnswerLost, RefreshRefused, ReadStsFails, ExchangeFails,
      RereadFails, Return, ReadFails, Verdicts

\* The steps that write a file: each the one whose lock it holds.
LEMMA RetrieveWritesSafe ==
  ASSUME WellFormed, NEW p \in Procs, SafeOK(p),
         PersistToken(p) \/ PersistSts(p) \/ PatchProfile(p) \/ PatchMismatch(p) \/ Mark(p)
  PROVE  SafeOK(p)' /\ Disciplined(p)
<1>1. pc[p] \in RetrievePCs /\ UNCHANGED <<tokenLock, stsLock>>
  BY DEF PersistToken, PersistSts, PatchProfile, PatchMismatch, Mark, RetrievePCs,
         lockVars
<1>2. /\ job[p].op = "retrieve" /\ job[p] \in JobSet
      /\ TokenKey(p) \in TokenKeys /\ StsKey(p) \in StsKeys
  BY <1>1, JobTypes DEF JobAt, RetrievePCs
<1>3. ASSUME NEW v \in Verdicts, Finish(p, v) PROVE SafeOK(p)'
  BY <1>1, <1>3, RetrieveFinishes
<1>4. Kept(job[p], job'[p]) =>
        TokenKey(p)' = TokenKey(p) /\ StsKey(p)' = StsKey(p)
  BY DEF Kept, TokenKey, StsKey
<1>5. Kept(job[p], job[p])
  BY DEF Kept
<1>6. tokenLock[TokenKey(p)] = p
  BY <1>1, <1>2 DEF SafeOK, LockOK, HoldsToken, Inside, RetrievePCs, PCs
<1>7. pc[p] \in UnderSts => stsLock[StsKey(p)] = p
  BY <1>1, <1>2 DEF SafeOK, LockOK, HoldsSts, UnderSts
<1>8. CASE PersistToken(p)
  <2>1. PICK v : tokenCache' = [tokenCache EXCEPT ![TokenKey(p)] = v]
    BY <1>8 DEF PersistToken
  <2>2. Disciplined(p)
    BY <1>1, <1>6, <1>8, <2>1, TokenWriteDisciplined DEF PersistToken
  <2>3. ASSUME ~Finish(p, "failed") PROVE SafeOK(p)'
    <3>1. /\ tokenCache' = [tokenCache EXCEPT ![TokenKey(p)] = job[p].tok]
          /\ pc[p] = "persistToken" /\ pc'[p] = WithUsableToken(p)
          /\ job' = [job EXCEPT ![p].want = NeedSts(p)] /\ UNCHANGED stsCache
      BY <1>8, <2>3 DEF PersistToken, Goto, After, WellFormed, TypeOK
    <3>2. /\ Kept(job[p], job'[p]) /\ job'[p].tok = job[p].tok
          /\ job'[p].want = NeedSts(p) /\ job'[p].sts = job[p].sts
          /\ job'[p].new = job[p].new /\ job'[p].exch = job[p].exch
      BY <1>2, <3>1 DEF Kept, JobSet, WellFormed, TypeOK
    <3>3. tokenCache'[TokenKey(p)] = job[p].tok
      BY <1>2, <3>1 DEF WellFormed, TypeOK, SharedTypeOK
    <3>4. job[p].tok # NoToken
      BY <1>2, <3>1 DEF SafeOK, CacheOK, KnowsCaches
    <3>5. KnowsCaches(p)'
      BY <1>4, <3>1, <3>2, <3>3, <3>4 DEF KnowsCaches, WithUsableToken
    <3>6. RetrieveMove(p)
      BY <1>1, <3>1, <3>2
      DEF NeedSts, RetrieveMove, RetrievePCs, UnderSts, WithUsableToken
    <3>. QED  BY <1>1, <3>5, <3>6, RetrieveGoesOn
  <2>. QED  BY <1>3, <2>2, <2>3 DEF Verdicts
<1>9. CASE PersistSts(p)
  <2>1. /\ pc[p] = "persistSts" /\ pc[p] \in UnderSts /\ UNCHANGED tokenCache
    BY <1>9 DEF PersistSts, UnderSts
  <2>2. Disciplined(p)
    <3>1. CASE UNCHANGED stsCache
      BY <1>1, <2>1, <3>1, QuietDisciplined
    <3>2. CASE stsCache' # stsCache
      <4>1. PICK v : stsCache' = [stsCache EXCEPT ![StsKey(p)] = v]
        BY <1>9, <3>2 DEF PersistSts
      <4>. QED  BY <1>1, <1>7, <2>1, <4>1, StsWriteDisciplined
    <3>. QED  BY <3>1, <3>2
  <2>3. ASSUME ~Finish(p, "failed") PROVE SafeOK(p)'
    <3>1. /\ stsCache' = [stsCache EXCEPT ![StsKey(p)] = job[p].sts]
          /\ pc'[p] = "patch" /\ UNCHANGED job
      BY <1>9, <2>3 DEF PersistSts, Goto, After, WellFormed, TypeOK
    <3>2. stsCache'[StsKey(p)] = job[p].sts
      BY <1>2, <3>1 DEF WellFormed, TypeOK, SharedTypeOK
    <3>3. job[p].tok = tokenCache[TokenKey(p)] /\ job[p].tok # NoToken
      BY <1>2, <2>1 DEF SafeOK, CacheOK, KnowsCaches
    <3>4. KnowsCaches(p)'
      BY <1>4, <1>5, <2>1, <3>1, <3>2, <3>3 DEF KnowsCaches
    <3>5. RetrieveMove(p)
      BY <1>1, <1>5, <2>1, <3>1
      DEF RetrieveMove, RetrievePCs, UnderSts
    <3>. QED  BY <1>1, <3>4, <3>5, RetrieveGoesOn
  <2>. QED  BY <1>3, <2>2, <2>3 DEF Verdicts
<1>10. CASE PatchProfile(p)
  <2>1. /\ pc[p] = "patch" /\ pc[p] \in UnderSts /\ UNCHANGED <<tokenCache, stsCache>>
    BY <1>10 DEF PatchProfile, UnderSts, cacheVars
  <2>2. Disciplined(p)
    BY <1>1, <2>1, QuietDisciplined
  <2>3. ASSUME ~Finish(p, "failed") PROVE SafeOK(p)'
    <3>1. pc'[p] = "mark" /\ UNCHANGED job
      BY <1>10, <2>3 DEF PatchProfile, Goto, WellFormed, TypeOK
    <3>2. /\ job[p].tok = tokenCache[TokenKey(p)] /\ job[p].tok # NoToken
          /\ job[p].sts = stsCache[StsKey(p)]
      BY <1>2, <2>1 DEF SafeOK, CacheOK, KnowsCaches
    <3>3. KnowsCaches(p)'
      BY <1>4, <1>5, <2>1, <3>1, <3>2 DEF KnowsCaches
    <3>4. RetrieveMove(p)
      BY <1>1, <1>5, <2>1, <3>1
      DEF RetrieveMove, RetrievePCs, UnderSts
    <3>. QED  BY <1>1, <3>3, <3>4, RetrieveGoesOn
  <2>. QED  BY <1>3, <2>2, <2>3 DEF Verdicts
<1>11. CASE PatchMismatch(p)
  <2>1. /\ pc[p] = "patch" /\ pc[p] \in UnderSts /\ UNCHANGED tokenCache
        /\ Finish(p, "failed")
    BY <1>11 DEF PatchMismatch, UnderSts
  <2>2. Disciplined(p)
    <3>1. CASE UNCHANGED stsCache
      BY <1>1, <2>1, <3>1, QuietDisciplined
    <3>2. CASE stsCache' # stsCache
      <4>1. PICK v : stsCache' = [stsCache EXCEPT ![StsKey(p)] = v]
        BY <1>11, <3>2 DEF PatchMismatch
      <4>. QED  BY <1>1, <1>7, <2>1, <4>1, StsWriteDisciplined
    <3>. QED  BY <3>1, <3>2
  <2>. QED  BY <1>3, <2>1, <2>2 DEF Verdicts
<1>12. CASE Mark(p)
  <2>. DEFINE sts == [job[p].sts EXCEPT !.targets = @ \cup {job[p].prof}]
  <2>1. /\ pc[p] = "mark" /\ pc[p] \in UnderSts /\ UNCHANGED tokenCache
    BY <1>12 DEF Mark, UnderSts
  <2>2. Disciplined(p)
    <3>1. PICK v : stsCache' = [stsCache EXCEPT ![StsKey(p)] = v]
      BY <1>12 DEF Mark
    <3>. QED  BY <1>1, <1>7, <2>1, <3>1, StsWriteDisciplined
  <2>3. ASSUME ~Finish(p, "failed") PROVE SafeOK(p)'
    <3>1. /\ stsCache' = [stsCache EXCEPT ![StsKey(p)] = sts]
          /\ pc'[p] = "reread" /\ job' = [job EXCEPT ![p].sts = sts]
      BY <1>12, <2>3 DEF Mark, Goto, After, WellFormed, TypeOK
    <3>2. stsCache'[StsKey(p)] = sts
      BY <1>2, <3>1 DEF WellFormed, TypeOK, SharedTypeOK
    <3>3. job[p].prof \in sts.targets
      BY <1>2, JobTypes DEF StsSet
    <3>. HIDE DEF sts
    <3>4. /\ Kept(job[p], job'[p]) /\ job'[p].tok = job[p].tok
          /\ job'[p].new = job[p].new /\ job'[p].sts = sts
      BY <1>2, <3>1 DEF Kept, JobSet, WellFormed, TypeOK
    <3>5. KnowsCaches(p)'
      BY <1>4, <3>1, <3>2, <3>3, <3>4 DEF KnowsCaches, Kept
    <3>6. RetrieveMove(p)
      BY <1>1, <2>1, <3>1, <3>4
      DEF RetrieveMove, RetrievePCs, UnderSts
    <3>. QED  BY <1>1, <3>5, <3>6, RetrieveGoesOn
  <2>. QED  BY <1>3, <2>2, <2>3 DEF Verdicts
<1>. QED  BY <1>8, <1>9, <1>10, <1>11, <1>12

LEMMA RetrieveSafe ==
  ASSUME WellFormed, NEW p \in Procs, SafeOK(p), RetrieveStep(p)
  PROVE  SafeOK(p)' /\ Disciplined(p)
BY RetrieveQuietSafe, RetrieveWritesSafe DEF RetrieveStep

-----------------------------------------------------------------------------
(* The logins                                                               *)

\* A login goes from one of its points to another.
LEMMA LoginGoesOn ==
  ASSUME WellFormed, NEW p \in Procs, SafeOK(p),
         pc[p] \in LoginPCs \cup {"lockSts"}, job[p].op \in {"login", "configure"},
         pc'[p] \in (LoginPCs \ {"snapshot"}) \cup {"lockSts"},
         Kept(job[p], job'[p]), UNCHANGED <<tokenLock, stsLock>>,
         pc'[p] = "authorize" => job'[p].new = 0,
         HoldsOld(p)', OldIsAway(p)', PutBack(p)'
  PROVE  SafeOK(p)'
<1>1. TokenKey(p)' = TokenKey(p)
  BY DEF Kept, TokenKey
<1>2. tokenLock[TokenKey(p)] = p /\ job'[p].op \in {"login", "configure"}
  BY DEF SafeOK, LockOK, HoldsToken, Inside, LoginPCs, PCs, Kept
<1>3. HoldsToken(p)'
  BY <1>1, <1>2 DEF HoldsToken, LoginPCs
<1>4. HoldsSts(p)' /\ HoldsAll(p)' /\ KnowsCaches(p)'
  BY <1>2 DEF HoldsSts, HoldsAll, KnowsCaches, LoginPCs
<1>. QED  BY <1>3, <1>4 DEF SafeOK, LockOK, CacheOK

\* From any point of a login its rollback keeps the locks.
LEMMA RollbackSafe ==
  ASSUME WellFormed, NEW p \in Procs, SafeOK(p), pc[p] \in LoginPCs, Rollback(p),
         UNCHANGED <<tokenLock, stsLock>>
  PROVE  SafeOK(p)'
<1>1. pc'[p] = "restoreToken" /\ UNCHANGED job
  BY DEF Rollback, Goto, WellFormed, TypeOK
<1>2. job[p].op \in {"login", "configure"} /\ Kept(job[p], job'[p])
  BY <1>1, JobTypes DEF JobAt, Kept
<1>3. HoldsOld(p)'
  BY <1>1 DEF SafeOK, LockOK, HoldsOld, OldKey
<1>4. OldIsAway(p)' /\ PutBack(p)'
  BY <1>1 DEF OldIsAway, PutBack
<1>. QED  BY <1>1, <1>2, <1>3, <1>4, LoginGoesOn DEF LoginPCs

LEMMA LoginSafe ==
  ASSUME WellFormed, NEW p \in Procs, SafeOK(p), LoginStep(p)
  PROVE  SafeOK(p)' /\ Disciplined(p)
<1>1. pc[p] \in LoginPCs /\ UNCHANGED <<tokenLock, stsLock>>
  BY DEF LoginStep, Snapshot, SnapshotFails, Authorized, NotAuthorized, PersistLogin,
         CheckLogin, LoginStepFails, Bind, DeleteOldSts, DeleteOldStsFails,
         CommitBinding, RestoreToken, RestoreSts, ReadFails, LoginPCs, lockVars, shared
<1>2. /\ job[p].op \in {"login", "configure"} /\ job[p] \in JobSet
      /\ TokenKey(p) \in TokenKeys /\ JobAt(pc[p], job[p])
  BY <1>1, JobTypes DEF JobAt, LoginPCs
<1>3. Kept(job[p], job'[p]) =>
        /\ TokenKey(p)' = TokenKey(p) /\ OldKey(p)' = OldKey(p)
        /\ OldBindingChanged(p)' = OldBindingChanged(p)
  BY DEF Kept, TokenKey, OldKey, StsKey, OldBindingChanged
<1>4. Kept(job[p], job[p])
  BY DEF Kept
<1>5. tokenLock[TokenKey(p)] = p
  BY <1>1, <1>2 DEF SafeOK, LockOK, HoldsToken, Inside, LoginPCs, PCs
<1>6. ASSUME Rollback(p) PROVE SafeOK(p)'
  BY <1>1, <1>6, RollbackSafe
<1>7. pc[p] \in Inside \cup {"lockToken"}
  BY <1>1 DEF Inside, PCs, LoginPCs
<1>8. CASE Snapshot(p)
  <2>1. pc[p] = "snapshot" /\ UNCHANGED <<tokenCache, stsCache>>
    BY <1>8 DEF Snapshot, shared, cacheVars
  <2>2. job[p].new = 0
    BY <2>1 DEF SafeOK, LockOK, HoldsToken
  <2>3. CASE Finish(p, "failed")
    BY <1>1, <1>7, <2>2, <2>3, <2>1, FinishSafe, QuietDisciplined DEF Verdicts
  <2>4. CASE ~Finish(p, "failed")
    <3>1. pc'[p] = "authorize" /\ job' = [job EXCEPT ![p].tok = tokenCache[TokenKey(p)]]
      BY <1>8, <2>4 DEF Snapshot, Goto, WellFormed, TypeOK
    <3>2. /\ Kept(job[p], job'[p]) /\ job'[p].new = job[p].new
          /\ job'[p].sts = job[p].sts
      BY <1>2, <3>1 DEF Kept, JobSet, WellFormed, TypeOK
    <3>3. HoldsOld(p)'
      BY <2>1, <3>1, <3>2 DEF HoldsOld, SafeOK, LockOK, Kept
    <3>4. OldIsAway(p)' /\ PutBack(p)'
      BY <3>1 DEF OldIsAway, PutBack
    <3>. QED  BY <1>1, <1>2, <2>1, <2>2, <3>1, <3>2, <3>3, <3>4, LoginGoesOn,
             QuietDisciplined DEF LoginPCs
  <2>. QED  BY <1>1, <2>1, <2>3, <2>4, QuietDisciplined
<1>9. CASE SnapshotFails(p)
  <2>1. job[p].new = 0 /\ Finish(p, "failed") /\ UNCHANGED <<tokenCache, stsCache>>
    BY <1>9 DEF SnapshotFails, ReadFails, SafeOK, LockOK, HoldsToken, shared, cacheVars
  <2>. QED  BY <1>1, <1>7, <2>1, FinishSafe, QuietDisciplined DEF Verdicts
<1>10. CASE Authorized(p)
  <2>1. /\ pc[p] = "authorize" /\ pc'[p] = "persistLogin"
        /\ job' = [job EXCEPT ![p].new = issued'] /\ UNCHANGED <<tokenCache, stsCache>>
    BY <1>10 DEF Authorized, Goto, WellFormed, TypeOK, cacheVars
  <2>2. /\ Kept(job[p], job'[p]) /\ job'[p].sts = job[p].sts
    BY <1>2, <2>1 DEF Kept, JobSet, WellFormed, TypeOK
  <2>3. HoldsOld(p)'
    BY <2>1, <2>2 DEF HoldsOld, SafeOK, LockOK, Kept
  <2>4. OldIsAway(p)' /\ PutBack(p)'
    BY <2>1 DEF OldIsAway, PutBack
  <2>5. SafeOK(p)'
    BY <1>1, <1>2, <2>1, <2>2, <2>3, <2>4, LoginGoesOn DEF LoginPCs
  <2>. QED  BY <1>1, <2>1, <2>5, QuietDisciplined
<1>11. CASE NotAuthorized(p) \/ LoginStepFails(p) \/ DeleteOldStsFails(p)
  <2>1. Rollback(p) /\ UNCHANGED <<tokenCache, stsCache>>
    BY <1>11 DEF NotAuthorized, LoginStepFails, DeleteOldStsFails, shared, cacheVars
  <2>. QED  BY <1>1, <1>6, <2>1, QuietDisciplined
<1>12. CASE PersistLogin(p)
  <2>1. /\ pc[p] = "persistLogin" /\ UNCHANGED <<job, stsCache>>
    BY <1>12 DEF PersistLogin, Rollback
  <2>2. Disciplined(p)
    <3>1. PICK v : tokenCache' = [tokenCache EXCEPT ![TokenKey(p)] = v]
      BY <1>12 DEF PersistLogin
    <3>. QED  BY <1>1, <1>5, <2>1, <3>1, TokenWriteDisciplined
  <2>3. CASE ~Rollback(p)
    <3>1. /\ pc'[p] \in {"checkLogin", "bind"}
      BY <1>12, <2>3 DEF PersistLogin, Goto, WellFormed, TypeOK
    <3>2. HoldsOld(p)'
      BY <2>1, <3>1 DEF HoldsOld, SafeOK, LockOK
    <3>3. OldIsAway(p)' /\ PutBack(p)'
      BY <3>1 DEF OldIsAway, PutBack
    <3>. QED
      BY <1>1, <1>2, <1>4, <2>1, <2>2, <3>1, <3>2, <3>3, LoginGoesOn DEF LoginPCs
  <2>. QED  BY <1>6, <2>2, <2>3
<1>13. CASE CheckLogin(p)
  <2>1. UNCHANGED <<tokenCache, stsCache>>
    BY <1>13 DEF CheckLogin, shared, cacheVars
  <2>2. CASE Finish(p, "ok")
    <3>1. "ok" \in Verdicts /\ "ok" # "failed"
      BY DEF Verdicts
    <3>. QED  BY <1>1, <1>7, <2>2, <2>1, <3>1, FinishSafe, QuietDisciplined
  <2>. QED  BY <1>1, <1>6, <1>13, <2>1, <2>2, QuietDisciplined DEF CheckLogin
<1>14. CASE Bind(p)
  <2>1. /\ pc[p] = "bind" /\ UNCHANGED <<tokenCache, stsCache>>
    BY <1>14 DEF Bind, shared, cacheVars
  <2>2. job[p].op = "configure" /\ job[p].sts = NoSts
    BY <1>2, <2>1 DEF JobAt, SafeOK, LockOK, HoldsOld
  <2>3. \/ /\ OldBindingChanged(p) /\ pc'[p] = "lockSts"
           /\ job' = [job EXCEPT ![p].want = {OldKey(p)}]
        \/ ~OldBindingChanged(p) /\ pc'[p] = "commit" /\ UNCHANGED job
    BY <1>14 DEF Bind, Goto, WellFormed, TypeOK
  <2>4. /\ Kept(job[p], job'[p]) /\ job'[p].sts = job[p].sts
        /\ pc'[p] = "lockSts" => job'[p].want = {OldKey(p)}
    BY <1>2, <2>3 DEF Kept, JobSet, WellFormed, TypeOK
  <2>5. HoldsOld(p)'
    BY <1>3, <2>2, <2>3, <2>4 DEF HoldsOld
  <2>6. OldIsAway(p)' /\ PutBack(p)'
    BY <1>3, <2>3, <2>4 DEF OldIsAway, PutBack
  <2>7. SafeOK(p)'
    BY <1>1, <1>2, <2>3, <2>4, <2>5, <2>6, LoginGoesOn DEF LoginPCs
  <2>. QED  BY <1>1, <2>1, <2>7, QuietDisciplined
<1>15. CASE DeleteOldSts(p)
  <2>1. /\ pc[p] = "deleteOldSts" /\ pc'[p] = "commit" /\ UNCHANGED tokenCache
        /\ job' = [job EXCEPT ![p].sts = stsCache[OldKey(p)]]
        /\ stsCache' = [stsCache EXCEPT ![OldKey(p)] = NoSts]
    BY <1>15 DEF DeleteOldSts, Goto, WellFormed, TypeOK
  <2>2. /\ job[p].op = "configure" /\ stsLock[OldKey(p)] = p /\ OldKey(p) \in StsKeys
    BY <1>2, <2>1, JobTypes DEF JobAt, SafeOK, LockOK, HoldsOld
  <2>3. Kept(job[p], job'[p]) /\ stsCache'[OldKey(p)] = NoSts
    BY <1>2, <2>1, <2>2 DEF Kept, JobSet, WellFormed, TypeOK, SharedTypeOK
  <2>4. HoldsOld(p)' /\ OldIsAway(p)' /\ PutBack(p)'
    BY <1>1, <1>3, <2>1, <2>2, <2>3 DEF HoldsOld, OldIsAway, PutBack
  <2>5. SafeOK(p)'
    BY <1>1, <1>2, <2>1, <2>3, <2>4, LoginGoesOn DEF LoginPCs
  <2>. QED  BY <1>1, <2>1, <2>2, <2>5, StsWriteDisciplined
<1>16. CASE CommitBinding(p)
  <2>1. UNCHANGED <<tokenCache, stsCache>>
    BY <1>16 DEF CommitBinding, cacheVars
  <2>2. CASE Finish(p, "ok")
    <3>1. "ok" \in Verdicts /\ "ok" # "failed"
      BY DEF Verdicts
    <3>. QED  BY <1>1, <1>7, <2>2, <2>1, <3>1, FinishSafe, QuietDisciplined
  <2>. QED  BY <1>1, <1>6, <1>16, <2>1, <2>2, QuietDisciplined DEF CommitBinding
<1>17. CASE RestoreToken(p)
  <2>1. PICK o : /\ tokenCache' = [tokenCache EXCEPT ![TokenKey(p)] =
                                     After(o, job[p].tok, @)]
                 /\ job' = [job EXCEPT ![p].out =
                              IF o = "ok" THEN "failed" ELSE "unrolled"]
    BY <1>17 DEF RestoreToken
  <2>2. /\ pc[p] = "restoreToken" /\ UNCHANGED stsCache
        /\ pc'[p] = IF job[p].sts = NoSts THEN "unwind" ELSE "restoreSts"
    BY <1>17 DEF RestoreToken, Goto, WellFormed, TypeOK
  <2>3. /\ Kept(job[p], job'[p]) /\ job'[p].tok = job[p].tok
        /\ job'[p].new = job[p].new /\ job'[p].sts = job[p].sts
        /\ job'[p].out = IF o = "ok" THEN "failed" ELSE "unrolled"
    BY <1>2, <2>1 DEF Kept, JobSet, WellFormed, TypeOK
  <2>4. o = "ok" => tokenCache'[TokenKey(p)] = job[p].tok
    BY <1>2, <2>1 DEF After, WellFormed, TypeOK, SharedTypeOK
  <2>5. Disciplined(p)
    <3>1. PICK v : tokenCache' = [tokenCache EXCEPT ![TokenKey(p)] = v]
      BY <2>1
    <3>. QED  BY <1>1, <1>5, <2>2, <3>1, TokenWriteDisciplined
  <2>6. HoldsOld(p)' /\ OldIsAway(p)'
    BY <1>1, <1>3, <2>2, <2>3 DEF HoldsOld, OldIsAway, SafeOK, LockOK, Kept
  <2>7. PutBack(p)'
    BY <1>3, <2>2, <2>3, <2>4 DEF PutBack
  <2>8. CASE pc'[p] = "restoreSts"
    BY <1>1, <1>2, <2>3, <2>5, <2>6, <2>7, <2>8, LoginGoesOn DEF LoginPCs
  <2>9. CASE pc'[p] = "unwind"
    <3>1. HoldsToken(p)'
      BY <1>1, <1>3, <1>5, <2>3, <2>9, <1>2 DEF HoldsToken, Inside, Kept
    <3>2. HoldsSts(p)' /\ HoldsAll(p)' /\ KnowsCaches(p)'
      BY <1>2, <2>3, <2>9 DEF HoldsSts, HoldsAll, KnowsCaches, Kept
    <3>. QED  BY <2>5, <2>6, <2>7, <3>1, <3>2 DEF SafeOK, LockOK, CacheOK
  <2>. QED  BY <2>2, <2>8, <2>9
<1>18. CASE RestoreSts(p)
  <2>1. PICK o : /\ stsCache' = [stsCache EXCEPT ![OldKey(p)] =
                                   After(o, job[p].sts, @)]
                 /\ Finish(p, IF o = "ok" THEN job[p].out ELSE "unrolled")
    BY <1>18 DEF RestoreSts
  <2>2. /\ pc[p] = "restoreSts" /\ UNCHANGED tokenCache /\ pc'[p] = "unwind"
    BY <1>18, <2>1 DEF RestoreSts, Finish, Goto, WellFormed, TypeOK
  <2>3. /\ job[p].op = "configure" /\ job[p].sts # NoSts /\ OldKey(p) \in StsKeys
        /\ stsLock[OldKey(p)] = p
    BY <1>2, <2>2, JobTypes DEF JobAt, SafeOK, LockOK, HoldsOld
  <2>4. /\ Kept(job[p], job'[p]) /\ job'[p].tok = job[p].tok
        /\ job'[p].new = job[p].new /\ job'[p].sts = job[p].sts
        /\ job'[p].out = IF o = "ok" THEN job[p].out ELSE "unrolled"
    BY <1>2, <2>1 DEF Finish, Kept, JobSet, WellFormed, TypeOK
  <2>5. o = "ok" => stsCache'[OldKey(p)] = job[p].sts
    BY <2>1, <2>3 DEF After, WellFormed, TypeOK, SharedTypeOK
  <2>6. Disciplined(p)
    <3>1. PICK v : stsCache' = [stsCache EXCEPT ![OldKey(p)] = v]
      BY <2>1
    <3>. QED  BY <1>1, <2>2, <2>3, <3>1, StsWriteDisciplined
  <2>7. HoldsToken(p)'
    BY <1>1, <1>3, <1>5, <2>2, <2>3, <2>4 DEF HoldsToken, Inside, Kept
  <2>8. HoldsOld(p)' /\ OldIsAway(p)'
    BY <1>1, <1>3, <2>2, <2>3, <2>4 DEF HoldsOld, OldIsAway
  <2>9. HoldsSts(p)' /\ HoldsAll(p)' /\ KnowsCaches(p)'
    BY <2>2, <2>3, <2>4 DEF HoldsSts, HoldsAll, KnowsCaches, Kept
  <2>10. PutBack(p)'
    BY <1>3, <2>2, <2>4, <2>5 DEF PutBack, SafeOK, CacheOK
  <2>. QED  BY <2>6, <2>7, <2>8, <2>9, <2>10 DEF SafeOK, LockOK, CacheOK
<1>. QED
  BY <1>8, <1>9, <1>10, <1>11, <1>12, <1>13, <1>14, <1>15, <1>16, <1>17, <1>18
  DEF LoginStep

-----------------------------------------------------------------------------
(* The logout                                                               *)

\* A logout goes from one of its points to another, or ends.
LEMMA LogoutGoesOn ==
  ASSUME WellFormed, NEW p \in Procs, SafeOK(p), pc[p] \in LogoutPCs,
         pc'[p] \in LogoutPCs \cup {"lockSts", "unwind"},
         Kept(job[p], job'[p]), job'[p].new = job[p].new,
         UNCHANGED <<tokenLock, stsLock>>, HoldsAll(p)'
  PROVE  SafeOK(p)'
<1>1. job[p].op = "logout" /\ job'[p].op = "logout"
  BY JobTypes DEF JobAt, Kept
<1>2. tokenLock[TokenKey(p)] = p /\ job'[p].new = 0 /\ TokenKey(p)' = TokenKey(p)
  BY <1>1 DEF SafeOK, LockOK, HoldsToken, Inside, LogoutPCs, PCs, Kept, TokenKey
<1>3. HoldsToken(p)'
  BY <1>2 DEF HoldsToken
<1>4. HoldsSts(p)' /\ HoldsOld(p)' /\ KnowsCaches(p)' /\ OldIsAway(p)' /\ PutBack(p)'
  BY <1>1, <1>2
  DEF HoldsSts, HoldsOld, KnowsCaches, OldIsAway, PutBack, LogoutPCs
<1>. QED  BY <1>3, <1>4 DEF SafeOK, LockOK, CacheOK

LEMMA LogoutSafe ==
  ASSUME WellFormed, NEW p \in Procs, SafeOK(p), LogoutStep(p)
  PROVE  SafeOK(p)' /\ Disciplined(p)
<1>1. pc[p] \in LogoutPCs /\ UNCHANGED <<tokenLock, stsLock>>
  BY DEF LogoutStep, CollectKeys, CollectFails, CheckKeys, CheckFails, DeleteToken,
         DeleteSts, ClearProfiles, Revoke, ReadFails, LogoutPCs, lockVars, shared
<1>2. /\ job[p].op = "logout" /\ job[p] \in JobSet
      /\ TokenKey(p) \in TokenKeys /\ JobAt(pc[p], job[p])
  BY <1>1, JobTypes DEF JobAt, LogoutPCs
<1>3. tokenLock[TokenKey(p)] = p /\ job[p].new = 0
  BY <1>1, <1>2 DEF SafeOK, LockOK, HoldsToken, Inside, LogoutPCs, PCs
<1>4. pc[p] \in Inside \cup {"lockToken"}
  BY <1>1 DEF Inside, PCs, LogoutPCs
<1>5. ASSUME NEW v \in Verdicts, Finish(p, v) PROVE SafeOK(p)'
  BY <1>1, <1>3, <1>4, <1>5, FinishSafe
<1>6. CASE CollectKeys(p)
  <2>1. UNCHANGED <<tokenCache, stsCache>>
    BY <1>6 DEF CollectKeys, shared, cacheVars
  <2>2. ASSUME ~Finish(p, "failed") PROVE SafeOK(p)'
    <3>1. PICK keys : /\ keys = KeysOf(job[p].ses)
                      /\ job' = [job EXCEPT ![p].want = keys, ![p].keys = keys]
                      /\ pc'[p] = IF keys = {} THEN "check" ELSE "lockSts"
      BY <1>6, <2>2 DEF CollectKeys, Goto, WellFormed, TypeOK
    <3>2. /\ Kept(job[p], job'[p]) /\ job'[p].new = job[p].new
          /\ job'[p].want = keys /\ job'[p].keys = keys
      BY <1>2, <3>1 DEF Kept, JobSet, WellFormed, TypeOK
    <3>3. HoldsAll(p)'
      BY <3>1, <3>2 DEF HoldsAll
    <3>. QED  BY <1>1, <3>1, <3>2, <3>3, LogoutGoesOn DEF LogoutPCs
  <2>. QED  BY <1>1, <1>5, <2>1, <2>2, QuietDisciplined DEF Verdicts
<1>7. CASE CheckKeys(p)
  <2>1. UNCHANGED <<tokenCache, stsCache>>
    BY <1>7 DEF CheckKeys, cacheVars
  <2>2. ASSUME ~Finish(p, "failed") PROVE SafeOK(p)'
    <3>1. /\ job' = [job EXCEPT ![p].tok = tokenCache[TokenKey(p)], ![p].out = "ok"]
          /\ pc[p] = "check" /\ pc'[p] = "deleteToken"
      BY <1>7, <2>2 DEF CheckKeys, Goto, WellFormed, TypeOK
    <3>2. /\ Kept(job[p], job'[p]) /\ job'[p].new = job[p].new
          /\ job'[p].keys = job[p].keys
      BY <1>2, <3>1 DEF Kept, JobSet, WellFormed, TypeOK
    <3>3. HoldsAll(p)'
      BY <1>1, <3>1, <3>2 DEF HoldsAll, SafeOK, LockOK, Kept
    <3>. QED  BY <1>1, <3>1, <3>2, <3>3, LogoutGoesOn DEF LogoutPCs
  <2>. QED  BY <1>1, <1>5, <2>1, <2>2, QuietDisciplined DEF Verdicts
<1>8. CASE CollectFails(p) \/ CheckFails(p)
  <2>1. UNCHANGED <<tokenCache, stsCache>> /\ Finish(p, "failed")
    BY <1>8 DEF CollectFails, CheckFails, ReadFails, shared, cacheVars
  <2>. QED  BY <1>1, <1>5, <2>1, QuietDisciplined DEF Verdicts
<1>9. CASE DeleteToken(p)
  <2>1. PICK v : job' = [job EXCEPT ![p].out = v, ![p].want = job[p].keys]
    BY <1>9 DEF DeleteToken
  <2>2. PICK t : tokenCache' = [tokenCache EXCEPT ![TokenKey(p)] = t]
    BY <1>9 DEF DeleteToken
  <2>3. /\ pc[p] = "deleteToken" /\ pc'[p] \in {"clearProfiles", "deleteSts"}
        /\ UNCHANGED stsCache
    BY <1>9 DEF DeleteToken, Goto, WellFormed, TypeOK
  <2>4. /\ Kept(job[p], job'[p]) /\ job'[p].new = job[p].new
        /\ job'[p].keys = job[p].keys /\ job'[p].want = job[p].keys
    BY <1>2, <2>1 DEF Kept, JobSet, WellFormed, TypeOK
  <2>5. HoldsAll(p)'
    BY <1>1, <2>3, <2>4 DEF HoldsAll, SafeOK, LockOK, Kept
  <2>6. SafeOK(p)'
    BY <1>1, <2>3, <2>4, <2>5, LogoutGoesOn DEF LogoutPCs
  <2>. QED  BY <1>1, <1>3, <2>2, <2>3, <2>6, TokenWriteDisciplined
<1>10. CASE DeleteSts(p)
  <2>1. PICK k \in job[p].want \cap StsKeys, o \in DeleteOutcomes :
          /\ stsCache' = [stsCache EXCEPT ![k] = After(o, NoSts, @)]
          /\ job' = [job EXCEPT ![p].out = Worse(p, o), ![p].want = @ \ {k}]
          /\ Goto(p, IF job[p].want = {k} THEN "clearProfiles" ELSE "deleteSts")
    BY <1>10 DEF DeleteSts
  <2>2. /\ pc[p] = "deleteSts" /\ pc'[p] \in {"clearProfiles", "deleteSts"}
        /\ UNCHANGED tokenCache
    BY <1>10, <2>1 DEF DeleteSts, Goto, WellFormed, TypeOK
  <2>3. /\ Kept(job[p], job'[p]) /\ job'[p].new = job[p].new
        /\ job'[p].keys = job[p].keys /\ job'[p].want = job[p].want \ {k}
    <3>. DEFINE w == Worse(p, o)
    <3>1. job' = [job EXCEPT ![p].out = w, ![p].want = @ \ {k}]
      BY <2>1
    <3>. HIDE DEF w
    <3>. QED  BY <1>2, <3>1 DEF Kept, JobSet, WellFormed, TypeOK
  <2>4. stsLock[k] = p
    BY <1>2, <2>1, <2>2 DEF SafeOK, LockOK, HoldsAll
  <2>5. HoldsAll(p)'
    BY <1>1, <2>2, <2>3 DEF HoldsAll, SafeOK, LockOK, Kept
  <2>6. SafeOK(p)'
    BY <1>1, <2>2, <2>3, <2>5, LogoutGoesOn DEF LogoutPCs
  <2>7. PICK v : stsCache' = [stsCache EXCEPT ![k] = v]
    BY <2>1
  <2>. QED  BY <1>1, <2>2, <2>4, <2>6, <2>7, StsWriteDisciplined
<1>11. CASE ClearProfiles(p)
  <2>1. PICK v : job' = [job EXCEPT ![p].out = v]
    BY <1>11 DEF ClearProfiles
  <2>2. pc'[p] \in {"unwind", "revoke"} /\ UNCHANGED <<tokenCache, stsCache>>
    BY <1>11 DEF ClearProfiles, Goto, WellFormed, TypeOK, cacheVars
  <2>3. Kept(job[p], job'[p]) /\ job'[p].new = job[p].new
    BY <1>2, <2>1 DEF Kept, JobSet, WellFormed, TypeOK
  <2>4. HoldsAll(p)'
    BY <2>2 DEF HoldsAll
  <2>5. SafeOK(p)'
    BY <1>1, <2>2, <2>3, <2>4, LogoutGoesOn DEF LogoutPCs
  <2>. QED  BY <1>1, <2>2, <2>5, QuietDisciplined
<1>12. CASE Revoke(p)
  <2>1. PICK o : Finish(p, Worse(p, o))
    BY <1>12 DEF Revoke
  <2>2. Worse(p, o) \in Verdicts
    BY <1>2 DEF Worse, JobSet, Verdicts
  <2>3. UNCHANGED <<tokenCache, stsCache>>
    BY <1>12 DEF Revoke, cacheVars
  <2>. QED  BY <1>1, <1>5, <2>1, <2>2, <2>3, QuietDisciplined
<1>. QED
  BY <1>6, <1>7, <1>8, <1>9, <1>10, <1>11, <1>12 DEF LogoutStep

-----------------------------------------------------------------------------
(* All steps                                                                *)

\* A step of process p is not one of another process.
LEMMA OnlyOwn ==
  ASSUME NEW p \in Procs, StepOf(p), NEW q \in Procs \ {p}, WellFormed
  PROVE  pc'[q] = pc[q] /\ job'[q] = job[q]
<1>1. ASSUME NEW v, Finish(p, v) \/ Start(p, v) \/ Rollback(p)
      PROVE  pc'[q] = pc[q] /\ job'[q] = job[q]
  BY <1>1 DEF Finish, Start, Rollback, Goto, WellFormed, TypeOK
<1>2. CASE StartCommand(p)
  BY <1>1, <1>2 DEF StartCommand, StartRetrieve, StartLogin, StartConfigure, StartLogout
<1>3. CASE Crash(p) \/ Unwind(p) \/ LockFails(p)
  BY <1>1, <1>3 DEF Crash, Unwind, LockFails, Release, Goto, WellFormed, TypeOK
<1>4. CASE AcquireTokenLock(p) \/ AcquireStsLock(p)
  <2>1. PICK k : job' = [job EXCEPT ![p].want = @ \ {k}]
    BY <1>4 DEF AcquireTokenLock, AcquireStsLock
  <2>2. UNCHANGED pc \/ \E l : Goto(p, l)
    BY <1>4 DEF AcquireTokenLock, AcquireStsLock
  <2>. QED  BY <2>1, <2>2 DEF Goto, WellFormed, TypeOK
<1>5. CASE RetrieveStep(p)
  <2>1. CASE \/ ReadTokenFails(p) \/ RefreshAnswerLost(p) \/ RefreshRefused(p)
             \/ ReadStsFails(p) \/ ExchangeFails(p) \/ PatchMismatch(p)
             \/ RereadFails(p) \/ Return(p)
    BY <1>1, <2>1
    DEF ReadTokenFails, RefreshAnswerLost, RefreshRefused, ReadStsFails, ExchangeFails,
        PatchMismatch, RereadFails, Return, ReadFails
  <2>2. CASE ReadToken(p)
    BY <1>1, <2>2 DEF ReadToken, Goto, WellFormed, TypeOK
  <2>3. CASE RefreshGranted(p)
    BY <2>3 DEF RefreshGranted, Goto, WellFormed, TypeOK
  <2>4. CASE PersistToken(p)
    BY <1>1, <2>4 DEF PersistToken, Goto, WellFormed, TypeOK
  <2>5. CASE ReadSts(p)
    BY <2>5 DEF ReadSts, Goto, WellFormed, TypeOK
  <2>6. CASE ExchangeGranted(p)
    BY <2>6 DEF ExchangeGranted, Goto, WellFormed, TypeOK
  <2>7. CASE PersistSts(p) \/ PatchProfile(p)
    BY <1>1, <2>7 DEF PersistSts, PatchProfile, Goto, WellFormed, TypeOK
  <2>8. CASE Mark(p)
    BY <1>1, <2>8 DEF Mark, Goto, WellFormed, TypeOK
  <2>9. CASE Reread(p)
    BY <1>1, <2>9 DEF Reread, Goto, WellFormed, TypeOK
  <2>. QED
    BY <1>5, <2>1, <2>2, <2>3, <2>4, <2>5, <2>6, <2>7, <2>8, <2>9 DEF RetrieveStep
<1>6. CASE LoginStep(p)
  <2>1. CASE \/ SnapshotFails(p) \/ NotAuthorized(p) \/ CheckLogin(p)
             \/ LoginStepFails(p) \/ DeleteOldStsFails(p) \/ CommitBinding(p)
             \/ RestoreSts(p)
    BY <1>1, <2>1
    DEF SnapshotFails, NotAuthorized, CheckLogin, LoginStepFails, DeleteOldStsFails,
        CommitBinding, RestoreSts, ReadFails
  <2>2. CASE Snapshot(p)
    BY <1>1, <2>2 DEF Snapshot, Goto, WellFormed, TypeOK
  <2>3. CASE Authorized(p)
    BY <2>3 DEF Authorized, Goto, WellFormed, TypeOK
  <2>4. CASE PersistLogin(p)
    BY <1>1, <2>4 DEF PersistLogin, Goto, WellFormed, TypeOK
  <2>5. CASE Bind(p)
    BY <2>5 DEF Bind, Goto, WellFormed, TypeOK
  <2>6. CASE DeleteOldSts(p)
    BY <2>6 DEF DeleteOldSts, Goto, WellFormed, TypeOK
  <2>7. CASE RestoreToken(p)
    <3>1. PICK v : job' = [job EXCEPT ![p].out = v]
      BY <2>7 DEF RestoreToken
    <3>2. PICK l : Goto(p, l)
      BY <2>7 DEF RestoreToken
    <3>. QED  BY <3>1, <3>2 DEF Goto, WellFormed, TypeOK
  <2>. QED  BY <1>6, <2>1, <2>2, <2>3, <2>4, <2>5, <2>6, <2>7 DEF LoginStep
<1>7. CASE LogoutStep(p)
  <2>1. CASE CollectFails(p) \/ CheckFails(p) \/ Revoke(p)
    BY <1>1, <2>1 DEF CollectFails, CheckFails, Revoke, ReadFails
  <2>2. CASE CollectKeys(p)
    BY <1>1, <2>2 DEF CollectKeys, Goto, WellFormed, TypeOK
  <2>3. CASE CheckKeys(p)
    BY <1>1, <2>3 DEF CheckKeys, Goto, WellFormed, TypeOK
  <2>4. CASE DeleteToken(p) \/ DeleteSts(p) \/ ClearProfiles(p)
    <3>1. PICK v, w : \/ job' = [job EXCEPT ![p].out = v, ![p].want = w]
                      \/ job' = [job EXCEPT ![p].out = v, ![p].want = @ \ w]
                      \/ job' = [job EXCEPT ![p].out = v]
      BY <2>4 DEF DeleteToken, DeleteSts, ClearProfiles
    <3>2. PICK l : Goto(p, l)
      BY <2>4 DEF DeleteToken, DeleteSts, ClearProfiles
    <3>. QED  BY <3>1, <3>2 DEF Goto, WellFormed, TypeOK
  <2>. QED  BY <1>7, <2>1, <2>2, <2>3, <2>4 DEF LogoutStep
<1>. QED  BY <1>2, <1>3, <1>4, <1>5, <1>6, <1>7 DEF StepOf, Step

\* Every command knows what its locks protect.
SafeInv == WellFormed /\ \A q \in Procs : SafeOK(q)

LEMMA StepSafe ==
  ASSUME SafeInv, NEW p \in Procs, StepOf(p)
  PROVE  (\A q \in Procs : SafeOK(q)') /\ Disciplined(p)
<1>1. WellFormed /\ SafeOK(p)
  BY DEF SafeInv
<1>2. SafeOK(p)' /\ Disciplined(p)
  BY <1>1, StartSafe, LeaveSafe, LockFailsSafe, AcquireTokenSafe, AcquireStsSafe,
     RetrieveSafe, LoginSafe, LogoutSafe DEF StepOf, Step
<1>3. ASSUME NEW q \in Procs \ {p} PROVE SafeOK(q)'
  <2>1. pc'[q] = pc[q] /\ job'[q] = job[q] /\ SafeOK(q)
    BY <1>1, OnlyOwn DEF SafeInv
  <2>. QED  BY <1>1, <1>2, <2>1, OthersOK
<1>. QED  BY <1>2, <1>3

\* What changes nothing but the configuration, the clock and the budgets.
LEMMA OutsideSafe ==
  ASSUME NEW q \in Procs, SafeOK(q),
         UNCHANGED <<pc, job, tokenLock, stsLock, tokenCache, stsCache>>
  PROVE  SafeOK(q)'
<1>1. HoldsToken(q)' /\ HoldsSts(q)' /\ HoldsOld(q)' /\ HoldsAll(q)'
  BY DEF SafeOK, LockOK, HoldsToken, HoldsSts, HoldsOld, HoldsAll, TokenKey, StsKey,
         OldKey, OldBindingChanged
<1>2. KnowsCaches(q)' /\ OldIsAway(q)' /\ PutBack(q)'
  BY DEF SafeOK, CacheOK, KnowsCaches, OldIsAway, PutBack, TokenKey, StsKey,
         OldKey, OldBindingChanged
<1>. QED  BY <1>1, <1>2 DEF SafeOK, LockOK, CacheOK

LEMMA EnvironmentIsOutside ==
  ASSUME Environment \/ UNCHANGED vars
  PROVE  UNCHANGED <<pc, job, tokenLock, stsLock, tokenCache, stsCache>>
BY DEF Environment, Expire, ConfigureDelete, ConfigureSession, ConfigureSetMode,
       Administer, vars, shared, cacheVars, lockVars

LEMMA NextSafe == SafeInv /\ [Next]_vars => SafeInv'
<1>. SUFFICES ASSUME SafeInv, [Next]_vars PROVE SafeInv'
  OBVIOUS
<1>1. WellFormed'
  BY NextWellFormed DEF SafeInv
<1>2. ASSUME NEW p \in Procs, StepOf(p) PROVE SafeInv'
  BY <1>1, <1>2, StepSafe DEF SafeInv
<1>3. ASSUME Environment \/ UNCHANGED vars PROVE SafeInv'
  BY <1>1, <1>3, EnvironmentIsOutside, OutsideSafe DEF SafeInv
<1>. QED  BY <1>2, <1>3 DEF Next, StepOf, Rest

LEMMA InitSafe == Init => SafeInv
<1>1. ASSUME Init, NEW q \in Procs PROVE SafeOK(q)
  BY <1>1
  DEF Init, SafeOK, LockOK, HoldsToken, HoldsSts, HoldsOld, HoldsAll, CacheOK,
      KnowsCaches, OldIsAway, PutBack, Inside, NoJob
<1>. QED  BY <1>1, InitWellFormed DEF SafeInv

THEOREM LocksProtect == Spec => []SafeInv
BY InitSafe, NextSafe, PTL DEF Spec

\* Whatever Retrieve returns is what the STS cache of its binding holds, with its
\* profile committed in it.
THEOREM ReturnIsCommitted == Spec => []ReturnsCommitted
<1>1. SafeInv => ReturnsCommitted
  BY DEF SafeInv, SafeOK, CacheOK, KnowsCaches, ReturnsCommitted
<1>. QED  BY <1>1, LocksProtect, PTL

\* A refresh presents the refresh token of the cache.
THEOREM RefreshIsCurrent == Spec => []RefreshUsesCachedToken
<1>1. SafeInv => RefreshUsesCachedToken
  <2>1. ASSUME SafeInv, NEW p \in Procs, pc[p] = "refresh"
        PROVE  job[p].op = "retrieve"
    BY <2>1, JobTypes DEF SafeInv, JobAt, RetrievePCs
  <2>. QED  BY <2>1 DEF SafeInv, SafeOK, CacheOK, KnowsCaches, RefreshUsesCachedToken
<1>. QED  BY <1>1, LocksProtect, PTL

\* A failed login is undone where its rollback can take its lock: no lock file fails.
THEOREM FailuresAreUndone ==
  ASSUME "lock" \notin Faults
  PROVE  Spec => []FailedLoginIsUndone
<1>1. SafeInv => FailedLoginIsUndone
  BY DEF SafeInv, SafeOK, CacheOK, PutBack, FailedLoginIsUndone
<1>. QED  BY <1>1, LocksProtect, PTL

-----------------------------------------------------------------------------
(* STS caches come and go                                                   *)

\* The commands' steps that touch an STS cache.
TouchesSts(p) ==
  \/ PersistSts(p) \/ PatchMismatch(p) \/ Mark(p)
  \/ DeleteOldSts(p) \/ RestoreSts(p) \/ DeleteSts(p)

LEMMA OthersKeepSts ==
  ASSUME WellFormed, [Next]_vars, ~ \E p \in Procs : TouchesSts(p)
  PROVE  UNCHANGED stsCache
<1>1. ASSUME NEW p \in Procs, StepOf(p) PROVE UNCHANGED stsCache
  <2>1. CASE KeepsSts
    BY <2>1 DEF KeepsSts
  <2>2. CASE ReadSts(p) \/ ExchangeGranted(p) \/ Reread(p) \/ PatchProfile(p)
    BY <2>2 DEF ReadSts, ExchangeGranted, Reread, PatchProfile, shared, cacheVars
  <2>. QED
    BY <1>1, <2>1, <2>2, MostKeepSts, StartMarkers
    DEF StepOf, Step, RetrieveStep, LoginStep, LogoutStep, TouchesSts
<1>. QED  BY <1>1, EnvironmentIsOutside DEF Next, StepOf, Rest

\* An STS cache appears only under a token that is in the cache, or comes back.
LEMMA StsNeedsToken ==
  ASSUME SafeInv, [Next]_vars, NEW k \in StsKeys, stsCache[k] = NoSts,
         stsCache'[k] # NoSts
  PROVE  \/ \E u \in Urls : tokenCache[<<u, k[1]>>] # NoToken
         \/ \E p \in Procs : pc[p] = "restoreSts" /\ stsCache'[k] = job[p].sts
<1>1. PICK p \in Procs : TouchesSts(p)
  BY OthersKeepSts DEF SafeInv
<1>2. WellFormed /\ SafeOK(p) /\ JobAt(pc[p], job[p])
  BY JobTypes DEF SafeInv
<1>3. CASE PersistSts(p) \/ Mark(p)
  <2>1. pc[p] \in {"persistSts", "mark"} /\ job[p].op = "retrieve"
    BY <1>2, <1>3 DEF PersistSts, Mark, JobAt, RetrievePCs
  <2>2. tokenCache[TokenKey(p)] # NoToken
    BY <1>2, <2>1 DEF SafeOK, CacheOK, KnowsCaches
  <2>3. UNCHANGED stsCache \/ \E v : stsCache' = [stsCache EXCEPT ![StsKey(p)] = v]
    BY <1>3 DEF PersistSts, Mark
  <2>4. k = StsKey(p)
    BY <1>2, <2>3 DEF WellFormed, TypeOK, SharedTypeOK
  <2>5. job[p].url \in Urls /\ k[1] = job[p].ses
    BY <1>2, <2>1, <2>4 DEF JobAt, StsKey
  <2>. QED  BY <2>2, <2>5 DEF TokenKey
<1>4. CASE RestoreSts(p)
  <2>1. PICK o : stsCache' = [stsCache EXCEPT ![OldKey(p)] = After(o, job[p].sts, @)]
    BY <1>4 DEF RestoreSts
  <2>2. stsCache'[k] = job[p].sts
    BY <1>2, <2>1 DEF After, WellFormed, TypeOK, SharedTypeOK
  <2>. QED  BY <1>4, <2>2 DEF RestoreSts
<1>5. CASE PatchMismatch(p) \/ DeleteOldSts(p) \/ DeleteSts(p)
  <2>1. \/ UNCHANGED stsCache
        \/ \E o, m : stsCache' = [stsCache EXCEPT ![m] = After(o, NoSts, @)]
        \/ \E n : stsCache' = [stsCache EXCEPT ![n] = NoSts]
    BY <1>5 DEF PatchMismatch, DeleteOldSts, DeleteSts
  <2>2. stsCache'[k] \in {stsCache[k], NoSts}
    BY <1>2, <2>1 DEF After, WellFormed, TypeOK, SharedTypeOK
  <2>. QED  BY <2>2
<1>. QED  BY <1>1, <1>3, <1>4, <1>5 DEF TouchesSts

\* No Retrieve that a logout overtook brings an STS cache back.
THEOREM NoStsOutOfSession == Spec => NoStsWithoutToken
<1>1. SafeInv /\ [Next]_vars =>
        [\A k \in StsKeys :
           stsCache[k] = NoSts /\ stsCache'[k] # NoSts =>
             \/ \E u \in Urls : tokenCache[<<u, k[1]>>] # NoToken
             \/ \E p \in Procs : pc[p] = "restoreSts" /\ stsCache'[k] = job[p].sts]_vars
  BY StsNeedsToken
<1>. QED  BY <1>1, LocksProtect, PTL DEF Spec, NoStsWithoutToken

-----------------------------------------------------------------------------
(* Rebinding                                                                *)

\* The fields a step may set leave what a command was started for alone.
LEMMA SetsKept ==
  ASSUME WellFormed, NEW p \in Procs, NEW v, NEW w,
         \/ UNCHANGED job
         \/ job' = [job EXCEPT ![p].tok = v]
         \/ job' = [job EXCEPT ![p].new = v]
         \/ job' = [job EXCEPT ![p].sts = v]
         \/ job' = [job EXCEPT ![p].exch = v]
         \/ job' = [job EXCEPT ![p].want = v]
         \/ job' = [job EXCEPT ![p].want = @ \ v]
         \/ job' = [job EXCEPT ![p].out = v]
         \/ job' = [job EXCEPT ![p].tok = v, ![p].want = w]
         \/ job' = [job EXCEPT ![p].tok = v, ![p].out = w]
         \/ job' = [job EXCEPT ![p].want = v, ![p].keys = w]
         \/ job' = [job EXCEPT ![p].out = v, ![p].want = w]
         \/ job' = [job EXCEPT ![p].out = v, ![p].want = @ \ w]
  PROVE  Kept(job[p], job'[p])
<1>1. job[p] \in JobSet
  BY JobTypes
<1>. QED  BY <1>1 DEF Kept, JobSet, WellFormed, TypeOK

\* What a command was started for stays until it has ended.
LEMMA OwnKept ==
  ASSUME WellFormed, NEW p \in Procs, Step(p), ~Unwind(p)
  PROVE  Kept(job[p], job'[p])
<1>1. ASSUME \/ UNCHANGED job \/ Rollback(p) \/ \E v : Finish(p, v)
             \/ \E v : job' = [job EXCEPT ![p].tok = v]
             \/ \E v : job' = [job EXCEPT ![p].new = v]
             \/ \E v : job' = [job EXCEPT ![p].sts = v]
             \/ \E v : job' = [job EXCEPT ![p].exch = v]
             \/ \E v : job' = [job EXCEPT ![p].want = v]
             \/ \E v : job' = [job EXCEPT ![p].want = @ \ v]
             \/ \E v : job' = [job EXCEPT ![p].out = v]
      PROVE  Kept(job[p], job'[p])
  BY <1>1, SetsKept DEF Rollback, Finish
<1>2. ASSUME \/ \E v, w : job' = [job EXCEPT ![p].tok = v, ![p].want = w]
             \/ \E v, w : job' = [job EXCEPT ![p].tok = v, ![p].out = w]
             \/ \E v, w : job' = [job EXCEPT ![p].want = v, ![p].keys = w]
             \/ \E v, w : job' = [job EXCEPT ![p].out = v, ![p].want = w]
             \/ \E v, w : job' = [job EXCEPT ![p].out = v, ![p].want = @ \ w]
      PROVE  Kept(job[p], job'[p])
  BY <1>2, SetsKept
<1>3. CASE AcquireTokenLock(p) \/ AcquireStsLock(p) \/ LockFails(p)
  BY <1>1, <1>3 DEF AcquireTokenLock, AcquireStsLock, LockFails
<1>4. CASE RetrieveStep(p)
  <2>1. CASE \/ ReadTokenFails(p) \/ RefreshAnswerLost(p) \/ RefreshRefused(p)
             \/ ReadStsFails(p) \/ ExchangeFails(p) \/ PatchMismatch(p)
             \/ RereadFails(p) \/ Return(p)
    BY <1>1, <2>1
    DEF ReadTokenFails, RefreshAnswerLost, RefreshRefused, ReadStsFails, ExchangeFails,
        PatchMismatch, RereadFails, Return, ReadFails
  <2>2. CASE ReadToken(p)
    BY <1>1, <1>2, <2>2 DEF ReadToken
  <2>3. CASE RefreshGranted(p) \/ PersistToken(p)
    BY <1>1, <2>3 DEF RefreshGranted, PersistToken
  <2>4. CASE ReadSts(p) \/ ExchangeGranted(p) \/ Reread(p)
    BY <1>1, <2>4 DEF ReadSts, ExchangeGranted, Reread
  <2>5. CASE PersistSts(p) \/ PatchProfile(p) \/ Mark(p)
    BY <1>1, <2>5 DEF PersistSts, PatchProfile, Mark
  <2>. QED  BY <1>4, <2>1, <2>2, <2>3, <2>4, <2>5 DEF RetrieveStep
<1>5. CASE LoginStep(p)
  <2>1. CASE \/ SnapshotFails(p) \/ NotAuthorized(p) \/ CheckLogin(p)
             \/ LoginStepFails(p) \/ DeleteOldStsFails(p) \/ CommitBinding(p)
             \/ RestoreSts(p)
    BY <1>1, <2>1
    DEF SnapshotFails, NotAuthorized, CheckLogin, LoginStepFails, DeleteOldStsFails,
        CommitBinding, RestoreSts, ReadFails
  <2>2. CASE Snapshot(p) \/ Authorized(p) \/ PersistLogin(p)
    BY <1>1, <2>2 DEF Snapshot, Authorized, PersistLogin
  <2>3. CASE Bind(p) \/ DeleteOldSts(p) \/ RestoreToken(p)
    BY <1>1, <2>3 DEF Bind, DeleteOldSts, RestoreToken
  <2>. QED  BY <1>5, <2>1, <2>2, <2>3 DEF LoginStep
<1>6. CASE LogoutStep(p)
  <2>1. CASE CollectFails(p) \/ CheckFails(p) \/ Revoke(p)
    BY <1>1, <2>1 DEF CollectFails, CheckFails, Revoke, ReadFails
  <2>2. CASE CollectKeys(p) \/ CheckKeys(p)
    BY <1>1, <1>2, <2>2 DEF CollectKeys, CheckKeys
  <2>3. CASE DeleteToken(p)
    <3>1. \E v, w : job' = [job EXCEPT ![p].out = v, ![p].want = w]
      BY <2>3 DEF DeleteToken
    <3>. QED  BY <1>2, <3>1
  <2>4. CASE DeleteSts(p)
    <3>1. \E v, w : job' = [job EXCEPT ![p].out = v, ![p].want = @ \ w]
      BY <2>4 DEF DeleteSts
    <3>. QED  BY <1>2, <3>1
  <2>5. CASE ClearProfiles(p)
    <3>1. \E v : job' = [job EXCEPT ![p].out = v]
      BY <2>5 DEF ClearProfiles
    <3>. QED  BY <1>1, <3>1
  <2>. QED  BY <1>6, <2>1, <2>2, <2>3, <2>4, <2>5 DEF LogoutStep
<1>. QED  BY <1>3, <1>4, <1>5, <1>6 DEF Step

\* Where a rebind is until it has bound its profile.
Before == {"lockToken", "snapshot", "authorize", "persistLogin", "bind", "lockSts",
           "deleteOldSts", "commit"}

\* A rebind only goes forward.
LEMMA OnlyForward ==
  ASSUME WellFormed, NEW p \in Procs, Step(p), job[p].op = "configure",
         pc'[p] \in Before
  PROVE  pc[p] \in Before /\ ~CommitBinding(p)
<1>1. /\ pc \in [Procs -> PCs] /\ JobAt(pc[p], job[p])
  BY JobTypes DEF WellFormed, TypeOK
<1>2. ASSUME NEW v, Finish(p, v) \/ Rollback(p) PROVE FALSE
  BY <1>1, <1>2 DEF Finish, Rollback, Goto, Before
<1>3. CASE AcquireTokenLock(p) \/ AcquireStsLock(p) \/ LockFails(p) \/ Unwind(p)
  BY <1>1, <1>3
  DEF AcquireTokenLock, AcquireStsLock, LockFails, Unwind, Release, Finish, Goto, Before,
      CommitBinding
<1>4. CASE RetrieveStep(p) \/ LogoutStep(p)
  <2>1. pc[p] \in RetrievePCs \cup LogoutPCs
    BY <1>4 DEF RetrieveStep, ReadToken, ReadTokenFails, RefreshGranted,
         RefreshAnswerLost, RefreshRefused, PersistToken, ReadSts,
         ReadStsFails, ExchangeGranted, ExchangeFails, PersistSts,
         PatchProfile, PatchMismatch, Mark, Reread, RereadFails, Return,
         LogoutStep, CollectKeys, CollectFails, CheckKeys, CheckFails, DeleteToken,
         DeleteSts, ClearProfiles, Revoke, RetrievePCs, LogoutPCs
  <2>. QED  BY <1>1, <2>1 DEF JobAt
<1>5. CASE LoginStep(p)
  <2>1. CASE \/ SnapshotFails(p) \/ NotAuthorized(p) \/ CheckLogin(p)
             \/ LoginStepFails(p) \/ DeleteOldStsFails(p) \/ CommitBinding(p)
             \/ RestoreSts(p)
    BY <1>2, <2>1
    DEF SnapshotFails, NotAuthorized, CheckLogin, LoginStepFails, DeleteOldStsFails,
        CommitBinding, RestoreSts, ReadFails
  <2>2. CASE RestoreToken(p)
    BY <1>1, <2>2 DEF RestoreToken, Goto, Before
  <2>3. CASE Snapshot(p) \/ Authorized(p) \/ PersistLogin(p) \/ Bind(p) \/ DeleteOldSts(p)
    BY <2>3 DEF Snapshot, Authorized, PersistLogin, Bind, DeleteOldSts, Before,
                CommitBinding
  <2>. QED  BY <1>5, <2>1, <2>2, <2>3 DEF LoginStep
<1>. QED  BY <1>3, <1>4, <1>5 DEF Step

\* What a rebind has loaded: unless its profile has another session or mode
\* now, its binding is still the one it will drop the STS cache of.  A profile
\* out of use may have got another role, but not where at most one command
\* changes modes.
Seldom == "mode" \in Admin => MaxAdmin <= 1

KnowsBinding(q) ==
  job[q].op = "configure" =>
    /\ "configure" \in Can[q]
    /\ LET old == job[q].orig  now == profile[job[q].prof] IN
       /\ pc[q] \in Before /\ old.ses # NoSession
       /\ now.ses = old.ses /\ now.mode = old.mode
       /\ now.mode = "sso" \/ Seldom
       => now.role = old.role

\* Before the first administrative command every profile is in use, in
\* config.json and in what a rebind has loaded of it.
InUse ==
  admin = 0 =>
    /\ \A f \in Profiles : profile[f].mode # "other"
    /\ \A q \in Procs : job[q].op = "configure" => job[q].orig.mode # "other"

BindInv == WellFormed /\ InUse /\ \A q \in Procs : KnowsBinding(q)

\* Everything but a commit leaves bindings as they are, removes them, or puts
\* them out of use.
Unbinds ==
  \A f \in Profiles :
    \/ profile'[f].mode = "absent" /\ profile'[f].ses = NoSession
    \/ /\ profile'[f].ses = profile[f].ses /\ profile'[f].role = profile[f].role
       /\ profile'[f].mode = profile[f].mode
    \/ /\ profile'[f].mode = "other"
       /\ "mode" \in Admin /\ admin < MaxAdmin /\ admin' = admin + 1

\* One process that configures at a time.
SingleConfigurer ==
  \A p, q \in Procs : "configure" \in Can[p] \cap Can[q] => p = q

LEMMA MostUnbind ==
  ASSUME WellFormed, [Next]_vars, ~ \E p \in Procs : CommitBinding(p)
  PROVE  Unbinds
<1>1. ASSUME UNCHANGED profile PROVE Unbinds
  BY <1>1 DEF Unbinds
<1>2. ASSUME NEW p \in Procs, StepOf(p) PROVE Unbinds
  <2>1. CASE StartCommand(p) \/ Crash(p) \/ Unwind(p)
    BY <1>1, <2>1
    DEF StartCommand, StartRetrieve, StartLogin, StartConfigure, StartLogout, Start,
        Crash, Unwind, Release, configVars
  <2>2. CASE AcquireTokenLock(p) \/ AcquireStsLock(p) \/ LockFails(p)
    BY <1>1, <2>2
    DEF AcquireTokenLock, AcquireStsLock, LockFails, configVars, shared
  <2>3. CASE RetrieveStep(p) /\ ~PatchProfile(p)
    BY <1>1, <2>3
    DEF RetrieveStep, ReadToken, ReadTokenFails, RefreshGranted,
        RefreshAnswerLost, RefreshRefused, PersistToken, ReadSts, ReadStsFails,
        ExchangeGranted, ExchangeFails, PersistSts, PatchMismatch, Mark, Reread,
        RereadFails, Return, ReadFails, configVars, shared
  <2>4. CASE PatchProfile(p)
    <3>1. PICK n : profile' = [profile EXCEPT ![job[p].prof].exp = n]
      BY <2>4 DEF PatchProfile
    <3>. QED
      BY <3>1 DEF Unbinds, WellFormed, TypeOK, SharedTypeOK, ProfileSet
  <2>5. CASE LoginStep(p)
    BY <1>1, <2>5
    DEF LoginStep, Snapshot, SnapshotFails, Authorized, NotAuthorized,
        PersistLogin, CheckLogin, LoginStepFails, Bind, DeleteOldSts,
        DeleteOldStsFails, RestoreToken, RestoreSts, ReadFails, configVars, shared
  <2>6. CASE LogoutStep(p) /\ ~ClearProfiles(p)
    BY <1>1, <2>6
    DEF LogoutStep, CollectKeys, CollectFails, CheckKeys, CheckFails, DeleteToken,
        DeleteSts, Revoke, ReadFails, configVars, shared
  <2>7. CASE ClearProfiles(p)
    <3>1. ASSUME NEW f \in Profiles
          PROVE  /\ profile'[f].ses = profile[f].ses
                 /\ profile'[f].role = profile[f].role
                 /\ profile'[f].mode = profile[f].mode
      <4>1. profile[f] \in ProfileSet
        BY DEF WellFormed, TypeOK, SharedTypeOK
      <4>2. \E n : profile'[f] = [profile[f] EXCEPT !.exp = n] \/ profile'[f] = profile[f]
        BY <2>7 DEF ClearProfiles
      <4>. QED  BY <4>1, <4>2 DEF ProfileSet
    <3>. QED  BY <3>1 DEF Unbinds
  <2>. QED
    BY <1>2, <2>1, <2>2, <2>3, <2>4, <2>5, <2>6, <2>7 DEF StepOf, Step
<1>3. ASSUME NEW f \in Profiles, ConfigureDelete(f) PROVE Unbinds
  BY <1>3 DEF ConfigureDelete, Absent, Unbinds, WellFormed, TypeOK, SharedTypeOK
<1>4. ASSUME NEW f \in Profiles, NEW r, ConfigureSetMode(f, r) PROVE Unbinds
  <2>1. /\ profile' = [profile EXCEPT ![f].mode = "other", ![f].role = r]
        /\ "mode" \in Admin /\ admin < MaxAdmin /\ admin' = admin + 1
    BY <1>4 DEF ConfigureSetMode, Administer
  <2>. QED
    BY <2>1 DEF Unbinds, WellFormed, TypeOK, SharedTypeOK, ProfileSet
<1>5. CASE Environment
  BY <1>1, <1>3, <1>4, <1>5
  DEF Environment, Expire, ConfigureSession, Administer, configVars
<1>. QED
  BY <1>1, <1>2, <1>5 DEF Next, StepOf, Rest, vars, shared, configVars

\* Commands are only counted up.
LEMMA AdminGrows ==
  ASSUME WellFormed, [Next]_vars, admin' = 0
  PROVE  admin = 0
<1>1. admin \in Nat
  BY DEF WellFormed, TypeOK, SharedTypeOK
<1>2. ASSUME NEW p \in Procs, StepOf(p) PROVE admin' = admin
  <2>1. CASE StartCommand(p) \/ Crash(p) \/ Unwind(p)
    BY <2>1
    DEF StartCommand, StartRetrieve, StartLogin, StartConfigure, StartLogout, Start,
        Crash, Unwind, Release, budgetVars
  <2>2. CASE AcquireTokenLock(p) \/ AcquireStsLock(p) \/ LockFails(p)
    BY <2>2 DEF AcquireTokenLock, AcquireStsLock, LockFails, budgetVars, shared
  <2>3. CASE RetrieveStep(p)
    BY <2>3
    DEF RetrieveStep, ReadToken, ReadTokenFails, RefreshGranted,
        RefreshAnswerLost, RefreshRefused, PersistToken, ReadSts, ReadStsFails,
        ExchangeGranted, ExchangeFails, PersistSts, PatchProfile, PatchMismatch, Mark,
        Reread, RereadFails, Return, ReadFails, budgetVars, shared
  <2>4. CASE LoginStep(p)
    BY <2>4
    DEF LoginStep, Snapshot, SnapshotFails, Authorized, NotAuthorized,
        PersistLogin, CheckLogin, LoginStepFails, Bind, DeleteOldSts,
        DeleteOldStsFails, CommitBinding, RestoreToken, RestoreSts, ReadFails,
        budgetVars, shared
  <2>5. CASE LogoutStep(p)
    BY <2>5
    DEF LogoutStep, CollectKeys, CollectFails, CheckKeys, CheckFails, DeleteToken,
        DeleteSts, ClearProfiles, Revoke, ReadFails, budgetVars, shared
  <2>. QED  BY <1>2, <2>1, <2>2, <2>3, <2>4, <2>5 DEF StepOf, Step
<1>3. ASSUME Environment PROVE admin' = admin \/ admin' = admin + 1
  BY <1>3
  DEF Environment, Expire, ConfigureDelete, ConfigureSession, ConfigureSetMode,
      Administer
<1>4. ASSUME UNCHANGED vars \/ Rest PROVE admin' = admin
  BY <1>4 DEF vars, shared, budgetVars, Rest
<1>. QED  BY <1>1, <1>2, <1>3, <1>4 DEF Next, StepOf

\* A rebind keeps what it knows while it goes on and bindings only go away.
LEMMA KnownStays ==
  ASSUME WellFormed, InUse, NEW q \in Procs, KnowsBinding(q), Unbinds,
         Kept(job[q], job'[q]), job[q].op = "configure",
         pc'[q] \in Before => pc[q] \in Before
  PROVE  KnowsBinding(q)'
<1>1. job[q].prof \in Profiles /\ admin \in Nat /\ MaxAdmin \in Nat
  BY JobTypes, StoreAssumption
  DEF JobAt, StoreAssumption, WellFormed, TypeOK, SharedTypeOK
<1>2. job'[q].orig = job[q].orig /\ job'[q].prof = job[q].prof
  BY DEF Kept
<1>. DEFINE old == job[q].orig
            now == profile'[job[q].prof]
<1>3. SUFFICES ASSUME pc[q] \in Before, old.ses # NoSession, now.ses = old.ses,
                      now.mode = old.mode, now.mode = "sso" \/ Seldom
               PROVE  now.role = old.role
  BY <1>2 DEF KnowsBinding, Kept
<1>4. CASE now.mode = "other" /\ "mode" \in Admin /\ admin < MaxAdmin
  <2>1. admin = 0
    BY <1>1, <1>3, <1>4 DEF Seldom
  <2>. QED  BY <1>3, <1>4, <2>1 DEF InUse
<1>. QED  BY <1>1, <1>3, <1>4 DEF KnowsBinding, Unbinds

\* A rebind has gone on or has just loaded its profile.
LEMMA RebindComesFrom ==
  ASSUME WellFormed, [Next]_vars, NEW q \in Procs, job'[q].op = "configure"
  PROVE  \/ /\ Kept(job[q], job'[q]) /\ job[q].op = "configure"
            /\ pc'[q] \in Before => pc[q] \in Before
         \/ /\ UNCHANGED profile /\ "configure" \in Can[q]
            /\ job'[q].prof \in Profiles /\ job'[q].orig = profile[job'[q].prof]
<1>1. WellFormed'
  BY NextWellFormed
<1>2. CASE pc'[q] = pc[q] /\ job'[q] = job[q]
  BY <1>2 DEF Kept
<1>3. CASE Step(q) /\ ~Unwind(q)
  <2>1. Kept(job[q], job'[q])
    BY <1>3, OwnKept
  <2>2. job[q].op = "configure"
    BY <2>1 DEF Kept
  <2>. QED  BY <1>3, <2>1, <2>2, OnlyForward
<1>4. CASE Crash(q) \/ Unwind(q)
  BY <1>1, <1>4 DEF Crash, Unwind, Release, NoJob, WellFormed, TypeOK
<1>5. CASE StartCommand(q)
  <2>1. ASSUME NEW command, NEW f, NEW s
        PROVE  NewJob(command, f, s).op = command
    BY DEF NewJob, NoJob
  <2>2. PICK f \in Profiles, s \in Sessions, r \in Roles : StartConfigure(q, f, s, r)
    <3>1. ASSUME NEW f, StartRetrieve(q, f) PROVE job'[q].op = "retrieve"
      <4>. DEFINE j == [NewJob("retrieve", f, profile[f].ses) EXCEPT
                          !.role = profile[f].role]
      <4>1. j.op = "retrieve"
        BY DEF NewJob, NoJob
      <4>2. job' = [job EXCEPT ![q] = j]
        BY <3>1 DEF StartRetrieve, Start
      <4>. QED  BY <1>1, <4>1, <4>2 DEF WellFormed, TypeOK
    <3>2. ASSUME NEW s, NEW f, StartLogin(q, s, f) \/ StartLogout(q, s, f)
          PROVE  job'[q].op # "configure"
      BY <1>1, <2>1, <3>2 DEF StartLogin, StartLogout, Start, WellFormed, TypeOK
    <3>. QED  BY <1>5, <3>1, <3>2 DEF StartCommand
  <2>. DEFINE w == IF profile[f].ses = NoSession THEN {}
                   ELSE {<<sessionUrl[profile[f].ses], profile[f].ses>>}
              j == [NewJob("configure", f, s) EXCEPT
                      !.role = r, !.orig = profile[f], !.want = @ \cup w]
  <2>3. j.op = "configure" /\ j.prof = f /\ j.orig = profile[f]
    BY DEF NewJob, NoJob
  <2>4. Start(q, j)
    BY <2>2 DEF StartConfigure
  <2>. HIDE DEF j
  <2>5. job'[q] = j /\ j.op \in Can[q] /\ UNCHANGED profile
    BY <1>1, <2>4 DEF Start, WellFormed, TypeOK, configVars
  <2>. QED  BY <2>3, <2>5
<1>6. ASSUME NEW p \in Procs \ {q}, StepOf(p) PROVE pc'[q] = pc[q] /\ job'[q] = job[q]
  BY <1>6, OnlyOwn
<1>. QED
  BY <1>2, <1>3, <1>4, <1>5, <1>6, EnvironmentIsOutside DEF Next, StepOf, Rest

\* What a commit does to the profiles.
LEMMA CommitMoves ==
  ASSUME WellFormed, NEW p \in Procs, CommitBinding(p)
  PROVE  \/ UNCHANGED profile
         \/ profile' = [profile EXCEPT ![job[p].prof] =
                          [mode |-> "sso", ses |-> job[p].ses,
                           role |-> job[p].role, exp |-> 0]]
BY DEF CommitBinding, After, WellFormed, TypeOK, SharedTypeOK

LEMMA NextInUse ==
  ASSUME WellFormed, InUse, [Next]_vars
  PROVE  InUse'
<1>1. SUFFICES ASSUME admin' = 0
               PROVE  /\ \A f \in Profiles : profile'[f].mode # "other"
                      /\ \A q \in Procs : job'[q].op = "configure"
                                          => job'[q].orig.mode # "other"
  BY DEF InUse
<1>2. /\ admin = 0
      /\ \A f \in Profiles : profile[f].mode # "other"
      /\ \A q \in Procs : job[q].op = "configure" => job[q].orig.mode # "other"
  BY <1>1, AdminGrows DEF InUse
<1>3. ASSUME NEW f \in Profiles PROVE profile'[f].mode # "other"
  <2>1. CASE ~ \E p \in Procs : CommitBinding(p)
    BY <1>1, <1>2, <2>1, MostUnbind DEF Unbinds
  <2>2. ASSUME NEW p \in Procs, CommitBinding(p) PROVE profile'[f].mode # "other"
    <3>1. CASE UNCHANGED profile
      BY <1>2, <3>1
    <3>. DEFINE b == [mode |-> "sso", ses |-> job[p].ses, role |-> job[p].role, exp |-> 0]
    <3>2. CASE profile' = [profile EXCEPT ![job[p].prof] = b]
      <4>1. b.mode = "sso"
        OBVIOUS
      <4>. HIDE DEF b
      <4>. QED
        BY <1>2, <3>2, <4>1 DEF WellFormed, TypeOK, SharedTypeOK
    <3>. QED  BY <2>2, <3>1, <3>2, CommitMoves
  <2>. QED  BY <2>1, <2>2
<1>4. ASSUME NEW q \in Procs, job'[q].op = "configure"
      PROVE  job'[q].orig.mode # "other"
  BY <1>2, <1>4, RebindComesFrom DEF Kept
<1>. QED  BY <1>3, <1>4

LEMMA NextBind ==
  ASSUME SingleConfigurer, BindInv, [Next]_vars
  PROVE  BindInv'
<1>1. WellFormed /\ WellFormed' /\ InUse'
  BY NextWellFormed, NextInUse DEF BindInv
<1>2. ASSUME NEW q \in Procs, job'[q].op = "configure" PROVE KnowsBinding(q)'
  <2>1. CASE /\ UNCHANGED profile /\ "configure" \in Can[q]
             /\ job'[q].prof \in Profiles /\ job'[q].orig = profile[job'[q].prof]
    BY <2>1 DEF KnowsBinding
  <2>2. CASE /\ Kept(job[q], job'[q]) /\ job[q].op = "configure"
             /\ pc'[q] \in Before => pc[q] \in Before
    <3>1. CASE ~ \E p \in Procs : CommitBinding(p)
      BY <1>1, <2>2, <3>1, MostUnbind, KnownStays DEF BindInv
    <3>2. ASSUME NEW p \in Procs, CommitBinding(p) PROVE KnowsBinding(q)'
      <4>1. Step(p) /\ job[p].op = "configure" /\ ~Unwind(p)
        BY <1>1, <3>2, JobTypes DEF Step, LoginStep, CommitBinding, Unwind, JobAt
      <4>2. p = q
        BY <2>2, <4>1 DEF SingleConfigurer, BindInv, KnowsBinding
      <4>3. pc'[q] \notin Before
        BY <1>1, <3>2, <4>1, <4>2, OnlyForward
      <4>. QED
        BY <2>2, <4>3 DEF KnowsBinding, BindInv, Kept
    <3>. QED  BY <3>1, <3>2
  <2>. QED  BY <1>1, <1>2, <2>1, <2>2, RebindComesFrom
<1>3. ASSUME NEW q \in Procs, job'[q].op # "configure" PROVE KnowsBinding(q)'
  BY <1>3 DEF KnowsBinding
<1>. QED  BY <1>1, <1>2, <1>3 DEF BindInv

\* The commit that binds a profile anew finds the STS cache of the old binding gone.
LEMMA CommitDropsOld ==
  ASSUME SafeInv, BindInv, [Next]_vars,
         NEW f \in Profiles, profile[f].mode = "sso" \/ Seldom,
         profile[f].ses # NoSession, profile'[f].mode = "sso",
         <<profile'[f].ses, profile'[f].role>> # Binding(f)
  PROVE  stsCache'[Binding(f)] = NoSts
<1>1. WellFormed
  BY DEF SafeInv
<1>2. PICK p \in Procs : CommitBinding(p)
  <2>1. SUFFICES ASSUME ~ \E p \in Procs : CommitBinding(p) PROVE FALSE
    OBVIOUS
  <2>. QED  BY <1>1, <2>1, MostUnbind DEF Unbinds, Binding
<1>3. pc[p] = "commit" /\ job[p].op = "configure" /\ SafeOK(p) /\ KnowsBinding(p)
  BY <1>1, <1>2, JobTypes DEF CommitBinding, JobAt, SafeInv, BindInv
<1>4. PICK o \in WriteOutcomes : /\ Unmoved(p)
              /\ profile' = [profile EXCEPT ![job[p].prof] =
                   After(o, [mode |-> "sso", ses |-> job[p].ses,
                             role |-> job[p].role, exp |-> 0], @)]
  BY <1>2 DEF CommitBinding, Binding
<1>5. /\ f = job[p].prof /\ profile'[f].ses = job[p].ses
      /\ profile'[f].role = job[p].role
  BY <1>1, <1>4 DEF After, WellFormed, TypeOK, SharedTypeOK, Binding
<1>6. job[p].orig.ses = profile[f].ses /\ job[p].orig.role = profile[f].role
  BY <1>3, <1>4, <1>5 DEF Unmoved, KnowsBinding, Before
<1>7. Binding(f) = OldKey(p) /\ OldBindingChanged(p)
  BY <1>5, <1>6 DEF Binding, OldKey, StsKey, OldBindingChanged
<1>8. stsCache[OldKey(p)] = NoSts
  BY <1>3, <1>7 DEF SafeOK, CacheOK, OldIsAway
<1>9. UNCHANGED stsCache
  BY <1>2 DEF CommitBinding, cacheVars
<1>. QED  BY <1>7, <1>8, <1>9

LEMMA BindHolds ==
  ASSUME SingleConfigurer
  PROVE  Spec => []BindInv
<1>1. Init => BindInv
  <2>1. ASSUME Init, NEW q \in Procs PROVE job[q].op # "configure"
    BY <2>1 DEF Init, NoJob
  <2>2. ASSUME Init, NEW f \in Profiles PROVE profile[f].mode # "other"
    BY <2>2 DEF Init, Absent
  <2>. QED  BY <2>1, <2>2, InitWellFormed DEF BindInv, InUse, KnowsBinding
<1>2. BindInv /\ [Next]_vars => BindInv'
  BY NextBind
<1>. QED  BY <1>1, <1>2, PTL DEF Spec

\* A provider built for the old binding finds nothing on its fast path, where one
\* process configures and at most one command changes modes.
THEOREM RebindsDropOld ==
  ASSUME SingleConfigurer, Seldom
  PROVE  Spec => RebindDropsOldSts
<1>1. SafeInv /\ BindInv /\ [Next]_vars =>
        [\A f \in Profiles :
           /\ profile[f].ses # NoSession /\ profile'[f].mode = "sso"
           /\ <<profile'[f].ses, profile'[f].role>> # Binding(f)
           => stsCache'[Binding(f)] = NoSts]_vars
  BY CommitDropsOld
<1>2. Spec => []BindInv
  BY BindHolds
<1>. QED  BY <1>1, <1>2, LocksProtect, PTL DEF Spec, RebindDropsOldSts

\* The same for a profile in use, however often modes change: what a
\* retrieve reads is the binding of a profile in use.
THEOREM RebindsInUseDropOld ==
  ASSUME SingleConfigurer
  PROVE  Spec => [][\A f \in Profiles :
           /\ profile[f].mode = "sso" /\ profile'[f].mode = "sso"
           /\ <<profile'[f].ses, profile'[f].role>> # Binding(f)
           => stsCache'[Binding(f)] = NoSts]_vars
<1>1. SafeInv /\ BindInv /\ [Next]_vars =>
        [\A f \in Profiles :
           /\ profile[f].mode = "sso" /\ profile'[f].mode = "sso"
           /\ <<profile'[f].ses, profile'[f].role>> # Binding(f)
           => stsCache'[Binding(f)] = NoSts]_vars
  <2>1. ASSUME SafeInv, NEW f \in Profiles, profile[f].mode = "sso"
        PROVE  profile[f].ses # NoSession
    BY <2>1, StoreAssumption DEF SafeInv, WellFormed, ProfileOK, StoreAssumption
  <2>. QED  BY <2>1, CommitDropsOld
<1>2. Spec => []BindInv
  BY BindHolds
<1>. QED  BY <1>1, <1>2, LocksProtect, PTL DEF Spec

-----------------------------------------------------------------------------
(* Refresh tokens                                                           *)

\* Nothing is lost: no process dies, no file access fails, every answer arrives.
Reliable == Faults \cap {"crash", "io", "net"} = {}

\* The refresh tokens of a token key: that of its cache, and those the command that
\* is inside its lock holds in memory.
Belongs(r, k) ==
  \/ k \in TokenKeys /\ tokenCache[k].rt = r
  \/ \E q \in Procs : /\ pc[q] \in Inside /\ TokenKey(q) = k
                      /\ r \in {job[q].tok.rt, job[q].new}

\* A refresh token belongs to one token key, and has been issued.
OneOwner ==
  \A r \in Nat \ {0}, k, m \in TokenKeys : Belongs(r, k) /\ Belongs(r, m) => k = m
Issued == \A r \in Nat, k \in TokenKeys : Belongs(r, k) => r <= issued

\* The refresh token of a cache is live, unless a new one is about to be written.
LiveCache ==
  \A k \in TokenKeys : tokenCache[k] # NoToken =>
    \/ tokenCache[k].rt \in live
    \/ \E q \in Procs : pc[q] = "persistToken" /\ TokenKey(q) = k

\* A refreshed token, the new token of a login and the one it may put back are live;
\* a token about to be revoked is in no cache.
InLogin(q) ==
  pc[q] \in LoginPCs \cup {"lockSts"} /\ job[q].op \in {"login", "configure"}
Deleted == {"deleteSts", "clearProfiles", "revoke"}
LiveJob(q) ==
  /\ pc[q] = "lockToken" => job[q].tok = NoToken
  /\ pc[q] = "persistToken" => job[q].tok.rt \in live
  /\ InLogin(q) /\ job[q].new # 0 => job[q].new \in live
  /\ InLogin(q) /\ pc[q] # "snapshot" /\ job[q].tok # NoToken =>
       job[q].tok.rt \in live
  /\ pc[q] \in Deleted => tokenCache[TokenKey(q)] = NoToken

LiveInv == OneOwner /\ Issued /\ LiveCache /\ \A q \in Procs : LiveJob(q)

\* What a step of p does to the refresh tokens: it writes no cache but its own, at
\* most the token it holds dies, and what is new has just been issued.
OwnToken(p) ==
  /\ \A k \in TokenKeys : tokenCache'[k] = tokenCache[k] \/ k = TokenKey(p)
  /\ \A r \in live : r \in live' \/ (pc[p] \in Inside /\ r = job[p].tok.rt)
  /\ issued' >= issued
  /\ pc'[p] \in Inside => TokenKey(p)' = TokenKey(p)
  /\ \A r \in Nat \ {0} :
       \/ TokenKey(p) \in TokenKeys /\ tokenCache'[TokenKey(p)].rt = r
       \/ pc'[p] \in Inside /\ r \in {job'[p].tok.rt, job'[p].new}
       => \/ Belongs(r, TokenKey(p))
          \/ r = issued' /\ issued' > issued
  /\ LiveJob(p)'
  /\ \/ UNCHANGED <<tokenCache, live>> /\ pc[p] # "persistToken"
     \/ /\ pc[p] \in Inside
        /\ tokenCache'[TokenKey(p)] # NoToken =>
             \/ tokenCache'[TokenKey(p)].rt \in live'
             \/ pc'[p] = "persistToken" /\ TokenKey(p)' = TokenKey(p)

\* Whoever is inside is alone with its token key.
LEMMA InsideAlone ==
  ASSUME SafeInv, NEW p \in Procs, NEW q \in Procs, pc[p] \in Inside,
         pc[q] \in Inside, TokenKey(p) = TokenKey(q)
  PROVE  p = q
BY DEF SafeInv, SafeOK, LockOK, HoldsToken

LEMMA LiveStep ==
  ASSUME SafeInv, LiveInv, NEW p \in Procs, StepOf(p), OwnToken(p)
  PROVE  LiveInv'
<1>1. WellFormed /\ WellFormed'
  BY NextWellFormed DEF SafeInv, StepOf, Next
<1>2. /\ live \subseteq Nat \ {0} /\ issued \in Nat /\ issued' \in Nat
      /\ live' \subseteq Nat \ {0}
      /\ tokenCache \in [TokenKeys -> TokenSet] /\ tokenCache' \in [TokenKeys -> TokenSet]
  BY <1>1 DEF WellFormed, TypeOK, SharedTypeOK, Ids
<1>3. ASSUME NEW q \in Procs \ {p} PROVE pc'[q] = pc[q] /\ job'[q] = job[q]
  BY <1>1, OnlyOwn
<1>4. ASSUME NEW q \in Procs \ {p} PROVE TokenKey(q)' = TokenKey(q)
  BY <1>3 DEF TokenKey
<1>5. ASSUME NEW r \in Nat \ {0}, NEW k \in TokenKeys, Belongs(r, k)'
      PROVE  Belongs(r, k) \/ (r = issued' /\ issued' > issued /\ k = TokenKey(p))
  <2>1. CASE tokenCache'[k].rt = r
    BY <2>1 DEF OwnToken, Belongs
  <2>2. ASSUME NEW q \in Procs, pc'[q] \in Inside, TokenKey(q)' = k,
               r \in {job'[q].tok.rt, job'[q].new}
        PROVE  Belongs(r, k) \/ (r = issued' /\ issued' > issued /\ k = TokenKey(p))
    <3>1. CASE q = p
      BY <2>2, <3>1 DEF OwnToken
    <3>2. CASE q # p
      BY <1>3, <1>4, <2>2, <3>2 DEF Belongs
    <3>. QED  BY <3>1, <3>2
  <2>. QED  BY <1>5, <2>1, <2>2 DEF Belongs
<1>6. OneOwner'
  <2>. SUFFICES ASSUME NEW r \in Nat \ {0}, NEW k \in TokenKeys, NEW m \in TokenKeys,
                       Belongs(r, k)', Belongs(r, m)'
                PROVE  k = m
    BY DEF OneOwner
  <2>1. issued' > issued /\ r = issued' => ~Belongs(r, k) /\ ~Belongs(r, m)
    BY <1>2 DEF LiveInv, Issued
  <2>. QED  BY <1>5, <2>1 DEF LiveInv, OneOwner
<1>7. Issued'
  <2>. SUFFICES ASSUME NEW r \in Nat, NEW k \in TokenKeys, Belongs(r, k)'
                PROVE  r <= issued'
    BY DEF Issued
  <2>1. CASE r = 0
    BY <1>2, <2>1
  <2>2. CASE r # 0
    <3>1. issued' >= issued
      BY DEF OwnToken
    <3>2. Belongs(r, k) => r <= issued
      BY DEF LiveInv, Issued
    <3>. QED  BY <1>2, <1>5, <2>2, <3>1, <3>2
  <2>. QED  BY <2>1, <2>2
<1>8. \* The token p held was nobody else's.
      ASSUME NEW r \in live, NEW k \in TokenKeys, Belongs(r, k), k # TokenKey(p)
      PROVE  r \in live'
  <2>1. SUFFICES ASSUME pc[p] \in Inside, r = job[p].tok.rt PROVE FALSE
    BY DEF OwnToken
  <2>2. Belongs(r, TokenKey(p)) /\ TokenKey(p) \in TokenKeys
    <3>1. pc[p] # "idle"
      BY <2>1 DEF Inside
    <3>. QED  BY <1>1, <2>1, <3>1, KeysOK DEF Belongs
  <2>. QED  BY <1>2, <1>8, <2>2 DEF LiveInv, OneOwner
<1>9. LiveCache'
  <2>. SUFFICES ASSUME NEW k \in TokenKeys, tokenCache'[k] # NoToken
                PROVE  \/ tokenCache'[k].rt \in live'
                       \/ \E q \in Procs : pc'[q] = "persistToken" /\ TokenKey(q)' = k
    BY DEF LiveCache
  <2>1. CASE UNCHANGED <<tokenCache, live>> /\ pc[p] # "persistToken"
    BY <1>3, <1>4, <2>1 DEF LiveInv, LiveCache
  <2>2. CASE k = TokenKey(p) /\ ~(UNCHANGED <<tokenCache, live>> /\ pc[p] # "persistToken")
    BY <2>2 DEF OwnToken
  <2>3. CASE k # TokenKey(p)
    <3>1. tokenCache'[k] = tokenCache[k]
      BY <2>3 DEF OwnToken
    <3>2. CASE tokenCache[k].rt \in live
      BY <1>8, <2>3, <3>1, <3>2 DEF Belongs
    <3>3. ASSUME NEW q \in Procs, pc[q] = "persistToken", TokenKey(q) = k
          PROVE  pc'[q] = "persistToken" /\ TokenKey(q)' = k
      BY <1>3, <1>4, <2>3, <3>3
    <3>. QED  BY <3>1, <3>2, <3>3 DEF LiveInv, LiveCache
  <2>. QED  BY <2>1, <2>2, <2>3
<1>10. ASSUME NEW q \in Procs \ {p} PROVE LiveJob(q)'
  <2>1. /\ pc'[q] = pc[q] /\ job'[q] = job[q] /\ TokenKey(q)' = TokenKey(q)
        /\ LiveJob(q)
    BY <1>3, <1>4 DEF LiveInv
  <2>2. CASE pc[q] \in Inside
    <3>1. TokenKey(q) \in TokenKeys
      <4>1. pc[q] # "idle"
        BY <2>2 DEF Inside
      <4>. QED  BY <1>1, <4>1, KeysOK
    <3>2. pc[p] \in Inside => TokenKey(q) # TokenKey(p)
      BY <2>2, InsideAlone
    <3>3. ASSUME NEW r \in live, r \in {job[q].tok.rt, job[q].new} PROVE r \in live'
      <4>1. Belongs(r, TokenKey(q))
        BY <2>2, <3>3 DEF Belongs
      <4>2. CASE pc[p] \in Inside
        BY <1>8, <3>1, <3>2, <4>1, <4>2
      <4>. QED  BY <4>2 DEF OwnToken
    <3>4. tokenCache'[TokenKey(q)] = tokenCache[TokenKey(q)]
      <4>1. Disciplined(p) /\ tokenLock[TokenKey(q)] = q
        BY <2>2, StepSafe DEF SafeInv, SafeOK, LockOK, HoldsToken
      <4>. QED  BY <3>1, <4>1 DEF Disciplined
    <3>. QED  BY <2>1, <3>3, <3>4 DEF LiveJob, InLogin
  <2>3. CASE pc[q] \notin Inside
    <3>1. pc[q] \notin LoginPCs \cup {"lockSts", "persistToken"} \cup Deleted
      BY <2>3 DEF Inside, PCs, LoginPCs, RetrievePCs, LogoutPCs, Deleted
    <3>. QED  BY <2>1, <3>1 DEF LiveJob, InLogin
  <2>. QED  BY <2>2, <2>3
<1>11. LiveJob(p)'
  BY DEF OwnToken
<1>. QED  BY <1>6, <1>7, <1>9, <1>10, <1>11 DEF LiveInv

\* The fields a step may set that leave its tokens alone.
LEMMA SetsTokens ==
  ASSUME WellFormed, NEW p \in Procs, NEW v, NEW w,
         \/ UNCHANGED job
         \/ job' = [job EXCEPT ![p].sts = v]
         \/ job' = [job EXCEPT ![p].exch = v]
         \/ job' = [job EXCEPT ![p].want = v]
         \/ job' = [job EXCEPT ![p].want = @ \ v]
         \/ job' = [job EXCEPT ![p].out = v]
         \/ job' = [job EXCEPT ![p].want = v, ![p].keys = w]
         \/ job' = [job EXCEPT ![p].out = v, ![p].want = w]
         \/ job' = [job EXCEPT ![p].out = v, ![p].want = @ \ w]
  PROVE  job'[p].tok = job[p].tok /\ job'[p].new = job[p].new
<1>1. job[p] \in JobSet
  BY JobTypes
<1>. QED  BY <1>1 DEF JobSet, WellFormed, TypeOK

\* A step that has nothing to do with tokens.
Untouched(p) ==
  /\ UNCHANGED <<tokenCache, live>> /\ issued' >= issued
  /\ Kept(job[p], job'[p])
  /\ job'[p].tok = job[p].tok /\ job'[p].new = job[p].new
  /\ "persistToken" \notin {pc[p], pc'[p]}
  /\ pc'[p] \in Inside => pc[p] \in Inside \cup {"lockToken"}
  /\ pc'[p] \in (LoginPCs \ {"snapshot"}) \cup {"lockSts"}
       => \/ pc[p] \in (LoginPCs \ {"snapshot"}) \cup {"lockSts"}
          \/ job[p].op \in {"retrieve", "logout"}
  /\ pc'[p] = "snapshot" => pc[p] = "lockToken"
  /\ pc'[p] \in Deleted => pc[p] \in Deleted
  /\ pc'[p] = "lockToken" => pc[p] = "lockToken"

LEMMA UntouchedOwn ==
  ASSUME SafeInv, LiveInv, NEW p \in Procs, Untouched(p)
  PROVE  OwnToken(p)
<1>1. WellFormed /\ LiveJob(p) /\ SafeOK(p)
  BY DEF SafeInv, LiveInv
<1>2. TokenKey(p)' = TokenKey(p)
  BY DEF Untouched, Kept, TokenKey
<1>3. pc[p] = "lockToken" => job[p].tok = NoToken /\ job[p].new = 0
  BY <1>1 DEF LiveJob, SafeOK, LockOK, HoldsToken
<1>4. ASSUME NEW r \in Nat \ {0},
             \/ TokenKey(p) \in TokenKeys /\ tokenCache'[TokenKey(p)].rt = r
             \/ pc'[p] \in Inside /\ r \in {job'[p].tok.rt, job'[p].new}
      PROVE  Belongs(r, TokenKey(p))
  BY <1>3, <1>4 DEF Untouched, Belongs, NoToken
<1>5. LiveJob(p)'
  <2>1. InLogin(p)' /\ pc'[p] # "snapshot" =>
          InLogin(p) /\ pc[p] # "snapshot"
    BY DEF Untouched, InLogin, Kept
  <2>2. pc'[p] = "snapshot" => job'[p].new = 0
    BY <1>3 DEF Untouched
  <2>3. InLogin(p)' /\ pc'[p] = "snapshot" => job'[p].new = 0
    BY <2>2
  <2>. QED  BY <1>1, <1>2, <2>1, <2>3 DEF Untouched, LiveJob
<1>. QED  BY <1>2, <1>4, <1>5 DEF OwnToken, Untouched

\* Most steps have nothing to do with tokens: they end the command,
LEMMA FinishUntouched ==
  ASSUME WellFormed, NEW p \in Procs, NEW v, Finish(p, v) \/ Rollback(p),
         Rollback(p) => pc[p] \in LoginPCs \ {"snapshot"},
         UNCHANGED <<tokenCache, live>>, issued' \in {issued, issued + 1},
         pc[p] # "persistToken"
  PROVE  Untouched(p)
<1>1. /\ UNCHANGED job \/ job' = [job EXCEPT ![p].out = v]
      /\ pc'[p] = "unwind" \/ (Rollback(p) /\ pc'[p] = "restoreToken")
  BY DEF Finish, Rollback, Goto, WellFormed, TypeOK
<1>2. Kept(job[p], job'[p])
  BY <1>1, SetsKept
<1>3. job'[p].tok = job[p].tok /\ job'[p].new = job[p].new
  BY <1>1, SetsTokens
<1>4. issued' >= issued
  BY DEF WellFormed, TypeOK, SharedTypeOK
<1>5. /\ pc'[p] \notin Deleted \cup {"persistToken", "snapshot", "lockToken", "lockSts"}
      /\ pc'[p] \in Inside \cup LoginPCs => pc[p] \in LoginPCs \ {"snapshot"}
      /\ pc[p] \in LoginPCs => pc[p] \in Inside
  BY <1>1 DEF Inside, PCs, LoginPCs, Deleted
<1>. QED  BY <1>2, <1>3, <1>4, <1>5 DEF Untouched

\* or take it on without setting its tokens.
SetsOther(p) ==
  \/ UNCHANGED job
  \/ \E v : job' = [job EXCEPT ![p].sts = v]
  \/ \E v : job' = [job EXCEPT ![p].exch = v]
  \/ \E v : job' = [job EXCEPT ![p].want = v]
  \/ \E v : job' = [job EXCEPT ![p].want = @ \ v]
  \/ \E v : job' = [job EXCEPT ![p].out = v]
  \/ \E v, w : job' = [job EXCEPT ![p].want = v, ![p].keys = w]
  \/ \E v, w : job' = [job EXCEPT ![p].out = v, ![p].want = @ \ w]

GoesOn(p, l) ==
  /\ "persistToken" \notin {pc[p], l}
  /\ l \in Inside => pc[p] \in Inside \cup {"lockToken"}
  /\ l \in (LoginPCs \ {"snapshot"}) \cup {"lockSts"}
       => \/ pc[p] \in (LoginPCs \ {"snapshot"}) \cup {"lockSts"}
          \/ job[p].op \in {"retrieve", "logout"}
  /\ l = "snapshot" => pc[p] = "lockToken"
  /\ l \in Deleted => pc[p] \in Deleted
  /\ l = "lockToken" => pc[p] = "lockToken"

LEMMA GoesOnUntouched ==
  ASSUME WellFormed, NEW p \in Procs, NEW l, Goto(p, l), GoesOn(p, l), SetsOther(p),
         UNCHANGED <<tokenCache, live>>, issued' \in {issued, issued + 1}
  PROVE  Untouched(p)
<1>1. Kept(job[p], job'[p])
  BY SetsKept DEF SetsOther
<1>2. job'[p].tok = job[p].tok /\ job'[p].new = job[p].new
  <2>1. PICK v, w : \/ UNCHANGED job
                    \/ job' = [job EXCEPT ![p].sts = v]
                    \/ job' = [job EXCEPT ![p].exch = v]
                    \/ job' = [job EXCEPT ![p].want = v]
                    \/ job' = [job EXCEPT ![p].want = @ \ v]
                    \/ job' = [job EXCEPT ![p].out = v]
                    \/ job' = [job EXCEPT ![p].want = v, ![p].keys = w]
                    \/ job' = [job EXCEPT ![p].out = v, ![p].want = @ \ w]
    BY DEF SetsOther
  <2>. QED  BY <2>1, SetsTokens
<1>3. pc'[p] = l
  BY DEF Goto, WellFormed, TypeOK
<1>4. issued' >= issued
  BY DEF WellFormed, TypeOK, SharedTypeOK
<1>. QED  BY <1>1, <1>2, <1>3, <1>4 DEF Untouched, GoesOn

LEMMA MostUntouched ==
  ASSUME WellFormed, Reliable, NEW p \in Procs,
         \/ AcquireTokenLock(p) \/ AcquireStsLock(p) \/ LockFails(p)
         \/ RefreshRefused(p) \/ ReadSts(p) \/ ExchangeGranted(p) \/ ExchangeFails(p)
         \/ PersistSts(p) \/ PatchProfile(p) \/ PatchMismatch(p) \/ Mark(p)
         \/ Reread(p) \/ Return(p)
         \/ NotAuthorized(p) \/ CheckLogin(p) \/ LoginStepFails(p) \/ Bind(p)
         \/ DeleteOldSts(p) \/ DeleteOldStsFails(p) \/ CommitBinding(p) \/ RestoreSts(p)
         \/ CollectKeys(p) \/ DeleteSts(p) \/ ClearProfiles(p)
  PROVE  Untouched(p)
<1>1. /\ pc \in [Procs -> PCs] /\ JobAt(pc[p], job[p])
  BY JobTypes DEF WellFormed, TypeOK, SharedTypeOK
<1>2. /\ UNCHANGED <<tokenCache, live>> /\ issued' \in {issued, issued + 1}
  <2>1. ASSUME ~ExchangeGranted(p) PROVE UNCHANGED <<tokenCache, live, issued>>
    BY <2>1
    DEF AcquireTokenLock, AcquireStsLock, LockFails, RefreshRefused, ReadSts,
        ExchangeFails, PersistSts, PatchProfile, PatchMismatch, Mark, Reread, Return,
        NotAuthorized, CheckLogin, LoginStepFails, Bind, DeleteOldSts,
        DeleteOldStsFails, CommitBinding, RestoreSts, CollectKeys, DeleteSts,
        ClearProfiles, shared, cacheVars, serverVars
  <2>2. CASE ExchangeGranted(p)
    BY <2>2 DEF ExchangeGranted, cacheVars
  <2>. QED  BY <2>1, <2>2
<1>3. ASSUME NEW v, Finish(p, v), pc[p] # "persistToken" PROVE Untouched(p)
  <2>1. ~Rollback(p)
    BY <1>1, <1>3 DEF Finish, Rollback, Goto
  <2>. QED  BY <1>2, <1>3, <2>1, FinishUntouched
<1>4. ASSUME Rollback(p), pc[p] \in LoginPCs \ {"snapshot"} PROVE Untouched(p)
  <2>1. pc[p] # "persistToken"
    BY <1>4 DEF LoginPCs
  <2>. QED  BY <1>2, <1>4, <2>1, FinishUntouched
<1>5. ASSUME NEW l, Goto(p, l), GoesOn(p, l), SetsOther(p) PROVE Untouched(p)
  BY <1>2, <1>5, GoesOnUntouched
<1>6. CASE LockFails(p) \/ RefreshRefused(p) \/ ExchangeFails(p) \/ Return(p)
  BY <1>3, <1>6 DEF LockFails, RefreshRefused, ExchangeFails, Return
<1>7. CASE PatchMismatch(p) \/ RestoreSts(p)
  <2>1. PICK v : Finish(p, v)
    BY <1>7 DEF PatchMismatch, RestoreSts
  <2>. QED  BY <1>3, <1>7, <2>1 DEF PatchMismatch, RestoreSts
<1>8. CASE NotAuthorized(p) \/ LoginStepFails(p) \/ DeleteOldStsFails(p)
  BY <1>4, <1>8 DEF NotAuthorized, LoginStepFails, DeleteOldStsFails, LoginPCs
<1>9. CASE CheckLogin(p) \/ CommitBinding(p)
  <2>1. pc[p] \in LoginPCs \ {"snapshot"} /\ pc[p] # "persistToken"
    BY <1>9 DEF CheckLogin, CommitBinding, LoginPCs
  <2>2. Finish(p, "ok") \/ Rollback(p)
    BY <1>9 DEF CheckLogin, CommitBinding
  <2>. QED  BY <1>3, <1>4, <2>1, <2>2
<1>10. CASE AcquireTokenLock(p)
  <2>1. SetsOther(p)
    <3>1. PICK v : job' = [job EXCEPT ![p].want = @ \ v]
      BY <1>10 DEF AcquireTokenLock
    <3>. QED  BY <3>1 DEF SetsOther
  <2>2. PICK l \in {"lockToken", "readToken", "collect", "snapshot"} : Goto(p, l)
    BY <1>1, <1>10 DEF AcquireTokenLock, AfterTokenLocks, Goto
  <2>3. GoesOn(p, l)
    BY <1>10 DEF AcquireTokenLock, GoesOn, Inside, PCs, LoginPCs, Deleted
  <2>. QED  BY <1>5, <2>1, <2>2, <2>3
<1>11. CASE AcquireStsLock(p)
  <2>1. SetsOther(p)
    <3>1. PICK v : job' = [job EXCEPT ![p].want = @ \ v]
      BY <1>11 DEF AcquireStsLock
    <3>. QED  BY <3>1 DEF SetsOther
  <2>2. PICK l \in {"lockSts", "readSts", "check", "deleteOldSts"} : Goto(p, l)
    BY <1>1, <1>11 DEF AcquireStsLock, Goto
  <2>3. GoesOn(p, l)
    BY <1>11 DEF AcquireStsLock, GoesOn, Inside, PCs, LoginPCs, Deleted
  <2>. QED  BY <1>5, <2>1, <2>2, <2>3
<1>12. CASE \/ ReadSts(p) \/ ExchangeGranted(p) \/ PersistSts(p) \/ PatchProfile(p)
            \/ Mark(p) \/ Reread(p)
  <2>1. pc[p] \in {"readSts", "exchange", "persistSts", "patch", "mark", "reread"}
    BY <1>12 DEF ReadSts, ExchangeGranted, PersistSts, PatchProfile, Mark, Reread
  <2>2. ASSUME ~ \E v : Finish(p, v) PROVE Untouched(p)
    <3>1. \/ UNCHANGED job
          \/ \E v : job' = [job EXCEPT ![p].sts = v]
          \/ \E v : job' = [job EXCEPT ![p].exch = v]
      BY <1>12, <2>2
      DEF ReadSts, ExchangeGranted, PersistSts, PatchProfile, Mark, Reread
    <3>2. PICK l \in {"return", "patch", "exchange", "refresh", "persistSts", "mark",
                      "reread"} : Goto(p, l)
      BY <1>12, <2>2
      DEF ReadSts, ExchangeGranted, PersistSts, PatchProfile, Mark, Reread
    <3>3. GoesOn(p, l)
      BY <2>1 DEF GoesOn, Inside, PCs, RetrievePCs, LoginPCs, Deleted
    <3>4. SetsOther(p)
      BY <3>1 DEF SetsOther
    <3>. QED  BY <1>5, <3>2, <3>3, <3>4
  <2>. QED  BY <1>3, <2>1, <2>2
<1>13. CASE Bind(p) \/ DeleteOldSts(p)
  <2>1. /\ pc[p] \in {"bind", "deleteOldSts"}
        /\ \/ UNCHANGED job
           \/ \E v : job' = [job EXCEPT ![p].want = v]
           \/ \E v : job' = [job EXCEPT ![p].sts = v]
    BY <1>13 DEF Bind, DeleteOldSts
  <2>2. PICK l \in {"lockSts", "commit"} : Goto(p, l)
    BY <1>13 DEF Bind, DeleteOldSts
  <2>3. GoesOn(p, l)
    BY <2>1 DEF GoesOn, Inside, PCs, LoginPCs, Deleted
  <2>4. SetsOther(p)
    BY <2>1 DEF SetsOther
  <2>. QED  BY <1>5, <2>2, <2>3, <2>4
<1>14. CASE CollectKeys(p)
  <2>1. pc[p] = "collect" /\ job[p].op = "logout"
    BY <1>1, <1>14 DEF CollectKeys, JobAt, LogoutPCs
  <2>2. ASSUME ~Finish(p, "failed") PROVE Untouched(p)
    <3>1. \E v, w : job' = [job EXCEPT ![p].want = v, ![p].keys = w]
      BY <1>14, <2>2 DEF CollectKeys
    <3>2. PICK l \in {"check", "lockSts"} : Goto(p, l)
      BY <1>14, <2>2 DEF CollectKeys
    <3>3. GoesOn(p, l)
      BY <2>1 DEF GoesOn, Inside, PCs, LogoutPCs, LoginPCs, Deleted
    <3>4. SetsOther(p)
      BY <3>1 DEF SetsOther
    <3>. QED  BY <1>5, <3>2, <3>3, <3>4
  <2>. QED  BY <1>3, <2>1, <2>2
<1>15. CASE DeleteSts(p) \/ ClearProfiles(p)
  <2>1. pc[p] \in {"deleteSts", "clearProfiles"}
    BY <1>15 DEF DeleteSts, ClearProfiles
  <2>2. \/ \E v, w : job' = [job EXCEPT ![p].out = v, ![p].want = @ \ w]
        \/ \E v : job' = [job EXCEPT ![p].out = v]
    BY <1>15 DEF DeleteSts, ClearProfiles
  <2>3. PICK l \in {"clearProfiles", "deleteSts", "unwind", "revoke"} : Goto(p, l)
    BY <1>15 DEF DeleteSts, ClearProfiles
  <2>4. GoesOn(p, l)
    BY <2>1 DEF GoesOn, Inside, PCs, LogoutPCs, LoginPCs, Deleted
  <2>5. SetsOther(p)
    BY <2>2 DEF SetsOther
  <2>. QED  BY <1>5, <2>3, <2>4, <2>5
<1>. QED
  BY <1>6, <1>7, <1>8, <1>9, <1>10, <1>11, <1>12, <1>13, <1>14, <1>15

\* Every new credential has a number of its own.
LEMMA TokenStepsOwn ==
  ASSUME SafeInv, LiveInv, Reliable, NEW p \in Procs,
         \/ ReadToken(p) \/ RefreshGranted(p) \/ PersistToken(p)
         \/ Snapshot(p) \/ Authorized(p) \/ PersistLogin(p) \/ RestoreToken(p)
         \/ CheckKeys(p) \/ DeleteToken(p) \/ Revoke(p)
  PROVE  OwnToken(p)
<1>1. /\ WellFormed /\ LiveJob(p) /\ SafeOK(p) /\ JobAt(pc[p], job[p])
      /\ job[p] \in JobSet /\ job[p].tok \in TokenSet /\ job[p].new \in Nat
  BY JobTypes DEF SafeInv, LiveInv
<1>2. /\ pc \in [Procs -> PCs] /\ tokenCache \in [TokenKeys -> TokenSet]
      /\ issued \in Nat /\ live \subseteq Ids /\ live \subseteq Nat \ {0}
  BY <1>1 DEF WellFormed, TypeOK, SharedTypeOK, Ids
<1>3. pc[p] \in Inside /\ pc[p] # "idle"
  BY DEF ReadToken, RefreshGranted, PersistToken, Snapshot, Authorized, PersistLogin,
         RestoreToken, CheckKeys, DeleteToken, Revoke, Inside, PCs, RetrievePCs,
         LoginPCs, LogoutPCs
<1>4. TokenKey(p) \in TokenKeys
  BY <1>1, <1>3, KeysOK
<1>5. WriteOutcomes = {"ok"} /\ DeleteOutcomes = {"ok"} /\ "net" \notin Faults
  BY DEF Reliable, WriteOutcomes, DeleteOutcomes
<1>6. ASSUME Kept(job[p], job'[p]) PROVE TokenKey(p)' = TokenKey(p)
  BY <1>6 DEF Kept, TokenKey
<1>7. /\ Belongs(job[p].tok.rt, TokenKey(p)) /\ Belongs(job[p].new, TokenKey(p))
      /\ Belongs(tokenCache[TokenKey(p)].rt, TokenKey(p))
  BY <1>3, <1>4 DEF Belongs
<1>8. \* The live token of the cache this command is alone with.
      pc[p] # "persistToken" /\ tokenCache[TokenKey(p)] # NoToken =>
        tokenCache[TokenKey(p)].rt \in live
  <2>1. ASSUME NEW q \in Procs, pc[q] = "persistToken", TokenKey(q) = TokenKey(p)
        PROVE  q = p
    <3>1. pc[q] \in Inside
      BY <2>1 DEF Inside, PCs, RetrievePCs
    <3>. QED  BY <1>3, <2>1, <3>1, InsideAlone
  <2>. QED  BY <1>4, <2>1 DEF LiveInv, LiveCache
<1>9. ASSUME NEW v \in {"failed", "ok"}, Finish(p, v), UNCHANGED <<tokenCache, live, issued>>,
             pc[p] # "persistToken"
      PROVE  OwnToken(p)
  <2>1. ~Rollback(p) /\ issued' \in {issued, issued + 1}
    BY <1>2, <1>9 DEF Finish, Rollback, Goto
  <2>2. Untouched(p)
    BY <1>1, <1>9, <2>1, FinishUntouched
  <2>. QED  BY <2>2, UntouchedOwn
<1>10. \* The steps that look at the cache.
      ASSUME NEW l \in {"lockSts", "refresh", "authorize", "deleteToken"},
             pc'[p] = l, Kept(job[p], job'[p]), job'[p].new = job[p].new,
             job'[p].tok = tokenCache[TokenKey(p)],
             UNCHANGED <<tokenCache, live, issued>>,
             pc[p] \in {"readToken", "snapshot", "check"},
             pc[p] = "snapshot" => l = "authorize" /\ job[p].new = 0,
             pc[p] # "snapshot" => job[p].op \in {"retrieve", "logout"}
      PROVE  OwnToken(p)
  <2>1. LiveJob(p)'
    <3>1. CASE job[p].op \in {"retrieve", "logout"}
      BY <1>1, <1>10, <3>1 DEF LiveJob, InLogin, Kept, Deleted
    <3>2. CASE pc[p] = "snapshot"
      BY <1>8, <1>10, <3>2 DEF LiveJob, InLogin, Kept, Deleted
    <3>. QED  BY <1>10, <3>1, <3>2
  <2>2. \A r \in {tokenCache'[TokenKey(p)].rt, job'[p].tok.rt, job'[p].new} :
          Belongs(r, TokenKey(p))
    BY <1>7, <1>10
  <2>. QED  BY <1>2, <1>6, <1>10, <2>1, <2>2 DEF OwnToken
<1>11. CASE ReadToken(p)
  <2>1. UNCHANGED <<tokenCache, live, issued>> /\ pc[p] = "readToken"
    BY <1>11 DEF ReadToken, shared, cacheVars, serverVars
  <2>2. CASE ~Finish(p, "failed")
    <3>1. PICK l \in {"lockSts", "refresh"} :
            /\ pc'[p] = l
            /\ job' = [job EXCEPT ![p].tok = tokenCache[TokenKey(p)], ![p].want = NeedSts(p)]
      BY <1>2, <1>11, <2>2 DEF ReadToken, Goto
    <3>2. /\ Kept(job[p], job'[p]) /\ job'[p].new = job[p].new
          /\ job'[p].tok = tokenCache[TokenKey(p)]
      BY <1>1, <3>1 DEF Kept, JobSet, WellFormed, TypeOK
    <3>3. job[p].op = "retrieve"
      BY <1>1, <2>1 DEF JobAt, RetrievePCs
    <3>. QED  BY <1>10, <2>1, <3>1, <3>2, <3>3
  <2>. QED  BY <1>9, <2>1, <2>2
<1>12. CASE Snapshot(p)
  <2>1. UNCHANGED <<tokenCache, live, issued>> /\ pc[p] = "snapshot"
    BY <1>12 DEF Snapshot, shared, cacheVars, serverVars
  <2>2. CASE ~Finish(p, "failed")
    <3>1. /\ pc'[p] = "authorize"
          /\ job' = [job EXCEPT ![p].tok = tokenCache[TokenKey(p)]]
      BY <1>2, <1>12, <2>2 DEF Snapshot, Goto
    <3>2. /\ Kept(job[p], job'[p]) /\ job'[p].new = job[p].new
          /\ job'[p].tok = tokenCache[TokenKey(p)]
      BY <1>1, <3>1 DEF Kept, JobSet, WellFormed, TypeOK
    <3>3. job[p].new = 0
      BY <1>1, <2>1 DEF SafeOK, LockOK, HoldsToken
    <3>. QED  BY <1>10, <2>1, <3>1, <3>2, <3>3
  <2>. QED  BY <1>9, <2>1, <2>2
<1>13. CASE CheckKeys(p)
  <2>1. UNCHANGED <<tokenCache, live, issued>> /\ pc[p] = "check"
    BY <1>13 DEF CheckKeys, cacheVars, serverVars
  <2>2. CASE ~Finish(p, "failed")
    <3>1. /\ pc'[p] = "deleteToken"
          /\ job' = [job EXCEPT ![p].tok = tokenCache[TokenKey(p)], ![p].out = "ok"]
      BY <1>2, <1>13, <2>2 DEF CheckKeys, Goto
    <3>2. /\ Kept(job[p], job'[p]) /\ job'[p].new = job[p].new
          /\ job'[p].tok = tokenCache[TokenKey(p)]
      BY <1>1, <3>1 DEF Kept, JobSet, WellFormed, TypeOK
    <3>3. job[p].op = "logout"
      BY <1>1, <2>1 DEF JobAt, LogoutPCs
    <3>. QED  BY <1>10, <2>1, <3>1, <3>2, <3>3
  <2>. QED  BY <1>9, <2>1, <2>2
<1>14. CASE RefreshGranted(p)
  <2>1. PICK rt \in {issued', job[p].tok.rt} :
          /\ live' = (live \ {job[p].tok.rt}) \cup {rt}
          /\ job' = [job EXCEPT ![p].tok = [at |-> issued', rt |-> rt]]
    BY <1>14 DEF RefreshGranted
  <2>2. /\ pc'[p] = "persistToken" /\ issued' = issued + 1 /\ UNCHANGED tokenCache
        /\ job[p].tok.rt \in live /\ pc[p] = "refresh"
    BY <1>2, <1>14 DEF RefreshGranted, Goto, cacheVars
  <2>3. /\ Kept(job[p], job'[p]) /\ job'[p].new = job[p].new
        /\ job'[p].tok = [at |-> issued', rt |-> rt]
    BY <1>1, <2>1 DEF Kept, JobSet, WellFormed, TypeOK
  <2>4. LiveJob(p)'
    BY <2>1, <2>2, <2>3 DEF LiveJob, InLogin, LoginPCs, Deleted
  <2>5. \A r \in {tokenCache'[TokenKey(p)].rt, job'[p].tok.rt, job'[p].new} :
          Belongs(r, TokenKey(p)) \/ r = issued'
    BY <1>7, <2>1, <2>2, <2>3
  <2>. QED  BY <1>2, <1>3, <1>6, <2>1, <2>2, <2>3, <2>4, <2>5 DEF OwnToken
<1>15. CASE PersistToken(p)
  <2>1. /\ tokenCache' = [tokenCache EXCEPT ![TokenKey(p)] = job[p].tok]
        /\ pc[p] = "persistToken" /\ UNCHANGED <<live, issued>>
        /\ \/ pc'[p] \in {"exchange", "lockSts"} /\ job' = [job EXCEPT ![p].want = NeedSts(p)]
           \/ pc'[p] = "unwind" /\ job' = [job EXCEPT ![p].out = "failed"]
    BY <1>2, <1>5, <1>15
    DEF PersistToken, After, WithUsableToken, Finish, Goto, serverVars
  <2>2. Kept(job[p], job'[p]) /\ job'[p].new = job[p].new /\ job'[p].tok = job[p].tok
    BY <1>1, <2>1, SetsKept, SetsTokens
  <2>3. tokenCache'[TokenKey(p)] = job[p].tok /\ job[p].tok.rt \in live
    BY <1>1, <1>2, <1>4, <2>1 DEF LiveJob
  <2>4. LiveJob(p)'
    <3>1. job[p].op = "retrieve"
      BY <1>1, <2>1 DEF JobAt, RetrievePCs
    <3>. QED  BY <2>1, <2>2, <3>1 DEF LiveJob, InLogin, Kept, Deleted
  <2>5. \A r \in {tokenCache'[TokenKey(p)].rt, job'[p].tok.rt, job'[p].new} :
          Belongs(r, TokenKey(p))
    BY <1>7, <2>2, <2>3
  <2>6. \A k \in TokenKeys : tokenCache'[k] = tokenCache[k] \/ k = TokenKey(p)
    BY <1>2, <2>1
  <2>. QED
    BY <1>2, <1>3, <1>6, <2>1, <2>2, <2>3, <2>4, <2>5, <2>6 DEF OwnToken
<1>16. CASE Authorized(p)
  <2>1. /\ job' = [job EXCEPT ![p].new = issued'] /\ issued' = issued + 1
        /\ live' = live \cup {issued'} /\ UNCHANGED tokenCache
        /\ pc[p] = "authorize" /\ pc'[p] = "persistLogin"
    BY <1>2, <1>16 DEF Authorized, Goto, cacheVars
  <2>2. /\ Kept(job[p], job'[p]) /\ job'[p].new = issued' /\ job'[p].tok = job[p].tok
    BY <1>1, <2>1 DEF Kept, JobSet, WellFormed, TypeOK
  <2>3. LiveJob(p)'
    BY <1>1, <2>1, <2>2 DEF LiveJob, InLogin, LoginPCs, Kept, Deleted
  <2>4. \A r \in {tokenCache'[TokenKey(p)].rt, job'[p].tok.rt, job'[p].new} :
          Belongs(r, TokenKey(p)) \/ r = issued'
    BY <1>7, <2>1, <2>2
  <2>. QED  BY <1>2, <1>3, <1>6, <1>8, <2>1, <2>2, <2>3, <2>4 DEF OwnToken
<1>17. CASE PersistLogin(p)
  <2>. DEFINE tok == [at |-> job[p].new, rt |-> job[p].new]
  <2>1. /\ tokenCache' = [tokenCache EXCEPT ![TokenKey(p)] = tok]
        /\ pc[p] = "persistLogin" /\ pc'[p] \in {"checkLogin", "bind"}
        /\ UNCHANGED <<job, live, issued>>
    BY <1>2, <1>5, <1>17 DEF PersistLogin, After, Rollback, Goto, serverVars
  <2>2. Kept(job[p], job'[p])
    BY <2>1 DEF Kept
  <2>3. tokenCache'[TokenKey(p)] = tok
    BY <1>2, <1>4, <2>1
  <2>4. InLogin(p) /\ InLogin(p)'
    BY <1>1, <2>1 DEF InLogin, JobAt, LoginPCs
  <2>5. LiveJob(p)'
    BY <1>1, <2>1, <2>4 DEF LiveJob, Deleted
  <2>6. \A r \in {tokenCache'[TokenKey(p)].rt, job'[p].tok.rt, job'[p].new} :
          Belongs(r, TokenKey(p))
    BY <1>7, <2>1, <2>3
  <2>7. \A k \in TokenKeys : tokenCache'[k] = tokenCache[k] \/ k = TokenKey(p)
    BY <1>2, <2>1
  <2>8. tok # NoToken => tok.rt \in live
    BY <1>1, <2>4 DEF LiveJob, NoToken
  <2>. QED
    BY <1>2, <1>3, <1>6, <2>1, <2>2, <2>3, <2>5, <2>6, <2>7, <2>8 DEF OwnToken
<1>18. CASE RestoreToken(p)
  <2>1. PICK v : job' = [job EXCEPT ![p].out = v]
    BY <1>18 DEF RestoreToken
  <2>2. /\ tokenCache' = [tokenCache EXCEPT ![TokenKey(p)] = job[p].tok]
        /\ pc[p] = "restoreToken" /\ pc'[p] \in {"unwind", "restoreSts"}
        /\ UNCHANGED <<live, issued>>
    BY <1>2, <1>5, <1>18 DEF RestoreToken, After, Goto, serverVars
  <2>3. Kept(job[p], job'[p]) /\ job'[p].tok = job[p].tok /\ job'[p].new = job[p].new
    BY <1>1, <2>1, SetsKept, SetsTokens
  <2>4. tokenCache'[TokenKey(p)] = job[p].tok
    BY <1>2, <1>4, <2>2
  <2>5. InLogin(p)
    BY <1>1, <2>2 DEF InLogin, JobAt, LoginPCs
  <2>6. LiveJob(p)'
    BY <1>1, <2>2, <2>3, <2>5 DEF LiveJob, Deleted
  <2>7. \A r \in {tokenCache'[TokenKey(p)].rt, job'[p].tok.rt, job'[p].new} :
          Belongs(r, TokenKey(p))
    BY <1>7, <2>3, <2>4
  <2>8. \A k \in TokenKeys : tokenCache'[k] = tokenCache[k] \/ k = TokenKey(p)
    BY <1>2, <2>2
  <2>9. job[p].tok # NoToken => job[p].tok.rt \in live
    BY <1>1, <2>2, <2>5 DEF LiveJob
  <2>. QED
    BY <1>2, <1>3, <1>6, <2>2, <2>3, <2>4, <2>6, <2>7, <2>8, <2>9 DEF OwnToken
<1>19. CASE DeleteToken(p)
  <2>1. PICK v : job' = [job EXCEPT ![p].out = v, ![p].want = job[p].keys]
    BY <1>19 DEF DeleteToken
  <2>2. /\ tokenCache' = [tokenCache EXCEPT ![TokenKey(p)] = NoToken]
        /\ pc[p] = "deleteToken" /\ pc'[p] \in {"clearProfiles", "deleteSts"}
        /\ UNCHANGED <<live, issued>>
    BY <1>2, <1>5, <1>19 DEF DeleteToken, After, Goto, serverVars
  <2>3. Kept(job[p], job'[p]) /\ job'[p].tok = job[p].tok /\ job'[p].new = job[p].new
    BY <1>1, <2>1, SetsKept, SetsTokens
  <2>4. tokenCache'[TokenKey(p)] = NoToken
    BY <1>2, <1>4, <2>2
  <2>5. LiveJob(p)'
    BY <1>6, <2>2, <2>3, <2>4 DEF LiveJob, InLogin, LoginPCs
  <2>6. \A r \in {job'[p].tok.rt, job'[p].new} : Belongs(r, TokenKey(p))
    BY <1>7, <2>3
  <2>7. \A k \in TokenKeys : tokenCache'[k] = tokenCache[k] \/ k = TokenKey(p)
    BY <1>2, <2>2
  <2>8. tokenCache'[TokenKey(p)].rt = 0
    BY <2>4 DEF NoToken
  <2>. QED
    BY <1>2, <1>3, <1>6, <2>2, <2>3, <2>4, <2>5, <2>6, <2>7, <2>8 DEF OwnToken
<1>20. CASE Revoke(p)
  <2>1. PICK v : Finish(p, v)
    BY <1>20 DEF Revoke
  <2>2. /\ pc[p] = "revoke" /\ pc'[p] = "unwind" /\ job' = [job EXCEPT ![p].out = v]
        /\ live' = live \ {job[p].tok.rt} /\ UNCHANGED <<tokenCache, issued>>
    BY <1>2, <1>5, <1>20, <2>1 DEF Revoke, After, Finish, Goto, cacheVars
  <2>3. Kept(job[p], job'[p]) /\ job'[p].tok = job[p].tok /\ job'[p].new = job[p].new
    BY <1>1, <2>2, SetsKept, SetsTokens
  <2>4. LiveJob(p)'
    BY <2>2 DEF LiveJob, InLogin, LoginPCs, Deleted
  <2>5. tokenCache[TokenKey(p)] = NoToken
    BY <1>1, <2>2 DEF LiveJob, Deleted
  <2>6. \A r \in {tokenCache'[TokenKey(p)].rt, job'[p].tok.rt, job'[p].new} :
          Belongs(r, TokenKey(p))
    BY <1>7, <2>2, <2>3
  <2>. QED
    BY <1>2, <1>3, <1>6, <2>2, <2>3, <2>4, <2>5, <2>6 DEF OwnToken
<1>. QED
  BY <1>11, <1>12, <1>13, <1>14, <1>15, <1>16, <1>17, <1>18, <1>19, <1>20

\* Starting and leaving.
LEMMA EndsOwn ==
  ASSUME SafeInv, LiveInv, NEW p \in Procs, StartCommand(p) \/ Unwind(p)
  PROVE  OwnToken(p)
<1>1. /\ WellFormed /\ pc \in [Procs -> PCs] /\ issued \in Nat
      /\ tokenCache \in [TokenKeys -> TokenSet]
  BY DEF SafeInv, WellFormed, TypeOK, SharedTypeOK
<1>2. CASE StartCommand(p)
  <2>1. PICK j : Start(p, j) /\ j.tok = NoToken
    <3>1. ASSUME NEW command, NEW f, NEW s PROVE NewJob(command, f, s).tok = NoToken
      BY DEF NewJob, NoJob
    <3>2. ASSUME NEW f \in Profiles, StartRetrieve(p, f)
          PROVE  \E j : Start(p, j) /\ j.tok = NoToken
      <4>. DEFINE j == [NewJob("retrieve", f, profile[f].ses) EXCEPT
                          !.role = profile[f].role]
      <4>1. j.tok = NoToken
        BY DEF NewJob, NoJob
      <4>. QED  BY <3>2, <4>1 DEF StartRetrieve
    <3>3. ASSUME NEW f \in Profiles, NEW s \in Sessions, NEW r \in Roles,
                 StartConfigure(p, f, s, r)
          PROVE  \E j : Start(p, j) /\ j.tok = NoToken
      <4>. DEFINE w == IF profile[f].ses = NoSession THEN {}
                       ELSE {<<sessionUrl[profile[f].ses], profile[f].ses>>}
                  j == [NewJob("configure", f, s) EXCEPT
                          !.role = r, !.orig = profile[f], !.want = @ \cup w]
      <4>1. j.tok = NoToken
        BY DEF NewJob, NoJob
      <4>. QED  BY <3>3, <4>1 DEF StartConfigure
    <3>. QED  BY <1>2, <3>1, <3>2, <3>3 DEF StartCommand, StartLogin, StartLogout
  <2>2. /\ pc[p] = "idle" /\ pc'[p] = "lockToken" /\ job'[p] = j
        /\ UNCHANGED <<tokenCache, live, issued>>
    BY <1>1, <2>1 DEF Start, Goto, WellFormed, TypeOK, cacheVars, serverVars
  <2>3. LiveJob(p)'
    BY <2>1, <2>2 DEF LiveJob, InLogin, LoginPCs, Deleted
  <2>4. pc'[p] \notin Inside /\ pc[p] # "persistToken"
    BY <2>2 DEF Inside
  <2>. QED  BY <1>1, <2>2, <2>3, <2>4 DEF OwnToken, Belongs
<1>3. CASE Unwind(p)
  <2>1. /\ pc[p] = "unwind" /\ pc'[p] = "idle"
        /\ UNCHANGED <<tokenCache, live, issued>>
    BY <1>1, <1>3 DEF Unwind, Release, Goto, cacheVars, serverVars
  <2>2. LiveJob(p)'
    BY <2>1 DEF LiveJob, InLogin, LoginPCs, Deleted
  <2>3. pc'[p] \notin Inside
    BY <2>1 DEF Inside
  <2>. QED  BY <1>1, <2>1, <2>2, <2>3 DEF OwnToken, Belongs
<1>. QED  BY <1>2, <1>3

LEMMA OutsideLive ==
  ASSUME LiveInv, UNCHANGED <<pc, job, tokenCache, live, issued>>
  PROVE  LiveInv'
<1>1. \A q : TokenKey(q)' = TokenKey(q) /\ InLogin(q)' = InLogin(q)
  BY DEF TokenKey, InLogin
<1>2. \A r, k : Belongs(r, k)' = Belongs(r, k)
  BY <1>1 DEF Belongs
<1>3. OneOwner' /\ Issued' /\ LiveCache'
  BY <1>1, <1>2 DEF LiveInv, OneOwner, Issued, LiveCache
<1>4. \A q \in Procs : LiveJob(q)'
  BY <1>1 DEF LiveInv, LiveJob
<1>. QED  BY <1>3, <1>4 DEF LiveInv

LEMMA NextLive ==
  ASSUME Reliable, SafeInv, LiveInv, [Next]_vars
  PROVE  LiveInv'
<1>1. ASSUME NEW p \in Procs, StepOf(p) PROVE LiveInv'
  <2>1. WellFormed /\ "io" \notin Faults /\ "net" \notin Faults /\ "crash" \notin Faults
    BY DEF SafeInv, Reliable
  <2>2. CASE \/ AcquireTokenLock(p) \/ AcquireStsLock(p) \/ LockFails(p)
             \/ RefreshRefused(p) \/ ReadSts(p) \/ ExchangeGranted(p) \/ ExchangeFails(p)
             \/ PersistSts(p) \/ PatchProfile(p) \/ PatchMismatch(p) \/ Mark(p)
             \/ Reread(p) \/ Return(p)
             \/ NotAuthorized(p) \/ CheckLogin(p) \/ LoginStepFails(p) \/ Bind(p)
             \/ DeleteOldSts(p) \/ DeleteOldStsFails(p) \/ CommitBinding(p)
             \/ RestoreSts(p) \/ CollectKeys(p) \/ DeleteSts(p) \/ ClearProfiles(p)
    BY <1>1, <2>1, <2>2, MostUntouched, UntouchedOwn, LiveStep
  <2>3. CASE \/ ReadTokenFails(p) \/ RefreshAnswerLost(p) \/ ReadStsFails(p)
             \/ RereadFails(p) \/ SnapshotFails(p) \/ CollectFails(p) \/ CheckFails(p)
             \/ Crash(p)
    BY <2>1, <2>3
    DEF ReadTokenFails, RefreshAnswerLost, ReadStsFails, RereadFails, SnapshotFails,
        CollectFails, CheckFails, Crash, ReadFails
  <2>4. CASE \/ ReadToken(p) \/ RefreshGranted(p) \/ PersistToken(p)
             \/ Snapshot(p) \/ Authorized(p) \/ PersistLogin(p) \/ RestoreToken(p)
             \/ CheckKeys(p) \/ DeleteToken(p) \/ Revoke(p)
    BY <1>1, <2>4, TokenStepsOwn, LiveStep
  <2>5. CASE StartCommand(p) \/ Unwind(p)
    BY <1>1, <2>5, EndsOwn, LiveStep
  <2>. QED
    BY <1>1, <2>2, <2>3, <2>4, <2>5
    DEF StepOf, Step, RetrieveStep, LoginStep, LogoutStep
<1>2. ASSUME Environment \/ UNCHANGED vars PROVE LiveInv'
  <2>1. UNCHANGED <<pc, job, tokenCache, live, issued>>
    BY <1>2
    DEF Environment, Expire, ConfigureDelete, ConfigureSession, ConfigureSetMode,
        Administer, vars, shared, cacheVars, serverVars
  <2>. QED  BY <2>1, OutsideLive
<1>. QED  BY <1>1, <1>2 DEF Next, StepOf, Rest

LEMMA InitLive == Init => LiveInv
<1>. SUFFICES ASSUME Init PROVE LiveInv
  OBVIOUS
<1>1. \A q \in Procs : pc[q] = "idle"
  BY DEF Init
<1>2. \A k \in TokenKeys :
        \/ tokenCache[k] = NoToken
        \/ /\ k[2] = LoggedIn /\ k[1] = HomeUrl[k[2]] /\ tokenCache[k] = [at |-> 1, rt |-> 1]
  BY DEF Init
<1>3. \A k \in TokenKeys : k = <<k[1], k[2]>> /\ k[2] \in Sessions
  BY DEF TokenKeys
<1>4. \A r, k : Belongs(r, k) => k \in TokenKeys /\ tokenCache[k].rt = r
  BY <1>1 DEF Belongs, Inside
<1>5. OneOwner
  BY <1>2, <1>3, <1>4 DEF OneOwner, NoToken
<1>6. /\ issued \in Nat
      /\ \A k \in TokenKeys : tokenCache[k] # NoToken => issued = 1 /\ 1 \in live
  BY <1>2, <1>3, StoreAssumption DEF Init, StoreAssumption
<1>7. Issued
  BY <1>2, <1>4, <1>6 DEF Issued, NoToken
<1>8. LiveCache
  BY <1>2, <1>6 DEF LiveCache
<1>9. \A q \in Procs : LiveJob(q)
  BY <1>1 DEF LiveJob, InLogin, LoginPCs, Deleted
<1>. QED  BY <1>5, <1>7, <1>8, <1>9 DEF LiveInv

\* While nothing is lost, nobody presents a refresh token that the server has
\* rotated away or revoked: not after another process has refreshed, logged in, been
\* rolled back or logged out.
THEOREM RefreshesAreLive ==
  ASSUME Reliable
  PROVE  Spec => []RefreshTokenIsLive
<1>1. SafeInv /\ LiveInv => RefreshTokenIsLive
  <2>. SUFFICES ASSUME SafeInv, LiveInv, NEW p \in Procs, pc[p] = "refresh"
                PROVE  job[p].tok.rt \in live
    BY DEF RefreshTokenIsLive
  <2>1. WellFormed /\ job[p].op = "retrieve" /\ pc[p] \in Inside /\ pc[p] # "idle"
    BY JobTypes DEF SafeInv, JobAt, RetrievePCs, Inside, PCs
  <2>2. job[p].tok = tokenCache[TokenKey(p)] /\ job[p].tok # NoToken
    BY <2>1 DEF SafeInv, SafeOK, CacheOK, KnowsCaches
  <2>3. TokenKey(p) \in TokenKeys
    BY <2>1, KeysOK
  <2>4. ASSUME NEW q \in Procs, pc[q] = "persistToken", TokenKey(q) = TokenKey(p)
        PROVE  FALSE
    <3>1. pc[q] \in Inside
      BY <2>4 DEF Inside, PCs, RetrievePCs
    <3>. QED  BY <2>1, <2>4, <3>1, InsideAlone
  <2>. QED  BY <2>2, <2>3, <2>4 DEF LiveInv, LiveCache
<1>2. SafeInv /\ LiveInv /\ [Next]_vars => LiveInv'
  BY NextLive
<1>. QED  BY <1>1, <1>2, InitLive, LocksProtect, PTL DEF Spec
=============================================================================
