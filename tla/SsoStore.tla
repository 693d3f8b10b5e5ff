------------------------------ MODULE SsoStore ------------------------------
(***************************************************************************)
(* The state the SSO commands of volclog share - config.json, the OAuth     *)
(* token caches, the STS caches and their locks - and the steps every       *)
(* command has in common: waiting for locks, leaving, crashing.  Each       *)
(* running command is a process of the operating system, so everything it   *)
(* knows is in its job and everything another one can see is on disk.       *)
(*                                                                         *)
(* An account and its role are one value of Roles.  A credential is the     *)
(* number of its issue: tokens and STS credentials are numbered together,   *)
(* so a number also stands for the expiry instant that came with it.        *)
(***************************************************************************)
EXTENDS Naturals, FiniteSets

CONSTANTS
  Procs,      \* volclog processes
  Profiles, Sessions, Urls, Roles,
  NoProc, NoProfile, NoSession, NoUrl, NoRole,
  Digest,     \* the order of lock keys: securestore.DigestKey
  Can,        \* the commands each process may run
  Bound,      \* initially bound profiles: profile -> <<session, role>>
  HomeUrl,    \* initial start URL of each session
  LoggedIn,   \* the session somebody has logged in to, or NoSession
  Faults,     \* what may go wrong: "crash", "io", "lock", "net"
  Admin,      \* configuration commands: "delete", "session", "mode"
  MaxId,      \* bound on credentials issued
  MaxCmds,    \* bound on commands started
  MaxAdmin    \* bound on configuration commands

Commands == {"retrieve", "login", "configure", "logout"}
TokenKeys == Urls \X Sessions
StsKeys == Sessions \X Roles
Ids == 1..MaxId

ASSUME StoreAssumption ==
  /\ NoProc \notin Procs /\ NoProfile \notin Profiles
  /\ NoSession \notin Sessions /\ NoUrl \notin Urls /\ NoRole \notin Roles
  /\ Digest \in [TokenKeys \cup StsKeys -> Nat]
  /\ Can \in [Procs -> SUBSET Commands]
  /\ DOMAIN Bound \subseteq Profiles
  /\ \A f \in DOMAIN Bound : Bound[f] \in StsKeys
  /\ HomeUrl \in [Sessions -> Urls]
  /\ LoggedIn \in Sessions \cup {NoSession}
  /\ Faults \subseteq {"crash", "io", "lock", "net"}
  /\ Admin \subseteq {"delete", "session", "mode"}
  /\ MaxId \in Nat \ {0} /\ MaxCmds \in Nat /\ MaxAdmin \in Nat

VARIABLES
  profile,     \* config.json: the profiles
  sessionUrl,  \* config.json: the start URL of each SSO session
  tokenCache,  \* token cache files, by start URL and session
  stsCache,    \* STS cache files, by session and role
  tokenLock, stsLock,  \* who is inside WithTokenLock, WithSTSLock
  configLock,  \* who is inside config.Update for more than one step
  pc, job,     \* each process: where it is and what it holds in memory
  issued,      \* number of credentials the servers have issued
  live,        \* refresh tokens the OAuth server still accepts
  stale,       \* credentials within RefreshWindow of their expiry
  cmds, admin, \* commands started so far
  patched      \* history: patches of sts-expiration that reached config.json

configVars == <<profile, sessionUrl>>
cacheVars == <<tokenCache, stsCache>>
lockVars == <<tokenLock, stsLock, configLock>>
serverVars == <<issued, live>>
budgetVars == <<stale, cmds, admin>>
shared == <<configVars, cacheVars, lockVars, serverVars, budgetVars, patched>>
vars == <<pc, job, shared>>

-----------------------------------------------------------------------------
(* Records: a profile, a token cache, an STS cache, a running command       *)

ProfileSet == [mode : {"absent", "sso", "other"},
               ses : Sessions \cup {NoSession}, role : Roles \cup {NoRole},
               exp : Nat]
TokenSet == [at : Nat, rt : Nat]
StsSet == [id : Nat, targets : SUBSET Profiles]
Verdicts == {"none", "ok", "failed", "partial", "unrolled"}
JobSet == [op : Commands \cup {"none"}, prof : Profiles \cup {NoProfile},
           url : Urls \cup {NoUrl}, ses : Sessions \cup {NoSession},
           role : Roles \cup {NoRole}, orig : ProfileSet, tok : TokenSet,
           new : Nat, sts : StsSet, exch : BOOLEAN,
           want : SUBSET (TokenKeys \cup StsKeys), keys : SUBSET StsKeys,
           out : Verdicts]

Absent == [mode |-> "absent", ses |-> NoSession, role |-> NoRole, exp |-> 0]
NoToken == [at |-> 0, rt |-> 0]
NoSts == [id |-> 0, targets |-> {}]
NoJob == [op |-> "none", prof |-> NoProfile, url |-> NoUrl, ses |-> NoSession,
          role |-> NoRole, orig |-> Absent, tok |-> NoToken, new |-> 0,
          sts |-> NoSts, exch |-> FALSE, want |-> {}, keys |-> {},
          out |-> "none"]

RetrievePCs == {"readToken", "refresh", "persistToken", "readSts", "exchange",
                "persistSts", "patch", "mark", "reread", "return"}
LoginPCs == {"snapshot", "authorize", "persistLogin", "checkLogin", "bind",
             "deleteOldSts", "commit", "restoreToken", "restoreSts"}
LogoutPCs == {"collect", "check", "deleteToken", "deleteSts",
              "clearProfiles", "revoke"}
PCs == {"idle", "lockToken", "lockSts", "unwind"}
         \cup RetrievePCs \cup LoginPCs \cup LogoutPCs

\* The cache entries and the profile binding a running command is about.
TokenKey(p) == <<job[p].url, job[p].ses>>
StsKey(p) == <<job[p].ses, job[p].role>>
OldKey(p) == <<job[p].orig.ses, job[p].orig.role>>
Binding(f) == <<profile[f].ses, profile[f].role>>
BoundTo(s) == {f \in Profiles : profile[f].ses = s}
KeysOf(s) ==
  {Binding(f) : f \in {g \in BoundTo(s) : profile[g].role # NoRole}}

Fresh(i) == i \notin stale

SharedTypeOK ==
  /\ profile \in [Profiles -> ProfileSet]
  /\ sessionUrl \in [Sessions -> Urls]
  /\ tokenCache \in [TokenKeys -> TokenSet]
  /\ stsCache \in [StsKeys -> StsSet]
  /\ tokenLock \in [TokenKeys -> Procs \cup {NoProc}]
  /\ stsLock \in [StsKeys -> Procs \cup {NoProc}]
  /\ configLock \in Procs \cup {NoProc}
  /\ issued \in 0..MaxId /\ live \subseteq Ids /\ stale \subseteq Ids
  /\ cmds \in Nat /\ admin \in Nat
  /\ patched \subseteq Profiles \X StsKeys \X Nat

TypeOK ==
  /\ SharedTypeOK
  /\ pc \in [Procs -> PCs]
  /\ job \in [Procs -> JobSet]

Init ==
  /\ profile = [f \in Profiles |->
       IF f \in DOMAIN Bound
         THEN [mode |-> "sso", ses |-> Bound[f][1], role |-> Bound[f][2],
               exp |-> 0]
         ELSE Absent]
  /\ sessionUrl = HomeUrl
  /\ tokenCache = [k \in TokenKeys |->
       IF k[2] = LoggedIn /\ k[1] = HomeUrl[k[2]]
         THEN [at |-> 1, rt |-> 1] ELSE NoToken]
  /\ stsCache = [k \in StsKeys |-> NoSts]
  /\ tokenLock = [k \in TokenKeys |-> NoProc]
  /\ stsLock = [k \in StsKeys |-> NoProc]
  /\ configLock = NoProc
  /\ pc = [p \in Procs |-> "idle"]
  /\ job = [p \in Procs |-> NoJob]
  /\ issued = IF LoggedIn = NoSession THEN 0 ELSE 1
  /\ live = IF LoggedIn = NoSession THEN {} ELSE {1}
  /\ stale = {} /\ cmds = 0 /\ admin = 0
  /\ patched = {}

-----------------------------------------------------------------------------
(* Building blocks of the commands                                          *)

Goto(p, label) == pc' = [pc EXCEPT ![p] = label]

\* The callback returns its verdict; the locks are given back by Unwind.
Finish(p, verdict) ==
  /\ Goto(p, "unwind")
  /\ job' = [job EXCEPT ![p].out = verdict]

(***************************************************************************)
(* A write through UpdateFile and atomicWrite takes effect or fails without *)
(* effect; and when syncing the directory fails, after the rename, it has   *)
(* taken effect and reports an error.  A deletion is one os.Remove.         *)
(***************************************************************************)
WriteOutcomes == {"ok"} \cup IF "io" \in Faults THEN {"lost", "late"} ELSE {}
DeleteOutcomes == {"ok"} \cup IF "io" \in Faults THEN {"lost"} ELSE {}
After(outcome, new, old) == IF outcome = "lost" THEN old ELSE new

\* A file that cannot be read: the command fails closed.
ReadFails(p) ==
  /\ "io" \in Faults
  /\ Finish(p, "failed")
  /\ UNCHANGED shared

\* A command begins: it has loaded the configuration, without any lock, and
\* knows whose token lock to take.
NewJob(command, f, s) ==
  [NoJob EXCEPT !.op = command, !.prof = f, !.url = sessionUrl[s], !.ses = s,
                !.want = {<<sessionUrl[s], s>>}]

Start(p, j) ==
  /\ pc[p] = "idle"
  /\ j.op \in Can[p]
  /\ cmds < MaxCmds
  /\ cmds' = cmds + 1
  /\ Goto(p, "lockToken")
  /\ job' = [job EXCEPT ![p] = j]
  /\ UNCHANGED <<configVars, cacheVars, lockVars, serverVars, stale, admin,
                 patched>>

\* Where the callback of the token locks begins.
AfterTokenLocks(p) ==
  CASE job[p].op = "retrieve" -> "readToken"
    [] job[p].op = "logout" -> "collect"
    [] OTHER -> "snapshot"

\* Mutants of AcquireTokenLock: it does not wait for the owner; it takes the
\* locks in the order they were asked for.
AcquireTokenLockShared(p) ==
  /\ pc[p] = "lockToken"
  /\ \E k \in job[p].want \cap TokenKeys :
       /\ \A j \in job[p].want : Digest[k] <= Digest[j]
       /\ tokenLock' = [tokenLock EXCEPT ![k] = p]
       /\ job' = [job EXCEPT ![p].want = @ \ {k}]
       /\ IF job[p].want = {k} THEN Goto(p, AfterTokenLocks(p))
                               ELSE UNCHANGED pc
  /\ UNCHANGED <<configVars, cacheVars, stsLock, configLock, serverVars,
                 budgetVars, patched>>

AcquireTokenLockUnordered(p) ==
  /\ pc[p] = "lockToken"
  /\ \E k \in job[p].want \cap TokenKeys :
       /\ tokenLock[k] = NoProc
       /\ tokenLock' = [tokenLock EXCEPT ![k] = p]
       /\ job' = [job EXCEPT ![p].want = @ \ {k}]
       /\ IF job[p].want = {k} THEN Goto(p, AfterTokenLocks(p))
                               ELSE UNCHANGED pc
  /\ UNCHANGED <<configVars, cacheVars, stsLock, configLock, serverVars,
                 budgetVars, patched>>

(***************************************************************************)
(* WithTokenLock, withTokenLocksOrdered: one lock after the other in the    *)
(* order of their digests.  The last one starts the callback.               *)
(***************************************************************************)
AcquireTokenLock(p) ==
  /\ pc[p] = "lockToken"
  /\ \E k \in job[p].want \cap TokenKeys :
       /\ \A j \in job[p].want : Digest[k] <= Digest[j]
       /\ tokenLock[k] = NoProc
       /\ tokenLock' = [tokenLock EXCEPT ![k] = p]
       /\ job' = [job EXCEPT ![p].want = @ \ {k}]
       /\ IF job[p].want = {k} THEN Goto(p, AfterTokenLocks(p))
                               ELSE UNCHANGED pc
  /\ UNCHANGED <<configVars, cacheVars, stsLock, configLock, serverVars,
                 budgetVars, patched>>

\* WithSTSLock, withAllSTSLocks: the same for STS locks.
AcquireStsLock(p) ==
  /\ pc[p] = "lockSts"
  /\ \E k \in job[p].want \cap StsKeys :
       /\ \A j \in job[p].want : Digest[k] <= Digest[j]
       /\ stsLock[k] = NoProc
       /\ stsLock' = [stsLock EXCEPT ![k] = p]
       /\ job' = [job EXCEPT ![p].want = @ \ {k}]
       /\ IF job[p].want = {k}
            THEN Goto(p, CASE job[p].op = "retrieve" -> "readSts"
                           [] job[p].op = "logout" -> "check"
                           [] OTHER -> "deleteOldSts")
            ELSE UNCHANGED pc
  /\ UNCHANGED <<configVars, cacheVars, tokenLock, configLock, serverVars,
                 budgetVars, patched>>

\* The lock file cannot be opened or locked: the callback never runs.
LockFails(p) ==
  /\ "lock" \in Faults
  /\ pc[p] \in {"lockToken", "lockSts"}
  /\ Finish(p, "failed")
  /\ UNCHANGED shared

Release(p) ==
  /\ tokenLock' = [k \in TokenKeys |->
                     IF tokenLock[k] = p THEN NoProc ELSE tokenLock[k]]
  /\ stsLock' = [k \in StsKeys |->
                   IF stsLock[k] = p THEN NoProc ELSE stsLock[k]]
  /\ configLock' = IF configLock = p THEN NoProc ELSE configLock
  /\ Goto(p, "idle")
  /\ job' = [job EXCEPT ![p] = NoJob]
  /\ UNCHANGED <<configVars, cacheVars, serverVars, budgetVars, patched>>

\* The command returns: the deferred releases run.
Unwind(p) == pc[p] = "unwind" /\ Release(p)

\* The process dies; the kernel releases its file locks.
Crash(p) == "crash" \in Faults /\ pc[p] # "idle" /\ Release(p)

-----------------------------------------------------------------------------
(* Time and the configuration commands, each one config.Update              *)

Expire(i) ==
  /\ i \in 1..issued /\ i \notin stale
  /\ stale' = stale \cup {i}
  /\ UNCHANGED <<configVars, cacheVars, lockVars, pc, job, serverVars, cmds,
                 admin, patched>>

Administer(command) ==
  /\ command \in Admin /\ admin < MaxAdmin
  /\ configLock = NoProc
  /\ admin' = admin + 1
  /\ UNCHANGED <<cacheVars, lockVars, pc, job, serverVars, stale, cmds,
                 patched>>

\* configure delete: caches and commit markers stay behind.
ConfigureDelete(f) ==
  /\ Administer("delete")
  /\ profile[f].mode # "absent"
  /\ profile' = [profile EXCEPT ![f] = Absent]
  /\ UNCHANGED sessionUrl

\* configure sso-session on an existing session.
ConfigureSession(s, u) ==
  /\ Administer("session")
  /\ u # sessionUrl[s]
  /\ sessionUrl' = [sessionUrl EXCEPT ![s] = u]
  /\ UNCHANGED profile

(***************************************************************************)
(* configure set --mode M, M not a login mode: the session name and the     *)
(* expiration survive as dormant fields, --account-id and --role-name       *)
(* replace the account and role.                                            *)
(***************************************************************************)
ConfigureSetMode(f, r) ==
  /\ Administer("mode")
  /\ r \in Roles \cup {profile[f].role}
  /\ profile' = [profile EXCEPT ![f].mode = "other", ![f].role = r]
  /\ UNCHANGED sessionUrl
=============================================================================
