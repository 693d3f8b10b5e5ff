---------------------------- MODULE ConsoleLogin ----------------------------
(***************************************************************************)
(* Console Login: volclog login, the credential provider of console-login   *)
(* profiles, and volclog logout.  Each login session has one token cache    *)
(* and one lock (auth/console FileCache.WithLock); a profile of config.json *)
(* is bound to at most one session.  Each running command is a process of   *)
(* its own, and a lock is its owner, as PathLock promises.                  *)
(*                                                                         *)
(* A token is the number of its issue, which also stands for its expiry;    *)
(* stale holds the tokens within RefreshBuffer of it.                       *)
(***************************************************************************)
EXTENDS Naturals

CONSTANTS
  Procs, Profiles, Sessions, NoProc, NoProfile, NoSession,
  Can,        \* the commands each process may run
  Bound,      \* profiles bound to LoggedIn initially
  LoggedIn,
  Faults,     \* what may go wrong: "crash", "io", "lock", "net"
  MaxId,      \* bound on tokens issued
  MaxCmds,    \* bound on commands started
  MaxAdmin    \* bound on configuration commands

Commands == {"login", "retrieve", "logout"}
Ids == 1..MaxId

ASSUME ConsoleAssumption ==
  /\ NoProc \notin Procs /\ NoProfile \notin Profiles
  /\ NoSession \notin Sessions
  /\ Can \in [Procs -> SUBSET Commands]
  /\ Bound \subseteq Profiles /\ LoggedIn \in Sessions
  /\ Faults \subseteq {"crash", "io", "lock", "net"}
  /\ MaxId \in Nat \ {0} /\ MaxCmds \in Nat /\ MaxAdmin \in Nat

VARIABLES
  profile,  \* config.json: mode and login-session of each profile
  cache,    \* the token cache file of each login session
  lock,     \* who is inside WithLock
  pc, job,  \* each process: where it is and what it holds in memory
  issued,   \* number of tokens the server has issued
  live,     \* refresh tokens the server still accepts
  stale, cmds, admin

vars == <<profile, cache, lock, pc, job, issued, live, stale, cmds, admin>>
shared == <<profile, cache, lock, issued, live, stale, cmds, admin>>

ProfileSet == [mode : {"absent", "console", "other"},
               ses : Sessions \cup {NoSession}]
TokenSet == [at : Nat, rt : Nat]
Verdicts == {"none", "ok", "failed", "unsaved", "unrolled", "partial"}
JobSet == [op : Commands \cup {"none"}, prof : Profiles \cup {NoProfile},
           ses : Sessions \cup {NoSession}, known : Sessions \cup {NoSession},
           agreed : BOOLEAN, tok : TokenSet, prior : TokenSet,
           todo : SUBSET Sessions, out : Verdicts]

Absent == [mode |-> "absent", ses |-> NoSession]
NoToken == [at |-> 0, rt |-> 0]
NoJob == [op |-> "none", prof |-> NoProfile, ses |-> NoSession,
          known |-> NoSession, agreed |-> FALSE, tok |-> NoToken,
          prior |-> NoToken, todo |-> {}, out |-> "none"]

\* Labels at which a command is inside WithLock on the session of its job.
Inside == {"snapshot", "write", "bind", "restore",
           "read", "refresh", "persist", "return",
           "delete", "unbind", "cleared"}
PCs == {"idle", "authorize", "confirm", "lock", "unwind"} \cup Inside

SharedTypeOK ==
  /\ profile \in [Profiles -> ProfileSet]
  /\ cache \in [Sessions -> TokenSet]
  /\ lock \in [Sessions -> Procs \cup {NoProc}]
  /\ issued \in 0..MaxId /\ live \subseteq Ids /\ stale \subseteq Ids
  /\ cmds \in Nat /\ admin \in Nat

TypeOK ==
  /\ SharedTypeOK
  /\ pc \in [Procs -> PCs]
  /\ job \in [Procs -> JobSet]

Init ==
  /\ profile = [f \in Profiles |->
       IF f \in Bound THEN [mode |-> "console", ses |-> LoggedIn] ELSE Absent]
  /\ cache = [s \in Sessions |->
       IF s = LoggedIn THEN [at |-> 1, rt |-> 1] ELSE NoToken]
  /\ lock = [s \in Sessions |-> NoProc]
  /\ pc = [p \in Procs |-> "idle"]
  /\ job = [p \in Procs |-> NoJob]
  /\ issued = 1 /\ live = {1} /\ stale = {} /\ cmds = 0 /\ admin = 0

-----------------------------------------------------------------------------
(* Building blocks                                                          *)

Fresh(i) == i \notin stale
ConsoleProfiles(s) ==
  {f \in Profiles : profile[f].mode = "console" /\ profile[f].ses = s}

Goto(p, label) == pc' = [pc EXCEPT ![p] = label]
Finish(p, verdict) ==
  /\ Goto(p, "unwind")
  /\ job' = [job EXCEPT ![p].out = verdict]

\* The outcomes of a write through UpdateFile, as in SsoStore: done, not
\* done, done but reported as failed.  A deletion is one os.Remove.
WriteOutcomes == {"ok"} \cup IF "io" \in Faults THEN {"lost", "late"} ELSE {}
DeleteOutcomes == {"ok"} \cup IF "io" \in Faults THEN {"lost"} ELSE {}
After(outcome, new, old) == IF outcome = "lost" THEN old ELSE new

ReadFails(p, label) ==
  /\ "io" \in Faults
  /\ pc[p] = label
  /\ Finish(p, "failed")
  /\ UNCHANGED shared

\* A command begins with the configuration it has loaded, without any lock.
Start(p, label, j) ==
  /\ pc[p] = "idle"
  /\ j.op \in Can[p] /\ cmds < MaxCmds
  /\ cmds' = cmds + 1
  /\ Goto(p, label)
  /\ job' = [job EXCEPT ![p] = j]
  /\ UNCHANGED <<profile, cache, lock, issued, live, stale, admin>>

\* FileCache.WithLock: one lock at a time, so nobody waits while owning one.
AcquireLock(p) ==
  /\ pc[p] = "lock"
  /\ lock[job[p].ses] = NoProc
  /\ lock' = [lock EXCEPT ![job[p].ses] = p]
  /\ Goto(p, CASE job[p].op = "login" -> "snapshot"
               [] job[p].op = "retrieve" -> "read"
               [] OTHER -> "delete")
  /\ UNCHANGED <<profile, cache, job, issued, live, stale, cmds, admin>>

\* The lock file cannot be opened or locked, or the context is done.
LockFails(p) ==
  /\ "lock" \in Faults
  /\ pc[p] = "lock"
  /\ Finish(p, "failed")
  /\ UNCHANGED shared

Release(p) ==
  /\ lock' = [s \in Sessions |-> IF lock[s] = p THEN NoProc ELSE lock[s]]
  /\ Goto(p, "idle")
  /\ job' = [job EXCEPT ![p] = NoJob]
  /\ UNCHANGED <<profile, cache, issued, live, stale, cmds, admin>>

\* The callback has returned, the lock is given back, the command ends.
Unwind(p) == pc[p] = "unwind" /\ Release(p)

\* The process dies; the kernel releases its lock.
Crash(p) == "crash" \in Faults /\ pc[p] # "idle" /\ Release(p)

-----------------------------------------------------------------------------
(* volclog login (LoginService.Login)                                       *)

\* existingSession is the binding found by Load, whatever the mode.
StartLogin(p, f) ==
  Start(p, "authorize", [NoJob EXCEPT !.op = "login", !.prof = f,
                           !.known = profile[f].ses])

(***************************************************************************)
(* The user authorizes, in a browser or with a device code, and the server  *)
(* answers with a token of some login session, with or without a refresh    *)
(* token.  No lock is held.  A profile bound to another session needs the   *)
(* user's consent.                                                          *)
(***************************************************************************)
Authorized(p) ==
  /\ pc[p] = "authorize"
  /\ issued < MaxId
  /\ issued' = issued + 1
  /\ \E s \in Sessions, rt \in {0, issued'} :
       /\ live' = live \cup ({rt} \ {0})
       /\ job' = [job EXCEPT ![p].ses = s, ![p].tok = [at |-> issued', rt |-> rt]]
       /\ Goto(p, IF job[p].known \in {NoSession, s} THEN "lock" ELSE "confirm")
  /\ UNCHANGED <<profile, cache, lock, stale, cmds, admin>>

\* Authorization or the validation of its answer fails.
NotAuthorized(p) ==
  /\ pc[p] = "authorize"
  /\ Finish(p, "failed")
  /\ UNCHANGED shared

Confirm(p) ==
  /\ pc[p] = "confirm"
  /\ Goto(p, "lock")
  /\ job' = [job EXCEPT ![p].agreed = TRUE]
  /\ UNCHANGED shared

\* Anything but "y" or "yes", no answer, or a token without a lifetime.
Decline(p) ==
  /\ pc[p] = "confirm"
  /\ Finish(p, "failed")
  /\ UNCHANGED shared

\* Re-read the cache and retain its bytes.
Snapshot(p) ==
  /\ pc[p] = "snapshot"
  /\ Goto(p, "write")
  /\ job' = [job EXCEPT ![p].prior = cache[job[p].ses]]
  /\ UNCHANGED shared

SnapshotFails(p) == ReadFails(p, "snapshot")

\* A failed write ends the login; what it left behind stays.
Write(p) ==
  /\ pc[p] = "write"
  /\ \E o \in WriteOutcomes :
       /\ cache' = [cache EXCEPT ![job[p].ses] = After(o, job[p].tok, @)]
       /\ IF o = "ok" THEN Goto(p, "bind") /\ UNCHANGED job
                      ELSE Finish(p, "unsaved")
  /\ UNCHANGED <<profile, lock, issued, live, stale, cmds, admin>>

\* Mutants of Bind: the latest binding is not looked at; the arguments of
\* the patch are swapped.
BindUnchecked(p) ==
  /\ pc[p] = "bind"
  /\ profile' = [profile EXCEPT
       ![job[p].prof] = [mode |-> "console", ses |-> job[p].ses]]
  /\ Finish(p, "ok")
  /\ UNCHANGED <<cache, lock, issued, live, stale, cmds, admin>>

(***************************************************************************)
(* config.Update inside the cache lock: bind the profile, unless it was     *)
(* bound meanwhile to a session the user was not asked about.  Any error    *)
(* leads to the rollback.                                                   *)
(***************************************************************************)
Bind(p) ==
  /\ pc[p] = "bind"
  /\ LET f == job[p].prof
         conflict == profile[f].ses \notin {NoSession, job[p].ses, job[p].known}
     IN \E o \in IF conflict THEN {"lost"} ELSE WriteOutcomes :
          /\ profile' = [profile EXCEPT ![f] =
               After(o, [mode |-> "console", ses |-> job[p].ses], @)]
          /\ IF o = "ok" THEN Finish(p, "ok")
                         ELSE Goto(p, "restore") /\ UNCHANGED job
  /\ UNCHANGED <<cache, lock, issued, live, stale, cmds, admin>>

\* Mutant of Restore: the new cache is deleted whatever there was before.
RestoreDeletes(p) ==
  /\ pc[p] = "restore"
  /\ cache' = [cache EXCEPT ![job[p].ses] = NoToken]
  /\ Finish(p, "failed")
  /\ UNCHANGED <<profile, lock, issued, live, stale, cmds, admin>>

\* Write the prior bytes again, or delete the file if there was none.
Restore(p) ==
  /\ pc[p] = "restore"
  /\ \E o \in IF job[p].prior = NoToken THEN DeleteOutcomes ELSE WriteOutcomes :
       /\ cache' = [cache EXCEPT ![job[p].ses] = After(o, job[p].prior, @)]
       /\ Finish(p, IF o = "ok" THEN "failed" ELSE "unrolled")
  /\ UNCHANGED <<profile, lock, issued, live, stale, cmds, admin>>

LoginStep(p) ==
  \/ Authorized(p) \/ NotAuthorized(p) \/ Confirm(p) \/ Decline(p)
  \/ Snapshot(p) \/ SnapshotFails(p) \/ Write(p) \/ Bind(p) \/ Restore(p)

-----------------------------------------------------------------------------
(* Credentials for a business command (Provider.Retrieve)                   *)

\* A profile without a login-session is told to log in, without any lock.
StartRetrieve(p, f) ==
  /\ profile[f].mode = "console" /\ profile[f].ses # NoSession
  /\ Start(p, "lock", [NoJob EXCEPT !.op = "retrieve", !.prof = f,
                         !.ses = profile[f].ses])

\* A missing cache, or a stale one without a refresh token, needs a login.
Read(p) ==
  /\ pc[p] = "read"
  /\ LET tok == cache[job[p].ses] IN
     IF tok = NoToken \/ (~Fresh(tok.at) /\ tok.rt = 0)
       THEN Finish(p, "failed")
       ELSE /\ Goto(p, IF Fresh(tok.at) THEN "return" ELSE "refresh")
            /\ job' = [job EXCEPT ![p].tok = tok]
  /\ UNCHANGED shared

\* An unreadable, empty or invalid cache.
CacheUnusable(p) == ReadFails(p, "read")

\* Mutant of RefreshGranted: a rotated refresh token is ignored.
RefreshKeepsOld(p) ==
  /\ pc[p] = "refresh"
  /\ job[p].tok.rt \in live /\ issued < MaxId
  /\ issued' = issued + 1
  /\ live' \in {live, (live \ {job[p].tok.rt}) \cup {issued'}}
  /\ job' = [job EXCEPT ![p].tok.at = issued']
  /\ Goto(p, "persist")
  /\ UNCHANGED <<profile, cache, lock, stale, cmds, admin>>

\* The old refresh token is kept when the answer has no new one.
RefreshGranted(p) ==
  /\ pc[p] = "refresh"
  /\ job[p].tok.rt \in live /\ issued < MaxId
  /\ issued' = issued + 1
  /\ \E rt \in {job[p].tok.rt, issued'} :
       /\ live' = (live \ {job[p].tok.rt}) \cup {rt}
       /\ job' = [job EXCEPT ![p].tok = [at |-> issued', rt |-> rt]]
  /\ Goto(p, "persist")
  /\ UNCHANGED <<profile, cache, lock, stale, cmds, admin>>

\* The server rotates, but its answer is lost, or refused: invalid STS, no
\* token type, invalid expiration.
RefreshWasted(p) ==
  /\ "net" \in Faults
  /\ pc[p] = "refresh"
  /\ job[p].tok.rt \in live /\ issued < MaxId
  /\ issued' = issued + 1
  /\ live' = (live \ {job[p].tok.rt}) \cup {issued'}
  /\ Finish(p, "failed")
  /\ UNCHANGED <<profile, cache, lock, stale, cmds, admin>>

RefreshRefused(p) ==
  /\ pc[p] = "refresh"
  /\ Finish(p, "failed")
  /\ UNCHANGED shared

\* Mutant of Persist: an error of the write is ignored.
PersistUnchecked(p) ==
  /\ pc[p] = "persist"
  /\ \E o \in WriteOutcomes :
       cache' = [cache EXCEPT ![job[p].ses] = After(o, job[p].tok, @)]
  /\ Goto(p, "return")
  /\ UNCHANGED <<profile, lock, job, issued, live, stale, cmds, admin>>

\* Persist the rotated cache; without it the new token is not handed out.
Persist(p) ==
  /\ pc[p] = "persist"
  /\ \E o \in WriteOutcomes :
       /\ cache' = [cache EXCEPT ![job[p].ses] = After(o, job[p].tok, @)]
       /\ IF o = "ok" THEN Goto(p, "return") /\ UNCHANGED job
                      ELSE Finish(p, "failed")
  /\ UNCHANGED <<profile, lock, issued, live, stale, cmds, admin>>

\* The value made of job.tok is the result.
Return(p) ==
  /\ pc[p] = "return"
  /\ Finish(p, "ok")
  /\ UNCHANGED shared

RetrieveStep(p) ==
  \/ Read(p) \/ CacheUnusable(p)
  \/ RefreshGranted(p) \/ RefreshWasted(p) \/ RefreshRefused(p)
  \/ Persist(p) \/ Return(p)

-----------------------------------------------------------------------------
(* volclog logout (runLogout, logoutSession)                                *)

\* One profile's session, or with --all those of all console-login profiles.
\* They are handled one after the other; the properties do not depend on
\* the order, which the code makes that of their names.
StartLogout(p, f) ==
  /\ profile[f].mode = "console" /\ profile[f].ses # NoSession
  /\ \E others \in {{}, {profile[g].ses : g \in
                      {h \in Profiles : profile[h].mode = "console"}}
                          \ {NoSession, profile[f].ses}} :
       Start(p, "lock", [NoJob EXCEPT !.op = "logout", !.prof = f,
                           !.ses = profile[f].ses, !.todo = others])

Delete(p) ==
  /\ pc[p] = "delete"
  /\ \E o \in DeleteOutcomes :
       /\ cache' = [cache EXCEPT ![job[p].ses] = After(o, NoToken, @)]
       /\ IF o = "ok" THEN Goto(p, "unbind") /\ UNCHANGED job
                      ELSE Finish(p, "failed")
  /\ UNCHANGED <<profile, lock, issued, live, stale, cmds, admin>>

\* Mutant of Unbind: only the profile the command was given.
UnbindSelected(p) ==
  /\ pc[p] = "unbind"
  /\ profile' = [profile EXCEPT ![job[p].prof].ses = NoSession]
  /\ Goto(p, "cleared")
  /\ UNCHANGED <<cache, lock, job, issued, live, stale, cmds, admin>>

\* config.Update scans the latest configuration for the session.
Unbind(p) ==
  /\ pc[p] = "unbind"
  /\ \E o \in WriteOutcomes :
       /\ profile' = [f \in Profiles |->
            After(o, IF f \in ConsoleProfiles(job[p].ses)
                       THEN [profile[f] EXCEPT !.ses = NoSession]
                       ELSE profile[f], profile[f])]
       /\ IF o = "ok" THEN Goto(p, "cleared") /\ UNCHANGED job
                      ELSE Finish(p, "partial")
  /\ UNCHANGED <<cache, lock, issued, live, stale, cmds, admin>>

\* WithLock returns: on to the next session, or the end.
NextSession(p) ==
  /\ pc[p] = "cleared"
  /\ lock' = [lock EXCEPT ![job[p].ses] = NoProc]
  /\ \E s \in job[p].todo :
       job' = [job EXCEPT ![p].ses = s, ![p].todo = @ \ {s}]
  /\ Goto(p, "lock")
  /\ UNCHANGED <<profile, cache, issued, live, stale, cmds, admin>>

AllCleared(p) ==
  /\ pc[p] = "cleared"
  /\ job[p].todo = {}
  /\ Finish(p, "ok")
  /\ UNCHANGED shared

LogoutStep(p) == Delete(p) \/ Unbind(p) \/ NextSession(p) \/ AllCleared(p)

-----------------------------------------------------------------------------
(* The other configuration commands, time, and the system                   *)

Administer ==
  /\ admin < MaxAdmin
  /\ admin' = admin + 1
  /\ UNCHANGED <<cache, lock, pc, job, issued, live, stale, cmds>>

ConfigureDelete(f) ==
  /\ Administer
  /\ profile' = [profile EXCEPT ![f] = Absent]

\* configure set --mode M: the login-session survives as a dormant field.
ConfigureSetMode(f) ==
  /\ Administer
  /\ profile' = [profile EXCEPT ![f].mode = "other"]

\* configure sso clears the login-session.
ConfigureSso(f) ==
  /\ Administer
  /\ profile' = [profile EXCEPT ![f] = [mode |-> "other", ses |-> NoSession]]

Expire(i) ==
  /\ i \in 1..issued /\ i \notin stale
  /\ stale' = stale \cup {i}
  /\ UNCHANGED <<profile, cache, lock, pc, job, issued, live, cmds, admin>>

StartCommand(p) ==
  \E f \in Profiles : StartLogin(p, f) \/ StartRetrieve(p, f) \/ StartLogout(p, f)

Step(p) ==
  \/ AcquireLock(p) \/ LockFails(p) \/ Unwind(p)
  \/ LoginStep(p) \/ RetrieveStep(p) \/ LogoutStep(p)

Environment ==
  \/ \E i \in Ids : Expire(i)
  \/ \E f \in Profiles :
       ConfigureDelete(f) \/ ConfigureSetMode(f) \/ ConfigureSso(f)

\* Every command has returned.  The system stops nowhere else: a command that
\* waits for a lock waits for one that goes on, logout --all included.
Rest == (\A p \in Procs : pc[p] = "idle") /\ UNCHANGED vars

Next ==
  \/ \E p \in Procs : StartCommand(p) \/ Step(p) \/ Crash(p)
  \/ Environment
  \/ Rest

Spec == Init /\ [][Next]_vars

-----------------------------------------------------------------------------
(* Properties                                                               *)

\* A profile bound to one session is only bound to another one by a login
\* whose user agreed to the replacement of the very session it had, although
\* the question is asked long before, without any lock (Login, 8 and 14).
NoSilentReplacement ==
  [][\A f \in Profiles :
       /\ profile[f].ses # NoSession
       /\ profile'[f].ses \notin {NoSession, profile[f].ses}
       => \E p \in Procs : /\ pc[p] = "bind" /\ job[p].prof = f
                           /\ job[p].known = profile[f].ses /\ job[p].agreed
    ]_vars

\* What Retrieve returns is what the cache file holds at that moment: new
\* credentials are persisted first, and a failed write returns none.
ReturnsPersisted ==
  \A p \in Procs : pc[p] = "return" => job[p].tok = cache[job[p].ses]

\* The refresh token about to be presented is that of the cache file: two
\* processes never refresh from the same token at the same time.
RefreshUsesCachedToken ==
  \A p \in Procs : pc[p] = "refresh" => job[p].tok = cache[job[p].ses]

\* Only a login creates a cache that was not there: neither a refresh a
\* logout overtook nor the rollback of a login revives a deleted one
\* (logoutSession, Provider.Retrieve).
NoRevival ==
  [][\A s \in Sessions :
       cache[s] = NoToken /\ cache'[s] # NoToken
       => \E p \in Procs : pc[p] = "write" /\ job[p].ses = s
    ]_vars

\* When logoutSession is done with a session and about to give up its lock,
\* neither the cache nor any binding of a console-login profile is left,
\* whatever was bound, switched or created since the configuration was
\* loaded.
LogoutIsComplete ==
  \A p \in Procs : pc[p] = "cleared" =>
    cache[job[p].ses] = NoToken /\ ConsoleProfiles(job[p].ses) = {}

\* Without faults, a bound console-login profile whose session nobody is
\* working on has a cache: logins bind after writing, logouts unbind after
\* deleting, and the rollback of one profile's login does not take away the
\* cache another one depends on.
BindingHasCache ==
  \A f \in Profiles :
    /\ profile[f].mode = "console" /\ profile[f].ses # NoSession
    /\ lock[profile[f].ses] = NoProc
    => cache[profile[f].ses] # NoToken

\* Without faults, nobody presents a refresh token that was rotated away,
\* not even after a rollback.
RefreshTokenIsLive ==
  \A p \in Procs : pc[p] = "refresh" => job[p].tok.rt \in live

(***************************************************************************)
(* Retrieve returns what is in the cache file and refreshes with the token  *)
(* that is in it, whatever other commands do meanwhile (provider.go of      *)
(* auth/console).                                                           *)
(***************************************************************************)
OnlyPersistedIsUsed ==
  TypeOK /\ ReturnsPersisted /\ RefreshUsesCachedToken

(***************************************************************************)
(* No step takes a profile from one login session to another unless its     *)
(* user agreed to it, and none but a login creates the cache of a session.  *)
(***************************************************************************)
CachesChangeAsAgreed ==
  NoSilentReplacement /\ NoRevival
=============================================================================
