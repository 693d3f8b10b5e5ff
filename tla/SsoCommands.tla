----------------------------- MODULE SsoCommands -----------------------------
(***************************************************************************)
(* The commands that log in to and out of an SSO session (internal/cli):    *)
(* `sso login`, `configure sso`, which logs in and binds a profile, and     *)
(* `sso logout`.  They load the configuration without a lock to find out    *)
(* which locks to take, and check it again once they hold them; a login     *)
(* that fails afterwards puts the token cache, and after a rebind the STS   *)
(* cache, back as it found them.                                            *)
(*                                                                         *)
(* job.tok is the snapshot of the old token, job.new the number of the new  *)
(* one, job.orig the profile as it was loaded, job.sts the snapshot of the  *)
(* STS cache of its binding.                                                *)
(***************************************************************************)
EXTENDS SsoStore

\* `sso login`, for a session or (f # NoProfile) for a profile's session.
StartLogin(p, s, f) ==
  /\ f # NoProfile => profile[f].mode = "sso" /\ profile[f].ses = s
  /\ Start(p, NewJob("login", f, s))

\* `configure sso`: a profile of another session needs that token lock too.
StartConfigure(p, f, s, r) ==
  LET old == profile[f].ses IN
  Start(p, [NewJob("configure", f, s) EXCEPT
              !.role = r, !.orig = profile[f],
              !.want = @ \cup IF old = NoSession THEN {}
                              ELSE {<<sessionUrl[old], old>>}])

\* `sso logout`, for a session or (f # NoProfile) for a profile's session.
StartLogout(p, s, f) ==
  /\ f # NoProfile => profile[f].mode # "absent" /\ profile[f].ses = s
  /\ Start(p, NewJob("logout", f, s))

\* The session is what the command loaded before it had the lock.
SameSession(p) == sessionUrl[job[p].ses] = job[p].url
StillBound(p) ==
  job[p].prof # NoProfile => profile[job[p].prof].ses = job[p].ses

-----------------------------------------------------------------------------
(* Logging in                                                               *)

\* `configure sso` re-checks the session first; then the old token is kept.
Snapshot(p) ==
  /\ pc[p] = "snapshot"
  /\ IF job[p].op = "configure" /\ ~SameSession(p)
       THEN Finish(p, "failed")
       ELSE /\ Goto(p, "authorize")
            /\ job' = [job EXCEPT ![p].tok = tokenCache[TokenKey(p)]]
  /\ UNCHANGED shared

SnapshotFails(p) == pc[p] = "snapshot" /\ ReadFails(p)

\* The device flow: the user approves, the server issues a token pair.
Authorized(p) ==
  /\ pc[p] = "authorize"
  /\ issued < MaxId
  /\ issued' = issued + 1
  /\ live' = live \cup {issued'}
  /\ Goto(p, "persistLogin")
  /\ job' = [job EXCEPT ![p].new = issued']
  /\ UNCHANGED <<configVars, cacheVars, lockVars, budgetVars, patched>>

\* A step of the login fails: put everything back.
Rollback(p) ==
  /\ Goto(p, "restoreToken")
  /\ UNCHANGED job

\* Denied, timed out, or any other failure before a token is there.
NotAuthorized(p) ==
  /\ pc[p] = "authorize"
  /\ Rollback(p)
  /\ UNCHANGED shared

\* DeviceFlow.Login ends with WriteToken.
PersistLogin(p) ==
  /\ pc[p] = "persistLogin"
  /\ \E o \in WriteOutcomes :
       /\ tokenCache' = [tokenCache EXCEPT ![TokenKey(p)] =
            After(o, [at |-> job[p].new, rt |-> job[p].new], @)]
       /\ IF o # "ok" THEN Rollback(p)
          ELSE /\ Goto(p, IF job[p].op = "login" THEN "checkLogin" ELSE "bind")
               /\ UNCHANGED job
  /\ UNCHANGED <<configVars, stsCache, lockVars, serverVars, budgetVars,
                 patched>>

\* `sso login` reloads the configuration.
CheckLogin(p) ==
  /\ pc[p] = "checkLogin"
  /\ IF SameSession(p) /\ StillBound(p)
       THEN Finish(p, "ok") ELSE Rollback(p)
  /\ UNCHANGED shared

\* The reload of `sso login` fails, or ResolveBinding of `configure sso`.
LoginStepFails(p) ==
  /\ \/ pc[p] = "checkLogin" /\ "io" \in Faults
     \/ pc[p] = "bind"
  /\ Rollback(p)
  /\ UNCHANGED shared

\* Mutant of OldBindingChanged: only another session counts as a change.
OldSessionChanged(p) ==
  job[p].orig.ses # NoSession /\ job[p].orig.ses # job[p].ses

OldBindingChanged(p) ==
  job[p].orig.ses # NoSession /\ OldKey(p) # StsKey(p)

\* ResolveBinding has answered: a changed binding takes the old STS lock.
Bind(p) ==
  /\ pc[p] = "bind"
  /\ IF OldBindingChanged(p)
       THEN /\ Goto(p, "lockSts")
            /\ job' = [job EXCEPT ![p].want = {OldKey(p)}]
       ELSE Goto(p, "commit") /\ UNCHANGED job
  /\ UNCHANGED shared

DeleteOldSts(p) ==
  /\ pc[p] = "deleteOldSts"
  /\ Goto(p, "commit")
  /\ job' = [job EXCEPT ![p].sts = stsCache[OldKey(p)]]
  /\ stsCache' = [stsCache EXCEPT ![OldKey(p)] = NoSts]
  /\ UNCHANGED <<configVars, tokenCache, lockVars, serverVars, budgetVars,
                 patched>>

\* The old STS cache cannot be read or deleted.
DeleteOldStsFails(p) ==
  /\ pc[p] = "deleteOldSts" /\ "io" \in Faults
  /\ Rollback(p)
  /\ UNCHANGED shared

\* What commitConfig checks in the profile: there as before, and of the same
\* session and mode.
Unmoved(p) ==
  LET old == job[p].orig  now == profile[job[p].prof] IN
  /\ (old.mode = "absent") = (now.mode = "absent")
  /\ old.ses = now.ses /\ old.mode = now.mode

\* Mutant of CommitBinding: the expiration of the old binding stays.
CommitKeepsExpiration(p) ==
  /\ pc[p] = "commit"
  /\ configLock = NoProc
  /\ SameSession(p) /\ Unmoved(p)
  /\ profile' = [profile EXCEPT ![job[p].prof].mode = "sso",
       ![job[p].prof].ses = job[p].ses, ![job[p].prof].role = job[p].role]
  /\ Finish(p, "ok")
  /\ UNCHANGED <<sessionUrl, cacheVars, lockVars, serverVars, budgetVars,
                 patched>>

\* commitConfig in config.Update
CommitBinding(p) ==
  /\ pc[p] = "commit"
  /\ configLock = NoProc
  /\ IF SameSession(p) /\ Unmoved(p)
       THEN \E o \in WriteOutcomes :
              /\ profile' = [profile EXCEPT ![job[p].prof] =
                   After(o, [mode |-> "sso", ses |-> job[p].ses,
                             role |-> job[p].role, exp |-> 0], @)]
              /\ IF o = "ok" THEN Finish(p, "ok") ELSE Rollback(p)
       ELSE Rollback(p) /\ UNCHANGED profile
  /\ UNCHANGED <<sessionUrl, cacheVars, lockVars, serverVars, budgetVars,
                 patched>>

\* Mutant of RestoreToken: the rollback ends with the token.
RestoreTokenOnly(p) ==
  /\ pc[p] = "restoreToken"
  /\ tokenCache' = [tokenCache EXCEPT ![TokenKey(p)] = job[p].tok]
  /\ Finish(p, "failed")
  /\ UNCHANGED <<configVars, stsCache, lockVars, serverVars, budgetVars,
                 patched>>

(***************************************************************************)
(* restoreTokenOnFailure: write the snapshot back unless it is still there; *)
(* where there was no token, delete the new one.                            *)
(***************************************************************************)
RestoreToken(p) ==
  /\ pc[p] = "restoreToken"
  /\ \E o \in IF job[p].tok = NoToken THEN DeleteOutcomes
              ELSE IF job[p].tok = tokenCache[TokenKey(p)] THEN {"ok"}
              ELSE WriteOutcomes :
       /\ tokenCache' = [tokenCache EXCEPT
            ![TokenKey(p)] = After(o, job[p].tok, @)]
       /\ job' = [job EXCEPT
            ![p].out = IF o = "ok" THEN "failed" ELSE "unrolled"]
  /\ Goto(p, IF job[p].sts = NoSts THEN "unwind" ELSE "restoreSts")
  /\ UNCHANGED <<configVars, stsCache, lockVars, serverVars, budgetVars,
                 patched>>

\* restoreTokenAndSTSOnFailure: write the old STS cache back as well.
RestoreSts(p) ==
  /\ pc[p] = "restoreSts"
  /\ \E o \in WriteOutcomes :
       /\ stsCache' = [stsCache EXCEPT
            ![OldKey(p)] = After(o, job[p].sts, @)]
       /\ Finish(p, IF o = "ok" THEN job[p].out ELSE "unrolled")
  /\ UNCHANGED <<configVars, tokenCache, lockVars, serverVars, budgetVars,
                 patched>>

LoginStep(p) ==
  \/ Snapshot(p) \/ SnapshotFails(p)
  \/ Authorized(p) \/ NotAuthorized(p) \/ PersistLogin(p)
  \/ CheckLogin(p) \/ LoginStepFails(p)
  \/ Bind(p) \/ DeleteOldSts(p) \/ DeleteOldStsFails(p) \/ CommitBinding(p)
  \/ RestoreToken(p) \/ RestoreSts(p)

-----------------------------------------------------------------------------
(* Logging out                                                              *)

\* Reload the configuration and collect the STS keys to lock.
CollectKeys(p) ==
  /\ pc[p] = "collect"
  /\ LET keys == KeysOf(job[p].ses) IN
     IF SameSession(p) /\ StillBound(p)
       THEN /\ Goto(p, IF keys = {} THEN "check" ELSE "lockSts")
            /\ job' = [job EXCEPT ![p].want = keys, ![p].keys = keys]
       ELSE Finish(p, "failed")
  /\ UNCHANGED shared

CollectFails(p) == pc[p] = "collect" /\ ReadFails(p)

(***************************************************************************)
(* Inside config.Update, so with the config lock until the file is written: *)
(* the session, the profile and the key set must still be the same.  Then   *)
(* keep the token for its revocation.                                       *)
(***************************************************************************)
CheckKeys(p) ==
  /\ pc[p] = "check"
  /\ configLock = NoProc
  /\ IF SameSession(p) /\ StillBound(p) /\ KeysOf(job[p].ses) = job[p].keys
       THEN /\ configLock' = p
            /\ Goto(p, "deleteToken")
            /\ job' = [job EXCEPT ![p].tok = tokenCache[TokenKey(p)],
                                  ![p].out = "ok"]
       ELSE Finish(p, "failed") /\ UNCHANGED configLock
  /\ UNCHANGED <<configVars, cacheVars, tokenLock, stsLock, serverVars,
                 budgetVars, patched>>

CheckFails(p) == pc[p] = "check" /\ ReadFails(p)

Worse(p, o) == IF o = "ok" THEN job[p].out ELSE "partial"

DeleteToken(p) ==
  /\ pc[p] = "deleteToken"
  /\ \E o \in DeleteOutcomes :
       /\ tokenCache' = [tokenCache EXCEPT
            ![TokenKey(p)] = After(o, NoToken, @)]
       /\ job' = [job EXCEPT ![p].out = Worse(p, o), ![p].want = job[p].keys]
  /\ Goto(p, IF job[p].keys = {} THEN "clearProfiles" ELSE "deleteSts")
  /\ UNCHANGED <<configVars, stsCache, lockVars, serverVars, budgetVars,
                 patched>>

\* DeleteSTS of one key after the other; a failure does not stop the rest.
DeleteSts(p) ==
  /\ pc[p] = "deleteSts"
  /\ \E k \in job[p].want \cap StsKeys, o \in DeleteOutcomes :
       /\ \A j \in job[p].want : Digest[k] <= Digest[j]
       /\ stsCache' = [stsCache EXCEPT ![k] = After(o, NoSts, @)]
       /\ job' = [job EXCEPT ![p].out = Worse(p, o), ![p].want = @ \ {k}]
       /\ Goto(p, IF job[p].want = {k} THEN "clearProfiles" ELSE "deleteSts")
  /\ UNCHANGED <<configVars, tokenCache, lockVars, serverVars, budgetVars,
                 patched>>

\* The config callback returns and the file is written.
ClearProfiles(p) ==
  /\ pc[p] = "clearProfiles"
  /\ \E o \in WriteOutcomes :
       /\ profile' = [f \in Profiles |->
            IF f \in BoundTo(job[p].ses)
              THEN [profile[f] EXCEPT !.exp = After(o, 0, @)]
              ELSE profile[f]]
       /\ job' = [job EXCEPT ![p].out = Worse(p, o)]
  /\ configLock' = NoProc
  /\ Goto(p, IF job[p].tok = NoToken THEN "unwind" ELSE "revoke")
  /\ UNCHANGED <<sessionUrl, cacheVars, tokenLock, stsLock, serverVars,
                 budgetVars, patched>>

\* Best-effort revocation of the refresh token that was deleted.
Revoke(p) ==
  /\ pc[p] = "revoke"
  /\ \E o \in {"ok"} \cup IF "net" \in Faults THEN {"lost"} ELSE {} :
       /\ live' = After(o, live \ {job[p].tok.rt}, live)
       /\ Finish(p, Worse(p, o))
  /\ UNCHANGED <<configVars, cacheVars, lockVars, issued, budgetVars,
                 patched>>

LogoutStep(p) ==
  \/ CollectKeys(p) \/ CollectFails(p) \/ CheckKeys(p) \/ CheckFails(p)
  \/ DeleteToken(p) \/ DeleteSts(p) \/ ClearProfiles(p) \/ Revoke(p)
=============================================================================
