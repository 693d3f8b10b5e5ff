------------------------------ MODULE SsoSystem ------------------------------
(***************************************************************************)
(* Any number of volclog processes on one home directory, each running one  *)
(* SSO command after another: business commands that retrieve credentials,  *)
(* logins, rebinds and logouts, interleaved with configuration commands,    *)
(* with credentials that age and processes that die.                        *)
(***************************************************************************)
EXTENDS SsoProvider, SsoCommands

StartCommand(p) ==
  \/ \E f \in Profiles : StartRetrieve(p, f)
  \/ \E s \in Sessions, f \in Profiles \cup {NoProfile} :
       StartLogin(p, s, f) \/ StartLogout(p, s, f)
  \/ \E f \in Profiles, s \in Sessions, r \in Roles : StartConfigure(p, f, s, r)

\* What a command does once it has started.
Step(p) ==
  \/ AcquireTokenLock(p) \/ AcquireStsLock(p) \/ LockFails(p) \/ Unwind(p)
  \/ RetrieveStep(p) \/ LoginStep(p) \/ LogoutStep(p)

Environment ==
  \/ \E i \in Ids : Expire(i)
  \/ \E f \in Profiles : ConfigureDelete(f)
  \/ \E s \in Sessions, u \in Urls : ConfigureSession(s, u)
  \/ \E f \in Profiles, r \in Roles \cup {NoRole} : ConfigureSetMode(f, r)

\* Every command has returned: the only states where nothing need happen.
Rest == (\A p \in Procs : pc[p] = "idle") /\ UNCHANGED vars

Next ==
  \/ \E p \in Procs : StartCommand(p) \/ Step(p) \/ Crash(p)
  \/ Environment
  \/ Rest

Spec == Init /\ [][Next]_vars

(***************************************************************************)
(* A running command goes on: the scheduler runs it, servers and users      *)
(* answer or time out, and it polls for a lock as long as it has to.        *)
(* Nobody has to start a command, and nothing has to age or fail.           *)
(***************************************************************************)
FairSpec == Spec /\ \A p \in Procs : WF_vars(Step(p))

-----------------------------------------------------------------------------
(* Safety                                                                   *)

\* A profile is marked as committed in an STS cache only if its
\* sts-expiration was successfully patched to that very credential, whatever
\* crashed, failed or was rolled back in between (AddCommittedTarget comes
\* after patchConfig; restored snapshots bring no marker of their own).
MarkedWasPatched ==
  \A k \in StsKeys : \A f \in stsCache[k].targets :
    <<f, k, stsCache[k].id>> \in patched

\* The sts-expiration of an SSO profile is that of a credential issued for
\* the session, account and role the profile is bound to now: a rebind resets
\* it and patchConfig refuses a profile that was rebound meanwhile.
ExpirationIsOfBinding ==
  \A f \in Profiles :
    profile[f].mode = "sso" /\ profile[f].exp # 0
      => <<f, Binding(f), profile[f].exp>> \in patched

\* When Retrieve returns, the credential it returns is the one in the STS
\* cache of its binding, and its own profile is committed there: no crash,
\* failed write, logout or rebind comes between (Retrieve, steps 4 to 9).
ReturnsCommitted ==
  \A p \in Procs : pc[p] = "return" =>
    /\ job[p].sts = stsCache[StsKey(p)]
    /\ job[p].prof \in job[p].sts.targets

\* The refresh token presented to the server is that of the token cache: a
\* second refresh in the same Retrieve uses the rotated one, and nobody
\* rotates under a process about to refresh (WithTokenLock).
RefreshUsesCachedToken ==
  \A p \in Procs : pc[p] = "refresh" => job[p].tok = tokenCache[TokenKey(p)]

\* Nobody presents a refresh token the server has rotated away or revoked,
\* as long as no process dies and no answer or write is lost.
RefreshTokenIsLive ==
  \A p \in Procs : pc[p] = "refresh" => job[p].tok.rt \in live

\* A login that fails after the server has issued a token, and could write
\* its rollback, leaves the token cache and the STS cache of the old binding
\* as it found them (restoreTokenOnFailure, restoreTokenAndSTSOnFailure).
FailedLoginIsUndone ==
  \A p \in Procs :
    pc[p] = "unwind" /\ job[p].out = "failed" /\ job[p].new # 0 =>
      /\ tokenCache[TokenKey(p)] = job[p].tok
      /\ job[p].sts # NoSts => stsCache[OldKey(p)] = job[p].sts

\* A profile marked as committed in the STS cache of its binding has that
\* credential's expiry as its sts-expiration.
MarkerMatchesProfile ==
  \A f \in Profiles :
    LET sts == stsCache[Binding(f)] IN
    profile[f].mode = "sso" /\ f \in sts.targets => profile[f].exp = sts.id

\* A logout that reports success leaves no STS cache of the session.
LogoutClearsSts ==
  \A p \in Procs :
    pc[p] = "unwind" /\ job[p].op = "logout" /\ job[p].out = "ok" =>
      \A r \in Roles : stsCache[<<job[p].ses, r>>] = NoSts

-----------------------------------------------------------------------------
(* What a step may never do                                                 *)

\* An STS cache comes into being only while its session is logged in - a
\* Retrieve that a logout overtook does not bring it back - or by the
\* rollback of the command that had deleted it.
NoStsWithoutToken ==
  [][\A k \in StsKeys :
       stsCache[k] = NoSts /\ stsCache'[k] # NoSts =>
         \/ \E u \in Urls : tokenCache[<<u, k[1]>>] # NoToken
         \/ \E p \in Procs : pc[p] = "restoreSts" /\ stsCache'[k] = job[p].sts
    ]_vars

\* Whenever a profile is bound anew, the STS cache of the binding that is
\* replaced is gone, so that a provider built for the old binding finds no
\* committed credential on its fast path.
RebindDropsOldSts ==
  [][\A f \in Profiles :
       /\ profile[f].ses # NoSession /\ profile'[f].mode = "sso"
       /\ <<profile'[f].ses, profile'[f].role>> # Binding(f)
       => stsCache'[Binding(f)] = NoSts
    ]_vars

-----------------------------------------------------------------------------
(* Progress                                                                 *)

\* Every command that has started returns (or dies): the order token locks,
\* STS locks, config lock, and digests within a kind, leaves no cycle of
\* waiting processes.
CommandsReturn == \A p \in Procs : pc[p] # "idle" ~> pc[p] = "idle"

(***************************************************************************)
(* What the configuration and the caches say of each other is true at every *)
(* step: a marked profile was patched to that credential, and no profile    *)
(* has an expiration of another binding (cache.go:73,                       *)
(* configure_sso.go:610).                                                   *)
(***************************************************************************)
MarkersAreTrue ==
  TypeOK /\ MarkedWasPatched /\ ExpirationIsOfBinding
=============================================================================
