----------------------------- MODULE SsoProvider -----------------------------
(***************************************************************************)
(* SSOProvider.Retrieve (internal/auth/sso/provider.go): a business command *)
(* asks for STS credentials for a profile.  Under the token lock it reads   *)
(* the token cache and refreshes a token near its expiry; then, under the   *)
(* STS lock too, it reuses the cached STS credential or exchanges the token *)
(* for a new one.  A credential is only handed out after it was written,    *)
(* the profile's sts-expiration patched, the profile marked in the STS      *)
(* cache, and the cache read again.  Every call of the clock is a test of   *)
(* Fresh in the step that acts on its answer.                               *)
(*                                                                         *)
(* job.tok is the local tokenCache, job.sts the STSCache in memory, and     *)
(* job.exch tells the exchange path from the path of a cached credential.   *)
(***************************************************************************)
EXTENDS SsoStore

\* The runtime builds the provider from the configuration it has loaded.
StartRetrieve(p, f) ==
  /\ profile[f].mode = "sso"
  /\ Start(p, [NewJob("retrieve", f, profile[f].ses) EXCEPT
                !.role = profile[f].role])

\* Where refreshIfNearExpiry leads when the token need not be refreshed.
WithUsableToken(p) == IF job[p].exch THEN "exchange" ELSE "lockSts"
NeedSts(p) == IF job[p].exch THEN {} ELSE {StsKey(p)}

\* Re-read and inspect the token cache; missing means log in again.
ReadToken(p) ==
  /\ pc[p] = "readToken"
  /\ LET tok == tokenCache[TokenKey(p)] IN
     IF tok = NoToken
       THEN Finish(p, "failed")
       ELSE /\ Goto(p, IF Fresh(tok.at) THEN "lockSts" ELSE "refresh")
            /\ job' = [job EXCEPT ![p].tok = tok, ![p].want = NeedSts(p)]
  /\ UNCHANGED shared

ReadTokenFails(p) == pc[p] = "readToken" /\ ReadFails(p)

\* Mutant of RefreshGranted: the rotated refresh token is ignored.
RefreshKeepsOld(p) ==
  /\ pc[p] = "refresh"
  /\ job[p].tok.rt \in live /\ issued < MaxId
  /\ issued' = issued + 1
  /\ live' \in {live, (live \ {job[p].tok.rt}) \cup {issued'}}
  /\ job' = [job EXCEPT ![p].tok.at = issued']
  /\ Goto(p, "persistToken")
  /\ UNCHANGED <<configVars, cacheVars, lockVars, budgetVars, patched>>

(***************************************************************************)
(* refreshToken: the OAuth server accepts a live refresh token, issues an   *)
(* access token and, if it rotates, replaces the refresh token; when the    *)
(* response omits the new one the old one is kept.                          *)
(***************************************************************************)
RefreshGranted(p) ==
  /\ pc[p] = "refresh"
  /\ job[p].tok.rt \in live /\ issued < MaxId
  /\ issued' = issued + 1
  /\ \E rotates \in BOOLEAN :
       LET rt == IF rotates THEN issued' ELSE job[p].tok.rt IN
       /\ live' = (live \ {job[p].tok.rt}) \cup {rt}
       /\ job' = [job EXCEPT ![p].tok = [at |-> issued', rt |-> rt]]
  /\ Goto(p, "persistToken")
  /\ UNCHANGED <<configVars, cacheVars, lockVars, budgetVars, patched>>

\* The server rotates the refresh token but its answer, and those to the
\* retries, do not arrive.
RefreshAnswerLost(p) ==
  /\ "net" \in Faults
  /\ pc[p] = "refresh"
  /\ job[p].tok.rt \in live /\ issued < MaxId
  /\ issued' = issued + 1
  /\ live' = (live \ {job[p].tok.rt}) \cup {issued'}
  /\ Finish(p, "failed")
  /\ UNCHANGED <<configVars, cacheVars, lockVars, budgetVars, patched>>

\* invalid_grant, an expired client registration or any other refusal.
RefreshRefused(p) ==
  /\ pc[p] = "refresh"
  /\ Finish(p, "failed")
  /\ UNCHANGED shared

\* Mutant of PersistToken: an error of the write is ignored.
PersistTokenUnchecked(p) ==
  /\ pc[p] = "persistToken"
  /\ \E o \in WriteOutcomes :
       tokenCache' = [tokenCache EXCEPT
         ![TokenKey(p)] = After(o, job[p].tok, @)]
  /\ Goto(p, WithUsableToken(p))
  /\ job' = [job EXCEPT ![p].want = NeedSts(p)]
  /\ UNCHANGED <<configVars, stsCache, lockVars, serverVars, budgetVars,
                 patched>>

\* Persist the rotated cache, then look at the clock again.
PersistToken(p) ==
  /\ pc[p] = "persistToken"
  /\ \E o \in WriteOutcomes :
       /\ tokenCache' = [tokenCache EXCEPT
            ![TokenKey(p)] = After(o, job[p].tok, @)]
       /\ IF o = "ok" /\ Fresh(job[p].tok.at)
            THEN /\ Goto(p, WithUsableToken(p))
                 /\ job' = [job EXCEPT ![p].want = NeedSts(p)]
            ELSE Finish(p, "failed")
  /\ UNCHANGED <<configVars, stsCache, lockVars, serverVars, budgetVars,
                 patched>>

\* Mutant of ReadSts: the fast path does not ask for the marker.
ReadStsUnmarked(p) ==
  /\ pc[p] = "readSts"
  /\ LET sts == stsCache[StsKey(p)] IN
     IF sts # NoSts /\ Fresh(sts.id)
       THEN Goto(p, "return") /\ job' = [job EXCEPT ![p].sts = sts]
       ELSE /\ Goto(p, IF Fresh(job[p].tok.at) THEN "exchange" ELSE "refresh")
            /\ job' = [job EXCEPT ![p].exch = TRUE]
  /\ UNCHANGED shared

(***************************************************************************)
(* Under the STS lock: a cached credential that is fresh is used, at once   *)
(* if this profile is marked in it and after patching the profile if not.   *)
(* Otherwise exchange, with a token refreshed again if it aged meanwhile.   *)
(***************************************************************************)
ReadSts(p) ==
  /\ pc[p] = "readSts"
  /\ LET sts == stsCache[StsKey(p)] IN
     IF sts # NoSts /\ Fresh(sts.id)
       THEN /\ Goto(p, IF job[p].prof \in sts.targets
                         THEN "return" ELSE "patch")
            /\ job' = [job EXCEPT ![p].sts = sts]
       ELSE /\ Goto(p, IF Fresh(job[p].tok.at) THEN "exchange" ELSE "refresh")
            /\ job' = [job EXCEPT ![p].exch = TRUE]
  /\ UNCHANGED shared

ReadStsFails(p) == pc[p] = "readSts" /\ ReadFails(p)

\* portal.GetRoleCredentials
ExchangeGranted(p) ==
  /\ pc[p] = "exchange"
  /\ issued < MaxId
  /\ issued' = issued + 1
  /\ Goto(p, "persistSts")
  /\ job' = [job EXCEPT ![p].sts = [id |-> issued', targets |-> {}]]
  /\ UNCHANGED <<configVars, cacheVars, lockVars, live, budgetVars, patched>>

ExchangeFails(p) ==
  /\ pc[p] = "exchange"
  /\ Finish(p, "failed")
  /\ UNCHANGED shared

\* A credential not outside the refresh window is dropped; another is
\* written without any marker.
PersistSts(p) ==
  /\ pc[p] = "persistSts"
  /\ IF Fresh(job[p].sts.id)
       THEN \E o \in WriteOutcomes :
              /\ stsCache' = [stsCache EXCEPT
                   ![StsKey(p)] = After(o, job[p].sts, @)]
              /\ IF o = "ok" THEN Goto(p, "patch") /\ UNCHANGED job
                             ELSE Finish(p, "failed")
       ELSE Finish(p, "failed") /\ UNCHANGED stsCache
  /\ UNCHANGED <<configVars, tokenCache, lockVars, serverVars, budgetVars,
                 patched>>

Matches(p) ==
  LET f == profile[job[p].prof] IN
  f.mode = "sso" /\ f.ses = job[p].ses /\ f.role = job[p].role

\* patchConfig on the profile as it is now: still bound as the provider is.
PatchProfile(p) ==
  /\ pc[p] = "patch"
  /\ configLock = NoProc
  /\ Matches(p)
  /\ \E o \in WriteOutcomes :
       /\ profile' = [profile EXCEPT
            ![job[p].prof].exp = After(o, job[p].sts.id, @)]
       /\ patched' = After(o, patched \cup
            {<<job[p].prof, StsKey(p), job[p].sts.id>>}, patched)
       /\ IF o = "ok" THEN Goto(p, "mark") /\ UNCHANGED job
                      ELSE Finish(p, "failed")
  /\ UNCHANGED <<sessionUrl, cacheVars, lockVars, serverVars, budgetVars>>

(***************************************************************************)
(* The profile was rebound or removed: nothing is patched, and an STS cache *)
(* no other profile has committed is deleted.                               *)
(***************************************************************************)
PatchMismatch(p) ==
  /\ pc[p] = "patch"
  /\ configLock = NoProc
  /\ ~Matches(p)
  /\ IF job[p].exch \/ job[p].sts.targets = {}
       THEN \E o \in DeleteOutcomes :
              stsCache' = [stsCache EXCEPT ![StsKey(p)] = After(o, NoSts, @)]
       ELSE UNCHANGED stsCache
  /\ Finish(p, "failed")
  /\ UNCHANGED <<configVars, tokenCache, lockVars, serverVars, budgetVars,
                 patched>>

\* AddCommittedTarget and WriteSTS
Mark(p) ==
  /\ pc[p] = "mark"
  /\ LET sts == [job[p].sts EXCEPT !.targets = @ \cup {job[p].prof}] IN
     \E o \in WriteOutcomes :
       /\ stsCache' = [stsCache EXCEPT ![StsKey(p)] = After(o, sts, @)]
       /\ IF o = "ok"
            THEN Goto(p, "reread") /\ job' = [job EXCEPT ![p].sts = sts]
            ELSE Finish(p, "failed")
  /\ UNCHANGED <<configVars, tokenCache, lockVars, serverVars, budgetVars,
                 patched>>

\* Read the cache again and check it against the clock a last time.
Reread(p) ==
  /\ pc[p] = "reread"
  /\ LET sts == stsCache[StsKey(p)] IN
     IF sts # NoSts /\ Fresh(sts.id)
       THEN Goto(p, "return") /\ job' = [job EXCEPT ![p].sts = sts]
       ELSE Finish(p, "failed")
  /\ UNCHANGED shared

RereadFails(p) == pc[p] = "reread" /\ ReadFails(p)

\* The value job.sts is the result of Retrieve.
Return(p) ==
  /\ pc[p] = "return"
  /\ Finish(p, "ok")
  /\ UNCHANGED shared

RetrieveStep(p) ==
  \/ ReadToken(p) \/ ReadTokenFails(p)
  \/ RefreshGranted(p) \/ RefreshAnswerLost(p) \/ RefreshRefused(p)
  \/ PersistToken(p)
  \/ ReadSts(p) \/ ReadStsFails(p)
  \/ ExchangeGranted(p) \/ ExchangeFails(p) \/ PersistSts(p)
  \/ PatchProfile(p) \/ PatchMismatch(p)
  \/ Mark(p) \/ Reread(p) \/ RereadFails(p) \/ Return(p)
=============================================================================
