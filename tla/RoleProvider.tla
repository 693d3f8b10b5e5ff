---------------------------- MODULE RoleProvider ----------------------------
(***************************************************************************)
(* The providers of role credentials (auth/ramrole, auth/oidc,              *)
(* auth/ecsrole): one cached credential in memory, a gate that lets one     *)
(* caller refresh it, and the clients of STS and of the ECS metadata        *)
(* service with their own retries.  The three Retrieve methods are the same *)
(* but for the client and the refresh window.                               *)
(*                                                                         *)
(* Callers share one provider.  Each has a context of its own that may be   *)
(* cancelled at any time; the clock moves between any two steps.            *)
(***************************************************************************)
EXTENDS Integers, FiniteSets

CONSTANTS
  Callers,
  RoleKinds,     \* "ramrole", "oidc", "ecsrole"
  Window,        \* refreshWindow
  HardTTL,       \* ramHardTTL
  RoleAttempts,  \* maxAttempts of both clients
  Grants,        \* lifetimes a service may grant, seen by the local clock
  Retrievals,    \* bound on the calls of one caller
  MaxTime,       \* bound on the clock
  Nobody

ASSUME RoleAssumption ==
  /\ IsFiniteSet(Callers) /\ Nobody \notin Callers
  /\ RoleKinds \subseteq {"ramrole", "oidc", "ecsrole"}
  /\ Window \in Nat /\ HardTTL \in Nat /\ RoleAttempts \in Nat \ {0}
  /\ Grants \subseteq Int /\ Retrievals \in Nat /\ MaxTime \in Nat

VARIABLES
  time,
  role,    \* the kind of the provider; "none" when there is none
  ctxDone, \* per caller: its context is done
  cached,  \* Provider.cached with refreshAt
  gate,    \* who holds the slot of Provider.gate
  caller   \* the progress of each caller

roleVars == <<time, role, ctxDone, cached, gate, caller>>

RolePCs == {"idle", "fast", "gate", "check", "file", "try", "sleep", "store"}
Empty == [expires |-> 0, refreshAt |-> 0, set |-> FALSE]
NewCaller == [pc |-> "idle", left |-> Retrievals, n |-> 0, phase |-> "none",
              started |-> 0, got |-> 0, late |-> FALSE, out |-> "none",
              margin |-> 0]

\* The credential is there and not within the refresh window.
Fresh == cached.set /\ time < cached.refreshAt

RoleInit ==
  /\ time = 0
  /\ role \in RoleKinds
  /\ ctxDone = [c \in Callers |-> FALSE]
  /\ cached = Empty /\ gate = Nobody
  /\ caller = [c \in Callers |-> NewCaller]

RoleIdle ==
  /\ time = 0 /\ role = "none"
  /\ ctxDone = [c \in Callers |-> FALSE]
  /\ cached = Empty /\ gate = Nobody
  /\ caller = [c \in Callers |-> [NewCaller EXCEPT !.left = 0]]

-----------------------------------------------------------------------------
(* Retrieve                                                                 *)

At(c, label) == caller[c].pc = label
Goto(c, label) == caller' = [caller EXCEPT ![c].pc = label]

Answer(c, out, expires) ==
  caller' = [caller EXCEPT ![c] =
    [NewCaller EXCEPT !.left = caller[c].left, !.late = caller[c].late,
       !.out = out, !.margin = expires - time]]
ReturnCached(c, out) ==
  Answer(c, out, IF out = "value" THEN cached.expires ELSE time)

\* A return after the gate was taken runs the deferred release.
ReturnHeld(c, out) == ReturnCached(c, out) /\ gate' = Nobody
Fail(c) == ReturnHeld(c, "error") /\ UNCHANGED <<time, role, ctxDone, cached>>

Call(c) ==
  /\ At(c, "idle") /\ caller[c].left > 0
  /\ caller' = [caller EXCEPT ![c] =
       [NewCaller EXCEPT !.pc = "fast", !.left = caller[c].left - 1]]
  /\ ctxDone' = [ctxDone EXCEPT ![c] = FALSE]
  /\ UNCHANGED <<time, role, cached, gate>>

\* The fast path does not look at the context; past it a done context ends
\* the call.  A context that ends between the two is as good as done before.
Fast(c) ==
  /\ At(c, "fast")
  /\ \/ Fresh /\ ReturnCached(c, "value")
     \/ ~Fresh /\ ctxDone[c] /\ ReturnCached(c, "error")
     \/ ~Fresh /\ ~ctxDone[c] /\ Goto(c, "gate")
  /\ UNCHANGED <<time, role, ctxDone, cached, gate>>

\* Mutant of TakeGate: the waiter is deaf to its context.
TakeGateBlocking(c) ==
  /\ At(c, "gate") /\ gate = Nobody
  /\ gate' = c
  /\ caller' = [caller EXCEPT ![c].pc = "check", ![c].late = ctxDone[c]]
  /\ UNCHANGED <<time, role, ctxDone, cached>>

\* Mutant of TakeGate: the release is deferred before the slot is taken.
TakeGateDeferredEarly(c) ==
  /\ At(c, "gate")
  /\ \/ /\ gate = Nobody /\ gate' = c
        /\ caller' = [caller EXCEPT ![c].pc = "check", ![c].late = ctxDone[c]]
     \/ ctxDone[c] /\ ReturnHeld(c, "error")
  /\ UNCHANGED <<time, role, ctxDone, cached>>

\* The select: either branch when both are ready.
TakeGate(c) ==
  /\ At(c, "gate")
  /\ \/ /\ gate = Nobody /\ gate' = c
        /\ caller' = [caller EXCEPT ![c].pc = "check", ![c].late = ctxDone[c]]
     \/ ctxDone[c] /\ ReturnCached(c, "error") /\ UNCHANGED gate
  /\ UNCHANGED <<time, role, ctxDone, cached>>

BeginRetrieve(c, label) ==
  caller' = [caller EXCEPT ![c].pc = label, ![c].n = 1,
               ![c].phase = IF role = "ecsrole" THEN "token" ELSE "sts",
               ![c].started = time]
FirstStep == IF role = "oidc" THEN "file" ELSE "try"

\* With the gate: the context again, then the cache again.
Check(c) ==
  /\ At(c, "check")
  /\ \/ ctxDone[c] /\ ReturnHeld(c, "error")
     \/ ~ctxDone[c] /\ Fresh /\ ReturnHeld(c, "value")
     \/ ~ctxDone[c] /\ ~Fresh /\ BeginRetrieve(c, FirstStep) /\ UNCHANGED gate
  /\ UNCHANGED <<time, role, ctxDone, cached>>

\* readTokenFile: the file is resolved, opened and read at every refresh; the
\* client looks at the context before it sends the token.
ReadToken(c) ==
  /\ At(c, "file")
  /\ \/ /\ ~ctxDone[c]
        /\ caller' = [caller EXCEPT ![c].pc = "try", ![c].started = time]
        /\ UNCHANGED <<time, role, ctxDone, cached, gate>>
     \/ Fail(c)

-----------------------------------------------------------------------------
(* One attempt of a client, as it is answered                               *)

(***************************************************************************)
(* The ways an attempt fails.  "transient" is a transport error, an attempt *)
(* that timed out, or a status or service code that asks for another try;   *)
(* "interrupted" a body that breaks off; "refused" any other status or code *)
(* and a redirect; "malformed" a body too large, without the fields or      *)
(* without an expiration.                                                   *)
(***************************************************************************)
Failures == {"transient", "interrupted", "refused", "malformed"}

\* A body that breaks off is read again from the metadata service only.
Retried(answer) ==
  answer = "transient" \/ (answer = "interrupted" /\ role = "ecsrole")

\* doWithRetry, fetchToken, fetchCredentials: the context ends the loop
\* before an attempt and after a failed one.
AttemptFails(c) ==
  /\ At(c, "try")
  /\ \E answer \in Failures :
       IF ctxDone[c] \/ ~Retried(answer) \/ caller[c].n = RoleAttempts
         THEN Fail(c)
         ELSE Goto(c, "sleep") /\ UNCHANGED <<time, role, ctxDone, cached, gate>>

\* The context is looked at while sleeping and before the next attempt.
Sleep(c) ==
  /\ At(c, "sleep")
  /\ \/ /\ ~ctxDone[c]
        /\ caller' = [caller EXCEPT ![c].pc = "try", ![c].n = @ + 1]
        /\ UNCHANGED <<time, role, ctxDone, cached, gate>>
     \/ ctxDone[c] /\ Fail(c)

\* The metadata token is fetched for every refresh; its attempts are its own.
TokenArrives(c) ==
  /\ At(c, "try") /\ caller[c].phase = "token"
  /\ \/ /\ ~ctxDone[c]
        /\ caller' = [caller EXCEPT ![c].phase = "credentials", ![c].n = 1]
        /\ UNCHANGED <<time, role, ctxDone, cached, gate>>
     \/ ctxDone[c] /\ Fail(c)

\* What the client hands to the provider, or why it does not.
Fetched(c, expires) ==
  /\ caller' = [caller EXCEPT ![c].pc = "store", ![c].got = expires]
  /\ UNCHANGED <<time, role, ctxDone, cached, gate>>
UnlessExpired(c, expires) ==
  \/ expires > time /\ Fetched(c, expires)
  \/ expires <= time /\ Fail(c)

Earlier(a, b) == IF a < b THEN a ELSE b

\* AssumeRole: the credential lives until one hour after the request started
\* at most, and one that expired on the way is refused.
RoleAssumed(c) ==
  /\ At(c, "try") /\ role = "ramrole"
  /\ \E g \in Grants :
       UnlessExpired(c, Earlier(time + g, caller[c].started + HardTTL))

\* AssumeRoleWithOIDC: the expiration is the service's.
TokenExchanged(c) ==
  /\ At(c, "try") /\ role = "oidc"
  /\ \E g \in Grants : UnlessExpired(c, time + g)

\* The metadata service: whether they have expired is left to the provider.
MetadataFetched(c) ==
  /\ At(c, "try") /\ caller[c].phase = "credentials"
  /\ \E g \in Grants : Fetched(c, time + g)

\* Mutant of Store: what the service granted is taken as it is.
StoreAnyway(c) ==
  /\ At(c, "store")
  /\ cached' = [expires |-> caller[c].got, set |-> TRUE,
                refreshAt |-> caller[c].got - Window]
  /\ Answer(c, "value", caller[c].got)
  /\ gate' = Nobody /\ UNCHANGED <<time, role, ctxDone>>

\* The clock is read again: a credential without a safe window is refused and
\* the cache stays as it was.
Store(c) ==
  /\ At(c, "store")
  /\ \/ caller[c].got - Window <= time /\ Fail(c)
     \/ /\ caller[c].got - Window > time
        /\ cached' = [expires |-> caller[c].got, set |-> TRUE,
                      refreshAt |-> caller[c].got - Window]
        /\ Answer(c, "value", caller[c].got)
        /\ gate' = Nobody /\ UNCHANGED <<time, role, ctxDone>>

-----------------------------------------------------------------------------
(* The environment                                                          *)

CancelCaller(c) ==
  /\ ~At(c, "idle") /\ ~ctxDone[c]
  /\ ctxDone' = [ctxDone EXCEPT ![c] = TRUE]
  /\ UNCHANGED <<time, role, cached, gate, caller>>

Tick ==
  /\ role # "none" /\ time < MaxTime
  /\ time' = time + 1
  /\ UNCHANGED <<role, ctxDone, cached, gate, caller>>

\* What a caller does by itself, and what waits for a service.
Local(c) == Fast(c) \/ TakeGate(c) \/ Check(c) \/ ReadToken(c) \/ Store(c)
Remote(c) ==
  \/ AttemptFails(c) \/ Sleep(c) \/ TokenArrives(c)
  \/ RoleAssumed(c) \/ TokenExchanged(c) \/ MetadataFetched(c)

RoleStep(c) == Call(c) \/ Local(c) \/ Remote(c) \/ CancelCaller(c)

-----------------------------------------------------------------------------
(* Properties                                                               *)

Leading(c) == caller[c].pc \in {"check", "file", "try", "sleep", "store"}
Refreshing(c) == caller[c].pc \in {"file", "try", "sleep", "store"}

RoleTypeOK ==
  /\ time \in Nat /\ role \in RoleKinds \cup {"none"}
  /\ ctxDone \in [Callers -> BOOLEAN]
  /\ cached.expires \in Int /\ cached.refreshAt \in Int
  /\ cached.set \in BOOLEAN
  /\ gate \in Callers \cup {Nobody}
  /\ caller \in [Callers ->
       [pc : RolePCs, left : Nat, n : 0..RoleAttempts,
        phase : {"none", "sts", "token", "credentials"}, started : Nat,
        got : Int, late : BOOLEAN, out : {"none", "value", "error"},
        margin : Int]]

(***************************************************************************)
(* Retrieve (ramrole/provider.go:104) returns a credential only while more  *)
(* than the refresh window of it is left at that moment, whoever fetched it *)
(* and however long the service took to answer.                             *)
(***************************************************************************)
ReturnsUsable ==
  \A c \in Callers :
    caller[c].out = "value" => caller[c].margin > Window

(***************************************************************************)
(* The gate (ramrole/provider.go:128) lets one caller refresh at a time,    *)
(* also when waiters give up while another caller holds it.                 *)
(***************************************************************************)
OneLeader == \A c \in Callers : Leading(c) <=> gate = c

(***************************************************************************)
(* No request to the service is under way while the cache is fresh: callers *)
(* that waited for a refresh use its result (ramrole/provider.go:142).      *)
(***************************************************************************)
NoNeedlessRefresh == (\E c \in Callers : Refreshing(c)) => ~Fresh

(***************************************************************************)
(* A caller whose context was done when it got the gate gets an error and   *)
(* not the credential another caller has just fetched                       *)
(* (ramrole/provider.go:136).                                               *)
(***************************************************************************)
CancelledGetsNothing ==
  \A c \in Callers : caller[c].late => caller[c].out # "value"

(***************************************************************************)
(* A credential of AssumeRole never outlives one hour from the start of its *)
(* request (sts/client.go:260), retries and slow answers included.          *)
(***************************************************************************)
HardLimit ==
  role = "ramrole" =>
    \A c \in Callers :
      At(c, "store") => caller[c].got <= caller[c].started + HardTTL

(***************************************************************************)
(* A waiter whose context is done returns although the service of the       *)
(* leader never answers (ramrole/provider.go:101).                          *)
(***************************************************************************)
CancelledCallerReturns ==
  \A c \in Callers : At(c, "gate") /\ ctxDone[c] ~> At(c, "idle")

(***************************************************************************)
(* A credential that Retrieve returns has the margin its provider promises, *)
(* no caller whose context was done in time gets one, and none is kept      *)
(* beyond the hard limit (provider.go:136, :162; sts/client.go:236).        *)
(***************************************************************************)
RoleCredentialIsUsable ==
  ReturnsUsable /\ CancelledGetsNothing /\ HardLimit

(***************************************************************************)
(* One caller at a time refreshes the credential, and none that another has *)
(* refreshed already (provider.go:128, :142).                               *)
(***************************************************************************)
RefreshedOnce ==
  RoleTypeOK /\ OneLeader /\ NoNeedlessRefresh
=============================================================================
