----------------------------- MODULE DeviceGrant -----------------------------
(***************************************************************************)
(* The device authorization grant as both device flows of the program see   *)
(* it: an authorization server that hands out one device code at a time, a  *)
(* user who approves or denies it in a browser, and the flow in progress.   *)
(* The server is external; it is modelled from the answers the clients in   *)
(* auth/sso and auth/console tell apart.  Durations are in seconds.         *)
(***************************************************************************)
EXTENDS HttpRetry

CONSTANTS
  Attempts,    \* OAuthRetryAttempts, RetryAttempts
  Intervals,   \* values of interval a server may announce
  Lifetimes,   \* values of expires_in a server may announce
  SlowDown,    \* the increment slow_down asks for
  DefaultInterval,
  NetFaults    \* what may go wrong on the way: a subset of Kinds

ASSUME GrantAssumption ==
  /\ Attempts \in Nat \ {0} /\ SlowDown \in Nat \ {0}
  /\ DefaultInterval \in 1..MaxDuration
  /\ Intervals \subseteq Int /\ Lifetimes \subseteq Int
  /\ NetFaults \subseteq {"busy", "reset", "timeout"}

VARIABLES
  grant,  \* the server's device code
  flow    \* the flow in progress

grantVars == <<now, cancelled, call, grant, flow>>

GrantStates == {"none", "pending", "approved", "denied", "consumed"}
FlowPCs == {"start", "register", "authorize", "poll", "exchange", "done"}
Outcomes == {"none", "ok", "failed", "timeout", "denied", "cancelled",
             "unsaved", "unusable"}

NoGrant == [state |-> "none", interval |-> 0, lifetime |-> 0, expires |-> 0,
            asked |-> 0, lost |-> FALSE]
NewFlow(kind) == [kind |-> kind, pc |-> "start", interval |-> 0,
                  deadline |-> 0, transient |-> 0, polled |-> 0,
                  client |-> 0, out |-> "none"]

GrantTypeOK ==
  /\ RetryTypeOK
  /\ grant.state \in GrantStates /\ grant.lost \in BOOLEAN
  /\ grant.interval \in Int /\ grant.lifetime \in Int
  /\ flow.pc \in FlowPCs /\ flow.out \in Outcomes
  /\ flow.interval \in Durations /\ flow.transient \in Nat

GrantInit(kind) ==
  /\ RetryInit
  /\ grant = NoGrant
  /\ flow = NewFlow(kind)

\* No device flow is under way.
GrantIdle ==
  /\ RetryInit
  /\ grant = NoGrant
  /\ flow = [NewFlow("none") EXCEPT !.pc = "done"]

-----------------------------------------------------------------------------
(* The server and the user                                                  *)

\* Where a fault strikes: the request or its answer is lost.
Faulty ==
  {Response(k, "none") : k \in NetFaults} \cup
  IF "busy" \notin NetFaults THEN {}
  ELSE {Response("busy", "request_timeout")} \cup
       {[Response("busy", "none") EXCEPT !.after = r] : r \in RetryAfters}

\* A new device code replaces the one before.  A server that announces no
\* interval expects the default.
IssueCode ==
  \E i \in Intervals, t \in Lifetimes :
    grant' = [NoGrant EXCEPT !.state = "pending", !.interval = i,
                !.lifetime = t, !.expires = now + t,
                !.asked = IF i > 0 THEN i ELSE DefaultInterval]

AuthorizeAttempt ==
  /\ flow.pc = "authorize"
  /\ \/ \E body \in {"code", "incomplete"} :
          Attempt(Response("ok", body)) /\ IssueCode
     \/ \E a \in Faulty : Attempt(a) /\ UNCHANGED grant
     \/ Attempt(Response("refused", "invalid_client")) /\ UNCHANGED grant
  /\ UNCHANGED flow

Refusal(code) == Attempt(Response("refused", code))

\* What the server says to one poll, and what it does about it.
ServerAnswers ==
  \/ /\ grant.state = "pending" /\ now < grant.expires
     /\ \/ Refusal("authorization_pending") /\ UNCHANGED grant
        \/ Refusal("slow_down") /\ grant' = [grant EXCEPT !.asked = @ + SlowDown]
  \/ /\ grant.state = "approved" /\ now < grant.expires
     /\ \/ /\ Attempt(Response("ok", "token"))
           /\ grant' = [grant EXCEPT !.state = "consumed"]
        \/ \* the code is consumed and the answer lost
           \E a \in Faulty :
             /\ Attempt(a)
             /\ grant' = [grant EXCEPT !.state = "consumed", !.lost = TRUE]
  \/ /\ grant.state = "denied"
     /\ Refusal("access_denied") /\ UNCHANGED grant
  \/ /\ grant.state = "consumed"
     /\ Refusal("invalid_grant") /\ UNCHANGED grant
  \/ /\ now >= grant.expires /\ grant.state \in {"pending", "approved"}
     /\ Refusal("expired_token") /\ UNCHANGED grant
  \/ \E a \in Faulty : Attempt(a) /\ UNCHANGED grant

ExchangeAttempt ==
  /\ flow.pc = "exchange"
  /\ ServerAnswers
  /\ UNCHANGED flow

Approve ==
  /\ grant.state = "pending" /\ flow.pc # "done"
  /\ grant' = [grant EXCEPT !.state = "approved"]
  /\ UNCHANGED <<now, cancelled, call, flow>>

Deny ==
  /\ grant.state = "pending" /\ flow.pc # "done"
  /\ grant' = [grant EXCEPT !.state = "denied"]
  /\ UNCHANGED <<now, cancelled, call, flow>>

UserOrContext ==
  \/ Approve \/ Deny
  \/ flow.pc # "done" /\ Cancel /\ UNCHANGED <<grant, flow>>

-----------------------------------------------------------------------------
(* What both flows do alike                                                 *)

End(outcome) ==
  /\ flow' = [flow EXCEPT !.pc = "done", !.out = outcome]
  /\ call' = Idle

\* The answer to the call the flow is waiting for at label.
Answered(label, body) ==
  flow.pc = label /\ call.pc = "done" /\ call.answer.body = body
Refused(label) ==
  flow.pc = label /\ call.pc = "done" /\ call.answer.kind = "refused"

\* No answer that can be used: the flow ends.
CallFails(label, wanted) ==
  /\ flow.pc = label /\ call.pc = "done" /\ call.answer.body # wanted
  /\ End(IF call.answer.kind \in {"context", "timeout"} /\ cancelled
           THEN "cancelled" ELSE "failed")
  /\ UNCHANGED <<now, cancelled, grant>>

RetryLoop == CallStep /\ UNCHANGED <<grant, flow>>

(***************************************************************************)
(* Every login ends (pollForToken, device_flow.go:451; Authorize,           *)
(* device.go:127), whatever the server answers and although nobody cancels  *)
(* it: each poll moves the clock towards the deadline, a call has a bounded *)
(* number of attempts and transient failures are limited.                   *)
(***************************************************************************)
LoginEnds == <>(flow.pc = "done")
=============================================================================
