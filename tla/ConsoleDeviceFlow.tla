-------------------------- MODULE ConsoleDeviceFlow --------------------------
(***************************************************************************)
(* DeviceAuthorizationFlow.Authorize of auth/console: the device grant of   *)
(* volclog login.  It differs from the one of SSO in what it survives: each *)
(* poll is a single attempt, so that the loop itself sees every answer, and *)
(* up to MaxTransient failures in a row are polled again.                   *)
(***************************************************************************)
EXTENDS DeviceGrant

CONSTANTS
  MaxTransient,   \* deviceCodeMaxTransientErrors
  MaxPollInterval \* deviceCodeMaxPollInterval

ASSUME ConsoleFlowAssumption ==
  /\ MaxTransient \in Nat /\ MaxPollInterval \in Nat
  /\ DefaultInterval <= MaxPollInterval /\ 2 * MaxPollInterval <= MaxDuration

ConsoleInit == GrantInit("console")

\* ExchangeTokenOnce: a single attempt, begun at time t
PostOnce(t) == BeginAt(t, 1)

\* The client's two calls, and the error code its refusals carry.
ConsoleStartAuthorization == AuthorizeAttempt
ConsoleExchangeToken == ExchangeAttempt
ErrorCode == call.answer.body

\* Authorize: the context is looked at once before anything is sent.
ConsoleStart ==
  /\ flow.pc = "start"
  /\ IF cancelled
       THEN End("cancelled")
       ELSE flow' = [flow EXCEPT !.pc = "authorize"] /\ Begin(Attempts)
  /\ UNCHANGED <<now, cancelled, grant>>

\* newDevicePollState: no defence against overflow, but never zero or less.
PollInterval(s) == IF Wrap(s) <= 0 THEN DefaultInterval ELSE Wrap(s)

\* deviceDuration; zero when it is refused.
Lifetime(s) == IF s <= 0 \/ s > MaxDuration THEN 0 ELSE s

ConsoleStartPolling ==
  /\ Answered("authorize", "code")
  /\ IF Lifetime(grant.lifetime) = 0
       THEN End("failed")
       ELSE /\ flow' = [flow EXCEPT !.pc = "poll", !.polled = now,
                          !.interval = PollInterval(grant.interval),
                          !.deadline = now + Lifetime(grant.lifetime)]
            /\ call' = Idle
  /\ UNCHANGED <<now, cancelled, grant>>

\* A wait of zero or less does not look at the context.
ConsolePoll ==
  /\ flow.pc = "poll"
  /\ now < flow.deadline /\ flow.interval > 0 => ~cancelled
  /\ IF now >= flow.deadline
       THEN End("timeout") /\ UNCHANGED now
       ELSE /\ now' = IF flow.interval > 0
                      THEN now + AtMost(flow.interval, flow.deadline - now)
                      ELSE now
            /\ IF now' < flow.deadline
                 THEN /\ flow' = [flow EXCEPT !.pc = "exchange"]
                      /\ PostOnce(now')
                 ELSE End("timeout")
  /\ UNCHANGED <<cancelled, grant>>

\* The sleeper returns the context's error.
ConsolePollCancelled ==
  /\ flow.pc = "poll" /\ cancelled /\ now < flow.deadline /\ flow.interval > 0
  /\ End("cancelled")
  /\ UNCHANGED <<now, cancelled, grant>>

ConsoleToken ==
  /\ Answered("exchange", "token")
  /\ End("ok")
  /\ UNCHANGED <<now, cancelled, grant>>

PollOn(interval, transient) ==
  /\ flow' = [flow EXCEPT !.pc = "poll", !.polled = now,
                !.interval = interval, !.transient = transient]
  /\ call' = Idle

\* nextTimeoutInterval: what would overflow is above the maximum, too.
BackedOff ==
  LET from == IF flow.interval <= 0 THEN DefaultInterval ELSE flow.interval
  IN  AtMost(2 * from, MaxPollInterval)

\* slowDown: no defence against overflow.
SlowerPoll == Wrap(flow.interval + SlowDown)

TimedOut == call.answer.kind = "timeout" \/ ErrorCode = "request_timeout"

(***************************************************************************)
(* handleDevicePollError: pending and slow_down start the count of failures *)
(* anew, what is transient is polled again until it has happened            *)
(* MaxTransient times in a row, everything else is final.  Whatever the     *)
(* error, a context that is done comes first.                               *)
(***************************************************************************)
ConsolePollError ==
  /\ flow.pc = "exchange" /\ call.pc = "done"
  /\ call.answer.body # "token"
  /\ LET code == ErrorCode IN
     CASE cancelled -> End("cancelled")
       [] ~cancelled /\ code = "authorization_pending" ->
            PollOn(flow.interval, 0)
       [] ~cancelled /\ code = "slow_down" ->
            PollOn(SlowerPoll, 0)
       [] ~cancelled /\ code = "access_denied" -> End("denied")
       [] ~cancelled /\ call.answer.kind \in {"busy", "reset", "timeout"} ->
            IF flow.transient < MaxTransient
              THEN PollOn(IF TimedOut THEN BackedOff ELSE flow.interval,
                          flow.transient + 1)
              ELSE End("failed")
       [] OTHER -> End("failed")
  /\ UNCHANGED <<now, cancelled, grant>>

ConsoleStep ==
  \/ ConsoleStart
  \/ ConsoleStartAuthorization
  \/ CallFails("authorize", "code")
  \/ ConsoleStartPolling \/ ConsolePoll \/ ConsolePollCancelled
  \/ ConsoleExchangeToken
  \/ ConsoleToken \/ ConsolePollError
  \/ RetryLoop

ConsoleNext == ConsoleStep \/ UserOrContext
ConsoleSpec ==
  ConsoleInit /\ [][ConsoleNext]_grantVars /\ WF_grantVars(ConsoleStep)

-----------------------------------------------------------------------------
(* Properties                                                               *)

FirstAttempt ==
  flow.kind = "console" /\ flow.pc = "exchange" /\ call.pc = "try" /\ call.n = 1

(***************************************************************************)
(* Between two polls the client waits as long as a server has asked for     *)
(* that asks for MaxPollInterval at most, whatever sequence of slow_down,   *)
(* timeouts and failures the loop (device.go:187) goes through; and the     *)
(* code is presented in its lifetime.  A longer interval is lowered; a      *)
(* negative one asks for nothing.                                           *)
(***************************************************************************)
ConsolePollsAsAskedUpToMax ==
  FirstAttempt =>
    /\ grant.asked <= MaxPollInterval /\ grant.interval >= 0 =>
         now - flow.polled >= grant.asked
    /\ now < flow.deadline /\ flow.deadline >= grant.expires

(***************************************************************************)
(* Authorize (device.go:122) returns the token the server has handed out,   *)
(* unless its answer was lost, and says "denied" only if the user did.      *)
(***************************************************************************)
ConsoleGrantIsKept ==
  flow.kind = "console" /\ flow.pc = "done" =>
    /\ grant.state = "consumed" /\ ~grant.lost => flow.out = "ok"
    /\ flow.out = "ok" => grant.state = "consumed"
    /\ flow.out = "denied" => grant.state = "denied"
=============================================================================
