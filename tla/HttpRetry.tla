------------------------------ MODULE HttpRetry ------------------------------
(***************************************************************************)
(* RetryClient of auth/httpx: the bounded retry every authentication        *)
(* endpoint is called through.  One call at a time is in progress; what the *)
(* server does with an attempt is up to the module that makes the call,     *)
(* which passes the answer of each attempt to Attempt.                      *)
(*                                                                         *)
(* now is the clock of the process; only the program's own sleeps and the   *)
(* latency of its requests move it.                                         *)
(***************************************************************************)
EXTENDS Integers, FiniteSets

CONSTANTS
  BaseDelay, MaxDelay,  \* defaultBaseDelay, defaultMaxDelay
  Jitters, JitterMax,   \* samples of the injected Jitter, defaultJitterMax
  MaxRetryAfter,        \* RetryClient.MaxRetryAfter
  MaxDuration,          \* the largest time.Duration
  RetryAfters,          \* delays a Retry-After header may ask for
  NoHeader,             \* an absent or malformed Retry-After
  Latencies             \* durations of one request

ASSUME RetryAssumption ==
  /\ BaseDelay \in Nat \ {0} /\ MaxDelay \in Nat /\ BaseDelay <= MaxDelay
  /\ Jitters \subseteq Int /\ JitterMax \in Nat
  /\ MaxRetryAfter \in Nat \ {0} /\ MaxDuration \in Nat
  /\ MaxDelay + JitterMax <= MaxDuration /\ MaxRetryAfter <= MaxDuration
  /\ RetryAfters \subseteq Int /\ NoHeader \notin Int
  /\ Latencies \subseteq Nat

VARIABLES
  now,
  cancelled,  \* the context of the command is done
  call        \* the call of Do in progress

(***************************************************************************)
(* The answer to one attempt.  "ok" and "refused" are statuses that are not *)
(* retried, "busy" is 408, 429 or 5xx, "reset" a transport error without an *)
(* answer and "timeout" one that is a context error (the client's own       *)
(* timeout included).  body is what the caller will find in it.             *)
(***************************************************************************)
Kinds == {"ok", "refused", "busy", "reset", "timeout"}
Response(kind, body) == [kind |-> kind, body |-> body, after |-> NoHeader]
NoResponse == Response("reset", "none")

CallPCs == {"idle", "try", "sleep", "done"}
Idle == [pc |-> "idle", n |-> 0, max |-> 0, wake |-> 0, since |-> 0,
         answer |-> NoResponse, open |-> {}]

RetryTypeOK ==
  /\ now \in Nat /\ cancelled \in BOOLEAN
  /\ call.pc \in CallPCs /\ call.n \in Nat /\ call.max \in Nat
  /\ call.wake \in Nat /\ call.since \in Nat
  /\ call.answer.kind \in Kinds \cup {"context"}
  /\ call.open \subseteq Nat

RetryInit == now = 0 /\ cancelled = FALSE /\ call = Idle

-----------------------------------------------------------------------------
(* The delay before the next attempt                                        *)

AtMost(a, b) == IF a < b THEN a ELSE b

\* Arithmetic on time.Duration keeps its width.
Durations == -(MaxDuration + 1)..MaxDuration
Wrap(d) ==
  LET w == 2 * (MaxDuration + 1)
  IN  ((d + MaxDuration + 1) % w) - (MaxDuration + 1)

\* After attempt n: doubled from one attempt to the next, up to MaxDelay.
Backoff[n \in Nat] ==
  IF n <= 1 THEN BaseDelay ELSE AtMost(2 * Backoff[n - 1], MaxDelay)

\* A sample outside [0, JitterMax) counts as zero.
AddJitter(delay, extra) ==
  IF extra < 0 \/ extra >= JitterMax THEN delay
  ELSE AtMost(delay + extra, MaxDuration)

\* Seconds that do not fit are clamped; a date in the past asks for no delay.
ParseRetryAfter(after) ==
  IF after < 0 THEN 0 ELSE AtMost(after, MaxDuration)

\* Mutant of Delays: the server's wish replaces the backoff without a limit.
DelaysUncapped(a, n) ==
  IF a.kind = "busy" /\ a.after # NoHeader
    THEN {ParseRetryAfter(a.after)}
    ELSE {AddJitter(Backoff[n], j) : j \in Jitters}

Delays(a, n) ==
  LET wish == IF a.kind = "busy" /\ a.after # NoHeader
                THEN {ParseRetryAfter(a.after)}
                ELSE {AddJitter(Backoff[n], j) : j \in Jitters}
  IN  {AtMost(d, MaxRetryAfter) : d \in wish}

-----------------------------------------------------------------------------
(* One call of Do                                                           *)

Retryable(a) == a.kind \in {"busy", "reset"}
HasBody(a) == a.kind \in {"ok", "refused", "busy"}

\* Do(ctx, factory) with at most max attempts, begun at time t
BeginAt(t, max) ==
  call' = [Idle EXCEPT !.pc = "try", !.n = 1, !.max = max, !.wake = t,
                       !.since = t]
Begin(max) == BeginAt(now, max)

Return(a) == [call EXCEPT !.pc = "done", !.answer = a]

\* ctx.Err before an attempt
AttemptCancelled ==
  /\ call.pc = "try" /\ cancelled
  /\ call' = Return(Response("context", "none"))
  /\ UNCHANGED <<now, cancelled>>

(***************************************************************************)
(* One attempt that is answered with a.  The response of the last attempt   *)
(* and of one that is not retried goes to the caller with its body; the     *)
(* others are drained and closed before the sleep.                          *)
(***************************************************************************)
Attempt(a) ==
  /\ call.pc = "try" /\ ~cancelled
  /\ \E l \in Latencies :
       /\ now' = now + l
       /\ IF Retryable(a) /\ call.n < call.max
            THEN \E d \in Delays(a, call.n) :
                   call' = [call EXCEPT !.pc = "sleep", !.answer = a,
                              !.since = now', !.wake = now' + d]
            ELSE call' = [Return(a) EXCEPT
                            !.open = IF HasBody(a) THEN @ \cup {call.n} ELSE @]
  /\ UNCHANGED cancelled

\* The request is on its way when the context ends.
AttemptInterrupted ==
  /\ call.pc = "try" /\ cancelled
  /\ call' = Return(Response("timeout", "none"))
  /\ UNCHANGED <<now, cancelled>>

\* The sleeper returns; a delay of zero does not look at the context.
Wake ==
  /\ call.pc = "sleep"
  /\ ~cancelled \/ call.wake = now
  /\ now' = IF call.wake > now THEN call.wake ELSE now
  /\ call' = [call EXCEPT !.pc = "try", !.n = @ + 1]
  /\ UNCHANGED cancelled

SleepCancelled ==
  /\ call.pc = "sleep" /\ cancelled /\ call.wake > now
  /\ call' = Return(Response("context", "none"))
  /\ UNCHANGED <<now, cancelled>>

Cancel ==
  /\ ~cancelled
  /\ cancelled' = TRUE
  /\ UNCHANGED <<now, call>>

\* What a call does between its attempts, whoever made it.
CallStep == AttemptCancelled \/ AttemptInterrupted \/ Wake \/ SleepCancelled

-----------------------------------------------------------------------------
(* Properties                                                               *)

(***************************************************************************)
(* Do (retry.go:206) makes at most maxAttempts attempts, and every response *)
(* body but the one it returns is closed: none is open while it sleeps or   *)
(* when it returns an error, whatever the answers were.                     *)
(***************************************************************************)
BodiesReleased ==
  /\ call.n <= call.max
  /\ call.pc \in {"try", "sleep"} => call.open = {}
  /\ call.pc = "done" =>
       call.open = IF HasBody(call.answer) THEN {call.n} ELSE {}

(***************************************************************************)
(* sleep (retry.go:379): the next attempt keeps the delay the server asked  *)
(* for, up to MaxRetryAfter, and otherwise the exponential backoff; and no  *)
(* server, however large the number it sends, delays it beyond              *)
(* MaxRetryAfter.                                                           *)
(***************************************************************************)
WaitsAsAsked ==
  call.pc = "try" /\ call.n > 1 =>
    LET waited == now - call.since
        asked == IF call.answer.kind = "busy" /\ call.answer.after # NoHeader
                   THEN call.answer.after ELSE Backoff[call.n - 1]
    IN  waited >= AtMost(asked, MaxRetryAfter) /\ waited <= MaxRetryAfter

(***************************************************************************)
(* Between two attempts the body of the failed one is released and the wait *)
(* is what the service asked for, within the limits (retry.go:379).         *)
(***************************************************************************)
RetriesAsAsked ==
  BodiesReleased /\ WaitsAsAsked
=============================================================================
