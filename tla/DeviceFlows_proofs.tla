------------------------- MODULE DeviceFlows_proofs -------------------------
(***************************************************************************)
(* The retry of a call and the two device flows, for every server, user and *)
(* context, every announced interval and lifetime, and every limit of the   *)
(* retry: the invariants the theorems of Authorization_proofs rest on.      *)
(***************************************************************************)
EXTENDS SsoDeviceFlow, ConsoleDeviceFlow, WellFoundedInduction, TLAPS

-----------------------------------------------------------------------------
(* The backoff is defined for every attempt.                                *)

BackoffStep(g, n) == IF n <= 1 THEN BaseDelay ELSE AtMost(2 * g[n - 1], MaxDelay)
Backoffs(m) ==
  {g \in [0..m -> 0..MaxDelay] : \A i \in 0..m : g[i] = BackoffStep(g, i)}

\* A set of natural numbers that is not empty has a least element.
LEMMA Least ==
  ASSUME NEW S \in SUBSET Nat, S # {}
  PROVE  \E m \in S : \A k \in S : m <= k
<1>1. PICK m \in S : \A k \in S : ~(<<k, m>> \in OpToRel(<, Nat))
  BY WFMin, NatLessThanWellFounded
<1>2. m \in Nat /\ \A k \in S : k \in Nat /\ ~(k < m)
  BY <1>1, Zenon DEF OpToRel
<1>3. \A k \in S : m <= k
  BY <1>2
<1>. QED  BY <1>1, <1>3, Zenon

LEMMA BackoffsExist == \A m \in Nat : Backoffs(m) # {}
<1>. DEFINE Bad == {m \in Nat : Backoffs(m) = {}}
<1>. SUFFICES ASSUME Bad # {}  PROVE FALSE
  OBVIOUS
<1>1. PICK m \in Bad : \A k \in Bad : m <= k
  BY Least
<1>2. CASE m = 0
  <2>. DEFINE g == [i \in 0..0 |-> BaseDelay]
  <2>1. g \in [0..0 -> 0..MaxDelay] /\ \A i \in 0..0 : g[i] = BackoffStep(g, i)
    BY RetryAssumption DEF RetryAssumption, BackoffStep
  <2>. QED  BY <1>1, <1>2, <2>1 DEF Backoffs
<1>3. CASE m # 0
  <2>1. m \in Nat /\ m - 1 \in Nat /\ m - 1 \notin Bad
    BY <1>1, <1>3
  <2>2. PICK g \in [0..(m - 1) -> 0..MaxDelay] :
          \A i \in 0..(m - 1) : g[i] = BackoffStep(g, i)
    BY <2>1 DEF Backoffs
  <2>. DEFINE v == BackoffStep(g, m)
              h == [i \in 0..m |-> IF i = m THEN v ELSE g[i]]
  <2>3. v \in 0..MaxDelay
    BY <2>1, RetryAssumption DEF RetryAssumption, BackoffStep, AtMost
  <2>4. h \in [0..m -> 0..MaxDelay]
    BY <2>1, <2>3
  <2>5. ASSUME NEW i \in 0..m  PROVE h[i] = BackoffStep(h, i)
    <3>1. i = m \/ i \in 0..(m - 1)
      BY <2>1
    <3>2. i > 1 => h[i - 1] = g[i - 1]
      BY <2>1
    <3>. QED  BY <2>1, <2>2, <3>1, <3>2 DEF BackoffStep
  <2>. QED  BY <1>1, <2>4, <2>5 DEF Backoffs
<1>. QED  BY <1>2, <1>3

LEMMA BackoffsAgree ==
  ASSUME NEW m \in Nat, NEW n \in Nat, NEW g \in Backoffs(m),
         NEW h \in Backoffs(n), NEW i \in 0..m, i <= n
  PROVE  g[i] = h[i]
<1>. DEFINE Bad == {j \in 0..m : j <= n /\ g[j] # h[j]}
<1>. SUFFICES ASSUME Bad # {}  PROVE FALSE
  OBVIOUS
<1>0. Bad \in SUBSET Nat
  OBVIOUS
<1>1. PICK j \in Bad : \A k \in Bad : j <= k
  <2>. HIDE DEF Bad
  <2>. QED  BY <1>0, Least
<1>2. g[j] = BackoffStep(g, j) /\ h[j] = BackoffStep(h, j)
  BY <1>1 DEF Backoffs
<1>3. j > 1 => g[j - 1] = h[j - 1]
  BY <1>1
<1>. QED  BY <1>1, <1>2, <1>3 DEF BackoffStep

LEMMA BackoffType ==
  /\ Backoff \in [Nat -> 0..MaxDelay]
  /\ Backoff = [n \in Nat |-> IF n <= 1 THEN BaseDelay
                              ELSE AtMost(2 * Backoff[n - 1], MaxDelay)]
<1>. DEFINE F == [n \in Nat |-> (CHOOSE g : g \in Backoffs(n))[n]]
            IsBackoff(f) == f = [n \in Nat |-> IF n <= 1 THEN BaseDelay
                                   ELSE AtMost(2 * f[n - 1], MaxDelay)]
<1>1. ASSUME NEW n \in Nat
      PROVE  F[n] = (IF n <= 1 THEN BaseDelay ELSE AtMost(2 * F[n - 1], MaxDelay))
  <2>1. PICK g : g = (CHOOSE f : f \in Backoffs(n)) /\ g \in Backoffs(n)
    BY BackoffsExist
  <2>2. F[n] = g[n] /\ n \in 0..n
    BY <2>1
  <2>. HIDE DEF F
  <2>3. g[n] = BackoffStep(g, n)
    BY <2>1, <2>2 DEF Backoffs
  <2>. USE DEF F
  <2>4. ASSUME n > 1  PROVE g[n - 1] = F[n - 1]
    <3>1. n - 1 \in Nat
      BY <2>4
    <3>2. PICK h : h = (CHOOSE f : f \in Backoffs(n - 1)) /\ h \in Backoffs(n - 1)
      BY <3>1, BackoffsExist
    <3>. QED  BY <2>1, <3>1, <3>2, BackoffsAgree
  <2>. HIDE DEF F
  <2>. QED  BY <2>2, <2>3, <2>4 DEF BackoffStep
<1>2. F = [n \in Nat |-> F[n]]
  OBVIOUS
<1>. HIDE DEF F
<1>3. IsBackoff(CHOOSE f : IsBackoff(f))
  <2>1. IsBackoff(F)
    BY <1>1, <1>2
  <2>. QED  BY <2>1
<1>4. Backoff = (CHOOSE f : IsBackoff(f))
  BY DEF Backoff
<1>5. IsBackoff(Backoff)
  BY <1>3, <1>4
<1>6. ASSUME NEW n \in Nat  PROVE Backoff[n] \in 0..MaxDelay
  <2>. DEFINE Bad == {k \in Nat : Backoff[k] \notin 0..MaxDelay}
  <2>. SUFFICES ASSUME Bad # {}  PROVE FALSE
    OBVIOUS
  <2>1. PICK k \in Bad : \A l \in Bad : k <= l
    BY Least
  <2>2. k > 1 => k - 1 \in Nat /\ k - 1 \notin Bad
    BY <2>1
  <2>3. Backoff[k] = IF k <= 1 THEN BaseDelay
                     ELSE AtMost(2 * Backoff[k - 1], MaxDelay)
    BY <1>5, <2>1
  <2>. QED
    BY <2>1, <2>2, <2>3, RetryAssumption DEF RetryAssumption, AtMost
<1>. QED  BY <1>5, <1>6

-----------------------------------------------------------------------------
(* One call of Do                                                           *)

Bodies ==
  {"none", "client", "incomplete", "code", "token", "invalid_client",
   "invalid_request", "authorization_pending", "slow_down", "access_denied",
   "invalid_grant", "expired_token", "request_timeout"}
AnswerSet ==
  [kind : Kinds \cup {"context"}, body : Bodies, after : Int \cup {NoHeader}]
CallSet ==
  [pc : CallPCs, n : Nat, max : Nat, wake : Nat, since : Nat,
   answer : AnswerSet, open : SUBSET Nat]

Asked(a, n) ==
  IF a.kind = "busy" /\ a.after # NoHeader THEN a.after ELSE Backoff[n]

\* What a server says is said by an answer of its own.
AnswerOK(a) ==
  /\ a.body = "token" => a.kind = "ok"
  /\ a.body \in {"slow_down", "access_denied"} => a.kind = "refused"

SleepsAsAsked ==
  call.pc = "sleep" =>
    /\ call.since = now /\ call.n < call.max /\ Retryable(call.answer)
    /\ call.wake - now \in 0..MaxRetryAfter
    /\ call.wake - now >= AtMost(Asked(call.answer, call.n), MaxRetryAfter)

CallInv ==
  /\ now \in Nat /\ cancelled \in BOOLEAN /\ call \in CallSet
  /\ AnswerOK(call.answer) /\ (call.pc \in {"try", "sleep"} => call.n > 0)
  /\ BodiesReleased /\ WaitsAsAsked /\ SleepsAsAsked

LEMMA CallInvGives == CallInv => RetryTypeOK /\ RetriesAsAsked
BY DEF CallInv, RetryTypeOK, CallSet, AnswerSet, RetriesAsAsked

LEMMA DelaysBounded ==
  ASSUME NEW a \in AnswerSet, NEW n \in Nat, NEW d \in Delays(a, n)
  PROVE  d \in 0..MaxRetryAfter /\ d >= AtMost(Asked(a, n), MaxRetryAfter)
<1>1. Backoff[n] \in 0..MaxDelay
  BY BackoffType
<1>. DEFINE asks == a.kind = "busy" /\ a.after # NoHeader
<1>2. CASE asks
  <2>1. a.after \in Int
    BY <1>2 DEF AnswerSet
  <2>2. d = AtMost(ParseRetryAfter(a.after), MaxRetryAfter)
    BY <1>2 DEF Delays
  <2>. QED
    BY <1>2, <2>1, <2>2, RetryAssumption
    DEF RetryAssumption, AtMost, ParseRetryAfter, Asked
<1>3. CASE ~asks
  <2>1. PICK j \in Jitters : d = AtMost(AddJitter(Backoff[n], j), MaxRetryAfter)
    BY <1>3 DEF Delays
  <2>2. j \in Int /\ Asked(a, n) = Backoff[n]
    BY <1>3, RetryAssumption DEF RetryAssumption, Asked
  <2>. QED
    BY <1>1, <2>1, <2>2, RetryAssumption DEF RetryAssumption, AtMost, AddJitter
<1>. QED  BY <1>2, <1>3

\* The call is left in state c by a step that does not make it wait.
LEMMA CallMoves ==
  ASSUME CallInv, NEW c \in CallSet, call' = c, AnswerOK(c.answer),
         now' \in Nat, cancelled' \in BOOLEAN,
         \/ c.pc = "idle" /\ c.n <= c.max
         \/ c.pc = "try" /\ c.n = 1 /\ 1 <= c.max /\ c.open = {}
         \/ c.pc = "done" /\ c.n <= c.max /\
              c.open = (IF HasBody(c.answer) THEN {c.n} ELSE {})
  PROVE  CallInv'
BY DEF CallInv, CallSet, BodiesReleased, WaitsAsAsked, SleepsAsAsked

LEMMA IdleSet ==
  /\ Idle \in CallSet /\ AnswerOK(Idle.answer)
  /\ Idle.pc = "idle" /\ Idle.n = 0 /\ Idle.max = 0 /\ Idle.open = {}
<1>1. NoResponse \in AnswerSet /\ AnswerOK(NoResponse)
  BY DEF NoResponse, Response, AnswerSet, Kinds, AnswerOK, Bodies
<1>. HIDE DEF NoResponse
<1>. QED  BY <1>1 DEF Idle, CallSet, CallPCs

LEMMA RetryStarts == RetryInit => CallInv
<1>. SUFFICES ASSUME RetryInit  PROVE CallInv
  OBVIOUS
<1>1. call \in CallSet /\ AnswerOK(call.answer)
  BY IdleSet DEF RetryInit
<1>2. call.pc = "idle" /\ call.n = 0 /\ call.max = 0
  BY IdleSet DEF RetryInit
<1>3. BodiesReleased /\ WaitsAsAsked /\ SleepsAsAsked
  BY <1>2 DEF BodiesReleased, WaitsAsAsked, SleepsAsAsked
<1>. QED  BY <1>1, <1>2, <1>3 DEF RetryInit, CallInv

LEMMA CallEnds ==
  ASSUME CallInv, call' = Idle, now' \in Nat, UNCHANGED cancelled
  PROVE  CallInv' /\ call'.pc = "idle"
<1>1. /\ call' \in CallSet /\ AnswerOK(call'.answer)
      /\ call'.pc = "idle" /\ call'.n <= call'.max
  BY IdleSet
<1>2. cancelled' \in BOOLEAN
  BY DEF CallInv
<1>. QED  BY <1>1, <1>2, CallMoves

LEMMA CallBegins ==
  ASSUME CallInv, NEW t \in Nat, now' = t, UNCHANGED cancelled,
         NEW max \in Nat \ {0}, BeginAt(t, max)
  PROVE  /\ CallInv' /\ call'.pc = "try" /\ call'.n = 1 /\ call'.max = max
<1>. DEFINE c == [Idle EXCEPT !.pc = "try", !.n = 1, !.max = max,
                              !.wake = t, !.since = t]
<1>1. call' = c
  BY DEF BeginAt
<1>2. /\ c \in CallSet /\ c.pc = "try" /\ c.n = 1 /\ c.max = max
      /\ c.open = {} /\ c.answer = Idle.answer
  BY IdleSet DEF CallSet, CallPCs
<1>. HIDE DEF c
<1>3. cancelled' \in BOOLEAN
  BY DEF CallInv
<1>4. AnswerOK(call'.answer) /\ 1 <= call'.max
  BY <1>1, <1>2, IdleSet
<1>. QED  BY <1>1, <1>2, <1>3, <1>4, CallMoves

LEMMA ResponseSet ==
  ASSUME NEW kind \in Kinds \cup {"context"}, NEW body \in Bodies
  PROVE  /\ Response(kind, body) \in AnswerSet
         /\ Response(kind, body).kind = kind /\ Response(kind, body).body = body
BY DEF Response, AnswerSet

\* An attempt that is answered ends the call, or is tried again later.
LEMMA AttemptMade ==
  ASSUME CallInv, NEW a \in AnswerSet, AnswerOK(a), Attempt(a)
  PROVE  /\ CallInv' /\ now' >= now /\ now' \in Nat
         /\ call.pc = "try" /\ call'.answer = a
         /\ call'.n = call.n /\ call'.max = call.max
         /\ \/ call'.pc = "done"
            \/ call'.pc = "sleep" /\ Retryable(a) /\ call.n < call.max
<1>1. PICK l \in Latencies :
        /\ now' = now + l
        /\ IF Retryable(a) /\ call.n < call.max
             THEN \E d \in Delays(a, call.n) :
                    call' = [call EXCEPT !.pc = "sleep", !.answer = a,
                               !.since = now', !.wake = now' + d]
             ELSE call' = [Return(a) EXCEPT
                             !.open = IF HasBody(a) THEN @ \cup {call.n} ELSE @]
  BY DEF Attempt
<1>2. now' \in Nat /\ now' >= now /\ call \in CallSet /\ cancelled' \in BOOLEAN
      /\ call.pc = "try" /\ call.open = {} /\ call.n \in Nat /\ call.n > 0
      /\ call.n <= call.max /\ call.max \in Nat
  <2>1. call.pc = "try" /\ UNCHANGED cancelled
    BY DEF Attempt
  <2>2. l \in Nat /\ now \in Nat /\ now' = now + l
    BY <1>1, RetryAssumption DEF RetryAssumption, CallInv
  <2>3. now' \in Nat /\ now' >= now
    BY <2>2
  <2>. QED  BY <2>1, <2>3 DEF CallInv, BodiesReleased, CallSet
<1>3. CASE Retryable(a) /\ call.n < call.max
  <2>1. PICK d \in Delays(a, call.n) :
          call' = [call EXCEPT !.pc = "sleep", !.answer = a,
                     !.since = now', !.wake = now' + d]
    BY <1>1, <1>3
  <2>2. d \in 0..MaxRetryAfter
        /\ d >= AtMost(Asked(a, call.n), MaxRetryAfter)
    BY <1>2, DelaysBounded
  <2>3. d \in Nat
    BY <2>2, RetryAssumption DEF RetryAssumption
  <2>4. PICK t \in Nat : t = now'
    BY <1>2
  <2>. DEFINE w == t + d
  <2>5. w \in Nat /\ w - t = d
    BY <2>3
  <2>6. call' = [call EXCEPT !.pc = "sleep", !.answer = a, !.since = t, !.wake = w]
    BY <2>1, <2>4
  <2>. HIDE DEF w
  <2>7. /\ call' \in CallSet /\ call'.pc = "sleep" /\ call'.answer = a
        /\ call'.since = t /\ call'.wake = w /\ call'.open = {}
        /\ call'.n = call.n /\ call'.max = call.max
    BY <1>2, <2>4, <2>5, <2>6 DEF CallSet, CallPCs
  <2>8. SleepsAsAsked'
    BY <1>3, <2>2, <2>4, <2>5, <2>7 DEF SleepsAsAsked, Retryable, Asked, AtMost
  <2>. QED
    BY <1>2, <1>3, <2>7, <2>8
    DEF CallInv, BodiesReleased, WaitsAsAsked, Retryable, HasBody
<1>4. CASE ~(Retryable(a) /\ call.n < call.max)
  <2>. DEFINE o == IF HasBody(a) THEN call.open \cup {call.n} ELSE call.open
              r == Return(a)
  <2>1. r \in CallSet /\ r.pc = "done" /\ r.answer = a /\ r.open = call.open
        /\ r.n = call.n /\ r.max = call.max
    BY <1>2 DEF Return, CallSet, CallPCs
  <2>2. o \in SUBSET Nat /\ o = (IF HasBody(a) THEN {call.n} ELSE {})
    BY <1>2 DEF HasBody
  <2>3. call' = [r EXCEPT !.open = o]
    BY <1>1, <1>4, <2>1
  <2>. HIDE DEF r, o
  <2>4. /\ call' \in CallSet /\ call'.pc = "done" /\ call'.answer = a
        /\ call'.open = o /\ call'.n = call.n /\ call'.max = call.max
    BY <2>1, <2>2, <2>3 DEF CallSet
  <2>. QED  BY <1>2, <2>2, <2>4, CallMoves
<1>. QED  BY <1>3, <1>4

\* Between two attempts a call goes on, or ends because of its context.
LEMMA CallGoesOn ==
  ASSUME CallInv, CallStep
  PROVE  /\ CallInv' /\ now' >= now /\ now' \in Nat /\ UNCHANGED cancelled
         /\ call.pc \in {"try", "sleep"}
         /\ call'.n >= call.n /\ call'.max = call.max
         /\ \/ /\ call'.pc = "try" /\ call'.n > 1 /\ call.pc = "sleep"
               /\ call'.answer = call.answer
            \/ /\ call'.pc = "done" /\ now' = now /\ cancelled
               /\ call'.answer.kind \in {"context", "timeout"}
               /\ call'.answer.body = "none"
<1>1. ASSUME NEW kind \in {"context", "timeout"}, cancelled,
             call.pc \in {"try", "sleep"},
             call' = Return(Response(kind, "none")), UNCHANGED <<now, cancelled>>
      PROVE  /\ CallInv' /\ call'.pc = "done" /\ call'.answer.kind = kind
             /\ call'.answer.body = "none" /\ call'.n = call.n
             /\ call'.max = call.max
  <2>. DEFINE a == Response(kind, "none")
  <2>1. a \in AnswerSet /\ a.kind = kind /\ a.body = "none"
    BY ResponseSet DEF Kinds, Bodies
  <2>2. call' = [call EXCEPT !.pc = "done", !.answer = a]
    BY <1>1 DEF Return
  <2>. HIDE DEF a
  <2>3. /\ call' \in CallSet /\ call'.pc = "done" /\ call'.answer = a
        /\ call'.open = {} /\ call'.n = call.n /\ call'.max = call.max
        /\ call.n <= call.max
    BY <1>1, <2>1, <2>2 DEF CallInv, CallSet, CallPCs, BodiesReleased
  <2>4. AnswerOK(a) /\ ~HasBody(a)
    BY <2>1 DEF AnswerOK, HasBody
  <2>5. now' \in Nat /\ cancelled' \in BOOLEAN
    BY <1>1 DEF CallInv
  <2>. QED  BY <2>1, <2>3, <2>4, <2>5, CallMoves
<1>2. CASE Wake
  <2>1. /\ call \in CallSet /\ now \in Nat /\ call.pc = "sleep"
        /\ call.since = now /\ call.n < call.max /\ call.n \in Nat
        /\ call.n > 0 /\ call.max \in Nat
        /\ call.wake - now \in 0..MaxRetryAfter /\ call.wake \in Nat
        /\ call.wake - now >= AtMost(Asked(call.answer, call.n), MaxRetryAfter)
        /\ call.open = {}
    BY <1>2 DEF Wake, CallInv, SleepsAsAsked, CallSet, BodiesReleased
  <2>2. now' = call.wake /\ UNCHANGED cancelled
    BY <1>2, <2>1, RetryAssumption DEF Wake, RetryAssumption
  <2>3. call' = [call EXCEPT !.pc = "try", !.n = call.n + 1]
    BY <1>2 DEF Wake
  <2>4. call.n + 1 \in Nat
    BY <2>1
  <2>5. /\ call' \in CallSet /\ call'.pc = "try" /\ call'.n = call.n + 1
        /\ call'.max = call.max /\ call'.answer = call.answer
        /\ call'.since = call.since /\ call'.open = {}
    BY <2>1, <2>3, <2>4 DEF CallSet, CallPCs
  <2>6. call'.n - 1 = call.n /\ now' - call'.since = call.wake - now
    BY <2>1, <2>2, <2>5
  <2>7. WaitsAsAsked'
    <3>1. Asked(call.answer, call.n) =
            IF call'.answer.kind = "busy" /\ call'.answer.after # NoHeader
              THEN call'.answer.after ELSE Backoff[call'.n - 1]
      BY <2>5, <2>6 DEF Asked
    <3>2. now' - call'.since >= AtMost(Asked(call.answer, call.n), MaxRetryAfter)
          /\ now' - call'.since <= MaxRetryAfter
      BY <2>1, <2>6, RetryAssumption DEF RetryAssumption
    <3>. QED  BY <3>1, <3>2 DEF WaitsAsAsked
  <2>8. CallInv'
    BY <2>1, <2>2, <2>5, <2>7
    DEF CallInv, BodiesReleased, SleepsAsAsked
  <2>. QED  BY <2>1, <2>2, <2>5, <2>8, RetryAssumption DEF RetryAssumption
<1>3. call.n \in Nat /\ now \in Nat
  BY DEF CallInv, CallSet
<1>4. CASE AttemptCancelled
  BY <1>1, <1>3, <1>4 DEF AttemptCancelled
<1>5. CASE AttemptInterrupted
  BY <1>1, <1>3, <1>5 DEF AttemptInterrupted
<1>6. CASE SleepCancelled
  BY <1>1, <1>3, <1>6 DEF SleepCancelled
<1>. QED  BY <1>2, <1>4, <1>5, <1>6 DEF CallStep

LEMMA CancelKeeps == CallInv /\ Cancel => CallInv'
BY DEF Cancel, CallInv, BodiesReleased, WaitsAsAsked, SleepsAsAsked

-----------------------------------------------------------------------------
(* The device grant: the invariant of both flows                            *)

GrantSet ==
  [state : GrantStates, interval : Int, lifetime : Int, expires : Int,
   asked : Nat, lost : BOOLEAN]
FlowSet ==
  [kind : {"sso", "console", "none"}, pc : FlowPCs, interval : Durations,
   deadline : Int, transient : Nat, polled : Nat, client : Nat, out : Outcomes]

\* The answer to the call in progress is a body for the flow at label.
Said(label, body) ==
  flow.pc = label /\ call.pc = "done" /\ call.answer.body = body

\* What a code promises is known when the flow begins to poll.
TermsKnown ==
  /\ Said("authorize", "code") =>
       /\ grant.asked = IF grant.interval > 0 THEN grant.interval
                        ELSE DefaultInterval
       /\ grant.expires <= now + grant.lifetime
  /\ flow.pc \in {"poll", "exchange"} => flow.deadline >= grant.expires
  /\ flow.pc = "poll" => flow.polled <= now

\* A token is on its way to the flow, or its answer was lost.
TokenInFlight ==
  /\ flow.pc \in {"start", "register", "authorize"} => grant.state # "consumed"
  /\ flow.pc \in {"poll", "exchange"} /\ grant.state = "consumed" =>
       grant.lost \/ Said("exchange", "token")
  /\ Said("exchange", "token") => grant.state = "consumed"
  /\ Said("exchange", "access_denied") => grant.state = "denied"
  /\ flow.pc # "done" => flow.out = "none"

\* What a flow that has ended may say.
SaidTruly(kind, out, state, lost) ==
  /\ out = "ok" => state = "consumed"
  /\ out = "denied" => state = "denied"
  /\ state = "consumed" /\ ~lost /\ kind # "none" =>
       out \in {"ok"} \cup IF kind = "sso" THEN {"unsaved", "unusable"} ELSE {}
EndedTruly ==
  flow.pc = "done" =>
    call.pc = "idle" /\ SaidTruly(flow.kind, flow.out, grant.state, grant.lost)

\* The interval with the increment the flow has been told of and not added yet.
Interval ==
  IF Said("exchange", "slow_down") THEN flow.interval + SlowDown
  ELSE flow.interval
Polling(kind) == flow.kind = kind /\ flow.pc \in {"poll", "exchange"}
Modest == grant.asked <= MaxPollInterval /\ grant.interval >= 0

IntervalAgreed ==
  /\ flow.kind = "sso" => flow.interval \in 0..MaxDuration
  /\ Polling("sso") => Interval >= grant.asked
  /\ Polling("console") /\ Modest =>
       /\ Interval >= grant.asked /\ flow.interval > 0
       /\ Interval <= MaxPollInterval + grant.asked

GrantInv ==
  /\ CallInv /\ grant \in GrantSet /\ flow \in FlowSet
  /\ TermsKnown /\ TokenInFlight /\ EndedTruly /\ IntervalAgreed
  /\ PollsAsAsked /\ ConsolePollsAsAskedUpToMax

LEMMA GrantTypes ==
  ASSUME GrantInv
  PROVE  /\ now \in Nat /\ cancelled \in BOOLEAN /\ call \in CallSet
         /\ call.pc \in CallPCs /\ call.n \in Nat /\ AnswerOK(call.answer)
         /\ call.answer.kind \in Kinds \cup {"context"}
         /\ grant.state \in GrantStates /\ grant.interval \in Int
         /\ grant.lifetime \in Int /\ grant.expires \in Int
         /\ grant.asked \in Nat /\ grant.lost \in BOOLEAN
         /\ flow.kind \in {"sso", "console", "none"} /\ flow.pc \in FlowPCs
         /\ flow.interval \in Durations /\ flow.interval \in Int
         /\ flow.deadline \in Int
         /\ flow.transient \in Nat /\ flow.polled \in Nat
         /\ flow.client \in Nat /\ flow.out \in Outcomes
BY RetryAssumption
DEF GrantInv, CallInv, CallSet, AnswerSet, GrantSet, FlowSet, Durations,
    RetryAssumption

LEMMA Constants ==
  /\ MaxDuration \in Nat /\ DefaultInterval \in 1..MaxDuration
  /\ Attempts \in Nat \ {0} /\ SlowDown \in Nat \ {0}
  /\ Intervals \subseteq Int /\ Lifetimes \subseteq Int
  /\ MaxTransient \in Nat /\ MaxPollInterval \in Nat
  /\ DefaultInterval <= MaxPollInterval /\ 2 * MaxPollInterval <= MaxDuration
BY RetryAssumption, GrantAssumption, ConsoleFlowAssumption
DEF RetryAssumption, GrantAssumption, ConsoleFlowAssumption

LEMMA NewFlowSet ==
  ASSUME NEW kind \in {"sso", "console", "none"}
  PROVE  /\ NewFlow(kind) \in FlowSet /\ NewFlow(kind).kind = kind
         /\ NewFlow(kind).pc = "start" /\ NewFlow(kind).out = "none"
         /\ NewFlow(kind).interval = 0
BY Constants DEF NewFlow, FlowSet, FlowPCs, Outcomes, Durations

LEMMA GrantStarts ==
  ASSUME RetryInit, grant = NoGrant, flow \in FlowSet,
         flow.pc \in {"start", "done"}, flow.out = "none", flow.interval = 0
  PROVE  GrantInv
<1>1. CallInv /\ call.pc = "idle"
  BY RetryStarts, IdleSet DEF RetryInit
<1>2. /\ grant \in GrantSet /\ grant.state = "none"
  BY DEF NoGrant, GrantSet, GrantStates
<1>3. TermsKnown /\ TokenInFlight /\ EndedTruly /\ IntervalAgreed
  BY <1>1, <1>2, Constants
  DEF TermsKnown, TokenInFlight, EndedTruly, SaidTruly, IntervalAgreed, Polling,
      Said
<1>4. PollsAsAsked /\ ConsolePollsAsAskedUpToMax
  BY <1>1 DEF PollsAsAsked, ConsolePollsAsAskedUpToMax, FirstAttempt
<1>. QED  BY <1>1, <1>2, <1>3, <1>4 DEF GrantInv

-----------------------------------------------------------------------------
(* What the server, the user and the retry do while the flow waits          *)

LEMMA FaultyAnswers ==
  ASSUME NEW a \in Faulty
  PROVE  /\ a \in AnswerSet /\ a.kind \in {"busy", "reset", "timeout"}
         /\ a.body \in {"none", "request_timeout"}
<1>1. NetFaults \subseteq {"busy", "reset", "timeout"} /\ RetryAfters \subseteq Int
  BY RetryAssumption, GrantAssumption DEF RetryAssumption, GrantAssumption
<1>2. CASE \E k \in NetFaults : a = Response(k, "none")
  BY <1>1, <1>2 DEF Response, AnswerSet, Kinds, Bodies
<1>3. CASE a = Response("busy", "request_timeout")
  BY <1>3 DEF Response, AnswerSet, Kinds, Bodies
<1>4. CASE \E r \in RetryAfters : a = [Response("busy", "none") EXCEPT !.after = r]
  BY <1>1, <1>4 DEF Response, AnswerSet, Kinds, Bodies
<1>. QED  BY <1>2, <1>3, <1>4 DEF Faulty

LEMMA ServerAnswer ==
  ASSUME NEW kind \in {"ok", "refused"}, NEW body \in Bodies
  PROVE  /\ Response(kind, body) \in AnswerSet
         /\ Response(kind, body).kind = kind /\ Response(kind, body).body = body
         /\ ~Retryable(Response(kind, body))
BY ResponseSet DEF Kinds, Retryable

\* An attempt at label that changes nothing but the server's grant.
LEMMA FlowWaits ==
  ASSUME GrantInv, UNCHANGED flow, grant' \in GrantSet, CallInv',
         now' \in Nat, now' >= now, flow.pc # "done",
         call'.pc \in {"sleep", "done"} \/ call'.n > 1,
         TermsKnown', TokenInFlight', IntervalAgreed'
  PROVE  GrantInv'
<1>1. EndedTruly'
  BY DEF EndedTruly
<1>2. PollsAsAsked' /\ ConsolePollsAsAskedUpToMax'
  BY DEF PollsAsAsked, ConsolePollsAsAskedUpToMax, FirstAttempt
<1>. QED  BY <1>1, <1>2 DEF GrantInv

\* An answer that says nothing about the grant and leaves it alone.
LEMMA NothingSaid ==
  ASSUME GrantInv, UNCHANGED <<grant, flow>>, CallInv',
         now' \in Nat, now' >= now, flow.pc # "done",
         call.pc # "done",
         call'.pc \in {"sleep", "done"} \/ call'.n > 1,
         call'.pc = "done" =>
           call'.answer.body \notin {"code", "token", "access_denied", "slow_down"}
  PROVE  GrantInv'
<1>1. grant' \in GrantSet
  BY DEF GrantInv
<1>2. TermsKnown'
  BY GrantTypes DEF GrantInv, TermsKnown, Said
<1>3. TokenInFlight'
  BY DEF GrantInv, TokenInFlight, Said
<1>4. IntervalAgreed'
  BY DEF GrantInv, IntervalAgreed, Polling, Interval, Modest, Said
<1>. QED  BY <1>1, <1>2, <1>3, <1>4, FlowWaits

LEMMA FaultKeeps ==
  ASSUME GrantInv, NEW a \in Faulty, Attempt(a), UNCHANGED <<grant, flow>>,
         flow.pc # "done"
  PROVE  GrantInv'
<1>1. a \in AnswerSet /\ AnswerOK(a)
      /\ a.body \notin {"code", "token", "access_denied", "slow_down"}
  BY FaultyAnswers DEF AnswerOK
<1>2. CallInv
  BY DEF GrantInv
<1>. QED  BY <1>1, <1>2, AttemptMade, NothingSaid

LEMMA RefusalKeeps ==
  ASSUME GrantInv, UNCHANGED <<grant, flow>>, flow.pc # "done",
         NEW code \in Bodies \ {"code", "token", "access_denied", "slow_down"},
         Refusal(code)
  PROVE  GrantInv'
<1>. DEFINE a == Response("refused", code)
<1>1. /\ a \in AnswerSet /\ AnswerOK(a) /\ Attempt(a)
      /\ a.body \notin {"code", "token", "access_denied", "slow_down"}
  BY ServerAnswer DEF AnswerOK, Refusal
<1>2. CallInv
  BY DEF GrantInv
<1>. HIDE DEF a
<1>. QED  BY <1>1, <1>2, AttemptMade, NothingSaid

LEMMA AuthorizeAttemptKeeps == GrantInv /\ AuthorizeAttempt => GrantInv'
<1>. SUFFICES ASSUME GrantInv, AuthorizeAttempt  PROVE GrantInv'
  OBVIOUS
<1>1. flow.pc = "authorize" /\ UNCHANGED flow
  BY DEF AuthorizeAttempt
<1>2. ASSUME NEW body \in {"code", "incomplete"}, Attempt(Response("ok", body)),
             IssueCode
      PROVE  GrantInv'
  <2>. DEFINE a == Response("ok", body)
  <2>1. /\ a \in AnswerSet /\ AnswerOK(a) /\ Attempt(a) /\ a.body = body
        /\ ~Retryable(a)
    BY <1>2, ServerAnswer DEF AnswerOK, Bodies
  <2>. HIDE DEF a
  <2>2. CallInv' /\ now' >= now /\ now' \in Nat /\ call'.pc = "done"
        /\ call'.answer = a
    BY <2>1, AttemptMade DEF GrantInv
  <2>3. PICK i \in Intervals, t \in Lifetimes :
          grant' = [NoGrant EXCEPT !.state = "pending", !.interval = i,
                      !.lifetime = t, !.expires = now + t,
                      !.asked = IF i > 0 THEN i ELSE DefaultInterval]
    BY <1>2 DEF IssueCode
  <2>. DEFINE asked == IF i > 0 THEN i ELSE DefaultInterval
              e == now + t
  <2>4. i \in Int /\ t \in Int /\ asked \in Nat /\ e \in Int
    BY Constants, GrantTypes
  <2>5. grant' = [NoGrant EXCEPT !.state = "pending", !.interval = i,
                    !.lifetime = t, !.expires = e, !.asked = asked]
    BY <2>3
  <2>6. NoGrant \in GrantSet
    BY DEF NoGrant, GrantSet, GrantStates
  <2>. HIDE DEF asked, e
  <2>7. /\ grant' \in GrantSet /\ grant'.state = "pending"
        /\ grant'.interval = i /\ grant'.lifetime = t /\ grant'.expires = e
        /\ grant'.asked = asked
    BY <2>4, <2>5, <2>6 DEF GrantSet, GrantStates
  <2>8. TermsKnown'
    BY <1>1, <2>2, <2>4, <2>7, GrantTypes DEF TermsKnown, Said, asked, e
  <2>9. TokenInFlight' /\ IntervalAgreed'
    BY <1>1, <2>7
    DEF GrantInv, TokenInFlight, IntervalAgreed, Polling, Said
  <2>. QED  BY <1>1, <2>2, <2>7, <2>8, <2>9, FlowWaits
<1>3. ASSUME NEW a \in Faulty, Attempt(a), UNCHANGED grant  PROVE GrantInv'
  BY <1>1, <1>3, FaultKeeps
<1>4. CASE Attempt(Response("refused", "invalid_client")) /\ UNCHANGED grant
  BY <1>1, <1>4, RefusalKeeps DEF Refusal, Bodies
<1>. QED  BY <1>2, <1>3, <1>4 DEF AuthorizeAttempt

\* The attempt of a poll that says something to the flow.
LEMMA SomethingSaid ==
  ASSUME GrantInv, flow.pc = "exchange", UNCHANGED flow,
         NEW a \in AnswerSet, AnswerOK(a), Attempt(a), NEW g \in GrantSet,
         grant' = g, g.expires = grant.expires, g.interval = grant.interval,
         a.body = "slow_down" => g.asked = grant.asked + SlowDown,
         a.body # "slow_down" => g.asked = grant.asked,
         a.body = "token" => g.state = "consumed",
         a.body = "access_denied" => g.state = "denied",
         a.body \in {"token", "slow_down", "access_denied"} => ~Retryable(a),
         g.state = "consumed" => g.lost \/ a.body = "token"
  PROVE  GrantInv'
<1>1. CallInv' /\ now' >= now /\ now' \in Nat
      /\ call'.answer = a /\ call.pc = "try"
      /\ \/ call'.pc = "done"
         \/ call'.pc = "sleep" /\ Retryable(a)
  BY AttemptMade DEF GrantInv
<1>2. TermsKnown'
  BY <1>1, GrantTypes DEF GrantInv, TermsKnown, Said
<1>3. TokenInFlight'
  BY <1>1 DEF GrantInv, TokenInFlight, Said
<1>4. IntervalAgreed'
  BY <1>1, Constants, GrantTypes
  DEF GrantInv, IntervalAgreed, Polling, Interval, Modest, Said
<1>. QED  BY <1>1, <1>2, <1>3, <1>4, FlowWaits

LEMMA ExchangeAttemptKeeps == GrantInv /\ ExchangeAttempt => GrantInv'
<1>. SUFFICES ASSUME GrantInv, ExchangeAttempt  PROVE GrantInv'
  OBVIOUS
<1>1. flow.pc = "exchange" /\ UNCHANGED flow /\ grant \in GrantSet
  BY DEF ExchangeAttempt, GrantInv
<1>2. CASE UNCHANGED grant /\ \E code \in Bodies \ {"code", "token",
             "access_denied", "slow_down"} : Refusal(code)
  BY <1>1, <1>2, RefusalKeeps
<1>3. CASE UNCHANGED grant /\ \E a \in Faulty : Attempt(a)
  BY <1>1, <1>3, FaultKeeps
<1>4. ASSUME grant.state = "pending", Refusal("slow_down"),
             grant' = [grant EXCEPT !.asked = @ + SlowDown]
      PROVE  GrantInv'
  <2>. DEFINE a == Response("refused", "slow_down")
              n == grant.asked + SlowDown
  <2>1. /\ a \in AnswerSet /\ AnswerOK(a) /\ Attempt(a) /\ ~Retryable(a)
        /\ a.body = "slow_down"
    BY <1>4, ServerAnswer DEF AnswerOK, Refusal, Bodies
  <2>2. grant' = [grant EXCEPT !.asked = n] /\ n \in Nat
    BY <1>4, GrantTypes, Constants
  <2>. HIDE DEF a, n
  <2>3. /\ grant' \in GrantSet /\ grant'.state = grant.state
        /\ grant'.expires = grant.expires /\ grant'.interval = grant.interval
        /\ grant'.asked = n
    BY <1>1, <2>2 DEF GrantSet
  <2>. QED  BY <1>1, <1>4, <2>1, <2>3, SomethingSaid DEF n
<1>5. ASSUME Attempt(Response("ok", "token")),
             grant' = [grant EXCEPT !.state = "consumed"]
      PROVE  GrantInv'
  <2>. DEFINE a == Response("ok", "token")
  <2>1. /\ a \in AnswerSet /\ AnswerOK(a) /\ Attempt(a) /\ ~Retryable(a)
        /\ a.body = "token"
    BY <1>5, ServerAnswer DEF AnswerOK, Bodies
  <2>. HIDE DEF a
  <2>2. /\ grant' \in GrantSet /\ grant'.state = "consumed"
        /\ grant'.expires = grant.expires /\ grant'.interval = grant.interval
        /\ grant'.asked = grant.asked
    BY <1>1, <1>5 DEF GrantSet, GrantStates
  <2>. QED  BY <1>1, <2>1, <2>2, SomethingSaid
<1>6. ASSUME NEW a \in Faulty, Attempt(a),
             grant' = [grant EXCEPT !.state = "consumed", !.lost = TRUE]
      PROVE  GrantInv'
  <2>1. a \in AnswerSet /\ AnswerOK(a)
        /\ a.body \notin {"token", "access_denied", "slow_down"}
    BY FaultyAnswers DEF AnswerOK
  <2>2. /\ grant' \in GrantSet /\ grant'.state = "consumed" /\ grant'.lost
        /\ grant'.expires = grant.expires /\ grant'.interval = grant.interval
        /\ grant'.asked = grant.asked
    BY <1>1, <1>6 DEF GrantSet, GrantStates
  <2>. QED  BY <1>1, <1>6, <2>1, <2>2, SomethingSaid
<1>7. ASSUME grant.state = "denied", Refusal("access_denied"), UNCHANGED grant
      PROVE  GrantInv'
  <2>. DEFINE a == Response("refused", "access_denied")
  <2>1. /\ a \in AnswerSet /\ AnswerOK(a) /\ Attempt(a) /\ ~Retryable(a)
        /\ a.body = "access_denied"
    BY <1>7, ServerAnswer DEF AnswerOK, Refusal, Bodies
  <2>. HIDE DEF a
  <2>. QED  BY <1>1, <1>7, <2>1, SomethingSaid
<1>8. "authorization_pending" \in Bodies /\ "invalid_grant" \in Bodies
      /\ "expired_token" \in Bodies
  BY DEF Bodies
<1>. QED
  BY <1>2, <1>3, <1>4, <1>5, <1>6, <1>7, <1>8 DEF ExchangeAttempt, ServerAnswers

LEMMA RetryLoopKeeps ==
  ASSUME GrantInv, RetryLoop, flow.pc # "done"
  PROVE  GrantInv'
<1>1. CallInv /\ CallStep /\ UNCHANGED <<grant, flow>>
  BY DEF GrantInv, RetryLoop
<1>2. call'.pc = "done" =>
        call'.answer.body \notin {"code", "token", "access_denied", "slow_down"}
  BY <1>1, CallGoesOn
<1>. QED  BY <1>1, <1>2, CallGoesOn, NothingSaid

LEMMA UserOrContextKeeps == GrantInv /\ UserOrContext => GrantInv'
<1>. SUFFICES ASSUME GrantInv, UserOrContext  PROVE GrantInv'
  OBVIOUS
<1>1. CASE Approve \/ Deny
  <2>1. /\ grant' \in GrantSet /\ grant'.state \in {"approved", "denied"}
        /\ grant'.expires = grant.expires /\ grant'.interval = grant.interval
        /\ grant'.asked = grant.asked /\ grant'.lifetime = grant.lifetime
        /\ grant.state = "pending" /\ flow.pc # "done"
    BY <1>1 DEF Approve, Deny, GrantInv, GrantSet, GrantStates
  <2>2. UNCHANGED <<now, cancelled, call, flow>>
    BY <1>1 DEF Approve, Deny
  <2>3. CallInv' /\ flow' \in FlowSet
    BY <2>2
    DEF GrantInv, CallInv, BodiesReleased, WaitsAsAsked, SleepsAsAsked
  <2>4. TermsKnown' /\ TokenInFlight' /\ EndedTruly'
    BY <2>1, <2>2 DEF GrantInv, TermsKnown, TokenInFlight, EndedTruly, Said
  <2>5. IntervalAgreed' /\ PollsAsAsked' /\ ConsolePollsAsAskedUpToMax'
    BY <2>1, <2>2
    DEF GrantInv, IntervalAgreed, Polling, Interval, Modest, Said, PollsAsAsked,
        ConsolePollsAsAskedUpToMax, FirstAttempt
  <2>. QED  BY <2>1, <2>3, <2>4, <2>5 DEF GrantInv
<1>2. CASE Cancel /\ UNCHANGED <<grant, flow>>
  <2>1. UNCHANGED <<now, call, grant, flow>> /\ CallInv'
    BY <1>2, CancelKeeps DEF Cancel, GrantInv
  <2>. QED
    BY <2>1
    DEF GrantInv, TermsKnown, TokenInFlight, EndedTruly, Said, IntervalAgreed,
        Polling, Interval, Modest, PollsAsAsked, ConsolePollsAsAskedUpToMax,
        FirstAttempt
<1>. QED  BY <1>1, <1>2 DEF UserOrContext

-----------------------------------------------------------------------------
(* The steps of a flow                                                      *)

LEMMA FlowEnds ==
  ASSUME GrantInv, NEW outcome \in Outcomes, End(outcome),
         UNCHANGED <<cancelled, grant>>, now' \in Nat, now' >= now,
         SaidTruly(flow.kind, outcome, grant.state, grant.lost)
  PROVE  GrantInv' /\ flow'.pc = "done" /\ flow'.out = outcome
         /\ flow'.kind = flow.kind /\ flow'.client = flow.client
<1>1. /\ flow' \in FlowSet /\ flow'.pc = "done" /\ flow'.out = outcome
      /\ flow'.kind = flow.kind /\ flow'.interval = flow.interval
      /\ flow'.client = flow.client
  BY DEF End, GrantInv, FlowSet, FlowPCs
<1>2. CallInv' /\ call'.pc = "idle"
  BY CallEnds DEF End, GrantInv
<1>3. TermsKnown' /\ TokenInFlight' /\ IntervalAgreed'
  BY <1>1 DEF GrantInv, TermsKnown, TokenInFlight, IntervalAgreed, Polling, Said
<1>4. EndedTruly'
  BY <1>1, <1>2 DEF EndedTruly
<1>5. PollsAsAsked' /\ ConsolePollsAsAskedUpToMax'
  BY <1>1 DEF PollsAsAsked, ConsolePollsAsAskedUpToMax, FirstAttempt
<1>. QED  BY <1>1, <1>2, <1>3, <1>4, <1>5 DEF GrantInv

\* An end without a token, and without the word of the user.
LEMMA FlowGivesUp ==
  ASSUME GrantInv, NEW outcome \in Outcomes \ {"ok", "denied"}, End(outcome),
         UNCHANGED <<cancelled, grant>>, now' \in Nat, now' >= now,
         grant.state # "consumed" \/ grant.lost
  PROVE  GrantInv' /\ flow'.pc = "done" /\ flow'.out = outcome
         /\ flow'.kind = flow.kind /\ flow'.client = flow.client
BY FlowEnds DEF SaidTruly

\* The flow begins a call before it has a code.
LEMMA FlowBegins ==
  ASSUME GrantInv, flow.pc \in {"start", "register"}, NEW f \in FlowSet,
         flow' = f, f.pc \in {"register", "authorize"}, f.kind = flow.kind,
         f.interval = flow.interval, f.out = flow.out,
         UNCHANGED <<now, cancelled, grant>>, NEW n \in Nat \ {0}, Begin(n)
  PROVE  GrantInv' /\ call'.pc = "try" /\ call'.n = 1 /\ call'.max = n
<1>1. now \in Nat /\ CallInv
  BY DEF GrantInv, CallInv
<1>2. CallInv' /\ call'.pc = "try" /\ call'.n = 1 /\ call'.max = n
  BY <1>1, CallBegins DEF Begin
<1>3. TermsKnown' /\ TokenInFlight' /\ IntervalAgreed' /\ EndedTruly'
  BY <1>2
  DEF GrantInv, TermsKnown, TokenInFlight, IntervalAgreed, EndedTruly, Polling,
      Said
<1>4. PollsAsAsked' /\ ConsolePollsAsAskedUpToMax'
  BY DEF PollsAsAsked, ConsolePollsAsAskedUpToMax, FirstAttempt
<1>. QED  BY <1>2, <1>3, <1>4 DEF GrantInv

\* The flow polls, or polls again, with an interval as long as was asked for.
LEMMA FlowPolls ==
  ASSUME GrantInv, NEW f \in FlowSet, flow' = f, f.pc = "poll",
         f.kind = flow.kind, f.out = "none", f.polled = now,
         f.deadline >= grant.expires,
         UNCHANGED <<now, cancelled, grant>>, call' = Idle,
         grant.state = "consumed" => grant.lost,
         f.kind = "sso" =>
           f.interval \in 0..MaxDuration /\ f.interval >= grant.asked,
         f.kind = "console" /\ Modest =>
           /\ f.interval >= grant.asked /\ f.interval > 0
           /\ f.interval <= MaxPollInterval + grant.asked
  PROVE  GrantInv'
<1>1. CallInv' /\ call'.pc = "idle" /\ now' \in Nat
  BY CallEnds DEF GrantInv, CallInv
<1>2. TermsKnown' /\ TokenInFlight' /\ EndedTruly'
  BY <1>1 DEF TermsKnown, TokenInFlight, EndedTruly, Said
<1>3. Interval' = f.interval /\ (Modest <=> Modest')
  BY <1>1 DEF Interval, Said, Modest
<1>4. IntervalAgreed'
  BY <1>3 DEF IntervalAgreed, Polling
<1>5. PollsAsAsked' /\ ConsolePollsAsAskedUpToMax'
  BY DEF PollsAsAsked, ConsolePollsAsAskedUpToMax, FirstAttempt
<1>. QED  BY <1>1, <1>2, <1>4, <1>5 DEF GrantInv

\* After the wait the flow presents its code, before the deadline.
LEMMA FlowAsks ==
  ASSUME GrantInv, flow.pc = "poll", flow' = [flow EXCEPT !.pc = "exchange"],
         NEW t \in Nat, now' = t, t < flow.deadline,
         t >= now, UNCHANGED <<cancelled, grant>>,
         flow.interval > 0 => t >= now + flow.interval,
         NEW n \in Nat \ {0}, BeginAt(t, n)
  PROVE  GrantInv'
<1>1. /\ flow' \in FlowSet /\ flow'.pc = "exchange"
      /\ flow'.kind = flow.kind /\ flow'.interval = flow.interval
      /\ flow'.out = flow.out /\ flow'.polled = flow.polled
      /\ flow'.deadline = flow.deadline
  BY DEF GrantInv, FlowSet, FlowPCs
<1>2. CallInv' /\ call'.pc = "try" /\ call'.n = 1
  BY CallBegins DEF GrantInv
<1>3. TermsKnown' /\ TokenInFlight' /\ EndedTruly'
  BY <1>1, <1>2 DEF GrantInv, TermsKnown, TokenInFlight, EndedTruly, Said
<1>4. Interval = flow.interval /\ Interval' = flow.interval
  BY <1>1, <1>2 DEF Interval, Said
<1>5. IntervalAgreed'
  BY <1>1, <1>4 DEF GrantInv, IntervalAgreed, Polling, Modest
<1>6. PollsAsAsked'
  BY <1>1, <1>4, GrantTypes DEF GrantInv, IntervalAgreed, Polling, TermsKnown, PollsAsAsked
<1>7. ConsolePollsAsAskedUpToMax'
  BY <1>1, <1>4, GrantTypes, Constants
  DEF GrantInv, IntervalAgreed, Polling, TermsKnown, ConsolePollsAsAskedUpToMax, FirstAttempt, Modest
<1>. QED  BY <1>1, <1>2, <1>3, <1>5, <1>6, <1>7 DEF GrantInv

\* No answer that can be used: nothing was granted, or its answer was lost.
LEMMA CallFailsKeeps ==
  ASSUME GrantInv, NEW label \in {"register", "authorize", "exchange"}, NEW wanted,
         CallFails(label, wanted), label = "exchange" => wanted = "token"
  PROVE  GrantInv' /\ flow'.pc = "done" /\ flow'.kind = flow.kind
         /\ flow'.out \notin {"ok", "denied"} /\ UNCHANGED now
<1>. DEFINE outcome == IF call.answer.kind \in {"context", "timeout"} /\ cancelled
                         THEN "cancelled" ELSE "failed"
<1>1. outcome \in Outcomes \ {"ok", "denied"}
  BY DEF Outcomes
<1>2. /\ End(outcome) /\ UNCHANGED <<now, cancelled, grant>>
      /\ flow.pc = label /\ call.answer.body # wanted
  BY DEF CallFails
<1>. HIDE DEF outcome
<1>3. grant.state # "consumed" \/ grant.lost
  BY <1>2 DEF GrantInv, TokenInFlight, Said
<1>4. now' \in Nat /\ now' >= now
  BY <1>2, GrantTypes
<1>. QED  BY <1>1, <1>2, <1>3, <1>4, FlowGivesUp

LEMMA NothingGranted ==
  ASSUME GrantInv, flow.pc \in {"start", "register", "authorize", "poll"} \/
                   (flow.pc = "exchange" /\ call.answer.body # "token")
  PROVE  grant.state = "consumed" => grant.lost
BY DEF GrantInv, TokenInFlight, Said

-----------------------------------------------------------------------------
(* The console's steps                                                      *)

LEMMA ConsoleStartKeeps == GrantInv /\ ConsoleStart => GrantInv'
<1>. SUFFICES ASSUME GrantInv, ConsoleStart  PROVE GrantInv'
  OBVIOUS
<1>1. flow.pc = "start" /\ UNCHANGED <<now, cancelled, grant>>
      /\ now' \in Nat /\ now' >= now
  BY GrantTypes DEF ConsoleStart
<1>2. CASE End("cancelled")
  BY <1>1, <1>2, FlowGivesUp, NothingGranted DEF Outcomes
<1>3. CASE flow' = [flow EXCEPT !.pc = "authorize"] /\ Begin(Attempts)
  <2>1. /\ flow' \in FlowSet /\ flow'.pc = "authorize"
        /\ flow'.kind = flow.kind /\ flow'.interval = flow.interval
        /\ flow'.out = flow.out
    BY <1>3 DEF GrantInv, FlowSet, FlowPCs
  <2>. QED  BY <1>1, <1>3, <2>1, Constants, FlowBegins
<1>. QED  BY <1>2, <1>3 DEF ConsoleStart

\* Wrap changes nothing that fits.
LEMMA WrapFits ==
  ASSUME NEW s \in Int
  PROVE  Wrap(s) \in Durations /\ (s \in Durations => Wrap(s) = s)
<1>1. PICK w \in Nat \ {0} : w = 2 * (MaxDuration + 1)
  BY Constants
<1>2. (s + MaxDuration + 1) % w \in 0..w - 1
  BY <1>1, Constants
<1>3. s \in Durations => (s + MaxDuration + 1) % w = s + MaxDuration + 1
  BY <1>1, Constants DEF Durations
<1>4. Wrap(s) = ((s + MaxDuration + 1) % w) - (MaxDuration + 1)
  BY <1>1 DEF Wrap
<1>. QED  BY <1>1, <1>2, <1>3, <1>4, Constants DEF Durations

LEMMA ConsoleStartPollingKeeps ==
  ASSUME GrantInv, flow.kind = "console", ConsoleStartPolling
  PROVE  GrantInv'
<1>1. flow.pc = "authorize" /\ UNCHANGED <<now, cancelled, grant>>
      /\ now' \in Nat /\ now' >= now /\ Said("authorize", "code")
  BY GrantTypes DEF ConsoleStartPolling, Answered, Said
<1>2. CASE End("failed")
  BY <1>1, <1>2, FlowGivesUp, NothingGranted DEF Outcomes
<1>3. ASSUME Lifetime(grant.lifetime) # 0,
             flow' = [flow EXCEPT !.pc = "poll", !.polled = now,
                        !.interval = PollInterval(grant.interval),
                        !.deadline = now + Lifetime(grant.lifetime)],
             call' = Idle
      PROVE  GrantInv'
  <2>. DEFINE i == PollInterval(grant.interval)
              d == now + Lifetime(grant.lifetime)
  <2>1. /\ i \in Durations
        /\ grant.interval \in 1..MaxDuration => i = grant.interval
        /\ grant.interval = 0 => i = DefaultInterval
    <3>1. /\ Wrap(grant.interval) \in Durations
          /\ grant.interval \in Durations => Wrap(grant.interval) = grant.interval
      BY WrapFits, GrantTypes
    <3>. QED  BY <3>1, Constants DEF PollInterval, Durations
  <2>2. d = now + grant.lifetime /\ d \in Int
    BY <1>3, GrantTypes DEF Lifetime
  <2>3. flow' = [flow EXCEPT !.pc = "poll", !.polled = now, !.interval = i,
                   !.deadline = d]
    BY <1>3
  <2>. HIDE DEF i, d
  <2>4. /\ flow' \in FlowSet /\ flow'.pc = "poll" /\ flow'.kind = flow.kind
        /\ flow'.out = flow.out /\ flow'.polled = now
        /\ flow'.interval = i /\ flow'.deadline = d
    BY <2>1, <2>2, <2>3, GrantTypes DEF GrantInv, FlowSet, FlowPCs
  <2>5. /\ grant.asked = IF grant.interval > 0 THEN grant.interval
                         ELSE DefaultInterval
        /\ d >= grant.expires /\ flow.out = "none"
    BY <1>1, <2>2 DEF GrantInv, TermsKnown, TokenInFlight
  <2>6. Modest => /\ i >= grant.asked /\ i > 0
                  /\ i <= MaxPollInterval + grant.asked
    BY <2>1, <2>5, Constants, GrantTypes DEF Modest
  <2>7. grant.state = "consumed" => grant.lost
    BY <1>1, NothingGranted
  <2>. QED  BY <1>1, <1>3, <2>4, <2>5, <2>6, <2>7, FlowPolls
<1>. QED  BY <1>2, <1>3 DEF ConsoleStartPolling

LEMMA ConsolePollKeeps == GrantInv /\ ConsolePoll => GrantInv'
<1>. SUFFICES ASSUME GrantInv, ConsolePoll  PROVE GrantInv'
  OBVIOUS
<1>1. flow.pc = "poll" /\ UNCHANGED <<cancelled, grant>>
  BY DEF ConsolePoll
<1>2. now' \in Nat /\ now' >= now
      /\ (now < flow.deadline /\ now' < flow.deadline /\ flow.interval > 0 =>
            now' >= now + flow.interval)
  BY GrantTypes DEF ConsolePoll, AtMost
<1>3. CASE End("timeout")
  BY <1>1, <1>2, <1>3, FlowGivesUp, NothingGranted DEF Outcomes
<1>4. CASE /\ now < flow.deadline /\ now' < flow.deadline
           /\ flow' = [flow EXCEPT !.pc = "exchange"] /\ PostOnce(now')
  <2>1. PICK t \in Nat : t = now'
    BY <1>2
  <2>2. BeginAt(t, 1)
    BY <1>4, <2>1 DEF PostOnce
  <2>. QED  BY <1>1, <1>2, <1>4, <2>1, <2>2, FlowAsks
<1>. QED  BY <1>3, <1>4, GrantTypes DEF ConsolePoll

LEMMA ConsolePollCancelledKeeps == GrantInv /\ ConsolePollCancelled => GrantInv'
BY FlowGivesUp, NothingGranted, GrantTypes DEF ConsolePollCancelled, Outcomes

LEMMA ConsoleTokenKeeps == GrantInv /\ ConsoleToken => GrantInv'
<1>. SUFFICES ASSUME GrantInv, ConsoleToken  PROVE GrantInv'
  OBVIOUS
<1>1. /\ Said("exchange", "token") /\ End("ok")
      /\ UNCHANGED <<now, cancelled, grant>>
  BY DEF ConsoleToken, Answered, Said
<1>2. grant.state = "consumed" /\ now' \in Nat /\ now' >= now
  BY <1>1, GrantTypes DEF GrantInv, TokenInFlight
<1>3. SaidTruly(flow.kind, "ok", grant.state, grant.lost)
  BY <1>2 DEF SaidTruly
<1>. QED  BY <1>1, <1>2, <1>3, FlowEnds DEF Outcomes

\* PollOn keeps the grant, whatever the interval was changed for.
LEMMA PollOnKeeps ==
  ASSUME GrantInv, flow.kind = "console", flow.pc = "exchange",
         call.answer.body # "token",
         NEW interval \in Durations, NEW transient \in Nat,
         PollOn(interval, transient), UNCHANGED <<now, cancelled, grant>>,
         Modest => /\ interval >= grant.asked /\ interval > 0
                   /\ interval <= MaxPollInterval + grant.asked
  PROVE  GrantInv'
<1>1. /\ flow' \in FlowSet /\ flow'.pc = "poll" /\ flow'.kind = flow.kind
      /\ flow'.out = flow.out /\ flow'.polled = now
      /\ flow'.interval = interval /\ flow'.deadline = flow.deadline
  BY GrantTypes DEF PollOn, GrantInv, FlowSet, FlowPCs
<1>2. flow.deadline >= grant.expires /\ flow.out = "none"
  BY DEF GrantInv, TermsKnown, TokenInFlight
<1>3. grant.state = "consumed" => grant.lost
  BY NothingGranted
<1>. QED  BY <1>1, <1>2, <1>3, FlowPolls DEF PollOn

LEMMA ConsolePollErrorKeeps ==
  ASSUME GrantInv, flow.kind = "console", ConsolePollError
  PROVE  GrantInv'
<1>1. /\ flow.pc = "exchange" /\ call.pc = "done" /\ call.answer.body # "token"
      /\ UNCHANGED <<now, cancelled, grant>> /\ now' \in Nat /\ now' >= now
  BY GrantTypes DEF ConsolePollError
<1>2. grant.state = "consumed" => grant.lost
  BY <1>1, NothingGranted
<1>3. CASE End("cancelled") \/ End("failed")
  BY <1>1, <1>2, <1>3, FlowGivesUp DEF Outcomes
<1>4. CASE call.answer.body = "access_denied" /\ End("denied")
  <2>1. grant.state = "denied"
    BY <1>1, <1>4 DEF GrantInv, TokenInFlight, Said
  <2>2. SaidTruly(flow.kind, "denied", grant.state, grant.lost)
    BY <2>1 DEF SaidTruly
  <2>. QED  BY <1>1, <1>4, <2>2, FlowEnds DEF Outcomes
<1>5. Modest /\ call.answer.body # "slow_down" =>
        /\ flow.interval >= grant.asked /\ flow.interval > 0
        /\ flow.interval <= MaxPollInterval + grant.asked
  BY <1>1 DEF GrantInv, IntervalAgreed, Polling, Interval, Said
<1>6. CASE /\ call.answer.body # "slow_down"
           /\ \/ PollOn(flow.interval, 0)
              \/ PollOn(flow.interval, flow.transient + 1)
  <2>1. flow.interval \in Durations /\ flow.transient + 1 \in Nat /\ 0 \in Nat
    BY GrantTypes
  <2>. QED  BY <1>1, <1>5, <1>6, <2>1, PollOnKeeps
<1>7. CASE call.answer.body = "slow_down" /\ PollOn(SlowerPoll, 0)
  <2>1. Modest => /\ flow.interval + SlowDown >= grant.asked /\ flow.interval > 0
                  /\ flow.interval + SlowDown <= MaxPollInterval + grant.asked
    BY <1>1, <1>7 DEF GrantInv, IntervalAgreed, Polling, Interval, Said
  <2>2. SlowerPoll \in Durations
    BY WrapFits, Constants, GrantTypes DEF SlowerPoll
  <2>3. Modest => SlowerPoll = flow.interval + SlowDown
    BY <2>1, WrapFits, Constants, GrantTypes DEF SlowerPoll, Modest, Durations
  <2>4. Modest => SlowerPoll > 0
    BY <2>1, <2>3, Constants, GrantTypes
  <2>. QED  BY <1>1, <1>7, <2>1, <2>2, <2>3, <2>4, PollOnKeeps
<1>8. CASE /\ call.answer.body # "slow_down"
           /\ PollOn(BackedOff, flow.transient + 1)
  <2>1. BackedOff \in 1..MaxPollInterval
    BY Constants, GrantTypes DEF BackedOff, AtMost
  <2>2. BackedOff \in Durations /\ flow.transient + 1 \in Nat
    BY <2>1, Constants, GrantTypes DEF Durations
  <2>3. Modest => /\ BackedOff >= grant.asked /\ BackedOff > 0
                  /\ BackedOff <= MaxPollInterval + grant.asked
    BY <1>5, <1>8, Constants, GrantTypes DEF BackedOff, AtMost, Modest
  <2>. QED  BY <1>1, <1>8, <2>2, <2>3, PollOnKeeps
<1>9. "slow_down" # "authorization_pending" /\ "slow_down" # "access_denied"
  OBVIOUS
<1>10. \/ End("cancelled") \/ End("failed")
       \/ ErrorCode = "authorization_pending" /\ PollOn(flow.interval, 0)
       \/ ErrorCode = "slow_down" /\ PollOn(SlowerPoll, 0)
       \/ ErrorCode = "access_denied" /\ End("denied")
       \/ /\ call.answer.kind \in {"busy", "reset", "timeout"}
          /\ \/ PollOn(BackedOff, flow.transient + 1)
             \/ PollOn(flow.interval, flow.transient + 1)
  BY DEF ConsolePollError
<1>11. call.answer.kind \in {"busy", "reset", "timeout"} =>
         call.answer.body # "slow_down"
  BY GrantTypes DEF AnswerOK
<1>. QED
  BY <1>3, <1>4, <1>6, <1>7, <1>8, <1>10, <1>11 DEF ErrorCode

-----------------------------------------------------------------------------
(* The registration and the token on disk                                   *)

DiskInv ==
  /\ registration \in RegistrationSet /\ registered \in 1..2 /\ tokenFile \in Nat
  /\ flow.kind # "sso" => SsoIdle /\ flow.pc # "register"
  /\ flow.pc = "start" => registered = 1
  /\ flow.pc = "register" /\ call.pc # "done" =>
       registered = 1 /\ call.pc = "try" /\ call.n = 1 /\ call.max = 1
  /\ registration.state = "unreadable" =>
       registered = 1 /\ flow.pc \in {"start", "done"}
  /\ ClientIsOnDisk
  /\ tokenFile # 0 => flow.pc = "done"
  /\ flow.kind = "sso" /\ flow.pc = "done" /\ flow.out = "ok" =>
       tokenFile = flow.client

\* Nothing on disk changes, and the flow goes on polling or ends without a token.
LEMMA DiskStays ==
  ASSUME DiskInv, UNCHANGED diskVars, flow'.kind = flow.kind,
         flow'.client = flow.client,
         \/ flow'.pc = "done" /\ flow'.out # "ok" /\ flow.pc # "done"
         \/ flow'.pc \in {"poll", "exchange"} /\
              flow.pc \in {"authorize", "poll", "exchange"}
         \/ UNCHANGED flow /\ (flow.pc = "register" => UNCHANGED call)
         \/ UNCHANGED flow /\ (flow.pc = "register" => call'.pc = "done")
  PROVE  DiskInv'
BY DEF DiskInv, diskVars, SsoIdle, ClientIsOnDisk, Complete

LEMMA EnsureClientKeeps ==
  ASSUME GrantInv, DiskInv, flow.kind = "sso", EnsureClient
  PROVE  GrantInv' /\ DiskInv'
<1>1. /\ flow.pc = "start" /\ registration.client \in Nat /\ registered = 1
      /\ UNCHANGED <<now, cancelled, grant, diskVars>>
      /\ now' \in Nat /\ now' >= now
  BY GrantTypes DEF EnsureClient, DiskInv, RegistrationSet
<1>2. CASE End("failed")
  <2>1. GrantInv' /\ flow'.pc = "done" /\ flow'.out = "failed"
        /\ flow'.kind = flow.kind /\ flow'.client = flow.client
    BY <1>1, <1>2, FlowGivesUp, NothingGranted DEF Outcomes
  <2>. QED  BY <1>1, <2>1, DiskStays
<1>3. CASE Complete(registration) /\ UseClient(registration.client)
  <2>1. /\ flow' \in FlowSet /\ flow'.pc = "authorize"
        /\ flow'.kind = flow.kind /\ flow'.interval = flow.interval
        /\ flow'.out = flow.out /\ flow'.client = registration.client
    BY <1>1, <1>3 DEF UseClient, GrantInv, FlowSet, FlowPCs
  <2>2. GrantInv'
    BY <1>1, <1>3, <2>1, Constants, FlowBegins DEF UseClient
  <2>3. DiskInv'
    BY <1>1, <1>3, <2>1
    DEF DiskInv, diskVars, SsoIdle, ClientIsOnDisk, Complete
  <2>. QED  BY <2>2, <2>3
<1>4. CASE registration.state # "unreadable" /\ Register
  <2>1. /\ flow' \in FlowSet /\ flow'.pc = "register"
        /\ flow'.kind = flow.kind /\ flow'.interval = flow.interval
        /\ flow'.out = flow.out
    BY <1>1, <1>4 DEF Register, GrantInv, FlowSet, FlowPCs
  <2>2. Begin(1) /\ 1 \in Nat \ {0}
    BY <1>4 DEF Register
  <2>3. GrantInv' /\ call'.pc = "try" /\ call'.n = 1 /\ call'.max = 1
    BY <1>1, <2>1, <2>2, FlowBegins
  <2>4. DiskInv'
    BY <1>1, <1>4, <2>1, <2>3
    DEF DiskInv, diskVars, SsoIdle, ClientIsOnDisk, Complete
  <2>. QED  BY <2>3, <2>4
<1>. QED  BY <1>2, <1>3, <1>4 DEF EnsureClient, Complete

\* The only attempt to register: one more client at most.
LEMMA RegisterAttemptKeeps ==
  ASSUME GrantInv, DiskInv, RegisterAttempt
  PROVE  GrantInv' /\ DiskInv'
<1>1. /\ flow.pc = "register" /\ UNCHANGED <<grant, flow, registration, tokenFile>>
      /\ registered' \in {registered, registered + 1}
  BY DEF RegisterAttempt
<1>2. PICK a \in AnswerSet :
        /\ AnswerOK(a) /\ Attempt(a)
        /\ a.body \notin {"code", "token", "access_denied", "slow_down"}
  <2>1. ASSUME NEW a \in Faulty, Attempt(a)
        PROVE  a \in AnswerSet /\ AnswerOK(a)
               /\ a.body \notin {"code", "token", "access_denied", "slow_down"}
    BY FaultyAnswers DEF AnswerOK
  <2>2. ASSUME NEW body \in {"client", "incomplete", "invalid_request"},
               NEW kind \in {"ok", "refused"}
        PROVE  LET a == Response(kind, body) IN
               /\ a \in AnswerSet /\ AnswerOK(a)
               /\ a.body \notin {"code", "token", "access_denied", "slow_down"}
    BY ServerAnswer DEF AnswerOK, Bodies
  <2>. QED  BY <2>1, <2>2 DEF RegisterAttempt
<1>3. /\ CallInv' /\ now' >= now /\ now' \in Nat /\ call.pc = "try"
      /\ call'.answer = a
      /\ (call'.pc = "done" \/ (call'.pc = "sleep" /\ call.n < call.max))
  BY <1>2, AttemptMade DEF GrantInv
<1>4. GrantInv'
  BY <1>1, <1>2, <1>3, NothingSaid
<1>5. call'.pc = "done" /\ registered = 1
  BY <1>1, <1>3 DEF DiskInv
<1>6. DiskInv'
  BY <1>1, <1>5 DEF DiskInv, SsoIdle, ClientIsOnDisk, Complete
<1>. QED  BY <1>4, <1>6

LEMMA KeepClientKeeps ==
  ASSUME GrantInv, DiskInv, KeepClient
  PROVE  GrantInv' /\ DiskInv'
<1>1. /\ flow.pc = "register" /\ UNCHANGED <<now, cancelled, grant>>
      /\ UNCHANGED <<registered, tokenFile>> /\ now' \in Nat /\ now' >= now
      /\ registered \in 1..2 /\ registered \in Nat
  BY GrantTypes DEF KeepClient, Answered, DiskInv
<1>2. CASE End("failed") /\ UNCHANGED registration
  <2>1. GrantInv' /\ flow'.pc = "done" /\ flow'.out = "failed"
        /\ flow'.kind = flow.kind /\ flow'.client = flow.client
    BY <1>1, <1>2, FlowGivesUp, NothingGranted DEF Outcomes
  <2>. QED  BY <1>1, <1>2, <2>1, DiskStays DEF diskVars
<1>3. ASSUME NEW e \in ClientExpiries, UseClient(registered),
             registration' = [state |-> "parsed", client |-> registered,
                              expires |-> e]
      PROVE  GrantInv' /\ DiskInv'
  <2>1. /\ flow' \in FlowSet /\ flow'.pc = "authorize"
        /\ flow'.kind = flow.kind /\ flow'.interval = flow.interval
        /\ flow'.out = flow.out /\ flow'.client = registered
    BY <1>1, <1>3 DEF UseClient, GrantInv, FlowSet, FlowPCs
  <2>2. GrantInv'
    BY <1>1, <1>3, <2>1, Constants, FlowBegins DEF UseClient
  <2>3. e \in Int
    BY SsoFlowAssumption DEF SsoFlowAssumption
  <2>4. /\ registration' \in RegistrationSet
        /\ registration'.state = "parsed" /\ registration'.client = registered
    BY <1>1, <1>3, <2>3 DEF RegistrationSet
  <2>5. DiskInv'
    BY <1>1, <2>1, <2>4
    DEF DiskInv, SsoIdle, ClientIsOnDisk, Complete
  <2>. QED  BY <2>2, <2>5
<1>. QED  BY <1>2, <1>3 DEF KeepClient

-----------------------------------------------------------------------------
(* The polling of SSO                                                       *)

\* An end of the SSO flow without a token.
LEMMA SsoGivesUp ==
  ASSUME GrantInv, DiskInv, flow.pc # "done",
         NEW outcome \in Outcomes \ {"ok", "denied"}, End(outcome),
         UNCHANGED <<cancelled, grant, diskVars>>, now' \in Nat, now' >= now,
         grant.state = "consumed" => grant.lost
  PROVE  GrantInv' /\ DiskInv'
<1>1. GrantInv' /\ flow'.pc = "done" /\ flow'.out = outcome
      /\ flow'.kind = flow.kind /\ flow'.client = flow.client
  BY FlowGivesUp
<1>. QED  BY <1>1, DiskStays

LEMMA SsoCallFailsKeeps ==
  ASSUME GrantInv, DiskInv, UNCHANGED diskVars,
         NEW label \in {"register", "authorize", "exchange"}, NEW wanted,
         CallFails(label, wanted), label = "exchange" => wanted = "token"
  PROVE  GrantInv' /\ DiskInv'
<1>1. GrantInv' /\ flow'.pc = "done" /\ flow'.kind = flow.kind
      /\ flow'.out # "ok"
  BY CallFailsKeeps
<1>2. flow.pc = label /\ flow'.client = flow.client
  BY DEF CallFails, End, GrantInv, FlowSet
<1>. QED  BY <1>1, <1>2, DiskStays

LEMMA StartPollingKeeps ==
  ASSUME GrantInv, DiskInv, flow.kind = "sso", StartPolling
  PROVE  GrantInv' /\ DiskInv'
<1>1. flow.pc = "authorize" /\ UNCHANGED <<now, cancelled, grant, diskVars>>
      /\ now' \in Nat /\ now' >= now /\ Said("authorize", "code")
  BY GrantTypes DEF StartPolling, Answered, Said
<1>2. grant.state = "consumed" => grant.lost
  BY <1>1, NothingGranted
<1>3. CASE End("failed")
  BY <1>1, <1>2, <1>3, SsoGivesUp DEF Outcomes
<1>4. ASSUME NEW i \in 1..MaxDuration, call' = Idle,
             i = (IF grant.interval = 0 THEN DefaultInterval ELSE grant.interval),
             flow' = [flow EXCEPT !.pc = "poll", !.interval = i,
                        !.deadline = now + grant.lifetime, !.polled = now]
      PROVE  GrantInv' /\ DiskInv'
  <2>. DEFINE d == now + grant.lifetime
  <2>1. /\ grant.asked = IF grant.interval > 0 THEN grant.interval
                         ELSE DefaultInterval
        /\ d >= grant.expires /\ flow.out = "none"
    BY <1>1 DEF GrantInv, TermsKnown, TokenInFlight
  <2>2. i \in Durations /\ i \in 0..MaxDuration /\ i = grant.asked /\ d \in Int
    BY <1>4, <2>1, Constants, GrantTypes DEF Durations
  <2>. HIDE DEF d
  <2>3. /\ flow' \in FlowSet /\ flow'.pc = "poll" /\ flow'.kind = flow.kind
        /\ flow'.out = flow.out /\ flow'.polled = now
        /\ flow'.interval = i /\ flow'.deadline = d
        /\ flow'.client = flow.client
    BY <1>4, <2>2, GrantTypes DEF GrantInv, FlowSet, FlowPCs, d
  <2>4. /\ flow'.interval \in 0..MaxDuration /\ flow'.interval >= grant.asked
        /\ flow'.deadline >= grant.expires /\ flow'.out = "none"
        /\ flow'.kind = "sso"
    BY <2>1, <2>2, <2>3, GrantTypes
  <2>5. GrantInv'
    BY <1>1, <1>2, <1>4, <2>3, <2>4, FlowPolls
  <2>. QED  BY <1>1, <2>3, <2>5, DiskStays
<1>5. CASE grant.interval = 0
  <2>1. \/ End("failed")
        \/ /\ call' = Idle
           /\ flow' = [flow EXCEPT !.pc = "poll", !.interval = DefaultInterval,
                         !.deadline = now + grant.lifetime, !.polled = now]
    BY <1>5 DEF StartPolling, SecondsToDuration
  <2>. QED  BY <1>3, <1>4, <1>5, <2>1, Constants
<1>6. CASE grant.interval # 0
  <2>1. \/ End("failed")
        \/ /\ call' = Idle /\ grant.interval > 0
           /\ grant.interval <= MaxDuration
           /\ flow' = [flow EXCEPT !.pc = "poll", !.interval = grant.interval,
                         !.deadline = now + grant.lifetime, !.polled = now]
    BY <1>6 DEF StartPolling, SecondsToDuration
  <2>2. grant.interval > 0 /\ grant.interval <= MaxDuration =>
          grant.interval \in 1..MaxDuration
    BY Constants, GrantTypes
  <2>. QED  BY <1>3, <1>4, <1>6, <2>1, <2>2
<1>. QED  BY <1>5, <1>6

LEMMA PollAgainKeeps ==
  ASSUME GrantInv, DiskInv, flow.kind = "sso", PollAgain
  PROVE  GrantInv' /\ DiskInv'
<1>1. flow.pc = "poll" /\ UNCHANGED <<cancelled, grant, diskVars>>
  BY DEF PollAgain
<1>2. now' \in Nat /\ now' >= now
      /\ (now' < flow.deadline => now' >= now + flow.interval)
  BY GrantTypes DEF PollAgain, AtMost
<1>3. CASE End("timeout")
  BY <1>1, <1>2, <1>3, SsoGivesUp, NothingGranted DEF Outcomes
<1>4. CASE /\ now' < flow.deadline
           /\ flow' = [flow EXCEPT !.pc = "exchange"]
           /\ BeginAt(now', Attempts)
  <2>1. PICK t \in Nat : t = now'
    BY <1>2
  <2>2. BeginAt(t, Attempts)
    BY <1>4, <2>1
  <2>3. GrantInv'
    BY <1>1, <1>2, <1>4, <2>1, <2>2, Constants, FlowAsks
  <2>4. flow'.pc = "exchange" /\ flow'.kind = flow.kind
        /\ flow'.client = flow.client
    BY <1>4 DEF GrantInv, FlowSet
  <2>. QED  BY <1>1, <2>3, <2>4, DiskStays
<1>. QED  BY <1>3, <1>4, GrantTypes DEF PollAgain, AtMost

LEMMA PollCancelledKeeps ==
  ASSUME GrantInv, DiskInv, PollCancelled
  PROVE  GrantInv' /\ DiskInv'
BY SsoGivesUp, NothingGranted, GrantTypes DEF PollCancelled, Outcomes

LEMMA PollRefusedKeeps ==
  ASSUME GrantInv, DiskInv, flow.kind = "sso", PollRefused
  PROVE  GrantInv' /\ DiskInv'
<1>1. /\ flow.pc = "exchange" /\ call.pc = "done" /\ call.answer.body # "token"
      /\ UNCHANGED <<now, cancelled, grant, diskVars>>
      /\ now' \in Nat /\ now' >= now
  BY GrantTypes DEF PollRefused, Refused, AnswerOK
<1>2. grant.state = "consumed" => grant.lost
  BY <1>1, NothingGranted
<1>3. CASE End("failed")
  BY <1>1, <1>2, <1>3, SsoGivesUp DEF Outcomes
<1>4. CASE call.answer.body = "access_denied" /\ End("denied")
  <2>1. grant.state = "denied"
    BY <1>1, <1>4 DEF GrantInv, TokenInFlight, Said
  <2>2. SaidTruly(flow.kind, "denied", grant.state, grant.lost)
    BY <2>1 DEF SaidTruly
  <2>3. GrantInv' /\ flow'.pc = "done" /\ flow'.out = "denied"
        /\ flow'.kind = flow.kind /\ flow'.client = flow.client
    BY <1>1, <1>4, <2>2, FlowEnds DEF Outcomes
  <2>. QED  BY <1>1, <2>3, DiskStays
<1>. DEFINE i == IF call.answer.body = "slow_down" THEN SlowedDown
                 ELSE flow.interval
<1>5. ASSUME \/ call.answer.body = "authorization_pending"
             \/ call.answer.body = "slow_down" /\ SlowedDown <= MaxDuration,
             flow' = [flow EXCEPT !.pc = "poll", !.polled = now, !.interval = i],
             call' = Idle
      PROVE  GrantInv' /\ DiskInv'
  <2>1. flow.interval \in 0..MaxDuration /\ Interval >= grant.asked
    BY <1>1 DEF GrantInv, IntervalAgreed, Polling
  <2>2. i \in 0..MaxDuration /\ i \in Durations /\ i = Interval
    BY <1>1, <1>5, <2>1, Constants DEF SlowedDown, Durations, Interval, Said
  <2>. HIDE DEF i
  <2>3. /\ flow' \in FlowSet /\ flow'.pc = "poll" /\ flow'.kind = flow.kind
        /\ flow'.out = flow.out /\ flow'.polled = now
        /\ flow'.interval = i /\ flow'.deadline = flow.deadline
        /\ flow'.client = flow.client
    BY <1>5, <2>2, GrantTypes DEF GrantInv, FlowSet, FlowPCs
  <2>4. flow.deadline >= grant.expires /\ flow.out = "none"
    BY <1>1 DEF GrantInv, TermsKnown, TokenInFlight
  <2>5. GrantInv'
    BY <1>1, <1>2, <1>5, <2>1, <2>2, <2>3, <2>4, FlowPolls
  <2>. QED  BY <1>1, <2>3, <2>5, DiskStays
<1>. QED  BY <1>3, <1>4, <1>5 DEF PollRefused

LEMMA PersistTokenKeeps ==
  ASSUME GrantInv, DiskInv, flow.kind = "sso", PersistToken
  PROVE  GrantInv' /\ DiskInv'
<1>1. /\ flow.pc = "exchange" /\ Said("exchange", "token")
      /\ UNCHANGED <<now, cancelled, grant, registration, registered>>
      /\ now' \in Nat /\ now' >= now
  BY GrantTypes DEF PersistToken, Answered, Said
<1>2. grant.state = "consumed"
  BY <1>1 DEF GrantInv, TokenInFlight
<1>3. PICK outcome \in {"ok", "unsaved", "unusable"} :
        /\ End(outcome) /\ tokenFile' \in {tokenFile, flow.client}
        /\ outcome = "ok" => tokenFile' = flow.client
  BY DEF PersistToken
<1>4. SaidTruly(flow.kind, outcome, grant.state, grant.lost)
  BY <1>2 DEF SaidTruly
<1>5. GrantInv' /\ flow'.pc = "done" /\ flow'.out = outcome
      /\ flow'.kind = flow.kind /\ flow'.client = flow.client
  BY <1>1, <1>3, <1>4, FlowEnds DEF Outcomes
<1>6. DiskInv'
  BY <1>1, <1>3, <1>5, GrantTypes DEF DiskInv, ClientIsOnDisk, Complete
<1>. QED  BY <1>5, <1>6

-----------------------------------------------------------------------------
(* Both flows                                                               *)

DeviceInv == GrantInv /\ DiskInv
DeviceStep ==
  \/ flow.kind = "sso" /\ SsoStep
  \/ flow.kind = "console" /\ ConsoleStep /\ UNCHANGED diskVars
  \/ UserOrContext /\ UNCHANGED diskVars

LEMMA SsoIdleSet ==
  SsoIdle => /\ registration \in RegistrationSet /\ registered \in 1..2
             /\ tokenFile \in Nat
BY DEF SsoIdle, NoRegistration, RegistrationSet

LEMMA DeviceStarts ==
  ASSUME SsoInit \/ (ConsoleInit /\ SsoIdle) \/ (GrantIdle /\ SsoIdle)
  PROVE  DeviceInv
<1>1. /\ RetryInit /\ grant = NoGrant /\ flow \in FlowSet
      /\ flow.pc \in {"start", "done"} /\ flow.out = "none"
      /\ flow.interval = 0 /\ (flow.kind = "sso" => flow.pc = "start")
      /\ flow.kind # "sso" => SsoIdle
  <2>1. CASE flow = NewFlow("sso") \/ flow = NewFlow("console")
    BY <2>1, NewFlowSet
    DEF SsoInit, ConsoleInit, GrantInit, GrantIdle
  <2>2. CASE flow = [NewFlow("none") EXCEPT !.pc = "done"]
    <3>1. /\ flow \in FlowSet /\ flow.pc = "done" /\ flow.out = "none"
          /\ flow.interval = 0 /\ flow.kind = "none"
      BY <2>2, NewFlowSet DEF FlowSet, FlowPCs
    <3>. QED
      BY <3>1, NewFlowSet DEF SsoInit, ConsoleInit, GrantInit, GrantIdle
  <2>. QED  BY <2>1, <2>2 DEF SsoInit, ConsoleInit, GrantInit, GrantIdle
<1>2. GrantInv
  BY <1>1, GrantStarts
<1>3. registration \in RegistrationSet /\ registered = 1 /\ tokenFile = 0
  BY SsoIdleSet, SsoFlowAssumption DEF SsoInit, SsoIdle, SsoFlowAssumption
<1>4. DiskInv
  BY <1>1, <1>3 DEF DiskInv, ClientIsOnDisk
<1>. QED  BY <1>2, <1>4 DEF DeviceInv

\* What a flow waits for changes nothing on disk.
LEMMA WaitingKeepsDisk ==
  ASSUME GrantInv, DiskInv, UNCHANGED diskVars,
         \/ AuthorizeAttempt \/ ExchangeAttempt \/ UserOrContext
         \/ RetryLoop /\ flow.pc # "done"
  PROVE  DiskInv'
<1>1. CASE AuthorizeAttempt \/ ExchangeAttempt
  BY <1>1, DiskStays DEF AuthorizeAttempt, ExchangeAttempt
<1>2. CASE UserOrContext
  BY <1>2, DiskStays DEF UserOrContext, Approve, Deny, Cancel
<1>3. CASE RetryLoop
  <2>1. UNCHANGED flow /\ CallStep
    BY <1>3 DEF RetryLoop
  <2>2. CASE flow.pc = "register"
    <3>1. call.pc \in {"try", "sleep"} /\
          (call'.pc = "done" \/ call.pc = "sleep")
      BY <2>1, CallGoesOn DEF GrantInv
    <3>2. call'.pc = "done"
      BY <2>2, <3>1 DEF DiskInv
    <3>. QED  BY <2>1, <2>2, <3>2, DiskStays
  <2>3. CASE flow.pc # "register"
    BY <2>1, <2>3, DiskStays
  <2>. QED  BY <2>2, <2>3
<1>. QED  BY <1>1, <1>2, <1>3

LEMMA RetryLoopBeforeEnd == GrantInv /\ RetryLoop => flow.pc # "done"
BY CallGoesOn DEF RetryLoop, GrantInv, EndedTruly

LEMMA SsoStepKeeps ==
  ASSUME GrantInv, DiskInv, flow.kind = "sso", SsoStep
  PROVE  GrantInv' /\ DiskInv'
<1>1. CASE EnsureClient
  BY <1>1, EnsureClientKeeps
<1>2. CASE RegisterAttempt
  BY <1>2, RegisterAttemptKeeps
<1>3. CASE KeepClient
  BY <1>3, KeepClientKeeps
<1>4. CASE /\ UNCHANGED diskVars
           /\ CallFails("register", "client") \/ CallFails("authorize", "code")
  BY <1>4, SsoCallFailsKeeps
<1>5. CASE PollFails
  BY <1>5, SsoCallFailsKeeps DEF PollFails
<1>6. CASE AuthorizeAttempt /\ UNCHANGED diskVars
  BY <1>6, AuthorizeAttemptKeeps, WaitingKeepsDisk
<1>7. CASE ExchangeAttempt /\ UNCHANGED diskVars
  BY <1>7, ExchangeAttemptKeeps, WaitingKeepsDisk
<1>8. CASE RetryLoop /\ UNCHANGED diskVars
  BY <1>8, RetryLoopBeforeEnd, RetryLoopKeeps, WaitingKeepsDisk
<1>9. CASE StartPolling \/ PollAgain \/ PollCancelled
  BY <1>9, StartPollingKeeps, PollAgainKeeps, PollCancelledKeeps
<1>10. CASE PollRefused \/ PersistToken
  BY <1>10, PollRefusedKeeps, PersistTokenKeeps
<1>. QED
  BY <1>1, <1>2, <1>3, <1>4, <1>5, <1>6, <1>7, <1>8, <1>9, <1>10 DEF SsoStep

\* The console's flow has no client of its own, and no disk.
LEMMA ConsoleKeepsDisk ==
  ASSUME DiskInv, flow.kind = "console", flow'.kind = "console",
         flow'.pc # "register", UNCHANGED diskVars
  PROVE  DiskInv'
BY DEF DiskInv, diskVars, SsoIdle, NoRegistration, ClientIsOnDisk

LEMMA ConsoleStepKeeps ==
  ASSUME GrantInv, DiskInv, flow.kind = "console", ConsoleStep, UNCHANGED diskVars
  PROVE  GrantInv' /\ DiskInv'
<1>1. GrantInv'
  <2>1. CASE ConsoleStart \/ ConsoleStartPolling \/ ConsolePoll
    BY <2>1, ConsoleStartKeeps, ConsoleStartPollingKeeps, ConsolePollKeeps
  <2>2. CASE ConsolePollCancelled \/ ConsoleToken \/ ConsolePollError
    BY <2>2, ConsolePollCancelledKeeps, ConsoleTokenKeeps, ConsolePollErrorKeeps
  <2>3. CASE CallFails("authorize", "code")
    BY <2>3, CallFailsKeeps
  <2>4. CASE ConsoleStartAuthorization \/ ConsoleExchangeToken
    BY <2>4, AuthorizeAttemptKeeps, ExchangeAttemptKeeps
    DEF ConsoleStartAuthorization, ConsoleExchangeToken
  <2>5. CASE RetryLoop
    BY <2>5, RetryLoopBeforeEnd, RetryLoopKeeps
  <2>. QED  BY <2>1, <2>2, <2>3, <2>4, <2>5 DEF ConsoleStep
<1>2. flow'.kind = "console" /\ flow'.pc # "register"
  <2>1. flow \in FlowSet /\ flow.pc # "register"
    BY DEF GrantInv, DiskInv
  <2>2. CASE UNCHANGED flow
    BY <2>1, <2>2
  <2>3. CASE \E o \in Outcomes : End(o)
    BY <2>1, <2>3 DEF End, FlowSet
  <2>4. CASE flow' = [flow EXCEPT !.pc = "authorize"] \/
             flow' = [flow EXCEPT !.pc = "exchange"]
    BY <2>1, <2>4 DEF FlowSet
  <2>5. ASSUME NEW i, NEW n, PollOn(i, n)
        PROVE  flow'.kind = "console" /\ flow'.pc # "register"
    BY <2>1, <2>5 DEF PollOn, FlowSet
  <2>6. CASE ConsoleStart \/ ConsolePoll
    BY <2>3, <2>4, <2>6 DEF ConsoleStart, ConsolePoll, Outcomes
  <2>7. CASE ConsoleStartPolling
    BY <2>1, <2>3, <2>7 DEF ConsoleStartPolling, FlowSet, Outcomes
  <2>8. CASE ConsolePollCancelled \/ ConsoleToken \/ CallFails("authorize", "code")
    BY <2>3, <2>8 DEF ConsolePollCancelled, ConsoleToken, CallFails, Outcomes
  <2>9. CASE ConsolePollError
    BY <2>3, <2>5, <2>9 DEF ConsolePollError, Outcomes
  <2>10. CASE ConsoleStartAuthorization \/ ConsoleExchangeToken \/ RetryLoop
    BY <2>2, <2>10
    DEF ConsoleStartAuthorization, ConsoleExchangeToken, AuthorizeAttempt,
        ExchangeAttempt, RetryLoop
  <2>. QED  BY <2>6, <2>7, <2>8, <2>9, <2>10 DEF ConsoleStep
<1>. QED  BY <1>1, <1>2, ConsoleKeepsDisk

LEMMA DeviceKeeps ==
  ASSUME DeviceInv, [DeviceStep]_ssoVars
  PROVE  DeviceInv'
<1>1. CASE flow.kind = "sso" /\ SsoStep
  BY <1>1, SsoStepKeeps DEF DeviceInv
<1>2. CASE flow.kind = "console" /\ ConsoleStep /\ UNCHANGED diskVars
  BY <1>2, ConsoleStepKeeps DEF DeviceInv
<1>3. CASE UserOrContext /\ UNCHANGED diskVars
  BY <1>3, UserOrContextKeeps, WaitingKeepsDisk DEF DeviceInv
<1>4. CASE UNCHANGED ssoVars
  <2>1. UNCHANGED <<now, cancelled, call, grant, flow>> /\ UNCHANGED diskVars
    BY <1>4 DEF ssoVars, grantVars
  <2>2. CallInv'
    BY <2>1 DEF DeviceInv, GrantInv, CallInv, BodiesReleased, WaitsAsAsked, SleepsAsAsked
  <2>3. GrantInv'
    BY <2>1, <2>2
    DEF DeviceInv, GrantInv, TermsKnown, TokenInFlight, EndedTruly, Said,
        IntervalAgreed, Polling, Interval, Modest, PollsAsAsked,
        ConsolePollsAsAskedUpToMax, FirstAttempt
  <2>4. DiskInv'
    BY <2>1 DEF DeviceInv, DiskInv, diskVars, SsoIdle, ClientIsOnDisk, Complete
  <2>. QED  BY <2>3, <2>4 DEF DeviceInv
<1>. QED  BY <1>1, <1>2, <1>3, <1>4 DEF DeviceStep

LEMMA DeviceInvGives ==
  ASSUME DeviceInv
  PROVE  /\ SsoTypeOK /\ RetriesAsAsked
         /\ PollsAsAsked /\ ConsolePollsAsAskedUpToMax
         /\ RegistrationIsKept /\ GrantIsKept /\ ConsoleGrantIsKept
<1>1. SsoTypeOK /\ RetriesAsAsked
  BY CallInvGives, GrantTypes
  DEF DeviceInv, GrantInv, DiskInv, SsoTypeOK, GrantTypeOK, IntervalAgreed
<1>2. PollsAsAsked /\ ConsolePollsAsAskedUpToMax
  BY DEF DeviceInv, GrantInv
<1>3. RegistrationIsKept
  BY DEF DeviceInv, DiskInv, RegistrationIsKept, RegistersOnce
<1>4. GrantIsKept /\ ConsoleGrantIsKept
  BY DEF DeviceInv, GrantInv, DiskInv, EndedTruly, SaidTruly, GrantIsKept,
         ConsoleGrantIsKept
<1>. QED  BY <1>1, <1>2, <1>3, <1>4
=============================================================================
