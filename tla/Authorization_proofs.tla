------------------------ MODULE Authorization_proofs ------------------------
(***************************************************************************)
(* Theorems about the ways to an authorization (MCAuthorization), for every *)
(* number of callers, requests, accounts, roles and pages and every answer  *)
(* of the servers.  The parts share no variables: each has an inductive     *)
(* invariant of its own, and the one of the device flows is in              *)
(* DeviceFlows_proofs.                                                      *)
(***************************************************************************)
EXTENDS MCAuthorization, DeviceFlows_proofs

-----------------------------------------------------------------------------
(* The shared credential of a role                                          *)

CallerSet ==
  [pc : RolePCs, left : Nat, n : 0..RoleAttempts,
   phase : {"none", "sts", "token", "credentials"}, started : Nat,
   got : Int, late : BOOLEAN, out : {"none", "value", "error"}, margin : Int]

\* A caller in state s whose context is done or not.
CallerOK(s, done) ==
  /\ s.pc = "sleep" => s.n < RoleAttempts
  /\ s.late => s.pc \in {"idle", "check"} /\ s.out # "value"
  /\ s.late /\ s.pc = "check" => done
  /\ s.out = "value" => s.margin > Window
  /\ role # "ecsrole" => s.phase \notin {"token", "credentials"}
  /\ role = "ramrole" /\ s.pc = "store" => s.got <= s.started + HardTTL
  /\ s.pc # "idle" => role # "none" /\ s.out = "none"
  /\ role = "none" => s.left = 0

\* The credential in memory.
CacheOK ==
  /\ cached \in [expires : Int, refreshAt : Int, set : BOOLEAN]
  /\ cached.set => cached.refreshAt = cached.expires - Window

RoleInv ==
  /\ RoleTypeOK /\ OneLeader /\ NoNeedlessRefresh /\ CacheOK
  /\ \A c \in Callers : CallerOK(caller[c], ctxDone[c])

RefreshPCs == {"file", "try", "sleep", "store"}
LeadPCs == RefreshPCs \cup {"check"}

LEMMA RoleTypes ==
  ASSUME RoleInv, NEW c \in Callers
  PROVE  /\ caller[c] \in CallerSet /\ ctxDone[c] \in BOOLEAN
         /\ CallerOK(caller[c], ctxDone[c])
         /\ time \in Nat /\ time \in Int /\ gate \in Callers \cup {Nobody}
         /\ caller[c].pc \in LeadPCs <=> gate = c
         /\ caller[c].pc \in RefreshPCs => ~Fresh
BY DEF RoleInv, RoleTypeOK, CallerSet, OneLeader, Leading, NoNeedlessRefresh,
       Refreshing, LeadPCs, RefreshPCs

LEMMA NewCallerSet ==
  /\ NewCaller \in CallerSet
  /\ NewCaller.pc = "idle" /\ NewCaller.phase = "none" /\ NewCaller.n = 0
  /\ NewCaller.out = "none" /\ NewCaller.late = FALSE
BY RoleAssumption DEF NewCaller, CallerSet, RolePCs

LEMMA RoleStarts == RoleInit \/ RoleIdle => RoleInv
<1>. SUFFICES ASSUME RoleInit \/ RoleIdle  PROVE RoleInv
  OBVIOUS
<1>. DEFINE s == IF role = "none" THEN [NewCaller EXCEPT !.left = 0]
                 ELSE NewCaller
<1>1. /\ s \in CallerSet /\ s.pc = "idle" /\ s.late = FALSE /\ s.out = "none"
      /\ s.phase = "none" /\ (role = "none" => s.left = 0)
  <2>1. CASE role = "none"
    BY <2>1, NewCallerSet DEF CallerSet
  <2>2. CASE role # "none"
    BY <2>2, NewCallerSet
  <2>. QED  BY <2>1, <2>2
<1>2. caller = [c \in Callers |-> s] /\ ctxDone = [c \in Callers |-> FALSE]
      /\ time = 0 /\ gate = Nobody /\ role \in RoleKinds \cup {"none"}
      /\ cached = Empty
  BY RoleAssumption DEF RoleInit, RoleIdle, RoleAssumption
<1>. HIDE DEF s
<1>3. CacheOK
  BY <1>2 DEF CacheOK, Empty
<1>4. RoleTypeOK
  BY <1>1, <1>2, <1>3 DEF RoleTypeOK, CacheOK, CallerSet
<1>5. OneLeader /\ NoNeedlessRefresh
  BY <1>1, <1>2, RoleAssumption
  DEF OneLeader, NoNeedlessRefresh, Leading, Refreshing, RoleAssumption
<1>6. \A c \in Callers : CallerOK(caller[c], ctxDone[c])
  BY <1>1, <1>2 DEF CallerOK
<1>. QED  BY <1>3, <1>4, <1>5, <1>6 DEF RoleInv

\* A step that takes caller c to state s, with what it may do to the gate and
\* to the cache.
LEMMA CallerMoves ==
  ASSUME RoleInv, NEW c \in Callers, NEW s \in CallerSet,
         caller' = [caller EXCEPT ![c] = s],
         ctxDone' \in [Callers -> BOOLEAN],
         \A d \in Callers \ {c} : ctxDone'[d] = ctxDone[d],
         UNCHANGED <<time, role>>,
         CallerOK(s, ctxDone'[c]),
         \/ /\ s.pc \in LeadPCs /\ gate' = c /\ gate \in {c, Nobody}
            /\ s.pc \in RefreshPCs => ~Fresh
            /\ UNCHANGED cached
         \/ /\ s.pc \notin LeadPCs /\ gate = c /\ gate' = Nobody
            /\ CacheOK'
         \/ /\ s.pc \notin LeadPCs /\ gate # c /\ UNCHANGED <<gate, cached>>
  PROVE  RoleInv'
<1>. USE DEF RoleInv
<1>1. CacheOK'
  BY DEF CacheOK
<1>2. RoleTypeOK'
  BY <1>1 DEF RoleTypeOK, CacheOK, CallerSet
<1>3. OneLeader'
  BY RoleAssumption
  DEF RoleAssumption, OneLeader, Leading, LeadPCs, RefreshPCs, RoleTypeOK
<1>4. NoNeedlessRefresh'
  BY RoleAssumption
  DEF RoleAssumption, OneLeader, Leading, LeadPCs, RefreshPCs, RoleTypeOK,
      NoNeedlessRefresh, Refreshing, Fresh
<1>5. \A d \in Callers : CallerOK(caller[d], ctxDone[d])'
  BY DEF CallerOK, RoleTypeOK
<1>. QED  BY <1>1, <1>2, <1>3, <1>4, <1>5

-----------------------------------------------------------------------------
(* Retrieve                                                                 *)

\* A return of caller c.
LEMMA CallerReturns ==
  ASSUME RoleInv, NEW c \in Callers, caller[c].pc # "idle",
         NEW out \in {"value", "error"}, NEW expires \in Int,
         Answer(c, out, expires),
         out = "value" => expires - time > Window /\ ~caller[c].late,
         UNCHANGED <<time, role, ctxDone>>,
         \/ gate = c /\ gate' = Nobody /\ CacheOK'
         \/ gate # c /\ UNCHANGED <<gate, cached>>
  PROVE  RoleInv'
<1>. DEFINE s == [NewCaller EXCEPT !.left = caller[c].left,
                    !.late = caller[c].late, !.out = out,
                    !.margin = expires - time]
<1>1. /\ s \in CallerSet /\ s.pc = "idle" /\ s.phase = "none" /\ s.out = out
      /\ s.left = caller[c].left /\ s.late = caller[c].late
      /\ s.margin = expires - time
  <2>1. /\ caller[c].left \in Nat /\ caller[c].late \in BOOLEAN
        /\ expires - time \in Int
    BY RoleTypes DEF CallerSet
  <2>. QED  BY <2>1, NewCallerSet DEF CallerSet
<1>2. caller' = [caller EXCEPT ![c] = s]
  BY DEF Answer
<1>. HIDE DEF s
<1>3. s.pc \notin LeadPCs
  BY <1>1 DEF LeadPCs, RefreshPCs
<1>4. CallerOK(s, ctxDone'[c])
  BY <1>1, RoleTypes, RoleAssumption DEF CallerOK, RoleAssumption, CallerSet
<1>5. ctxDone' \in [Callers -> BOOLEAN]
  BY DEF RoleInv, RoleTypeOK
<1>. QED  BY <1>1, <1>2, <1>3, <1>4, <1>5, CallerMoves

\* A return that gives the slot of the gate back.
LEMMA CallerFails ==
  ASSUME RoleInv, NEW c \in Callers, caller[c].pc \in LeadPCs, Fail(c)
  PROVE  RoleInv'
<1>1. gate = c /\ gate' = Nobody /\ CacheOK' /\ caller[c].pc # "idle"
  BY RoleTypes DEF Fail, ReturnHeld, RoleInv, CacheOK, LeadPCs, RefreshPCs
<1>2. Answer(c, "error", time) /\ time \in Int
  BY RoleTypes DEF Fail, ReturnHeld, ReturnCached
<1>. QED  BY <1>1, <1>2, CallerReturns DEF Fail

LEMMA CallKeeps ==
  ASSUME RoleInv, NEW c \in Callers, Call(c)  PROVE RoleInv'
<1>. DEFINE s == [NewCaller EXCEPT !.pc = "fast", !.left = caller[c].left - 1]
<1>1. /\ s \in CallerSet /\ s.pc = "fast" /\ s.phase = "none"
      /\ s.out = "none" /\ s.late = FALSE /\ s.left = caller[c].left - 1
  <2>1. caller[c].left - 1 \in Nat
    BY RoleTypes DEF Call, CallerSet
  <2>. QED  BY <2>1, NewCallerSet DEF CallerSet, RolePCs
<1>2. caller' = [caller EXCEPT ![c] = s]
  BY DEF Call
<1>. HIDE DEF s
<1>3. s.pc \notin LeadPCs
  BY <1>1 DEF LeadPCs, RefreshPCs
<1>4. CallerOK(s, ctxDone'[c])
  BY <1>1, RoleTypes DEF Call, CallerOK, CallerSet
<1>5. gate # c
  BY RoleTypes DEF Call, At, LeadPCs, RefreshPCs
<1>6. ctxDone' \in [Callers -> BOOLEAN]
      /\ \A d \in Callers \ {c} : ctxDone'[d] = ctxDone[d]
  BY DEF Call, RoleInv, RoleTypeOK
<1>. QED
  BY <1>1, <1>2, <1>3, <1>4, <1>5, <1>6, CallerMoves DEF Call

LEMMA FastKeeps ==
  ASSUME RoleInv, NEW c \in Callers, Fast(c)  PROVE RoleInv'
<1>1. gate # c /\ caller[c].pc = "fast" /\ ~caller[c].late
  BY RoleTypes DEF Fast, At, LeadPCs, RefreshPCs, CallerOK, CallerSet
<1>2. CASE Fresh /\ ReturnCached(c, "value")
  <2>1. cached.expires \in Int /\ cached.expires - time > Window
    BY <1>2, RoleAssumption DEF RoleInv, RoleTypeOK, CacheOK, Fresh, RoleAssumption
  <2>. QED  BY <1>1, <1>2, <2>1, CallerReturns DEF Fast, ReturnCached
<1>3. CASE ReturnCached(c, "error")
  BY <1>1, <1>3, RoleTypes, CallerReturns DEF Fast, ReturnCached
<1>4. CASE Goto(c, "gate")
  <2>. DEFINE s == [caller[c] EXCEPT !.pc = "gate"]
  <2>1. caller' = [caller EXCEPT ![c] = s]
    BY <1>4 DEF Goto
  <2>2. s \in CallerSet /\ s.pc \notin LeadPCs /\ CallerOK(s, ctxDone'[c])
    BY <1>1, RoleTypes DEF Fast, CallerSet, RolePCs, LeadPCs, RefreshPCs, CallerOK
  <2>. HIDE DEF s
  <2>3. ctxDone' \in [Callers -> BOOLEAN]
    BY DEF Fast, RoleInv, RoleTypeOK
  <2>. QED  BY <1>1, <2>1, <2>2, <2>3, CallerMoves DEF Fast
<1>. QED  BY <1>2, <1>3, <1>4 DEF Fast

LEMMA TakeGateKeeps ==
  ASSUME RoleInv, NEW c \in Callers, TakeGate(c)  PROVE RoleInv'
<1>1. gate # c /\ caller[c].pc = "gate" /\ ~caller[c].late
  BY RoleTypes DEF TakeGate, At, LeadPCs, RefreshPCs, CallerOK, CallerSet
<1>2. CASE ReturnCached(c, "error") /\ UNCHANGED gate
  BY <1>1, <1>2, RoleTypes, CallerReturns DEF TakeGate, ReturnCached
<1>3. CASE /\ gate = Nobody /\ gate' = c
           /\ caller' = [caller EXCEPT ![c].pc = "check",
                                       ![c].late = ctxDone[c]]
  <2>. DEFINE s == [caller[c] EXCEPT !.pc = "check", !.late = ctxDone[c]]
  <2>1. caller' = [caller EXCEPT ![c] = s]
    BY <1>3
  <2>2. s \in CallerSet /\ s.pc = "check" /\ CallerOK(s, ctxDone'[c])
    BY <1>1, RoleTypes DEF TakeGate, CallerSet, RolePCs, CallerOK
  <2>. HIDE DEF s
  <2>3. ctxDone' \in [Callers -> BOOLEAN]
    BY DEF TakeGate, RoleInv, RoleTypeOK
  <2>. QED
    BY <1>3, <2>1, <2>2, <2>3, CallerMoves DEF TakeGate, LeadPCs, RefreshPCs
<1>. QED  BY <1>2, <1>3 DEF TakeGate

LEMMA CheckKeeps ==
  ASSUME RoleInv, NEW c \in Callers, Check(c)  PROVE RoleInv'
<1>1. gate = c /\ caller[c].pc = "check" /\ (caller[c].late => ctxDone[c])
  BY RoleTypes DEF Check, At, LeadPCs, RefreshPCs, CallerOK, CallerSet
<1>2. CASE ReturnHeld(c, "error")
  BY <1>1, <1>2, CallerFails DEF Check, Fail, LeadPCs
<1>3. CASE ~ctxDone[c] /\ Fresh /\ ReturnHeld(c, "value")
  <2>1. cached.expires \in Int /\ cached.expires - time > Window
    BY <1>3, RoleAssumption DEF RoleInv, RoleTypeOK, CacheOK, Fresh, RoleAssumption
  <2>2. CacheOK'
    BY DEF Check, RoleInv, CacheOK
  <2>. QED
    BY <1>1, <1>3, <2>1, <2>2, CallerReturns DEF Check, ReturnHeld, ReturnCached
<1>4. CASE ~ctxDone[c] /\ ~Fresh /\ BeginRetrieve(c, FirstStep) /\ UNCHANGED gate
  <2>. DEFINE s == [caller[c] EXCEPT !.pc = FirstStep, !.n = 1,
                      !.phase = IF role = "ecsrole" THEN "token" ELSE "sts",
                      !.started = time]
  <2>1. caller' = [caller EXCEPT ![c] = s]
    BY <1>4 DEF BeginRetrieve
  <2>2. /\ s \in CallerSet /\ s.pc \in {"file", "try"}
        /\ s.late = FALSE /\ s.out = caller[c].out
        /\ s.phase = (IF role = "ecsrole" THEN "token" ELSE "sts")
        /\ s.left = caller[c].left
    <3>1. /\ caller[c] \in CallerSet /\ time \in Nat /\ 1 \in 0..RoleAttempts
          /\ FirstStep \in {"file", "try"} /\ caller[c].late = FALSE
      BY <1>1, <1>4, RoleTypes, RoleAssumption DEF FirstStep, RoleAssumption
    <3>. QED  BY <3>1 DEF CallerSet, RolePCs
  <2>. HIDE DEF s
  <2>3. CallerOK(s, ctxDone'[c])
    BY <1>1, <2>2, RoleTypes DEF CallerOK
  <2>4. ctxDone' \in [Callers -> BOOLEAN]
    BY DEF Check, RoleInv, RoleTypeOK
  <2>. QED
    BY <1>1, <1>4, <2>1, <2>2, <2>3, <2>4, CallerMoves
    DEF Check, LeadPCs, RefreshPCs
<1>. QED  BY <1>2, <1>3, <1>4 DEF Check

-----------------------------------------------------------------------------
(* The clients                                                              *)

\* A step of the caller with the gate that goes on refreshing.
LEMMA RefreshGoesOn ==
  ASSUME RoleInv, NEW c \in Callers, caller[c].pc \in RefreshPCs,
         NEW s \in CallerSet, caller' = [caller EXCEPT ![c] = s],
         s.pc \in RefreshPCs, CallerOK(s, ctxDone[c]),
         UNCHANGED <<time, role, ctxDone, cached, gate>>
  PROVE  RoleInv'
<1>1. gate = c /\ ~Fresh
  BY RoleTypes DEF LeadPCs
<1>2. ctxDone' \in [Callers -> BOOLEAN]
  BY DEF RoleInv, RoleTypeOK
<1>. QED  BY <1>1, <1>2, CallerMoves DEF LeadPCs

LEMMA ReadTokenKeeps ==
  ASSUME RoleInv, NEW c \in Callers, ReadToken(c)  PROVE RoleInv'
<1>. DEFINE s == [caller[c] EXCEPT !.pc = "try", !.started = time]
<1>1. s \in CallerSet /\ s.pc \in RefreshPCs /\ CallerOK(s, ctxDone[c])
  BY RoleTypes DEF ReadToken, At, CallerSet, RolePCs, RefreshPCs, CallerOK
<1>2. CASE Fail(c)
  BY <1>2, CallerFails DEF ReadToken, At, LeadPCs, RefreshPCs
<1>3. CASE ~Fail(c)
  <2>1. caller' = [caller EXCEPT ![c] = s]
    BY <1>3 DEF ReadToken
  <2>. HIDE DEF s
  <2>. QED  BY <1>1, <1>3, <2>1, RefreshGoesOn DEF ReadToken, At, RefreshPCs
<1>. QED  BY <1>2, <1>3

LEMMA AttemptFailsKeeps ==
  ASSUME RoleInv, NEW c \in Callers, AttemptFails(c)  PROVE RoleInv'
<1>. DEFINE s == [caller[c] EXCEPT !.pc = "sleep"]
<1>1. CASE Fail(c)
  BY <1>1, CallerFails DEF AttemptFails, At, LeadPCs, RefreshPCs
<1>2. CASE ~Fail(c)
  <2>1. /\ caller' = [caller EXCEPT ![c] = s] /\ caller[c].n # RoleAttempts
        /\ UNCHANGED <<time, role, ctxDone, cached, gate>>
    BY <1>2 DEF AttemptFails, Goto
  <2>2. s \in CallerSet /\ s.pc \in RefreshPCs /\ CallerOK(s, ctxDone[c])
    BY <2>1, RoleTypes, RoleAssumption
    DEF AttemptFails, At, CallerSet, RolePCs, RefreshPCs, CallerOK, RoleAssumption
  <2>. HIDE DEF s
  <2>. QED  BY <2>1, <2>2, RefreshGoesOn DEF AttemptFails, At, RefreshPCs
<1>. QED  BY <1>1, <1>2

LEMMA SleepKeeps ==
  ASSUME RoleInv, NEW c \in Callers, Sleep(c)  PROVE RoleInv'
<1>. DEFINE s == [caller[c] EXCEPT !.pc = "try", !.n = @ + 1]
<1>1. CASE Fail(c)
  BY <1>1, CallerFails DEF Sleep, At, LeadPCs, RefreshPCs
<1>2. CASE ~Fail(c)
  <2>1. /\ caller' = [caller EXCEPT ![c] = s]
        /\ UNCHANGED <<time, role, ctxDone, cached, gate>>
    BY <1>2 DEF Sleep
  <2>2. /\ caller[c] \in CallerSet /\ caller[c].pc = "sleep"
        /\ caller[c].n + 1 \in 0..RoleAttempts
    BY RoleTypes, RoleAssumption
    DEF Sleep, At, CallerSet, CallerOK, RoleAssumption
  <2>3. /\ s \in CallerSet /\ s.pc = "try" /\ s.phase = caller[c].phase
        /\ s.late = caller[c].late /\ s.out = caller[c].out
        /\ s.left = caller[c].left
    BY <2>2 DEF CallerSet, RolePCs
  <2>. HIDE DEF s
  <2>4. CallerOK(s, ctxDone[c])
    BY <2>2, <2>3, RoleTypes DEF Sleep, CallerOK
  <2>. QED  BY <2>1, <2>2, <2>3, <2>4, RefreshGoesOn DEF RefreshPCs
<1>. QED  BY <1>1, <1>2

LEMMA TokenArrivesKeeps ==
  ASSUME RoleInv, NEW c \in Callers, TokenArrives(c)  PROVE RoleInv'
<1>. DEFINE s == [caller[c] EXCEPT !.phase = "credentials", !.n = 1]
<1>1. CASE Fail(c)
  BY <1>1, CallerFails DEF TokenArrives, At, LeadPCs, RefreshPCs
<1>2. CASE ~Fail(c)
  <2>1. /\ caller' = [caller EXCEPT ![c] = s]
        /\ UNCHANGED <<time, role, ctxDone, cached, gate>>
    BY <1>2 DEF TokenArrives
  <2>2. /\ caller[c] \in CallerSet /\ caller[c].pc = "try"
        /\ 1 \in 0..RoleAttempts
    BY RoleTypes, RoleAssumption
    DEF TokenArrives, At, CallerSet, CallerOK, RoleAssumption
  <2>3. /\ s \in CallerSet /\ s.pc = "try" /\ s.phase = "credentials"
        /\ s.late = caller[c].late /\ s.out = caller[c].out
        /\ s.left = caller[c].left
    BY <2>2 DEF CallerSet, RolePCs
  <2>. HIDE DEF s
  <2>4. CallerOK(s, ctxDone[c])
    BY <2>2, <2>3, RoleTypes DEF TokenArrives, CallerOK
  <2>. QED  BY <2>1, <2>2, <2>3, <2>4, RefreshGoesOn DEF RefreshPCs
<1>. QED  BY <1>1, <1>2

\* What a client hands over; only AssumeRole's is bounded.
LEMMA FetchedKeeps ==
  ASSUME RoleInv, NEW c \in Callers, At(c, "try"), NEW expires \in Int,
         Fetched(c, expires),
         role = "ramrole" => expires <= caller[c].started + HardTTL
  PROVE  RoleInv'
<1>. DEFINE s == [caller[c] EXCEPT !.pc = "store", !.got = expires]
<1>1. caller' = [caller EXCEPT ![c] = s]
  BY DEF Fetched
<1>2. s \in CallerSet /\ s.pc \in RefreshPCs /\ CallerOK(s, ctxDone[c])
  BY RoleTypes DEF At, CallerSet, RolePCs, RefreshPCs, CallerOK
<1>. HIDE DEF s
<1>. QED  BY <1>1, <1>2, RefreshGoesOn DEF Fetched, At, RefreshPCs

LEMMA UnlessExpiredKeeps ==
  ASSUME RoleInv, NEW c \in Callers, At(c, "try"), NEW expires \in Int,
         UnlessExpired(c, expires),
         role = "ramrole" => expires <= caller[c].started + HardTTL
  PROVE  RoleInv'
BY FetchedKeeps, CallerFails DEF UnlessExpired, At, LeadPCs, RefreshPCs

LEMMA RoleAssumedKeeps ==
  ASSUME RoleInv, NEW c \in Callers, RoleAssumed(c)  PROVE RoleInv'
<1>. PICK g \in Grants :
       UnlessExpired(c, Earlier(time + g, caller[c].started + HardTTL))
  BY DEF RoleAssumed
<1>. DEFINE e == Earlier(time + g, caller[c].started + HardTTL)
<1>1. e \in Int /\ e <= caller[c].started + HardTTL
  BY RoleTypes, RoleAssumption DEF Earlier, CallerSet, RoleAssumption
<1>2. UnlessExpired(c, e)
  OBVIOUS
<1>. HIDE DEF e
<1>. QED  BY <1>1, <1>2, UnlessExpiredKeeps DEF RoleAssumed

LEMMA TokenExchangedKeeps ==
  ASSUME RoleInv, NEW c \in Callers, TokenExchanged(c)  PROVE RoleInv'
<1>. PICK g \in Grants : UnlessExpired(c, time + g)
  BY DEF TokenExchanged
<1>1. time + g \in Int
  BY RoleTypes, RoleAssumption DEF RoleAssumption
<1>. QED  BY <1>1, UnlessExpiredKeeps DEF TokenExchanged

LEMMA MetadataFetchedKeeps ==
  ASSUME RoleInv, NEW c \in Callers, MetadataFetched(c)  PROVE RoleInv'
<1>. PICK g \in Grants : Fetched(c, time + g)
  BY DEF MetadataFetched
<1>1. time + g \in Int
  BY RoleTypes, RoleAssumption DEF RoleAssumption
<1>2. role # "ramrole"
  BY RoleTypes DEF MetadataFetched, CallerOK
<1>. QED  BY <1>1, <1>2, FetchedKeeps DEF MetadataFetched

LEMMA StoreKeeps ==
  ASSUME RoleInv, NEW c \in Callers, Store(c)  PROVE RoleInv'
<1>1. /\ gate = c /\ caller[c].pc = "store" /\ ~caller[c].late
      /\ caller[c].got \in Int
  BY RoleTypes DEF Store, At, LeadPCs, RefreshPCs, CallerOK, CallerSet
<1>2. CASE Fail(c)
  BY <1>1, <1>2, CallerFails DEF LeadPCs, RefreshPCs
<1>3. CASE ~Fail(c)
  <2>1. CacheOK' /\ caller[c].got - time > Window
    <3>1. /\ caller[c].got - Window > time
          /\ cached' = [expires |-> caller[c].got, set |-> TRUE,
                        refreshAt |-> caller[c].got - Window]
      BY <1>3 DEF Store
    <3>2. Window \in Int /\ time \in Int
      BY RoleTypes, RoleAssumption DEF RoleAssumption
    <3>. QED  BY <1>1, <3>1, <3>2 DEF CacheOK
  <2>. QED  BY <1>1, <1>3, <2>1, CallerReturns DEF Store
<1>. QED  BY <1>2, <1>3

-----------------------------------------------------------------------------
(* The environment                                                          *)

LEMMA CancelCallerKeeps ==
  ASSUME RoleInv, NEW c \in Callers, CancelCaller(c)  PROVE RoleInv'
<1>. USE DEF RoleInv, CancelCaller
<1>1. RoleTypeOK' /\ OneLeader' /\ NoNeedlessRefresh' /\ CacheOK'
  BY DEF RoleTypeOK, OneLeader, Leading, NoNeedlessRefresh, Refreshing, Fresh,
         CacheOK
<1>2. \A d \in Callers : CallerOK(caller[d], ctxDone[d])'
  BY DEF CallerOK, RoleTypeOK
<1>. QED  BY <1>1, <1>2

\* The clock only takes freshness away.
LEMMA TickKeeps == RoleInv /\ Tick => RoleInv'
<1>. SUFFICES ASSUME RoleInv, Tick  PROVE RoleInv'
  OBVIOUS
<1>. USE DEF RoleInv, Tick
<1>1. RoleTypeOK' /\ OneLeader' /\ CacheOK'
  BY DEF RoleTypeOK, OneLeader, Leading, CacheOK
<1>2. NoNeedlessRefresh'
  BY DEF RoleTypeOK, NoNeedlessRefresh, Refreshing, Fresh
<1>3. \A d \in Callers : CallerOK(caller[d], ctxDone[d])'
  BY DEF CallerOK
<1>. QED  BY <1>1, <1>2, <1>3

LEMMA RoleKeeps ==
  RoleInv /\ [Tick \/ \E c \in Callers : RoleStep(c)]_roleVars => RoleInv'
<1>. SUFFICES ASSUME RoleInv, [Tick \/ \E c \in Callers : RoleStep(c)]_roleVars
              PROVE  RoleInv'
  OBVIOUS
<1>1. CASE UNCHANGED roleVars
  BY <1>1
  DEF roleVars, RoleInv, RoleTypeOK, OneLeader, Leading, NoNeedlessRefresh,
      Refreshing, Fresh, CacheOK, CallerOK
<1>2. CASE Tick
  BY <1>2, TickKeeps
<1>3. ASSUME NEW c \in Callers, RoleStep(c)  PROVE RoleInv'
  BY <1>3, CallKeeps, FastKeeps, TakeGateKeeps, CheckKeeps, ReadTokenKeeps,
     StoreKeeps, AttemptFailsKeeps, SleepKeeps, TokenArrivesKeeps,
     RoleAssumedKeeps, TokenExchangedKeeps, MetadataFetchedKeeps,
     CancelCallerKeeps
  DEF RoleStep, Local, Remote
<1>. QED  BY <1>1, <1>2, <1>3

LEMMA RoleInvGives == RoleInv => RefreshedOnce /\ RoleCredentialIsUsable
BY RoleAssumption
DEF RoleInv, RefreshedOnce, RoleCredentialIsUsable, ReturnsUsable,
    CancelledGetsNothing, HardLimit, At, CallerOK

-----------------------------------------------------------------------------
(* The login over a callback                                                *)

AuthSet ==
  [pc : AuthPCs, result : Callbacks \cup {None}, out : Outs, leak : BOOLEAN]

\* What the Authorize in progress has established when it gets to a step.
AuthOK ==
  /\ auth.pc = "start" => listener = "none"
  /\ auth.pc \in {"start", "url", "serve"} => serving = "no" /\ auth.out = "none"
  /\ auth.pc \in {"wait", "check"} => auth.out = "none"
  /\ auth.pc = "check" =>
       auth.result \in Callbacks /\ auth.result = first /\ first # None
  /\ auth.out = "ok" =>
       /\ auth.result \in Callbacks /\ Verdict(auth.result) = "ok"
       /\ IF first = None THEN serving = "no" ELSE auth.result = first

\* What holds of the server while requests come and go.
ServerOK ==
  /\ serving = "no" => DOMAIN handlers = {} /\ first = None
  /\ serving = "yes" => auth.pc \in {"wait", "check", "cleanup"}
  /\ slot # None => slot = first

CallbackInv ==
  CallbackTypeOK /\ auth \in AuthSet /\ AuthOK /\ ServerOK /\ NothingListens

LEMMA CallbackStarts == CallbackInit \/ CallbackIdle => CallbackInv
<1>. SUFFICES ASSUME NEW pc \in {"start", "done"}, AuthorizeAt(pc)
              PROVE  CallbackInv
  BY DEF CallbackInit, CallbackIdle
<1>1. /\ auth \in AuthSet /\ auth.pc = pc /\ auth.out = "none"
      /\ auth.result = None
  BY DEF AuthorizeAt, AuthSet, AuthPCs, Outs
<1>2. DOMAIN handlers = {}
  BY DEF AuthorizeAt
<1>3. CallbackTypeOK
  BY <1>1, <1>2 DEF AuthorizeAt, CallbackTypeOK, AuthSet
<1>4. AuthOK /\ ServerOK /\ NothingListens
  BY <1>1, <1>2 DEF AuthorizeAt, AuthOK, ServerOK, NothingListens
<1>. QED  BY <1>1, <1>3, <1>4 DEF CallbackInv

\* A step that takes Authorize to state a.
LEMMA AuthorizeMoves ==
  ASSUME CallbackInv, NEW a \in AuthSet, auth' = a,
         listener' \in {"none", "open", "closed"},
         serving' \in {"no", "yes", "stopped"},
         serving' = "no" => serving = "no",
         slot' \in {slot, None}, serveErr' \in BOOLEAN, expired' \in BOOLEAN,
         UNCHANGED <<handlers, seen, first>>,
         serving' = "yes" => a.pc \in {"wait", "check", "cleanup"},
         AuthOK', NothingListens'
  PROVE  CallbackInv'
<1>1. CallbackTypeOK'
  BY DEF CallbackInv, CallbackTypeOK, AuthSet
<1>2. ServerOK'
  BY DEF CallbackInv, ServerOK
<1>. QED  BY <1>1, <1>2 DEF CallbackInv

LEMMA CreateServerKeeps == CallbackInv /\ CreateServer => CallbackInv'
<1>. SUFFICES ASSUME CallbackInv, CreateServer  PROVE CallbackInv'
  OBVIOUS
<1>. USE DEF CallbackInv, CreateServer
<1>1. /\ auth' \in AuthSet /\ auth'.result = auth.result
      /\ \/ auth'.pc = "url" /\ auth'.out = auth.out
         \/ auth'.pc = "done" /\ auth'.out = "failed" /\ listener' # "open"
  BY DEF AuthSet, AuthPCs, Outs
<1>2. serving = "no" /\ first = None
  BY DEF AuthOK, ServerOK
<1>3. AuthOK' /\ NothingListens'
  BY <1>1, <1>2 DEF AuthOK, NothingListens, browserVars
<1>. QED
  BY <1>1, <1>2, <1>3, AuthorizeMoves DEF CallbackTypeOK, browserVars

LEMMA BuildURLKeeps == CallbackInv /\ BuildURL => CallbackInv'
<1>. SUFFICES ASSUME CallbackInv, BuildURL  PROVE CallbackInv'
  OBVIOUS
<1>. USE DEF CallbackInv, BuildURL
<1>1. /\ auth' \in AuthSet /\ auth'.result = auth.result
      /\ \/ auth'.pc = "serve" /\ auth'.out = auth.out
         \/ auth'.pc = "cleanup" /\ auth'.out = "failed"
  BY DEF AuthSet, AuthPCs, Outs
<1>2. AuthOK' /\ NothingListens' /\ serving = "no"
  BY <1>1 DEF AuthOK, NothingListens, browserVars
<1>. QED  BY <1>1, <1>2, AuthorizeMoves DEF CallbackTypeOK, browserVars

LEMMA StartServerKeeps == CallbackInv /\ StartServer => CallbackInv'
<1>. SUFFICES ASSUME CallbackInv, StartServer  PROVE CallbackInv'
  OBVIOUS
<1>. USE DEF CallbackInv, StartServer
<1>1. /\ auth' \in AuthSet /\ auth'.result = auth.result
      /\ auth'.pc = "wait" /\ auth'.out = auth.out
  BY DEF AuthSet, AuthPCs
<1>2. AuthOK' /\ NothingListens'
  BY <1>1 DEF AuthOK, NothingListens, browserVars
<1>. QED  BY <1>1, <1>2, AuthorizeMoves DEF CallbackTypeOK, browserVars

\* The result that is taken out of the channel is the first one.
LEMMA WaitReturnsKeeps == CallbackInv /\ WaitReturns => CallbackInv'
<1>. SUFFICES ASSUME CallbackInv, WaitReturns  PROVE CallbackInv'
  OBVIOUS
<1>. USE DEF CallbackInv, WaitReturns
<1>1. CASE slot # None /\ auth' = [auth EXCEPT !.pc = "check", !.result = slot]
           /\ slot' = None /\ UNCHANGED serveErr
  <2>1. slot \in Callbacks /\ slot = first
    BY <1>1 DEF CallbackTypeOK, ServerOK
  <2>2. /\ auth' \in AuthSet /\ auth'.result = slot
        /\ auth'.pc = "check" /\ auth'.out = auth.out
    BY <1>1, <2>1 DEF AuthSet, AuthPCs
  <2>3. AuthOK' /\ NothingListens'
    BY <1>1, <2>1, <2>2 DEF AuthOK, NothingListens
  <2>. QED  BY <1>1, <2>2, <2>3, AuthorizeMoves DEF CallbackTypeOK
<1>2. CASE auth' = [auth EXCEPT !.pc = "cleanup", !.out = "failed"]
           /\ UNCHANGED slot /\ serveErr' \in BOOLEAN
  <2>1. /\ auth' \in AuthSet /\ auth'.result = auth.result
        /\ auth'.pc = "cleanup" /\ auth'.out = "failed"
    BY <1>2 DEF AuthSet, AuthPCs, Outs
  <2>2. AuthOK' /\ NothingListens'
    BY <2>1 DEF AuthOK, NothingListens
  <2>. QED  BY <1>2, <2>1, <2>2, AuthorizeMoves DEF CallbackTypeOK
<1>. QED  BY <1>1, <1>2 DEF CallbackTypeOK

LEMMA CheckResultKeeps == CallbackInv /\ CheckResult => CallbackInv'
<1>. SUFFICES ASSUME CallbackInv, CheckResult  PROVE CallbackInv'
  OBVIOUS
<1>. USE DEF CallbackInv, CheckResult
<1>1. Verdict(auth.result) \in Outs
  BY DEF Verdict, Outs
<1>. DEFINE v == Verdict(auth.result)
<1>2. auth' = [auth EXCEPT !.pc = "cleanup", !.out = v] /\ v \in Outs
  BY <1>1
<1>. HIDE DEF v
<1>3. /\ auth' \in AuthSet /\ auth'.result = auth.result
      /\ auth'.pc = "cleanup" /\ auth'.out = v
  BY <1>2 DEF AuthSet, AuthPCs
<1>4. AuthOK' /\ NothingListens'
  BY <1>3 DEF AuthOK, NothingListens, browserVars, v
<1>. QED  BY <1>3, <1>4, AuthorizeMoves DEF CallbackTypeOK, browserVars

\* Nothing listens any more, or no code is returned.
LEMMA CleanupKeeps == CallbackInv /\ Cleanup => CallbackInv'
<1>. SUFFICES ASSUME CallbackInv, Cleanup  PROVE CallbackInv'
  OBVIOUS
<1>. USE DEF CallbackInv, Cleanup
<1>1. /\ auth' \in AuthSet /\ auth'.pc = "done" /\ auth'.result = auth.result
      /\ auth'.out = "ok" => auth.out = "ok"
      /\ \/ listener' = "closed"
         \/ listener' = "open" /\ auth'.leak /\ auth'.out # "ok"
  <2>1. CASE listener' = "closed" /\ auth' = [auth EXCEPT !.pc = "done"]
    BY <2>1 DEF AuthSet, AuthPCs
  <2>2. ASSUME NEW closed \in BOOLEAN,
               listener' = IF closed THEN "closed" ELSE "open",
               auth' = [auth EXCEPT !.pc = "done", !.leak = ~closed,
                          !.out = IF @ = "ok" THEN "cleanup_failed" ELSE @]
        PROVE  <1>1
    <3>. DEFINE o == IF auth.out = "ok" THEN "cleanup_failed" ELSE auth.out
                leak == ~closed
    <3>1. /\ auth' = [auth EXCEPT !.pc = "done", !.leak = leak, !.out = o]
          /\ o \in Outs /\ o # "ok" /\ leak \in BOOLEAN /\ auth \in AuthSet
          /\ listener' = "closed" \/ (listener' = "open" /\ leak)
      <4>1. auth.out \in Outs
        BY DEF AuthSet
      <4>. QED  BY <2>2, <4>1 DEF Outs
    <3>. HIDE DEF o, leak
    <3>. QED  BY <3>1 DEF AuthSet, AuthPCs
  <2>. QED  BY <2>1, <2>2
<1>2. serving' \in {"no", "stopped"} /\ (serving' = "no" => serving = "no")
  BY DEF CallbackTypeOK
<1>3. AuthOK' /\ NothingListens'
  BY <1>1, <1>2 DEF AuthOK, NothingListens, browserVars
<1>. QED
  BY <1>1, <1>2, <1>3, AuthorizeMoves DEF CallbackTypeOK, browserVars

LEMMA RequestArrivesKeeps == CallbackInv /\ RequestArrives => CallbackInv'
BY DEF RequestArrives, CallbackInv, CallbackTypeOK, AuthSet, AuthOK, ServerOK, NothingListens,
       AuthPCs, Outs, browserVars

LEMMA HandleCallbackKeeps == CallbackInv /\ HandleCallback => CallbackInv'
<1>. SUFFICES ASSUME CallbackInv, NEW r \in DOMAIN handlers,
                     Deliver(handlers[r]),
                     handlers' = [h \in DOMAIN handlers \ {r} |-> handlers[h]],
                     UNCHANGED <<listener, serving, seen, serveErr, expired, auth>>
              PROVE  CallbackInv'
  BY DEF HandleCallback
<1>. USE DEF CallbackInv
<1>. DEFINE q == handlers[r]
<1>1. q \in Callbacks /\ (first # None => first' = first)
  BY DEF CallbackTypeOK, Deliver
<1>2. CallbackTypeOK'
  BY DEF CallbackTypeOK, Deliver
<1>3. AuthOK'
  BY DEF AuthOK, Deliver, ServerOK
<1>4. ServerOK' /\ NothingListens'
  BY DEF ServerOK, Deliver, NothingListens
<1>. QED  BY <1>2, <1>3, <1>4

LEMMA ServeFailsKeeps == CallbackInv /\ ServeFails => CallbackInv'
BY DEF ServeFails, CallbackInv, CallbackTypeOK, AuthSet, AuthOK, ServerOK, NothingListens,
       AuthPCs, Outs, browserVars

LEMMA WaitExpiresKeeps == CallbackInv /\ WaitExpires => CallbackInv'
BY DEF WaitExpires, CallbackInv, CallbackTypeOK, AuthSet, AuthOK, ServerOK, NothingListens,
       AuthPCs, Outs, browserVars

LEMMA RemoteAuthorizeKeeps == CallbackInv /\ RemoteAuthorize => CallbackInv'
<1>. SUFFICES ASSUME CallbackInv, RemoteAuthorize  PROVE CallbackInv'
  OBVIOUS
<1>1. PICK p \in Pasted :
        auth' = [auth EXCEPT !.pc = "done", !.out = PasteVerdict(p),
          !.result = [error |-> FALSE, code |-> p.codes = 1 /\ ~p.blank,
                      state |-> p.state]]
  BY DEF RemoteAuthorize
<1>. DEFINE v == PasteVerdict(p)
            r == [error |-> FALSE, code |-> p.codes = 1 /\ ~p.blank,
                  state |-> p.state]
<1>2. v \in Outs /\ r \in Callbacks /\ (v = "ok" => Verdict(r) = "ok")
  BY DEF PasteVerdict, Verdict, Outs, Pasted, Callbacks
<1>3. auth' = [auth EXCEPT !.pc = "done", !.out = v, !.result = r]
  BY <1>1
<1>. HIDE DEF v, r
<1>4. auth' \in AuthSet /\ auth'.pc = "done" /\ auth'.out = v /\ auth'.result = r
  BY <1>2, <1>3 DEF CallbackInv, AuthSet, AuthPCs
<1>5. serving = "no" /\ first = None /\ listener = "none"
  BY DEF RemoteAuthorize, CallbackInv, AuthOK, ServerOK
<1>6. AuthOK' /\ NothingListens'
  BY <1>2, <1>4, <1>5 DEF RemoteAuthorize, browserVars, AuthOK, NothingListens
<1>. QED
  BY <1>4, <1>5, <1>6, AuthorizeMoves
  DEF RemoteAuthorize, browserVars, CallbackInv, CallbackTypeOK

LEMMA CallbackKeeps == CallbackInv /\ [CallbackNext]_callbackVars => CallbackInv'
<1>. SUFFICES ASSUME CallbackInv, [CallbackNext]_callbackVars
              PROVE  CallbackInv'
  OBVIOUS
<1>1. CASE UNCHANGED callbackVars
  BY <1>1 DEF callbackVars, CallbackInv, CallbackTypeOK, AuthOK, ServerOK,
              NothingListens
<1>2. CASE CallbackNext
  BY <1>2, CreateServerKeeps, BuildURLKeeps, StartServerKeeps,
     WaitReturnsKeeps, CheckResultKeeps, CleanupKeeps, HandleCallbackKeeps,
     WaitExpiresKeeps, RemoteAuthorizeKeeps, RequestArrivesKeeps,
     ServeFailsKeeps
  DEF CallbackNext, CallbackStep
<1>. QED  BY <1>1, <1>2

LEMMA CallbackInvGives == CallbackInv => CallbackTypeOK /\ CallbackIsSafe
BY DEF CallbackInv, CallbackIsSafe, CodeIsOurs, AuthOK, Verdict

-----------------------------------------------------------------------------
(* The listing of the portal and the binding                                *)

ListingSet ==
  [pc : {"page", "done", "failed"}, page : Nat \ {0}, requests : 0..MaxPages,
   rows : Seq(Items), exact : BOOLEAN]
BindingSet ==
  [pc : {"accounts", "roles", "done", "failed"},
   account : Accounts \cup {Blank}, role : Roles \cup {Blank},
   offered : SUBSET Items]
DirectorySet == [accounts : Seq(Items), roles : Seq(Items)]

\* The rows of the pages before page, and whether page may follow them.
Before(page) == SubSeq(Listed, 1, (page - 1) * PageSize)
Following(page) == (page - 1) * PageSize <= Len(Listed)

\* How far the listing in progress has come when nothing changed meanwhile.
ListingExact ==
  changes = 0 /\ listing.exact /\ binding.pc \in {"accounts", "roles"} =>
    /\ listing.pc = "page" =>
         Following(listing.page) /\ listing.rows = Before(listing.page)
    /\ listing.pc = "done" => listing.rows = Listed

PortalInv ==
  /\ directory \in DirectorySet /\ changes \in Nat
  /\ listing \in ListingSet /\ binding \in BindingSet
  /\ ListingExact /\ BindingIsOffered

LEMMA Division ==
  ASSUME NEW a \in Nat, NEW b \in Nat \ {0}, NEW n \in Nat
  PROVE  n <= a \div b <=> n * b <= a
<1>. DEFINE q == a \div b
<1>1. q \in Nat /\ q * b <= a /\ a < q * b + b
  OBVIOUS
<1>. HIDE DEF q
<1>2. n <= q => n * b <= q * b
  BY <1>1
<1>3. n > q => n * b >= q * b + b
  BY <1>1
<1>4. n * b \in Nat /\ q * b \in Nat
  BY <1>1
<1>. QED  BY <1>1, <1>2, <1>3, <1>4 DEF q

\* The pages of a list, put together.
LEMMA PagesJoin ==
  ASSUME NEW S, NEW list \in Seq(S), NEW m \in 0..Len(list),
         NEW n \in m..Len(list)
  PROVE  SubSeq(list, 1, m) \o SubSeq(list, m + 1, n) = SubSeq(list, 1, n)
OBVIOUS

LEMMA WholeList ==
  ASSUME NEW S, NEW list \in Seq(S)
  PROVE  SubSeq(list, 1, Len(list)) = list /\ SubSeq(list, 1, 0) = << >>
OBVIOUS

LEMMA PortalTypes ==
  ASSUME PortalInv
  PROVE  /\ listing \in ListingSet /\ binding \in BindingSet
         /\ Listed \in Seq(Items) /\ listing.rows \in Seq(Items)
         /\ listing.page \in Nat \ {0} /\ listing.requests \in 0..MaxPages
         /\ listing.exact \in BOOLEAN
BY DEF PortalInv, DirectorySet, ListingSet, Listed

LEMMA NewListingSet ==
  /\ NewListing \in ListingSet /\ NewListing.page = 1
  /\ NewListing.pc = "page" /\ NewListing.rows = << >>
BY PortalAssumption DEF NewListing, ListingSet, PortalAssumption

\* The first page may always be asked for.
LEMMA FirstPage ==
  ASSUME Listed \in Seq(Items)  PROVE Following(1) /\ Before(1) = << >>
<1>1. (1 - 1) * PageSize = 0
  BY PortalAssumption DEF PortalAssumption
<1>. QED  BY <1>1, WholeList DEF Following, Before

LEMMA PortalStarts == PortalInit \/ PortalIdle => PortalInv
<1>1. ASSUME PortalInit  PROVE PortalInv
  <2>1. PICK a \in Accounts \cup {Blank}, r \in Roles \cup {Blank} :
          binding = NewBinding(a, r)
    BY <1>1 DEF PortalInit
  <2>2. binding \in BindingSet /\ binding.pc = "accounts"
    BY <2>1 DEF NewBinding, BindingSet
  <2>3. directory \in DirectorySet /\ changes \in Nat /\ listing = NewListing
    BY <1>1, PortalAssumption DEF PortalInit, DirectorySet, PortalAssumption
  <2>4. Listed \in Seq(Items)
    BY <2>3 DEF Listed, DirectorySet
  <2>5. ListingExact /\ BindingIsOffered
    BY <2>2, <2>3, <2>4, NewListingSet, FirstPage
    DEF ListingExact, BindingIsOffered
  <2>. QED  BY <2>2, <2>3, <2>5, NewListingSet DEF PortalInv
<1>2. ASSUME PortalIdle  PROVE PortalInv
  <2>. DEFINE b == NewBinding(Blank, Blank)
  <2>1. b \in BindingSet
    BY DEF NewBinding, BindingSet
  <2>2. binding = [b EXCEPT !.pc = "failed"]
    BY <1>2 DEF PortalIdle
  <2>. HIDE DEF b
  <2>3. binding \in BindingSet /\ binding.pc = "failed"
    BY <2>1, <2>2 DEF BindingSet
  <2>4. listing \in ListingSet
    BY <1>2, NewListingSet DEF PortalIdle, ListingSet
  <2>5. directory \in DirectorySet /\ changes \in Nat
    BY <1>2 DEF PortalIdle, DirectorySet
  <2>. QED  BY <2>3, <2>4, <2>5 DEF PortalInv, ListingExact, BindingIsOffered
<1>. QED  BY <1>1, <1>2

PageSet == [total : Int, page : Int, size : Int, rows : Seq(Items)]

LEMMA HonestPageSet ==
  ASSUME PortalInv
  PROVE  /\ HonestPage \in PageSet /\ HonestPage.total = Len(Listed)
         /\ HonestPage.page = listing.page /\ HonestPage.size = PageSize
<1>. DEFINE low == (listing.page - 1) * PageSize + 1
            high == listing.page * PageSize
            rows == SubSeq(Listed, low,
                           IF high < Len(Listed) THEN high ELSE Len(Listed))
<1>1. low \in Nat \ {0} /\ high \in Nat
  BY PortalTypes, PortalAssumption DEF PortalAssumption
<1>2. rows \in Seq(Items) /\ Len(Listed) \in Int
  <2>. HIDE DEF low, high
  <2>1. (IF high < Len(Listed) THEN high ELSE Len(Listed)) \in 0..Len(Listed)
    BY <1>1, PortalTypes
  <2>. QED  BY <1>1, <2>1, PortalTypes
<1>3. HonestPage = [total |-> Len(Listed), page |-> listing.page,
                    size |-> PageSize, rows |-> rows]
  BY DEF HonestPage
<1>. HIDE DEF rows
<1>. QED  BY <1>2, <1>3, PortalTypes, PortalAssumption DEF PageSet, PortalAssumption

LEMMA PagesSet ==
  ASSUME PortalInv, NEW p \in Pages
  PROVE  p \in PageSet
<1>. DEFINE h == HonestPage
            endless == [h EXCEPT !.total = listing.page * PageSize + 1,
                                 !.rows = << >>]
<1>1. h \in PageSet /\ listing.page * PageSize + 1 \in Int
      /\ << >> \in Seq(Items)
  BY HonestPageSet, PortalTypes, PortalAssumption DEF PortalAssumption
<1>2. p \in {h, endless, [h EXCEPT !.page = h.page + 1],
             [h EXCEPT !.size = 0], [h EXCEPT !.total = -1]}
  BY DEF Pages, EndlessPage
<1>. HIDE DEF h
<1>3. endless \in PageSet
  BY <1>1 DEF PageSet
<1>4. [h EXCEPT !.page = h.page + 1] \in PageSet
  BY <1>1 DEF PageSet
<1>5. [h EXCEPT !.size = 0] \in PageSet /\ [h EXCEPT !.total = -1] \in PageSet
  BY <1>1 DEF PageSet
<1>. HIDE DEF endless
<1>. QED  BY <1>1, <1>2, <1>3, <1>4, <1>5

LEMMA NextPage ==
  ASSUME NEW n \in Nat
  PROVE  /\ Following(n + 1) <=> n * PageSize <= Len(Listed)
         /\ Before(n + 1) = SubSeq(Listed, 1, n * PageSize)
<1>. DEFINE k == n + 1
<1>1. k - 1 = n
  OBVIOUS
<1>. HIDE DEF k
<1>2. /\ Following(k) <=> n * PageSize <= Len(Listed)
      /\ Before(k) = SubSeq(Listed, 1, n * PageSize)
  BY <1>1 DEF Following, Before
<1>. QED  BY <1>2 DEF k

\* An honest page continues the rows, and says rightly whether it is the last.
LEMMA HonestPageContinues ==
  ASSUME PortalInv, Following(listing.page), listing.rows = Before(listing.page)
  PROVE  LET rows == listing.rows \o HonestPage.rows IN
           IF MorePages(HonestPage)
             THEN Following(listing.page + 1) /\ rows = Before(listing.page + 1)
             ELSE rows = Listed
<1>. DEFINE k == (listing.page - 1) * PageSize
            last == listing.page * PageSize
            m == IF last < Len(Listed) THEN last ELSE Len(Listed)
            rows == listing.rows \o HonestPage.rows
<1>1. /\ k \in Nat /\ last \in Nat /\ k <= last /\ k <= Len(Listed)
      /\ Len(Listed) \in Nat
      /\ (listing.page + 1 - 1) * PageSize = last
  BY PortalTypes, PortalAssumption DEF PortalAssumption, Following
<1>2. HonestPage.rows = SubSeq(Listed, k + 1, m)
  BY DEF HonestPage
<1>3. listing.rows = SubSeq(Listed, 1, k)
  BY DEF Before
<1>4. MorePages(HonestPage) <=> Len(Listed) > 0 /\ last <= Len(Listed) - 1
  <2>1. CASE Len(Listed) = 0
    BY <2>1, HonestPageSet DEF MorePages
  <2>2. CASE Len(Listed) > 0
    <3>1. Len(Listed) - 1 \in Nat /\ listing.page \in Nat
      BY <1>1, <2>2, PortalTypes
    <3>2. listing.page <= (Len(Listed) - 1) \div PageSize
            <=> last <= Len(Listed) - 1
      BY <3>1, Division, PortalAssumption DEF PortalAssumption
    <3>. QED  BY <2>2, <3>2, HonestPageSet DEF MorePages
  <2>. QED  BY <1>1, <2>1, <2>2
<1>5. /\ Following(listing.page + 1) <=> last <= Len(Listed)
      /\ Before(listing.page + 1) = SubSeq(Listed, 1, last)
  BY NextPage, PortalTypes
<1>. HIDE DEF k, last
<1>6. m \in k..Len(Listed) /\ k \in 0..Len(Listed)
  BY <1>1
<1>. HIDE DEF m
<1>7. rows = SubSeq(Listed, 1, m)
  BY <1>2, <1>3, <1>6, PagesJoin, PortalTypes
<1>8. CASE MorePages(HonestPage)
  <2>1. m = last
    BY <1>1, <1>4, <1>8 DEF m
  <2>. QED  BY <1>1, <1>4, <1>5, <1>7, <1>8, <2>1
<1>9. CASE ~MorePages(HonestPage)
  <2>1. m = Len(Listed)
    BY <1>1, <1>4, <1>9 DEF m
  <2>. QED  BY <1>7, <1>9, <2>1, WholeList, PortalTypes
<1>. QED  BY <1>8, <1>9

\* A step of a listing that takes it to l.
LEMMA ListingMoves ==
  ASSUME PortalInv, NEW l \in ListingSet, listing' = l,
         UNCHANGED <<directory, changes, binding>>, ListingExact'
  PROVE  PortalInv'
BY DEF PortalInv, BindingIsOffered

LEMMA ListPageKeeps == PortalInv /\ ListPage => PortalInv'
<1>. SUFFICES ASSUME PortalInv, ListPage  PROVE PortalInv'
  OBVIOUS
<1>1. PICK p \in Pages :
        LET rows == listing.rows \o p.rows
            next == [listing EXCEPT !.requests = @ + 1, !.rows = rows,
                       !.exact = @ /\ p = HonestPage]
        IN  listing' = IF ~ValidPageMetadata(p)
                         THEN [next EXCEPT !.pc = "failed"]
                         ELSE IF MorePages(p)
                                THEN [next EXCEPT !.page = p.page + 1]
                                ELSE [next EXCEPT !.pc = "done"]
  BY DEF ListPage
<1>. DEFINE rows == listing.rows \o p.rows
            exact == listing.exact /\ p = HonestPage
            next == [listing EXCEPT !.requests = listing.requests + 1,
                       !.rows = rows, !.exact = exact]
<1>2. /\ p \in PageSet /\ rows \in Seq(Items) /\ exact \in BOOLEAN
      /\ listing.requests + 1 \in 0..MaxPages
  <2>1. p \in PageSet /\ p.rows \in Seq(Items)
    BY PagesSet DEF PageSet
  <2>2. rows \in Seq(Items)
    BY <2>1, PortalTypes
  <2>3. listing.requests + 1 \in 0..MaxPages
    BY PortalTypes, PortalAssumption DEF ListPage, Listable, PortalAssumption
  <2>4. exact \in BOOLEAN
    BY Zenon
  <2>. QED  BY <2>1, <2>2, <2>3, <2>4
<1>3. /\ next \in ListingSet /\ next.rows = rows /\ next.exact = exact
      /\ next.pc = "page" /\ next.page = listing.page
  <2>. HIDE DEF rows, exact
  <2>. QED  BY <1>2, PortalTypes DEF ListingSet, ListPage
<1>4. listing' = IF ~ValidPageMetadata(p)
                   THEN [next EXCEPT !.pc = "failed"]
                   ELSE IF MorePages(p)
                          THEN [next EXCEPT !.page = p.page + 1]
                          ELSE [next EXCEPT !.pc = "done"]
  BY <1>1
<1>. HIDE DEF next
<1>5. /\ listing' \in ListingSet
      /\ listing'.rows = rows /\ listing'.exact = exact
      /\ \/ listing'.pc = "failed"
         \/ /\ listing'.pc = "page" /\ MorePages(p)
            /\ p.page = listing.page /\ listing'.page = p.page + 1
         \/ listing'.pc = "done" /\ ~MorePages(p)
  <2>. HIDE DEF rows, exact
  <2>1. CASE ~ValidPageMetadata(p)
    BY <1>3, <1>4, <2>1 DEF ListingSet
  <2>2. CASE ValidPageMetadata(p) /\ MorePages(p)
    <3>1. p.page = listing.page /\ p.page + 1 \in Nat \ {0}
      BY <2>2, PortalTypes DEF ValidPageMetadata
    <3>2. listing' = [next EXCEPT !.page = p.page + 1]
      BY <1>4, <2>2
    <3>. QED  BY <1>3, <2>2, <3>1, <3>2 DEF ListingSet
  <2>3. CASE ValidPageMetadata(p) /\ ~MorePages(p)
    BY <1>3, <1>4, <2>3 DEF ListingSet
  <2>. QED  BY <2>1, <2>2, <2>3
<1>6. ListingExact'
  <2>. SUFFICES ASSUME changes = 0, exact, binding.pc \in {"accounts", "roles"}
                PROVE  ListingExact'
    BY <1>5 DEF ListingExact, ListPage
  <2>1. p = HonestPage /\ Following(listing.page)
        /\ listing.rows = Before(listing.page)
    BY DEF PortalInv, ListingExact, ListPage
  <2>2. IF MorePages(p)
          THEN Following(listing.page + 1) /\ rows = Before(listing.page + 1)
          ELSE rows = Listed
    BY <2>1, HonestPageContinues
  <2>3. Listed' = Listed /\ \A n : (Before(n)' = Before(n)) /\ (Following(n)' <=> Following(n))
    BY DEF ListPage, Listed, Before, Following
  <2>. QED  BY <1>5, <2>2, <2>3 DEF ListingExact
<1>. QED  BY <1>5, <1>6, ListingMoves DEF ListPage

LEMMA ListFailsKeeps == PortalInv /\ ListFails => PortalInv'
<1>. SUFFICES ASSUME PortalInv, ListFails  PROVE PortalInv'
  OBVIOUS
<1>1. listing' \in ListingSet /\ listing'.pc = "failed"
  BY DEF ListFails, PortalInv, ListingSet
<1>. QED  BY <1>1, ListingMoves DEF ListFails, ListingExact

\* A binding that is given up.
LEMMA BindingFails ==
  ASSUME PortalInv, binding' = [binding EXCEPT !.pc = "failed"],
         UNCHANGED <<directory, changes, listing>>
  PROVE  PortalInv'
<1>1. binding' \in BindingSet /\ binding'.pc = "failed"
  BY DEF PortalInv, BindingSet
<1>. QED  BY <1>1 DEF PortalInv, ListingExact, BindingIsOffered

LEMMA ResolveAccountKeeps == PortalInv /\ ResolveAccount => PortalInv'
<1>. SUFFICES ASSUME PortalInv, ResolveAccount  PROVE PortalInv'
  OBVIOUS
<1>1. PICK a \in Choice(binding.account, Accounts) :
        \/ NextListing /\ binding' = [binding EXCEPT !.pc = "roles", !.account = a]
        \/ /\ binding' = [binding EXCEPT !.pc = "failed"]
           /\ UNCHANGED <<directory, changes, listing>>
  BY DEF ResolveAccount
<1>2. CASE NextListing /\ binding' = [binding EXCEPT !.pc = "roles", !.account = a]
  <2>1. a \in Accounts \cup {Blank}
    BY PortalTypes DEF Choice, BindingSet
  <2>2. binding' \in BindingSet /\ binding'.pc = "roles"
    BY <1>2, <2>1 DEF PortalInv, BindingSet
  <2>3. Listed' \in Seq(Items) /\ directory' \in DirectorySet
    BY <1>2, <2>2 DEF PortalInv, NextListing, Listed, DirectorySet
  <2>4. ListingExact' /\ BindingIsOffered'
    <3>1. Following(1)' /\ Before(1)' = << >>
      <4>1. (1 - 1) * PageSize = 0
        BY PortalAssumption DEF PortalAssumption
      <4>. QED  BY <2>3, <4>1, WholeList DEF Following, Before
    <3>. QED
      BY <1>2, <2>2, <3>1, NewListingSet
      DEF ListingExact, BindingIsOffered, NextListing
  <2>. QED
    BY <1>2, <2>2, <2>3, <2>4, NewListingSet DEF PortalInv, NextListing
<1>. QED  BY <1>1, <1>2, BindingFails

\* What is bound is a row of the listing that is complete.
LEMMA ResolveRoleKeeps == PortalInv /\ ResolveRole => PortalInv'
<1>. SUFFICES ASSUME PortalInv, ResolveRole  PROVE PortalInv'
  OBVIOUS
<1>. PICK r \in Choice(binding.role, Roles) :
       binding' = IF \E i \in UsableRoles : i.role = r
                    THEN [binding EXCEPT !.pc = "done", !.role = r,
                            !.offered = ToSet(listing.rows)]
                    ELSE [binding EXCEPT !.pc = "failed"]
  BY DEF ResolveRole
<1>1. CASE \E i \in UsableRoles : i.role = r
  <2>. DEFINE rows == ToSet(listing.rows)
  <2>1. rows \in SUBSET Items
    BY PortalTypes DEF ToSet
  <2>2. PICK i \in rows : i.role = r /\ i.account = binding.account
    BY <1>1 DEF UsableRoles
  <2>3. binding' = [binding EXCEPT !.pc = "done", !.role = r, !.offered = rows]
    BY <1>1
  <2>. HIDE DEF rows
  <2>4. r \in Roles \cup {Blank}
    BY PortalTypes DEF Choice, BindingSet
  <2>5. /\ binding' \in BindingSet /\ binding'.pc = "done" /\ binding'.role = r
        /\ binding'.offered = rows /\ binding'.account = binding.account
    BY <2>1, <2>3, <2>4 DEF PortalInv, BindingSet
  <2>6. [account |-> binding.account, role |-> r] = i
    BY <2>1, <2>2 DEF Items
  <2>7. BindingIsOffered' /\ ListingExact'
    BY <2>2, <2>5, <2>6 DEF BindingIsOffered, ListingExact
  <2>. QED  BY <2>5, <2>7 DEF PortalInv, ResolveRole
<1>2. CASE ~\E i \in UsableRoles : i.role = r
  BY <1>2, BindingFails DEF ResolveRole
<1>. QED  BY <1>1, <1>2

LEMMA DirectoryChangesKeeps == PortalInv /\ DirectoryChanges => PortalInv'
<1>. SUFFICES ASSUME PortalInv, DirectoryChanges  PROVE PortalInv'
  OBVIOUS
<1>. DEFINE e == listing.pc # "page" /\ listing.exact
<1>1. listing' = [listing EXCEPT !.exact = e] /\ e \in BOOLEAN
  BY PortalTypes DEF DirectoryChanges
<1>. HIDE DEF e
<1>2. listing' \in ListingSet
  BY <1>1, PortalTypes DEF ListingSet
<1>3. /\ directory' \in DirectorySet /\ changes' \in Nat /\ changes' # 0
  BY PortalAssumption
  DEF DirectoryChanges, PortalInv, DirectorySet, PortalAssumption
<1>. QED
  BY <1>2, <1>3
  DEF PortalInv, ListingExact, BindingIsOffered, DirectoryChanges

LEMMA PortalKeeps == PortalInv /\ [PortalNext]_portalVars => PortalInv'
<1>. SUFFICES ASSUME PortalInv, [PortalNext]_portalVars  PROVE PortalInv'
  OBVIOUS
<1>1. CASE UNCHANGED portalVars
  BY <1>1 DEF portalVars, PortalInv, ListingExact, BindingIsOffered, Listed,
              Following, Before
<1>2. CASE ResolveFails
  BY <1>2, BindingFails DEF ResolveFails
<1>. QED
  BY <1>1, <1>2, ListPageKeeps, ListFailsKeeps, ResolveAccountKeeps,
     ResolveRoleKeeps, DirectoryChangesKeeps
  DEF PortalNext, PortalStep

LEMMA PortalInvGives == PortalInv => PortalTypeOK /\ BindingIsExact
BY DEF PortalInv, PortalTypeOK, DirectorySet, ListingSet, BindingSet,
       BindingIsExact, ListingIsExact, ListingExact

-----------------------------------------------------------------------------
(* All of them                                                              *)

IInv == DeviceInv /\ PortalInv /\ CallbackInv /\ RoleInv

LEMMA Starts == Init => IInv
<1>. SUFFICES ASSUME Init  PROVE IInv
  OBVIOUS
<1>1. DeviceInv
  BY DeviceStarts DEF Init
<1>2. PortalInv
  BY PortalStarts DEF Init
<1>3. CallbackInv
  BY CallbackStarts DEF Init
<1>4. RoleInv
  BY RoleStarts DEF Init
<1>. QED  BY <1>1, <1>2, <1>3, <1>4 DEF IInv

LEMMA Keeps == IInv /\ [Next]_vars => IInv'
<1>. SUFFICES ASSUME IInv, [Next]_vars  PROVE IInv'
  OBVIOUS
<1>1. [DeviceStep]_ssoVars
  BY DEF Next, vars, SsoLogin, ConsoleAuthorization, User, Resolve, Change,
         CodeLogin, Browser, RoleAny, NotRole, DeviceStep
<1>2. [PortalNext]_portalVars
  BY DEF Next, vars, SsoLogin, ConsoleAuthorization, User, Resolve, Change,
         CodeLogin, Browser, RoleAny, NotRole, NotPortal, PortalNext
<1>3. [CallbackNext]_callbackVars
  BY DEF Next, vars, SsoLogin, ConsoleAuthorization, User, Resolve, Change,
         CodeLogin, Browser, RoleAny, NotRole, NotPortal, CallbackNext
<1>4. [Tick \/ \E c \in Callers : RoleStep(c)]_roleVars
  BY DEF Next, vars, SsoLogin, ConsoleAuthorization, User, Resolve, Change,
         CodeLogin, Browser, RoleAny, NotPortal
<1>. QED
  BY <1>1, <1>2, <1>3, <1>4, DeviceKeeps, PortalKeeps, CallbackKeeps, RoleKeeps
  DEF IInv

LEMMA InductiveInvariant == Spec => []IInv
BY Starts, Keeps, PTL DEF Spec

\* A call is attempted as often as it may be and not more, every answer that
\* is not returned is closed before the wait, and the wait is as long as the
\* server asks for, within the limits (retry.go:206, retry.go:379), with every
\* limit and every number a server may send.
THEOREM RetriesAreBounded == Spec => []RetriesAsAsked
<1>1. IInv => RetriesAsAsked
  BY DeviceInvGives DEF IInv
<1>. QED  BY <1>1, InductiveInvariant, PTL

\* The state keeps its types, and neither device flow polls sooner than the
\* server asks or after the code has expired (device_flow.go:456 of auth/sso,
\* device.go:107 of auth/console).
THEOREM PollingIsAgreed == Spec => []PollsAsAgreed
<1>1. IInv => PollsAsAgreed
  BY DeviceInvGives, PortalInvGives, CallbackInvGives DEF IInv, PollsAsAgreed
<1>. QED  BY <1>1, InductiveInvariant, PTL

\* What the server hands out once, a client or a token, is neither asked for
\* twice nor thrown away nor taken for an error (device_flow.go:298 of auth/sso,
\* device.go:220 of auth/console).
THEOREM GrantsSurvive == Spec => []GrantsAreKept
<1>1. IInv => GrantsAreKept
  BY DeviceInvGives DEF IInv, GrantsAreKept
<1>. QED  BY <1>1, InductiveInvariant, PTL

\* Accounts and roles are listed whole, in order and once each, in MaxPages
\* requests at most (portal_client.go:111), and what a profile is bound to is
\* one of them (service.go:74), whatever the size and number of the pages.
THEOREM BindingIsListed == Spec => []BindingIsExact
<1>1. IInv => BindingIsExact
  BY PortalInvGives DEF IInv
<1>. QED  BY <1>1, InductiveInvariant, PTL

\* A code that Authorize returns came with the state of this login in the first
\* callback that was taken, and the port is closed by then (authorize.go:245),
\* however many requests the browser makes at whatever moment.
THEOREM CallbackAnswersOnce == Spec => []CallbackIsSafe
<1>1. IInv => CallbackIsSafe
  BY CallbackInvGives DEF IInv
<1>. QED  BY <1>1, InductiveInvariant, PTL

\* Of the requests that find no usable credential one refreshes it, and none
\* refreshes one that another has just refreshed (ramrole/provider.go:128).
THEOREM OneRefresh == Spec => []RefreshedOnce
<1>1. IInv => RefreshedOnce
  BY RoleInvGives DEF IInv
<1>. QED  BY <1>1, InductiveInvariant, PTL

\* A credential that is returned outlives the refresh window, whoever fetched
\* it, a caller that came to the gate too late gets none, and none of AssumeRole
\* outlives an hour (ramrole/provider.go:136, sts/client.go:260).
THEOREM ReturnedRoleIsUsable == Spec => []RoleCredentialIsUsable
<1>1. IInv => RoleCredentialIsUsable
  BY RoleInvGives DEF IInv
<1>. QED  BY <1>1, InductiveInvariant, PTL
=============================================================================
