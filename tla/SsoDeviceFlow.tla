---------------------------- MODULE SsoDeviceFlow ----------------------------
(***************************************************************************)
(* DeviceFlow.Login of auth/sso: the client registration is reused or made  *)
(* anew, a device authorization is started, the user approves it in a       *)
(* browser while the flow polls for the token, and the token is persisted.  *)
(* The caller holds the token lock (SsoCommands), the registration is read  *)
(* and written under the client lock, which only the same session's logins  *)
(* contend for; so one flow at a time is modelled.                          *)
(***************************************************************************)
EXTENDS DeviceGrant

CONSTANTS
  Registrations, \* client registrations that may be on disk
  ClientExpiries,\* client_secret_expires_at of a new one, 0 for never
  TokenLives,    \* expires_in of the token
  Faults         \* "io": a write to the cache fails

\* A registration on disk.  client 0 is one without id or secret.
RegistrationSet ==
  [state : {"missing", "unreadable", "parsed"}, client : Nat, expires : Int]

ASSUME SsoFlowAssumption ==
  /\ Registrations \subseteq RegistrationSet
  /\ ClientExpiries \subseteq Int /\ TokenLives \subseteq Int
  /\ Faults \subseteq {"io"}

VARIABLES
  registration, \* the client registration cache file
  registered,   \* number of clients the server has registered
  tokenFile     \* the token cache file: the client it was issued to, 0 if none

diskVars == <<registration, registered, tokenFile>>
ssoVars == <<grantVars, diskVars>>

SsoTypeOK ==
  /\ GrantTypeOK
  /\ flow.kind = "sso" => flow.interval \in 0..MaxDuration
  /\ registration \in RegistrationSet
  /\ registered \in Nat /\ tokenFile \in Nat

SsoInit ==
  /\ GrantInit("sso")
  /\ registration \in Registrations
  /\ registered = 1 /\ tokenFile = 0

NoRegistration == [state |-> "missing", client |-> 0, expires |-> 0]
SsoIdle == registration = NoRegistration /\ registered = 1 /\ tokenFile = 0

-----------------------------------------------------------------------------
(* Client registration                                                      *)

Complete(r) == r.state = "parsed" /\ r.client # 0

\* isValidClientRegistration and validateRegisterClientResponse; zero is never.
Unexpired(expires) == expires = 0 \/ now < expires

UseClient(c) ==
  /\ flow' = [flow EXCEPT !.pc = "authorize", !.client = c]
  /\ Begin(Attempts)

\* Mutant of Register: registration is retried like everything else.
RegisterRetried ==
  /\ flow' = [flow EXCEPT !.pc = "register"]
  /\ Begin(Attempts)

\* RegisterClient is not idempotent: one attempt.
Register ==
  /\ flow' = [flow EXCEPT !.pc = "register"]
  /\ Begin(1)

(***************************************************************************)
(* ensureClient: reuse a complete registration that has not expired, ask    *)
(* for another one when there is none or it has expired, and leave a file   *)
(* that cannot be read or is not complete alone.                            *)
(***************************************************************************)
EnsureClient ==
  /\ flow.pc = "start"
  /\ IF Complete(registration)
       THEN IF Unexpired(registration.expires)
              THEN UseClient(registration.client)
              ELSE Register
       ELSE IF registration.state = "missing"
              THEN Register
              ELSE End("failed")
  /\ UNCHANGED <<now, cancelled, grant, diskVars>>

\* The server registers the client; its answer may be lost or carry no secret.
RegisterAttempt ==
  /\ flow.pc = "register"
  /\ \/ /\ \E body \in {"client", "incomplete"} : Attempt(Response("ok", body))
        /\ registered' = registered + 1
     \/ \E a \in Faulty :
          Attempt(a) /\ registered' \in {registered, registered + 1}
     \/ Attempt(Response("refused", "invalid_request")) /\ UNCHANGED registered
  /\ UNCHANGED <<grant, flow, registration, tokenFile>>

\* The clock is read again: the secret may have expired on the way.
KeepClient ==
  /\ Answered("register", "client")
  /\ \/ \E e \in ClientExpiries :
          IF Unexpired(e)
            THEN /\ UseClient(registered)
                 /\ registration' = [state |-> "parsed",
                                     client |-> registered, expires |-> e]
            ELSE End("failed") /\ UNCHANGED registration
     \/ "io" \in Faults /\ End("failed") /\ UNCHANGED registration
  /\ UNCHANGED <<now, cancelled, grant, registered, tokenFile>>

-----------------------------------------------------------------------------
(* Polling                                                                  *)

\* Mutant of SecondsToDuration: no defence against overflow.
SecondsToDurationWraps(s) == [ok |-> s > 0, d |-> Wrap(s)]

SecondsToDuration(s) == [ok |-> s > 0 /\ s <= MaxDuration, d |-> s]

(***************************************************************************)
(* StartDeviceAuthorization and pollForToken before its loop: a missing     *)
(* lifetime and a negative interval are refused, an interval of zero is the *)
(* default, and neither may overflow.                                       *)
(***************************************************************************)
StartPolling ==
  /\ Answered("authorize", "code")
  /\ LET life == SecondsToDuration(grant.lifetime)
         every == IF grant.interval = 0
                    THEN [ok |-> TRUE, d |-> DefaultInterval]
                    ELSE SecondsToDuration(grant.interval)
     IN  IF life.ok /\ every.ok
           THEN /\ flow' = [flow EXCEPT !.pc = "poll", !.interval = every.d,
                              !.deadline = now + life.d, !.polled = now]
                /\ call' = Idle
           ELSE End("failed")
  /\ UNCHANGED <<now, cancelled, grant, diskVars>>

\* One turn of the loop: sleep, at most to the deadline, and poll before it.
PollAgain ==
  /\ flow.pc = "poll" /\ ~cancelled
  /\ LET sleep == AtMost(flow.interval, flow.deadline - now) IN
     IF sleep <= 0
       THEN End("timeout") /\ UNCHANGED now
       ELSE /\ now' = now + sleep
            /\ IF now' < flow.deadline
                 THEN /\ flow' = [flow EXCEPT !.pc = "exchange"]
                      /\ BeginAt(now', Attempts)
                 ELSE End("timeout")
  /\ UNCHANGED <<cancelled, grant, diskVars>>

PollCancelled ==
  /\ flow.pc = "poll" /\ cancelled
  /\ End("cancelled")
  /\ UNCHANGED <<now, cancelled, grant, diskVars>>

SlowedDown == flow.interval + SlowDown

\* The OAuth error code of a refusal decides whether the flow goes on.
PollRefused ==
  /\ Refused("exchange")
  /\ LET code == call.answer.body IN
     IF code = "authorization_pending" \/
        (code = "slow_down" /\ SlowedDown <= MaxDuration)
       THEN /\ flow' = [flow EXCEPT !.pc = "poll", !.polled = now,
                 !.interval = IF code = "slow_down" THEN SlowedDown ELSE @]
            /\ call' = Idle
       ELSE End(IF code = "access_denied" THEN "denied" ELSE "failed")
  /\ UNCHANGED <<now, cancelled, grant, diskVars>>

\* What the retry client gives up on ends the flow.
PollFails ==
  /\ ~Refused("exchange")
  /\ CallFails("exchange", "token")
  /\ UNCHANGED diskVars

\* Mutant of PersistToken: a token that comes after the deadline is dropped.
PersistTokenInTime ==
  /\ Answered("exchange", "token")
  /\ \E s \in TokenLives :
       IF SecondsToDuration(s).ok /\ now < flow.deadline
         THEN End("ok") /\ tokenFile' = flow.client
         ELSE End("timeout") /\ UNCHANGED tokenFile
  /\ UNCHANGED <<now, cancelled, grant, registration, registered>>

\* The lifetime of the token is checked and the cache written.
PersistToken ==
  /\ Answered("exchange", "token")
  /\ \/ \E s \in TokenLives :
          IF SecondsToDuration(s).ok
            THEN End("ok") /\ tokenFile' = flow.client
            ELSE End("unusable") /\ UNCHANGED tokenFile
     \/ /\ "io" \in Faults
        /\ End("unsaved")
        /\ tokenFile' \in {tokenFile, flow.client}
  /\ UNCHANGED <<now, cancelled, grant, registration, registered>>

SsoStep ==
  \/ EnsureClient \/ RegisterAttempt \/ KeepClient
  \/ CallFails("register", "client") /\ UNCHANGED diskVars
  \/ AuthorizeAttempt /\ UNCHANGED diskVars
  \/ CallFails("authorize", "code") /\ UNCHANGED diskVars
  \/ StartPolling \/ PollAgain \/ PollCancelled
  \/ ExchangeAttempt /\ UNCHANGED diskVars
  \/ PollRefused \/ PollFails \/ PersistToken
  \/ RetryLoop /\ UNCHANGED diskVars

SsoNext == SsoStep \/ (UserOrContext /\ UNCHANGED diskVars)
SsoSpec == SsoInit /\ [][SsoNext]_ssoVars /\ WF_ssoVars(SsoStep)

-----------------------------------------------------------------------------
(* Properties                                                               *)

(***************************************************************************)
(* RegisterClient is not idempotent (oauth_client.go:168): however its      *)
(* attempt ends, a login leaves at most one new client at the server, and   *)
(* none when the registration on disk can be used or cannot be read.        *)
(***************************************************************************)
RegistersOnce ==
  /\ registered <= 2
  /\ registration.state = "unreadable" => registered = 1

(***************************************************************************)
(* ensureClient (device_flow.go:236) fails closed: from the device          *)
(* authorization on, the client in use is the one on disk, so that the next *)
(* login and the refresh of the token find it.                              *)
(***************************************************************************)
ClientIsOnDisk ==
  /\ flow.kind = "sso" /\ flow.pc \in {"authorize", "poll", "exchange"} =>
       Complete(registration) /\ registration.client = flow.client
  /\ tokenFile # 0 => registration.client = tokenFile

(***************************************************************************)
(* pollForToken (device_flow.go:426) never polls faster than the server     *)
(* asks, whatever interval it announces and however often it says           *)
(* slow_down, and begins no poll at or after the deadline.                  *)
(***************************************************************************)
PollsAsAsked ==
  flow.kind = "sso" /\ flow.pc = "exchange" /\ call.pc = "try" /\ call.n = 1 =>
    /\ now - flow.polled >= grant.asked
    /\ now < flow.deadline

(***************************************************************************)
(* A token the server has handed out is not thrown away, also when the      *)
(* context ends or the code expires meanwhile: Login fails after the grant  *)
(* only if the answer was lost, the cache cannot be written or the          *)
(* announced lifetime is unusable, and what it returns is in the cache.     *)
(***************************************************************************)
GrantIsKept ==
  flow.kind = "sso" /\ flow.pc = "done" =>
    /\ flow.out = "ok" => grant.state = "consumed" /\ tokenFile = flow.client
    /\ grant.state = "consumed" /\ ~grant.lost =>
         flow.out \in {"ok", "unsaved", "unusable"}
    /\ flow.out = "denied" => grant.state = "denied"

(***************************************************************************)
(* A login registers at most one client, and goes on only with a client     *)
(* that later logins find on disk (oauth_client.go:209,                     *)
(* device_flow.go:298).                                                     *)
(***************************************************************************)
RegistrationIsKept ==
  RegistersOnce /\ ClientIsOnDisk
=============================================================================
