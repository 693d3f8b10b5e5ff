-------------------------- MODULE MCAuthorization --------------------------
(***************************************************************************)
(* The ways in which a command obtains an authorization, one of them per    *)
(* behavior: the device flow of SSO, that of the console, the binding of an *)
(* account and a role, the legacy authorizers with a callback, and the      *)
(* credential of a role that several requests share.                        *)
(***************************************************************************)
EXTENDS SsoDeviceFlow, ConsoleDeviceFlow, SsoPortal, CallbackAuthorizer,
        RoleProvider

vars == <<ssoVars, portalVars, callbackVars, roleVars>>

MCRegistrations ==
  {NoRegistration, [NoRegistration EXCEPT !.state = "unreadable"]} \cup
  {[state |-> "parsed", client |-> c[1], expires |-> c[2]] :
     c \in {<<0, 0>>, <<1, 0>>, <<1, -1>>}}

Account(a) == [account |-> a, role |-> NoRole]
MCDirectories ==
  [accounts : {<<>>, <<Account("a"), Account("b")>>,
               <<Account("a"), Account(Blank), Account("b")>>},
   roles : {<<[account |-> "a", role |-> "r"], [account |-> "b", role |-> "s"],
              [account |-> "a", role |-> Blank]>>,
            <<[account |-> Blank, role |-> "r"],
              [account |-> "a", role |-> "s"]>>}]

Init ==
  \/ SsoInit /\ PortalIdle /\ CallbackIdle /\ RoleIdle
  \/ ConsoleInit /\ SsoIdle /\ PortalIdle /\ CallbackIdle /\ RoleIdle
  \/ PortalInit /\ GrantIdle /\ SsoIdle /\ CallbackIdle /\ RoleIdle
  \/ CallbackInit /\ GrantIdle /\ SsoIdle /\ PortalIdle /\ RoleIdle
  \/ RoleInit /\ GrantIdle /\ SsoIdle /\ PortalIdle /\ CallbackIdle

NotPortal == UNCHANGED <<portalVars, callbackVars, roleVars>>
SsoLogin == flow.kind = "sso" /\ SsoStep /\ NotPortal
ConsoleAuthorization ==
  flow.kind = "console" /\ ConsoleStep /\ UNCHANGED diskVars /\ NotPortal
User == UserOrContext /\ UNCHANGED diskVars /\ NotPortal
Resolve == PortalStep /\ UNCHANGED <<ssoVars, callbackVars, roleVars>>
Change == DirectoryChanges /\ UNCHANGED <<ssoVars, callbackVars, roleVars>>
CodeLogin == CallbackStep /\ UNCHANGED <<ssoVars, portalVars, roleVars>>
Browser ==
  (RequestArrives \/ ServeFails) /\ UNCHANGED <<ssoVars, portalVars, roleVars>>

NotRole == UNCHANGED <<ssoVars, portalVars, callbackVars>>
RoleLocal(c) == Local(c) /\ NotRole
RoleAny == (Tick \/ \E c \in Callers : RoleStep(c)) /\ NotRole

Next ==
  \/ SsoLogin \/ ConsoleAuthorization \/ User
  \/ Resolve \/ Change \/ CodeLogin \/ Browser
  \/ RoleAny

Spec ==
  /\ Init /\ [][Next]_vars
  /\ WF_vars(SsoLogin) /\ WF_vars(ConsoleAuthorization)
  /\ WF_vars(Resolve) /\ WF_vars(CodeLogin)
  /\ \A c \in Callers : WF_vars(RoleLocal(c))

-----------------------------------------------------------------------------
(* Properties of both device flows, and of all waiting                      *)

(***************************************************************************)
(* Neither poller asks sooner than the server allows or after the device    *)
(* code has expired (device_flow.go:456 of auth/sso, device.go:107 of       *)
(* auth/console).                                                           *)
(***************************************************************************)
PollsAsAgreed ==
  /\ SsoTypeOK /\ PortalTypeOK /\ CallbackTypeOK
  /\ PollsAsAsked /\ ConsolePollsAsAskedUpToMax

(***************************************************************************)
(* What the server hands out once is neither asked for twice nor thrown     *)
(* away: a login registers at most one client and goes on only with one     *)
(* that is on disk (oauth_client.go:209, device_flow.go:298 of auth/sso),   *)
(* and a token that was granted is not lost because of a deadline, nor      *)
(* taken for an error (device_flow.go:469, device.go:220 of auth/console).  *)
(***************************************************************************)
GrantsAreKept == RegistrationIsKept /\ GrantIsKept /\ ConsoleGrantIsKept

(***************************************************************************)
(* Every wait ends by itself, whatever servers, users and browsers do: a    *)
(* login over a device code, a login over a callback, the listing of the    *)
(* portal, and a request that was cancelled while another refreshes the     *)
(* credential (retry.go:379, callback.go:251, portal_client.go:451,         *)
(* ramrole/provider.go:128).                                                *)
(***************************************************************************)
CallsEnd ==
  LoginEnds /\ AuthorizerReturns /\ ResolutionEnds /\ CancelledCallerReturns
=============================================================================
