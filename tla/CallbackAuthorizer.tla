------------------------- MODULE CallbackAuthorizer -------------------------
(***************************************************************************)
(* The two authorizers of auth/console that obtain an authorization code:   *)
(* LocalAuthorizer with its loopback CallbackServer, and RemoteAuthorizer,  *)
(* which reads a pasted response.  The requests of the browser run in       *)
(* goroutines of their own and race with one another, with the timeout and  *)
(* with the shutdown of the server.                                         *)
(***************************************************************************)
EXTENDS Integers, FiniteSets

CONSTANTS
  Requests, \* identities of the requests the browser makes
  None

VARIABLES
  listener, \* "none", "open", "closed"
  serving,  \* the goroutine of Start: "no", "yes", "stopped"
  handlers, \* the requests in progress: request -> its query
  seen,     \* requests that were made
  slot,     \* the channel result, of capacity one
  first,    \* the result that went into it, kept for the properties
  serveErr, \* the channel serveErr holds an error
  expired,  \* the context of the wait is done
  auth      \* the Authorize in progress

callbackVars ==
  <<listener, serving, handlers, seen, slot, first, serveErr, expired, auth>>

\* What a callback carries; state tells the one of this login from others.
Callbacks == [error : BOOLEAN, code : BOOLEAN, state : {"ours", "other"}]
AuthPCs == {"start", "url", "serve", "wait", "check", "cleanup", "done"}
Outs == {"none", "ok", "failed", "oauth_error", "no_code", "bad_state",
         "cleanup_failed"}

CallbackTypeOK ==
  /\ listener \in {"none", "open", "closed"}
  /\ serving \in {"no", "yes", "stopped"}
  /\ seen \subseteq Requests
  /\ DOMAIN handlers \subseteq seen
  /\ \A r \in DOMAIN handlers : handlers[r] \in Callbacks
  /\ {slot, first, auth.result} \subseteq Callbacks \cup {None}
  /\ serveErr \in BOOLEAN /\ expired \in BOOLEAN
  /\ auth.pc \in AuthPCs /\ auth.out \in Outs

AuthorizeAt(pc) ==
  /\ listener = "none" /\ serving = "no"
  /\ handlers = [r \in {} |-> None] /\ seen = {}
  /\ slot = None /\ first = None
  /\ serveErr = FALSE /\ expired = FALSE
  /\ auth = [pc |-> pc, result |-> None, out |-> "none", leak |-> FALSE]

CallbackInit == AuthorizeAt("start")
\* No login through a callback is under way.
CallbackIdle == AuthorizeAt("done")

-----------------------------------------------------------------------------
(* LocalAuthorizer.Authorize                                                *)

browserVars == <<handlers, seen, slot, first>>

\* NewCallbackServer closes whatever listener it cannot use.
CreateServer ==
  /\ auth.pc = "start"
  /\ \/ listener' = "open" /\ auth' = [auth EXCEPT !.pc = "url"]
     \/ /\ listener' \in {"none", "closed"}
        /\ auth' = [auth EXCEPT !.pc = "done", !.out = "failed"]
  /\ UNCHANGED <<serving, browserVars, serveErr, expired>>

\* BuildAuthorizeURL may refuse; from here on the deferred cleanup runs.
BuildURL ==
  /\ auth.pc = "url"
  /\ \/ auth' = [auth EXCEPT !.pc = "serve"]
     \/ auth' = [auth EXCEPT !.pc = "cleanup", !.out = "failed"]
  /\ UNCHANGED <<listener, serving, browserVars, serveErr, expired>>

\* Start; the browser is opened as far as possible.
StartServer ==
  /\ auth.pc = "serve"
  /\ serving' = "yes"
  /\ auth' = [auth EXCEPT !.pc = "wait"]
  /\ UNCHANGED <<listener, browserVars, serveErr, expired>>

\* The select of Wait: any of its cases that are ready.
WaitReturns ==
  /\ auth.pc = "wait"
  /\ \/ /\ slot # None
        /\ auth' = [auth EXCEPT !.pc = "check", !.result = slot]
        /\ slot' = None /\ UNCHANGED serveErr
     \/ /\ serveErr
        /\ auth' = [auth EXCEPT !.pc = "cleanup", !.out = "failed"]
        /\ serveErr' = FALSE /\ UNCHANGED slot
     \/ /\ expired
        /\ auth' = [auth EXCEPT !.pc = "cleanup", !.out = "failed"]
        /\ UNCHANGED <<slot, serveErr>>
  /\ UNCHANGED <<listener, serving, handlers, seen, first, expired>>

Verdict(r) ==
  IF r.error THEN "oauth_error"
  ELSE IF ~r.code THEN "no_code"
  ELSE IF r.state # "ours" THEN "bad_state" ELSE "ok"

CheckResult ==
  /\ auth.pc = "check"
  /\ auth' = [auth EXCEPT !.pc = "cleanup", !.out = Verdict(auth.result)]
  /\ UNCHANGED <<listener, serving, browserVars, serveErr, expired>>

\* Mutant of Cleanup: the server is shut down only after a failure.
CleanupOnFailure ==
  /\ auth.pc = "cleanup"
  /\ auth' = [auth EXCEPT !.pc = "done"]
  /\ IF auth.out = "ok" THEN UNCHANGED <<listener, serving>>
     ELSE listener' = "closed" /\ serving' = "stopped"
  /\ UNCHANGED <<browserVars, serveErr, expired>>

(***************************************************************************)
(* The deferred cleanup.  Shutdown waits for the requests in progress, for  *)
(* five seconds at most; when it fails Close drops their connections (the   *)
(* handlers run on) and a code that was obtained is not returned.  A        *)
(* listener that cannot be closed leaks.                                    *)
(***************************************************************************)
Cleanup ==
  /\ auth.pc = "cleanup"
  /\ serving' = IF serving = "yes" THEN "stopped" ELSE serving
  /\ \/ /\ DOMAIN handlers = {}
        /\ listener' = "closed"
        /\ auth' = [auth EXCEPT !.pc = "done"]
     \/ \E closed \in BOOLEAN :
          /\ listener' = IF closed THEN "closed" ELSE "open"
          /\ auth' = [auth EXCEPT !.pc = "done", !.leak = ~closed,
               !.out = IF @ = "ok" THEN "cleanup_failed" ELSE @]
  /\ UNCHANGED <<browserVars, serveErr, expired>>

-----------------------------------------------------------------------------
(* The server's goroutines                                                  *)

\* A GET on the callback path; other methods and paths change nothing.
RequestArrives ==
  /\ serving = "yes" /\ listener = "open"
  /\ \E r \in Requests \ seen, q \in Callbacks :
       /\ seen' = seen \cup {r}
       /\ handlers' = [h \in DOMAIN handlers \cup {r} |->
                         IF h = r THEN q ELSE handlers[h]]
  /\ UNCHANGED <<listener, serving, slot, first, serveErr, expired, auth>>

\* deliverOnce with a send that does not block
Deliver(q) ==
  IF first = None THEN slot' = q /\ first' = q ELSE UNCHANGED <<slot, first>>

\* handleCallback answers the page after it has delivered the result.
HandleCallback ==
  \E r \in DOMAIN handlers :
    /\ Deliver(handlers[r])
    /\ handlers' = [h \in DOMAIN handlers \ {r} |-> handlers[h]]
    /\ UNCHANGED <<listener, serving, seen, serveErr, expired, auth>>

\* Serve ends on its own: the error goes to the waiter.
ServeFails ==
  /\ serving = "yes"
  /\ serving' = "stopped" /\ serveErr' = TRUE
  /\ UNCHANGED <<listener, browserVars, expired, auth>>

\* CallbackTimeout, or the user cancels the command.
WaitExpires ==
  /\ auth.pc = "wait" /\ ~expired
  /\ expired' = TRUE
  /\ UNCHANGED <<listener, serving, browserVars, serveErr, auth>>

-----------------------------------------------------------------------------
(* RemoteAuthorizer.Authorize                                               *)

\* What is pasted: whether it can be read and decoded, and its fields.
Pasted == [readable : BOOLEAN, decodes : BOOLEAN, codes : 0..2, states : 0..2,
           blank : BOOLEAN, state : {"ours", "other"}]

PasteVerdict(p) ==
  IF p.readable /\ p.decodes /\ p.codes = 1 /\ p.states = 1 /\ ~p.blank
    THEN IF p.state = "ours" THEN "ok" ELSE "bad_state"
    ELSE "failed"

RemoteAuthorize ==
  /\ auth.pc = "start"
  /\ \E p \in Pasted :
       LET r == [error |-> FALSE, code |-> p.codes = 1 /\ ~p.blank,
                 state |-> p.state]
       IN  auth' = [auth EXCEPT !.pc = "done", !.result = r,
                                !.out = PasteVerdict(p)]
  /\ UNCHANGED <<listener, serving, browserVars, serveErr, expired>>

CallbackStep ==
  \/ CreateServer \/ BuildURL \/ StartServer \/ WaitReturns \/ CheckResult
  \/ Cleanup \/ HandleCallback \/ WaitExpires \/ RemoteAuthorize
CallbackNext == CallbackStep \/ RequestArrives \/ ServeFails
CallbackSpec ==
  CallbackInit /\ [][CallbackNext]_callbackVars /\ WF_callbackVars(CallbackStep)

-----------------------------------------------------------------------------
(* Properties                                                               *)

(***************************************************************************)
(* A code that Authorize returns (authorize.go:245) came with the state of  *)
(* this login, in the first callback the server took, however many others   *)
(* the browser made before, after or at the same time.                      *)
(***************************************************************************)
CodeIsOurs ==
  auth.pc = "done" /\ auth.out = "ok" =>
    /\ auth.result.state = "ours" /\ auth.result.code /\ ~auth.result.error
    /\ first # None => auth.result = first

(***************************************************************************)
(* When Authorize returns, the loopback port is closed, whatever happened   *)
(* before and although requests may still be handled; if it could not be    *)
(* closed, no code is returned.                                             *)
(***************************************************************************)
NothingListens ==
  auth.pc = "done" =>
    /\ serving # "yes"
    /\ listener # "open" \/ (auth.leak /\ auth.out # "ok")

\* Authorize returns although the browser never calls back (callback.go:244).
AuthorizerReturns == <>(auth.pc = "done")

(***************************************************************************)
(* A code that a login takes came with its own state, and when it returns   *)
(* nothing listens for another (callback.go:336, authorize.go:167).         *)
(***************************************************************************)
CallbackIsSafe ==
  CodeIsOurs /\ NothingListens
=============================================================================
