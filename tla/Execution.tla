------------------------------ MODULE Execution ------------------------------
(***************************************************************************)
(* Executor of internal/execution with the transport below it: one          *)
(* invocation of an operation, sent once or, with --page-all, page by page. *)
(* The service is external; its table may change between two pages, it may  *)
(* return smaller pages than it was asked for, and its cursors need not     *)
(* end.                                                                    *)
(*                                                                         *)
(* The input is abstracted to what is wrong with it, if anything; a row is  *)
(* its position in the order the service lists rows in.                     *)
(***************************************************************************)
EXTENDS Integers, Sequences, FiniteSets

CONSTANTS
  Invocations,   \* what may be executed, see Invocation
  Tables,        \* the rows a service may hold at first
  Rows,          \* all rows there can be
  Caps,          \* page sizes a service may insist on; 0: any size
  Credentials,   \* what a provider may retrieve: records [ak, token]
  NoToken,
  CallerTokens,  \* X-Security-Token given as a header, or NoToken
  MaxRowChanges, \* bound on the changes of the table
  FallbackSize   \* fallbackPageSize

ASSUME ExecutionAssumption ==
  /\ Tables \subseteq SUBSET Rows /\ Rows \subseteq Nat \ {0}
  /\ \A table \in Tables : IsFiniteSet(table)
  /\ Caps \subseteq Nat /\ MaxRowChanges \in Nat
  /\ FallbackSize \in Nat \ {0}
  /\ \A c \in Credentials : c = [ak |-> c.ak, token |-> c.token]

(***************************************************************************)
(* An invocation: defect names the first thing wrong with its input or      *)
(* set-up; the pagination of its operation and the parameters given for it  *)
(* ("" or 0 when they are not); auth is how the client signs.               *)
(***************************************************************************)
Defects == {"none", "policy", "missing", "path", "codec", "encoding",
            "transport"}
Modes == {"none", "page_number", "cursor", "other"}
Invocation ==
  [defect : Defects, dryRun : BOOLEAN, pageAll : BOOLEAN, mode : Modes,
   maxPages : Int, defaultSize : Int, size : Int, page : BOOLEAN,
   cursor : BOOLEAN, auth : {"static", "dynamic", "nil"}]

ASSUME InvocationAssumption == Invocations \subseteq Invocation

VARIABLES
  inv,     \* the invocation
  exec,    \* its progress
  service, \* the service: its rows and its habits
  cred,    \* the current credential of the provider
  sent     \* the request sent last

execVars == <<inv, exec, service, cred, sent>>

NotSent == [ak |-> "none", token |-> NoToken, count |-> 0]
NewExec == [pc |-> "start", page |-> 0, cursor |-> 0, rows |-> <<>>,
            size |-> 0, out |-> "none", pages |-> 0, merged |-> FALSE]

ExecInit ==
  /\ inv \in Invocations
  /\ exec = NewExec
  /\ service \in [rows : Tables, cap : Caps, total : BOOLEAN,
                  endless : BOOLEAN, token : CallerTokens, changes : {0}]
  /\ service.endless => inv.mode = "cursor"
  /\ cred \in Credentials
  /\ sent = NotSent

ExecIdle ==
  /\ inv = [defect |-> "none", dryRun |-> FALSE, pageAll |-> FALSE,
            mode |-> "none", maxPages |-> 0, defaultSize |-> 0, size |-> 0,
            page |-> FALSE, cursor |-> FALSE, auth |-> "nil"]
  /\ exec = [NewExec EXCEPT !.pc = "done"]
  /\ service = [rows |-> {}, cap |-> 0, total |-> FALSE, endless |-> FALSE,
                token |-> NoToken, changes |-> 0]
  /\ cred = CHOOSE c \in Credentials : TRUE
  /\ sent = NotSent

-----------------------------------------------------------------------------
(* Execute, up to the first request                                         *)

Finish(out) == exec' = [exec EXCEPT !.pc = "done", !.out = out]

\* prepareFirstPaginatedRequest: pages are counted by the executor alone.
Clashes == inv.page \/ inv.cursor

\* The size sent with every page; a cursor needs none.
PageSize ==
  CASE inv.size > 0 -> inv.size
    [] inv.size <= 0 /\ inv.defaultSize > 0 -> inv.defaultSize
    [] inv.size <= 0 /\ inv.defaultSize <= 0 ->
         IF inv.mode = "page_number" THEN FallbackSize ELSE 0

Unpageable ==
  inv.pageAll /\ (inv.mode = "none" \/ inv.mode = "other" \/ Clashes)

(***************************************************************************)
(* Everything before the first request: validation, building, the codec and *)
(* the pagination.  A dry run stops there with a plan; it needs neither a   *)
(* transport nor a positive max_pages.                                      *)
(***************************************************************************)
Prepare ==
  /\ exec.pc = "start"
  /\ IF inv.defect \notin {"none", "transport"} \/ Unpageable
       THEN Finish("error")
     ELSE IF inv.dryRun THEN Finish("plan")
     ELSE IF inv.defect = "transport" \/ (inv.pageAll /\ inv.maxPages <= 0)
       THEN Finish("error")
     ELSE exec' = [exec EXCEPT !.pc = "request", !.page = 1,
                     !.size = IF inv.pageAll THEN PageSize ELSE 0]
  /\ UNCHANGED <<inv, service, cred, sent>>

-----------------------------------------------------------------------------
(* One request                                                              *)

\* Mutant of SignedToken: the token of the caller's header stays.
SignedTokenLeft ==
  IF cred.token # NoToken THEN cred.token ELSE service.token

\* The signer adds the session token; a dynamic client has removed the
\* caller's before, a static one has not.
SignedToken ==
  IF cred.token # NoToken THEN cred.token
  ELSE IF inv.auth = "dynamic" THEN NoToken ELSE service.token

\* Client.Do signs with what the provider retrieves for this very request.
Send ==
  sent' = [ak |-> cred.ak, token |-> SignedToken, count |-> sent.count + 1]

\* Client.Sign: the credential cannot be retrieved or has no secret.
SignFails ==
  /\ exec.pc = "request"
  /\ exec' = [exec EXCEPT !.pc = "done", !.out = "error"]
  /\ UNCHANGED <<inv, service, cred, sent>>

\* The transport fails, the status is an error, the answer is no list.
RequestFails ==
  /\ exec.pc = "request" /\ inv.auth # "nil"
  /\ Send
  /\ exec' = [exec EXCEPT !.pc = "done", !.out = "error"]
  /\ UNCHANGED <<inv, service, cred>>

\* A page whose items are missing is counted before it is refused.
ItemsMissing ==
  /\ exec.pc = "request" /\ inv.auth # "nil" /\ inv.pageAll
  /\ Send
  /\ exec' = [exec EXCEPT !.pc = "done", !.out = "error", !.pages = @ + 1]
  /\ UNCHANGED <<inv, service, cred>>

SingleAnswer ==
  /\ exec.pc = "request" /\ inv.auth # "nil" /\ ~inv.pageAll
  /\ Send
  /\ Finish("ok")
  /\ UNCHANGED <<inv, service, cred>>

-----------------------------------------------------------------------------
(* The pages                                                                *)

\* The rows up to a position, and all of them in order.
UpTo(c) == Cardinality({r \in service.rows : r <= c})
Listed == [i \in 1..Cardinality(service.rows) |->
             CHOOSE r \in service.rows : UpTo(r) = i]
AtMostOf(a, b) == IF a < b THEN a ELSE b

\* The size of the pages the service returns.
Served ==
  IF service.cap > 0 /\ (exec.size = 0 \/ service.cap < exec.size)
    THEN service.cap
  ELSE IF exec.size = 0 THEN FallbackSize ELSE exec.size

PageRows(p) ==
  SubSeq(Listed, (p - 1) * Served + 1, AtMostOf(p * Served, Len(Listed)))
RowsAfter(c) ==
  SubSeq(Listed, UpTo(c) + 1, AtMostOf(UpTo(c) + Served, Len(Listed)))

\* The loop ends with this page.
LastPage(rows) ==
  \/ rows = <<>> \/ Len(rows) < exec.size
  \/ service.total /\ Len(exec.rows) + Len(rows) >= Len(Listed)

Merged(rows) ==
  exec' = [exec EXCEPT !.pc = "done", !.out = "ok", !.merged = TRUE,
             !.pages = @ + 1, !.rows = @ \o rows]

\* Past max_pages the rows so far are the result.
NextPage(rows, cursor) ==
  IF exec.page < inv.maxPages
    THEN exec' = [exec EXCEPT !.page = @ + 1, !.cursor = cursor,
                    !.pages = @ + 1, !.rows = @ \o rows]
    ELSE Merged(rows)

\* Mutant of PageNumber: every page is the first.
PageNumberRepeats ==
  /\ exec.pc = "request" /\ inv.auth # "nil"
  /\ inv.pageAll /\ inv.mode = "page_number"
  /\ Send
  /\ LET rows == PageRows(1)
     IN  IF LastPage(rows) THEN Merged(rows) ELSE NextPage(rows, 0)
  /\ UNCHANGED <<inv, service, cred>>

PageNumber ==
  /\ exec.pc = "request" /\ inv.auth # "nil"
  /\ inv.pageAll /\ inv.mode = "page_number"
  /\ Send
  /\ LET rows == PageRows(exec.page)
     IN  IF LastPage(rows) THEN Merged(rows) ELSE NextPage(rows, 0)
  /\ UNCHANGED <<inv, service, cred>>

\* An endless service repeats its cursor.
Cursor ==
  /\ exec.pc = "request" /\ inv.auth # "nil"
  /\ inv.pageAll /\ inv.mode = "cursor"
  /\ Send
  /\ LET rows == RowsAfter(exec.cursor)
         more == UpTo(exec.cursor) + Len(rows) < Len(Listed)
     IN  IF rows = <<>> \/ ~(more \/ service.endless) THEN Merged(rows)
         ELSE NextPage(rows, IF service.endless THEN exec.cursor
                             ELSE rows[Len(rows)])
  /\ UNCHANGED <<inv, service, cred>>

ExecStep ==
  \/ Prepare \/ SignFails \/ RequestFails \/ ItemsMissing
  \/ SingleAnswer \/ PageNumber \/ Cursor

-----------------------------------------------------------------------------
(* The environment                                                          *)

RowsChange ==
  /\ exec.pc = "request" /\ service.changes < MaxRowChanges
  /\ \E r \in Rows :
       service' = [service EXCEPT !.changes = @ + 1,
                     !.rows = IF r \in @ THEN @ \ {r} ELSE @ \cup {r}]
  /\ UNCHANGED <<inv, exec, cred, sent>>

CredentialRotates ==
  /\ exec.pc = "request" /\ inv.auth = "dynamic"
  /\ \E c \in Credentials \ {cred} : cred' = c
  /\ UNCHANGED <<inv, exec, service, sent>>

ExecNext == ExecStep \/ RowsChange \/ CredentialRotates

-----------------------------------------------------------------------------
(* Properties                                                               *)

ExecTypeOK ==
  /\ inv \in Invocation
  /\ exec.pc \in {"start", "request", "done"}
  /\ exec.out \in {"none", "error", "plan", "ok"}
  /\ exec.rows \in Seq(Rows) /\ exec.merged \in BOOLEAN
  /\ exec.page \in Nat /\ exec.pages \in 0..exec.page
  /\ service.rows \subseteq Rows
  /\ sent.count \in Nat

Unchanged == service.changes = 0
Honoured == service.cap = 0 \/ service.cap >= exec.size

(***************************************************************************)
(* Execute with PageAll (pagination.go:39 and :93) merges every row of the  *)
(* listing exactly once and in order, if the service returns pages of the   *)
(* size it was asked for, does not change meanwhile, ends its cursors, and  *)
(* the last page came before max_pages.                                     *)
(***************************************************************************)
ListingIsComplete ==
  exec.merged /\ Unchanged /\ ~service.endless /\ exec.pages < inv.maxPages
    /\ (inv.mode = "page_number" => Honoured)
  => exec.rows = Listed

(***************************************************************************)
(* What docs/4-Usage.md:137 says of --page-all: that all pages of a         *)
(* paginated result are requested.  This does not hold: max_pages and, with *)
(* numbered pages, a page shorter than asked for end a listing as a success.*)
(***************************************************************************)
PageAllIsAll ==
  exec.merged /\ Unchanged /\ ~service.endless => exec.rows = Listed

(***************************************************************************)
(* No more than max_pages requests are sent, none if that is not positive,  *)
(* although the cursors of a service may never end (pagination.go:108), and *)
(* one without --page-all.                                                  *)
(***************************************************************************)
RequestsBounded ==
  sent.count > 0 => sent.count <= IF inv.pageAll THEN inv.maxPages ELSE 1

(***************************************************************************)
(* Sign (tlsapi/client.go:151): a dynamic client signs every page with one  *)
(* credential and its own session token, never with the token of another    *)
(* credential or of the caller's headers, although credentials change from  *)
(* page to page.                                                            *)
(***************************************************************************)
SignedAsOneIdentity ==
  inv.auth = "dynamic" /\ sent.count > 0 =>
    [ak |-> sent.ak, token |-> sent.token] \in Credentials

(***************************************************************************)
(* A dry run sends nothing, whatever else was asked for                     *)
(* (executor.go:61).                                                        *)
(***************************************************************************)
DryRunSendsNothing == inv.dryRun => sent.count = 0 /\ exec.out # "ok"

(***************************************************************************)
(* A dry run sends nothing; otherwise no more pages are requested than the  *)
(* limit allows, and a listing of a table that does not change, of a        *)
(* service that serves pages as asked for and ends its cursors, has every   *)
(* row once and in order if it ended before the limit (pagination.go:93,    *)
(* :108).  Under other circumstances it may be short without saying so: see *)
(* PageAllIsAll.                                                            *)
(***************************************************************************)
ListingIsSound ==
  ExecTypeOK /\ DryRunSendsNothing /\ RequestsBounded /\ ListingIsComplete
=============================================================================
