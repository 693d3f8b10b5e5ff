----------------------------- MODULE LogExport -----------------------------
(***************************************************************************)
(* log export and log export-analysis (cli/log.go): the pages of a search   *)
(* are followed by their Context and, with file delivery, streamed into a   *)
(* temporary file that replaces the output file at the end                  *)
(* (cli/log_file_output.go).  The service is external: pages may be empty   *)
(* or without Logs, and its contexts need not end.                          *)
(***************************************************************************)
EXTENDS Naturals, Sequences

CONSTANTS
  LogCount,        \* how many logs match, numbered in order
  Limits,          \* page sizes the request may ask for
  PageLimits,      \* values of --max-pages; 0: not given
  DefaultMaxPages, \* 100 in the code
  MaxEmpty         \* bound on the empty pages of one search

ASSUME LogExportAssumption ==
  /\ LogCount \in Nat /\ MaxEmpty \in Nat
  /\ Limits \subseteq Nat \ {0} /\ Limits # {} /\ 0 \in PageLimits
  /\ PageLimits \subseteq Nat /\ DefaultMaxPages \in Nat \ {0}

AllLogs == [i \in 1..LogCount |-> i]

(***************************************************************************)
(* A file: absent, the output of an earlier command, or ours with the rows  *)
(* so far; closed says that a JSON array has its closing bracket (a JSONL   *)
(* file needs none).                                                       *)
(***************************************************************************)
Absent == [of |-> "nobody", rows |-> <<>>, closed |-> FALSE]
Earlier == [of |-> "earlier", rows |-> <<>>, closed |-> TRUE]
Ours(rows, closed) == [of |-> "ours", rows |-> rows, closed |-> closed]

VARIABLES
  search, \* the command: its request, where it is, what it reports
  source, \* the service: whether it is endless, empty pages returned
  final,  \* the file at the output path
  part    \* the temporary file

exportVars == <<search, source, final, part>>

NewSearch(req) ==
  [pc |-> "start", req |-> req, page |-> 0, next |-> 1, rows |-> <<>>,
   out |-> "none"]

\* What the arguments and the request file amount to.  complete: topic,
\* query and times are there; paged: a limit, context, order or offset is;
\* analysis: the query is SQL; file: streamed delivery; json: one array.
Requests ==
  [complete : BOOLEAN, paged : BOOLEAN, analysis : BOOLEAN,
   command : {"export", "export-analysis"}, file : BOOLEAN, json : BOOLEAN,
   limit : Limits, maxPages : PageLimits]

ExportInit ==
  /\ \E req \in Requests : search = NewSearch(req)
  /\ source \in [endless : BOOLEAN, empty : {0}]
  /\ final \in {Absent, Earlier}
  /\ part = Absent

ExportIdle ==
  /\ search = [NewSearch(CHOOSE r \in Requests : TRUE) EXCEPT !.pc = "done"]
  /\ source = [endless |-> FALSE, empty |-> MaxEmpty]
  /\ final = Absent
  /\ part = Absent

-----------------------------------------------------------------------------
(* Starting                                                                 *)

\* The command returns and its deferred abort removes the temporary file.
Ends(out) ==
  /\ search' = [search EXCEPT !.pc = "done", !.out = out]
  /\ part' = Absent

\* parseSearchLogsArgs: SQL has a paging of its own.
Malformed ==
  \/ ~search.req.complete
  \/ search.req.analysis /\ search.req.paged

\* Each of the two commands refuses the other's queries; export-analysis
\* refuses --max-pages, too.
Refused ==
  \/ Malformed
  \/ search.req.analysis # (search.req.command = "export-analysis")
  \/ search.req.command = "export-analysis" /\ search.req.maxPages > 0

Start ==
  /\ search.pc = "start"
  /\ IF Refused THEN Ends("error")
     ELSE \/ /\ search' = [search EXCEPT !.pc = "page"]
             /\ part' = IF search.req.file THEN Ours(<<>>, ~search.req.json)
                        ELSE Absent
          \/ search.req.file /\ Ends("error")
  /\ UNCHANGED <<source, final>>

-----------------------------------------------------------------------------
(* The pages                                                                *)

MaxPages == IF search.req.maxPages > 0 THEN search.req.maxPages
            ELSE DefaultMaxPages

PageOf(from) ==
  SubSeq(AllLogs, from, IF from + search.req.limit - 1 < LogCount
                          THEN from + search.req.limit - 1 ELSE LogCount)

\* What the loop does after a page: over, by ListOver or an empty Context,
\* or the last that it may fetch; else it goes on from the Context.
After(rows, over, next) ==
  LET s == [search EXCEPT !.rows = @ \o rows, !.page = @ + 1]
  IN  /\ search' = IF over \/ s.page >= MaxPages
                     THEN [s EXCEPT !.pc = "commit"]
                     ELSE [s EXCEPT !.next = next]
      /\ part' = IF search.req.file THEN [part EXCEPT !.rows = @ \o rows]
                 ELSE part

\* Mutant of Page: an empty page ends the search.
PageNotEmpty ==
  /\ search.pc = "page" /\ search.req.command = "export"
  /\ \/ LET rows == PageOf(search.next)
            over == ~source.endless /\ search.next + Len(rows) > LogCount
        IN  /\ After(rows, over, search.next + Len(rows))
            /\ UNCHANGED source
     \/ /\ source.empty < MaxEmpty
        /\ source' = [source EXCEPT !.empty = @ + 1]
        /\ After(<<>>, TRUE, search.next)
  /\ UNCHANGED final

\* An answer with the next logs, or with none of them yet.
Page ==
  /\ search.pc = "page" /\ search.req.command = "export"
  /\ \/ LET rows == PageOf(search.next)
            over == ~source.endless /\ search.next + Len(rows) > LogCount
        IN  /\ After(rows, over, search.next + Len(rows))
            /\ UNCHANGED source
     \/ /\ source.empty < MaxEmpty
        /\ source' = [source EXCEPT !.empty = @ + 1]
        /\ After(<<>>, FALSE, search.next)
  /\ UNCHANGED final

\* export-analysis asks once, for all the rows of its result.
Analysis ==
  /\ search.pc = "page" /\ search.req.command = "export-analysis"
  /\ After(AllLogs, TRUE, 1)
  /\ UNCHANGED <<source, final>>

\* The request fails, the answer is no search result, or a row of it cannot
\* be written, after others.
PageFails ==
  /\ search.pc = "page"
  /\ Ends("error")
  /\ UNCHANGED <<source, final>>

-----------------------------------------------------------------------------
(* Commit                                                                   *)

Report ==
  /\ search.pc = "commit" /\ ~search.req.file
  /\ Ends("ok")
  /\ UNCHANGED <<source, final>>

\* The suffix of an array is written and the file closed.
Close ==
  /\ search.pc = "commit" /\ search.req.file
  /\ \/ /\ part' = [part EXCEPT !.closed = TRUE]
        /\ search' = [search EXCEPT !.pc = "remove"]
     \/ Ends("error")
  /\ UNCHANGED <<source, final>>

\* Whether the earlier output can be removed is not looked at.
RemoveEarlier ==
  /\ search.pc = "remove"
  /\ search' = [search EXCEPT !.pc = "rename"]
  /\ final' \in {final, Absent}
  /\ UNCHANGED <<source, part>>

Rename ==
  /\ search.pc = "rename"
  /\ \/ final' = part /\ Ends("ok")
     \/ Ends("error") /\ UNCHANGED final
  /\ UNCHANGED source

\* The process dies.
ExportDies ==
  /\ search.pc \notin {"start", "done"}
  /\ search' = [search EXCEPT !.pc = "done", !.out = "killed"]
  /\ UNCHANGED <<source, final, part>>

ExportStep ==
  \/ Start \/ Page \/ Analysis \/ PageFails
  \/ Report \/ Close \/ RemoveEarlier \/ Rename

ExportNext == ExportStep \/ ExportDies

-----------------------------------------------------------------------------
(* Properties                                                               *)

ExportTypeOK ==
  /\ search.req \in Requests /\ search.page \in 0..MaxPages
  /\ search.out \in {"none", "error", "ok", "killed"}
  /\ source.empty \in 0..MaxEmpty
  /\ \A f \in {final, part} : f.of \in {"nobody", "earlier", "ours"}

Truncated == search.page >= MaxPages /\ search.req.command = "export"

(***************************************************************************)
(* The output file is at any moment, even if a request, a write or a rename *)
(* fails or the process dies, either not ours or a finished document with   *)
(* every log of the search once and in order, unless --max-pages ended it   *)
(* (log.go:62, log_file_output.go:106).                                     *)
(***************************************************************************)
ExportIsWhole ==
  final.of = "ours" =>
    /\ final.closed
    /\ Truncated \/ final.rows = AllLogs

(***************************************************************************)
(* A search that reports success reports every log once and in order, pages *)
(* without logs in between or not (log.go:85), unless --max-pages ended it; *)
(* with file delivery the file it names is there (log_file_output.go:130).  *)
(***************************************************************************)
SuccessIsComplete ==
  search.out = "ok" =>
    /\ Truncated \/ search.rows = AllLogs
    /\ search.req.file => final.of = "ours" /\ final.rows = search.rows

(***************************************************************************)
(* No failure leaves the temporary file behind (the deferred abort at       *)
(* log.go:58 and Commit's own removal), only the death of the process does. *)
(***************************************************************************)
NoPartLeft ==
  search.pc = "done" /\ search.out # "killed" => part = Absent

(***************************************************************************)
(* A search that reports success has every log it was asked for unless      *)
(* --max-pages ended it, its file is never a part of a document, and no     *)
(* failure leaves a part file behind (log.go:62, log_file_output.go:129).   *)
(* The earlier output may be gone without a new one: Commit removes it      *)
(* before it renames.                                                       *)
(***************************************************************************)
ExportIsHonest ==
  ExportTypeOK /\ ExportIsWhole /\ SuccessIsComplete /\ NoPartLeft
=============================================================================
