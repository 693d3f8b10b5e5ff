----------------------------- MODULE CommandRun -----------------------------
(***************************************************************************)
(* One invocation of the command line, from its flags to its exit code      *)
(* (cli/run.go and run_pipeline.go): the flags are parsed, the request is   *)
(* refused or dispatched, a tool or workflow loads its context, sends its   *)
(* request, projects, wraps and perhaps spills the result, and the result   *)
(* is filtered and delivered on stdout or in a file.                        *)
(*                                                                         *)
(* Stdout takes every write.  What a result consists of is a set of parts:  *)
(* the data, a preview of it, a dry-run plan, a warning, an error.          *)
(***************************************************************************)
EXTENDS Naturals, Sequences

CONSTANTS
  Kinds,    \* kinds of command, among AllKinds
  MaxFlags  \* bound on the flags of one command

\* login, logout, sso and configure sso; the groups without an envelope;
\* listings and descriptions of tools and workflows; tool exec; workflow
\* exec; raw; the shortcuts of the human edition.
AllKinds == {"login", "plain", "list", "tool", "workflow", "raw", "shortcut"}

ASSUME CommandRunAssumption == Kinds \subseteq AllKinds /\ MaxFlags \in Nat

VARIABLES
  cmd, \* the command: its kind, flags, project configuration and context
  run  \* its run: where it is, what it did, wrote and showed

commandVars == <<cmd, run>>

(***************************************************************************)
(* The output directory: not given, one that cannot be made, one that can   *)
(* but not written to, or a good one.  The file of --output-file is good.   *)
(***************************************************************************)
NoContext ==
  [plan |-> FALSE, artifact |-> "none", projection |-> "none", stale |-> FALSE]

Plainly(kind, project) ==
  [kind |-> kind, project |-> project, parsed |-> 0,
   mode |-> "unset", given |-> FALSE, file |-> FALSE, dir |-> "none",
   filter |-> "none", format |-> "json", secrets |-> "none",
   profile |-> FALSE, trace |-> FALSE, dry |-> FALSE, context |-> NoContext]

NewRun ==
  [pc |-> "parse", exit |-> 0, sent |-> FALSE, made |-> FALSE,
   error |-> 0, result |-> {}, text |-> FALSE, large |-> FALSE,
   file |-> {}, out |-> "nothing", shown |-> {}]

CommandInit ==
  /\ \E kind \in Kinds, project \in {"unset", "file"} :
       cmd = Plainly(kind, project)
  /\ run = NewRun

CommandIdle ==
  /\ cmd = Plainly("plain", "unset")
  /\ run = [NewRun EXCEPT !.pc = "done"]

-----------------------------------------------------------------------------
(* What the groups differ in                                                *)

Exec == cmd.kind \in {"tool", "workflow"}
EmitsStructuredEnvelope == cmd.kind \notin {"login", "plain"}
FilterTargetsEnvelope == cmd.kind \in {"raw", "tool", "workflow"}
RejectsOutputFile == cmd.kind \in {"list", "tool", "workflow", "raw"}
BuildsEnvelope == cmd.kind \in {"raw", "shortcut"}

\* MkdirAll on the directory of the output file; writing the file itself.
CanMake == cmd.file \/ cmd.dir \in {"readonly", "good"}
CanWrite == cmd.file \/ cmd.dir = "good"

-----------------------------------------------------------------------------
(* How a run ends                                                           *)

EndsWith(out, shown, exit) ==
  run' = [run EXCEPT !.pc = "done", !.out = out, !.shown = shown,
                     !.exit = exit]

\* A failure found before or after the dispatch, reported at once.
Fails(exit) == EndsWith("error", {"error"}, exit)

\* A failure of the dispatched command: its exit code as classifyError has it.
Raises(exit) == run' = [run EXCEPT !.pc = "report", !.error = exit]

-----------------------------------------------------------------------------
(* Parsing                                                                  *)

\* The flags, one by one; the last of two wins.
ParseFlag ==
  /\ run.pc = "parse" /\ cmd.parsed < MaxFlags
  /\ LET c == [cmd EXCEPT !.parsed = @ + 1]
     IN  \/ \E m \in {"stdout", "file", "other"} :
              cmd' = [c EXCEPT !.mode = m, !.given = TRUE]
         \/ \E d \in {"blocked", "readonly", "good"} :
              cmd' = [c EXCEPT !.dir = d]
         \/ \E f \in {"bad", "miss", "hit"} : cmd' = [c EXCEPT !.filter = f]
         \/ \E f \in {"jsonl", "table"} : cmd' = [c EXCEPT !.format = f]
         \/ \E s \in {"bad", "good"} : cmd' = [c EXCEPT !.secrets = s]
         \/ cmd' = [c EXCEPT !.file = TRUE]
         \/ cmd' = [c EXCEPT !.profile = TRUE]
         \/ cmd' = [c EXCEPT !.trace = TRUE]
         \/ cmd' = [c EXCEPT !.dry = TRUE]
  /\ UNCHANGED run

\* A flag that is unknown or has no value, or a group that is no group of
\* the edition; --help or --version; a project file that cannot be read.
ParseStops ==
  /\ run.pc = "parse"
  /\ \/ EndsWith("usage", {}, 1)
     \/ EndsWith("usage", {}, 0)
     \/ Fails(2)
  /\ UNCHANGED cmd

\* The project's output mode counts if no flag gives one.
PrepareOutput ==
  /\ run.pc = "parse"
  /\ cmd' = [cmd EXCEPT !.mode = CASE cmd.given -> @
                                   [] cmd.project = "file" -> "file"
                                   [] OTHER -> "stdout"]
  /\ run' = [run EXCEPT !.pc = "preflight"]

-----------------------------------------------------------------------------
(* Preflight                                                                *)

\* rejectFrozenOutputOptions: what would divert the result of a login.
Diverts ==
  \/ cmd.mode # "stdout" \/ cmd.file \/ cmd.filter # "none"
  \/ cmd.trace \/ cmd.secrets # "none"

DryRunInScope == cmd.kind \in {"raw", "tool", "workflow"}

Refusal(when, exit) == [when |-> when, exit |-> exit]

\* What the flags alone rule out, in the order of the checks.
FlagRefusals == <<
  Refusal(cmd.kind = "login" /\ Diverts, 1),
  Refusal(cmd.filter = "bad", 3),
  Refusal(cmd.mode = "other", 1),
  Refusal(FilterTargetsEnvelope /\ cmd.mode = "file" /\ cmd.filter # "none", 1),
  Refusal(cmd.file /\ RejectsOutputFile, 1),
  Refusal(cmd.dry /\ ~DryRunInScope, 1) >>

\* Then the file system, then the secrets file, which tool and workflow exec
\* leave to their context.
LaterRefusals == <<
  Refusal(cmd.mode = "file" /\ ~CanMake, 2),
  Refusal(cmd.secrets # "none" /\ cmd.profile, 1),
  Refusal(cmd.secrets = "bad" /\ ~Exec,
          IF EmitsStructuredEnvelope THEN 1 ELSE 2) >>

Passed(refusals) == \A i \in DOMAIN refusals : ~refusals[i].when

\* The first of them that applies.
Refuses(refusals, exit) ==
  \E i \in DOMAIN refusals :
    /\ refusals[i].when /\ refusals[i].exit = exit
    /\ \A j \in DOMAIN refusals : refusals[j].when => i <= j

\* The directory is made on the way.
Preflight ==
  /\ run.pc = "preflight"
  /\ LET made == Passed(FlagRefusals) /\ cmd.mode = "file" /\ CanMake
         refusals == IF Passed(FlagRefusals) THEN LaterRefusals
                     ELSE FlagRefusals
     IN  \/ /\ Passed(refusals)
            /\ run' = [run EXCEPT !.pc = "dispatch", !.made = made]
         \/ \E exit \in {1, 2, 3} :
              /\ Refuses(refusals, exit)
              /\ run' = [run EXCEPT !.pc = "done", !.made = made,
                           !.out = "error", !.shown = {"error"}, !.exit = exit]
  /\ UNCHANGED cmd

-----------------------------------------------------------------------------
(* Dispatch                                                                 *)

\* The arguments ask for help, or are wrong.
BadArguments ==
  /\ run.pc = "dispatch"
  /\ EndsWith("usage", {}, 0) \/ EndsWith("usage", {}, 1) \/ Raises(1)
  /\ UNCHANGED cmd

\* Every other group than tool and workflow acts at once.  A listing is local
\* and may force JSON; doctor has an exit code of its own.
Act ==
  /\ run.pc = "dispatch" /\ ~Exec
  /\ IF cmd.kind = "raw" /\ cmd.dry
     THEN run' = [run EXCEPT !.pc = "render", !.result = {"plan"}]
     ELSE LET did == [run EXCEPT !.sent = cmd.kind # "list"]
          IN  \/ run' = [did EXCEPT !.pc = "report", !.error = 2]
              \/ \E text \in IF cmd.kind \in {"plain", "list"} THEN BOOLEAN
                             ELSE {FALSE},
                    exit \in IF cmd.kind = "plain" THEN {0, 1} ELSE {0} :
                   run' = [did EXCEPT !.pc = "render", !.result = {"data"},
                                      !.text = text, !.exit = exit]
  /\ \/ UNCHANGED cmd
     \/ cmd.kind = "list" /\ cmd' = [cmd EXCEPT !.format = "json"]

Contexts ==
  [plan : BOOLEAN, artifact : {"none", "dir", "path"},
   projection : {"none", "bad", "miss", "hit"}, stale : BOOLEAN]

\* Mutant of ContextRefusals: the directory of the artifact is not made first.
ContextRefusalsNoPreflight == <<
  Refusal(cmd.secrets = "bad", 1),
  Refusal(cmd.context.artifact # "none" /\ cmd.filter # "none", 1),
  Refusal(cmd.context.projection = "bad", 3) >>

\* What is refused once the context is known.
ContextRefusals == <<
  Refusal(cmd.secrets = "bad", 1),
  Refusal(cmd.context.artifact # "none" /\ cmd.filter # "none", 1),
  Refusal(cmd.context.artifact # "none" /\ ~CanMake, 2),
  Refusal(cmd.context.projection = "bad", 3) >>

\* The context may ask for a dry run, an artifact or a projection, and name
\* the contract digest that its author knew.
LoadContext ==
  /\ run.pc = "dispatch" /\ Exec
  /\ \E x \in Contexts :
       cmd' = [cmd EXCEPT !.context = x, !.dry = @ \/ x.plan,
                 !.mode = IF x.artifact # "none" THEN "file" ELSE @,
                 !.file = x.artifact = "path"]
  /\ run' = [run EXCEPT !.pc = "context"]

CheckContext ==
  /\ run.pc = "context"
  /\ \/ /\ Passed(ContextRefusals)
        /\ run' = [run EXCEPT !.pc = "send"]
     \/ \E exit \in {1, 2, 3} : Refuses(ContextRefusals, exit) /\ Raises(exit)
  /\ UNCHANGED cmd

\* The request of a tool, or the requests of a workflow, unless the run is dry.
SendRequests ==
  /\ run.pc = "send"
  /\ IF cmd.dry
     THEN \E large \in BOOLEAN :
            run' = [run EXCEPT !.pc = "project", !.result = {"plan"},
                               !.large = large]
     ELSE \/ run' = [run EXCEPT !.sent = TRUE, !.pc = "report", !.error = 2]
          \/ \E large \in BOOLEAN :
               run' = [run EXCEPT !.sent = TRUE, !.pc = "project",
                                  !.result = {"data"}, !.large = large]
  /\ UNCHANGED cmd

\* The projection, and the envelope, written to its file with file delivery.
Envelope ==
  /\ run.pc = "project"
  /\ IF cmd.context.projection = "miss" THEN Raises(3)
     ELSE IF cmd.mode # "file" THEN run' = [run EXCEPT !.pc = "spill"]
     ELSE IF CanWrite
          THEN run' = [run EXCEPT !.pc = "spill", !.file = run.result]
     ELSE Raises(2)
  /\ UNCHANGED cmd

\* finalizeToolExecEnvelope and finalizeWorkflowExecEnvelope: when a result
\* may be moved to a file of its own.  Only the former looks at the filter.
MaySpill ==
  /\ cmd.mode = "stdout" /\ ~cmd.given /\ cmd.format = "json"
  /\ cmd.kind = "tool" => cmd.filter = "none"
  /\ cmd.context.artifact = "none" /\ cmd.context.projection = "none"

Warnings ==
  IF cmd.kind = "tool" /\ cmd.context.stale THEN {"warning"} ELSE {}

Spills == MaySpill /\ run.large

Unspilled == [run EXCEPT !.pc = "render", !.result = @ \cup Warnings]
Previewed == {"preview"} \cup Warnings

\* Mutant of Spill: a file that cannot be written is passed over.
SpillLoses ==
  /\ run.pc = "spill"
  /\ run' = IF Spills
            THEN [run EXCEPT !.pc = "render", !.result = Previewed,
                    !.file = IF CanWrite THEN run.result ELSE {}]
            ELSE Unspilled
  /\ UNCHANGED cmd

\* A large result goes to a file, a preview of it stays in the envelope.  A
\* tool's warnings are added to the envelope last.
Spill ==
  /\ run.pc = "spill"
  /\ IF ~Spills THEN run' = Unspilled
     ELSE IF CanWrite
          THEN run' = [run EXCEPT !.pc = "render", !.result = Previewed,
                                  !.file = run.result]
     ELSE Raises(IF cmd.dir = "none" THEN 1 ELSE 2)
  /\ UNCHANGED cmd

-----------------------------------------------------------------------------
(* Rendering                                                                *)

\* An error envelope is filtered, too, if the filter has a value in it.
ReportError ==
  /\ run.pc = "report"
  /\ IF FilterTargetsEnvelope /\ cmd.filter # "none"
     THEN \/ EndsWith("filtered", {"error"}, run.error)
          \/ Fails(run.error)
     ELSE Fails(run.error)
  /\ UNCHANGED cmd

\* The tables of the shortcuts' lists.
SupportsTable == cmd.kind = "shortcut" /\ cmd.format = "table"

Shows(parts) ==
  IF cmd.filter # "none" THEN EndsWith("filtered", parts, run.exit)
  ELSE EndsWith("value", parts, run.exit)

\* The result to stdout, or to the file with its path to stdout.
Deliver(parts) ==
  IF cmd.mode = "stdout" THEN Shows(parts)
  ELSE IF ~CanWrite THEN Fails(2)
  ELSE run' = [run EXCEPT !.pc = "done", !.file = parts, !.out = "path"]

\* raw and the shortcuts; with file delivery the file has the envelope, and
\* stdout the notice (raw) or the envelope, too.
DeliverEnvelope ==
  IF cmd.mode = "file" /\ ~CanWrite THEN Fails(2)
  ELSE LET file == IF cmd.mode = "file" THEN run.result ELSE {}
       IN  IF cmd.kind = "raw" /\ cmd.mode = "file"
           THEN run' = [run EXCEPT !.pc = "done", !.file = file,
                                   !.out = "notice"]
           ELSE run' = [run EXCEPT !.pc = "done", !.file = file,
                          !.out = IF cmd.filter # "none" THEN "filtered"
                                  ELSE "value",
                          !.shown = run.result]

\* The envelope of a tool or workflow; the filter comes before the notice.
DeliverExec ==
  IF cmd.filter = "none" /\ run.file # {}
  THEN run' = [run EXCEPT !.pc = "done", !.out = "notice"]
  ELSE Shows(run.result)

\* A filter without a value fails where it is applied: on the result before
\* everything else, on the envelope after the table is refused.
Render ==
  /\ run.pc = "render"
  /\ IF cmd.filter = "miss" /\ ~FilterTargetsEnvelope THEN Fails(3)
     ELSE IF cmd.format = "table"
          THEN Fails(1) \/ (SupportsTable /\ Deliver(run.result))
     ELSE IF cmd.filter = "miss" THEN Fails(3)
     ELSE IF BuildsEnvelope THEN DeliverEnvelope
     ELSE IF Exec THEN DeliverExec
     ELSE Deliver(run.result)
  /\ UNCHANGED cmd

CommandNext ==
  \/ ParseFlag \/ ParseStops \/ PrepareOutput \/ Preflight
  \/ BadArguments \/ Act \/ LoadContext \/ CheckContext
  \/ SendRequests \/ Envelope \/ Spill
  \/ ReportError \/ Render

-----------------------------------------------------------------------------
(* Properties                                                               *)

CommandTypeOK ==
  /\ cmd.kind \in Kinds \cup {"plain"} /\ cmd.parsed \in 0..MaxFlags
  /\ cmd.mode \in {"unset", "stdout", "file", "other"}
  /\ cmd.context \in Contexts
  /\ run.exit \in 0..3 /\ run.error \in 0..3
  /\ \A parts \in {run.result, run.file, run.shown} :
       parts \subseteq {"data", "preview", "plan", "warning", "error"}
  /\ run.out \in {"nothing", "usage", "error", "value", "filtered", "notice",
                  "path"}

(***************************************************************************)
(* A dry run sends nothing, whether a flag or the context of a tool or a    *)
(* workflow asks for it, and it is refused where a command would ignore it  *)
(* (context.go:427, tool_exec.go:92, workflow.go:250).                      *)
(***************************************************************************)
DryRunIsLocal == cmd.dry => ~run.sent

(***************************************************************************)
(* What could be told wrong before the request is told before it: a filter  *)
(* or a projection that does not compile, an unknown output mode, a secrets *)
(* file that cannot be read, a login whose result would be diverted         *)
(* (run_preflight.go:27, tool_exec.go:108).                                 *)
(***************************************************************************)
RefusedIsLocal ==
  run.sent =>
    /\ cmd.filter # "bad" /\ cmd.context.projection # "bad"
    /\ cmd.mode \in {"stdout", "file"} /\ cmd.secrets # "bad"
    /\ cmd.kind = "login" => ~Diverts
    /\ ~(Exec /\ cmd.mode = "file" /\ cmd.filter # "none")

(***************************************************************************)
(* No request is sent whose result was to be delivered in a directory that  *)
(* is not given or cannot be made (run_preflight.go:47, tool_exec.go:104).  *)
(***************************************************************************)
UndeliverableIsNotSent == run.sent /\ cmd.mode = "file" => CanMake

Done == run.pc = "done"
HasResult(parts) == parts \cap {"data", "plan"} # {}

(***************************************************************************)
(* Exit code 0, other than for help, says that the whole result, or a dry   *)
(* run's plan, is where the user was told: on stdout, filtered or not, or   *)
(* in a file; never only its preview (run_render.go:11,                     *)
(* tool_exec_artifact.go:19).                                               *)
(***************************************************************************)
ExitZeroDelivers ==
  Done /\ run.exit = 0 /\ run.out \notin {"nothing", "usage"} =>
    CASE run.out \in {"notice", "path"} -> HasResult(run.file)
      [] run.out = "filtered" -> HasResult(run.shown) \/ HasResult(run.file)
      [] OTHER -> HasResult(run.shown)

(***************************************************************************)
(* A command that failed exits with the code of its error, also if a filter *)
(* finds a value in the error's envelope (run_render.go:29).                *)
(***************************************************************************)
FailureIsReported == Done /\ run.error # 0 => run.exit = run.error

(***************************************************************************)
(* No request is sent by a dry run, by a command that the checks listed at  *)
(* RefusedIsLocal refuse, or for a file in a directory that is not given or *)
(* cannot be made (run_preflight.go:27, :47, tool_exec.go:104).  A table    *)
(* that cannot be drawn, a directory that cannot be written to and a spill  *)
(* that fails are found after the request.                                  *)
(***************************************************************************)
NothingSentInVain ==
  DryRunIsLocal /\ RefusedIsLocal /\ UndeliverableIsNotSent

(***************************************************************************)
(* The exit code tells a failure from a success, and with a success the     *)
(* whole result is where the user was told (run_render.go:11, :29).         *)
(***************************************************************************)
ExitCodeIsTrue ==
  CommandTypeOK /\ ExitZeroDelivers /\ FailureIsReported

(***************************************************************************)
(* docs/4-Usage.md:284 says that the filter is applied to the complete      *)
(* envelope, docs/4-Usage.md:267 that nothing spills if there is a filter;  *)
(* the spill of workflow exec does not look at the filter.                  *)
(***************************************************************************)
FilterSeesCompleteEnvelope ==
  Done /\ run.out = "filtered" => "preview" \notin run.shown

(***************************************************************************)
(* docs/4-Usage.md:252 says that the complete envelope is written to the    *)
(* file; the warning of a contract digest that does not match is added      *)
(* after the file is written, and stdout has only the notice.               *)
(***************************************************************************)
ArtifactIsComplete ==
  Done /\ run.out = "notice" => run.result \ {"preview"} \subseteq run.file
=============================================================================
