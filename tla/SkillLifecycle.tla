--------------------------- MODULE SkillLifecycle ---------------------------
(***************************************************************************)
(* volclog skill install, update and uninstall (cli/skill_lifecycle.go):    *)
(* invocations of several versions of the CLI and the user work on one      *)
(* directory of skills.  A tree is inspected, built in a private stage, and *)
(* swapped in by two renames with a backup between them; a rename can fail  *)
(* and a process can die anywhere.                                          *)
(*                                                                         *)
(* The content of a tree is what its digest tells apart.                    *)
(***************************************************************************)
EXTENDS Naturals, FiniteSets

CONSTANTS
  Names,       \* the bundled skills, numbers in their sorted order
  Invokers,    \* the processes
  Versions,    \* versions of the CLI
  Source,      \* Source[v]: the content version v bundles
  Mine,        \* content the user has written
  Partial,     \* content of a tree that is being removed
  Nothing,
  Commands,    \* the commands a process may run, see Command
  Found,       \* what may be at the path of a skill at first
  MaxEdits, MaxCrashes, MaxFaults

ASSUME SkillAssumption ==
  /\ Names \subseteq Nat /\ IsFiniteSet(Names)
  /\ Partial \notin {Source[v] : v \in Versions} \cup {Mine}
  /\ Mine \notin {Source[v] : v \in Versions}
  /\ {MaxEdits, MaxCrashes, MaxFaults} \subseteq Nat

Contents == {Source[v] : v \in Versions} \cup {Mine, Partial, Nothing}
Command == [op : {"install", "update", "uninstall"}, force : BOOLEAN,
            version : Versions, names : SUBSET Names]
Tree == [kind : {"none", "file", "dir"}, content : Contents,
         manifest : {"valid", "missing", "invalid"},
         version : Versions \cup {Nothing}, digest : Contents]

NoTree == [kind |-> "none", content |-> Nothing, manifest |-> "missing",
           version |-> Nothing, digest |-> Nothing]
File == [NoTree EXCEPT !.kind = "file", !.content = Mine]

\* A staged tree: copyBundledSkill and writeSkillManifest.
Installed(v) ==
  [kind |-> "dir", content |-> Source[v], manifest |-> "valid",
   version |-> v, digest |-> Source[v]]

VARIABLES
  tree,   \* tree[n]: what is at the path of skill n
  proc,   \* the processes
  edits,  \* edits[n]: "none"; "quiet"; "raced", after a process had looked
  quota   \* edits, crashes and faults left

skillVars == <<tree, proc, edits, quota>>

NewProc(c) == [pc |-> "start", cmd |-> c, name |-> 0, seen |-> Nothing,
               backup |-> NoTree, of |-> 0, out |-> "none"]

\* Found has these, NoTree and installed trees.
UserTrees ==
  {File, [NoTree EXCEPT !.kind = "dir", !.content = Mine]} \cup
  {[Installed(v) EXCEPT !.content = Mine] : v \in Versions}

ASSUME SkillStartAssumption ==
  /\ Found \subseteq UserTrees \cup {NoTree} \cup {Installed(v) : v \in Versions}
  /\ Commands \subseteq Command /\ Commands # {}

SkillInit ==
  /\ tree \in [Names -> Found]
  /\ edits = [n \in Names |-> IF tree[n] \in UserTrees THEN "quiet" ELSE "none"]
  /\ proc \in [Invokers -> {NewProc(c) : c \in Commands}]
  /\ quota = [edits |-> MaxEdits, crashes |-> MaxCrashes, faults |-> MaxFaults]

SkillIdle ==
  /\ tree = [n \in Names |-> NoTree]
  /\ edits = [n \in Names |-> "none"]
  /\ proc = [p \in Invokers |->
               [NewProc(CHOOSE c \in Commands : TRUE) EXCEPT !.pc = "done"]]
  /\ quota = [edits |-> 0, crashes |-> 0, faults |-> 0]

-----------------------------------------------------------------------------
(* The loop over the selected skills                                        *)

Step(p, pc) == proc' = [proc EXCEPT ![p].pc = pc]
Fail(p) == proc' = [proc EXCEPT ![p].pc = "done", ![p].out = "error"]

\* A system call fails.
Fault ==
  /\ quota.faults > 0
  /\ quota' = [quota EXCEPT !.faults = @ - 1]

Later(p) == {n \in proc[p].cmd.names : n > proc[p].name}

\* On to the next skill, in sorted order, or to the report.
Advanced(p) ==
  LET q == [proc[p] EXCEPT !.backup = NoTree, !.seen = Nothing]
  IN  IF Later(p) = {} THEN [q EXCEPT !.pc = "done", !.out = "ok"]
      ELSE [q EXCEPT !.name = CHOOSE n \in Later(p) : \A m \in Later(p) : n <= m,
                     !.pc = IF proc[p].cmd.op = "install" THEN "check"
                            ELSE "inspect"]
Advance(p) == proc' = [proc EXCEPT ![p] = Advanced(p)]

Begin(p) ==
  /\ proc[p].pc = "start"
  /\ Advance(p)
  /\ UNCHANGED <<tree, edits, quota>>

-----------------------------------------------------------------------------
(* inspectSkillState                                                        *)

Protected == {"modified", "untracked", "invalid_manifest"}

\* The status from the digest read first and the manifest read after it.
Status(p, t) ==
  CASE t.kind = "file" -> "invalid_manifest"
    [] t.kind # "file" /\ t.manifest = "missing" -> "untracked"
    [] t.kind # "file" /\ t.manifest = "invalid" -> "invalid_manifest"
    [] t.kind # "file" /\ t.manifest = "valid" ->
         IF proc[p].seen # t.digest THEN "modified"
         ELSE IF \/ t.digest # Source[proc[p].cmd.version]
                 \/ t.version # proc[p].cmd.version THEN "outdated"
         ELSE "current"

\* What update and uninstall do with a skill of this status.
Decide(p, status) ==
  IF status \in Protected /\ ~proc[p].cmd.force THEN Advance(p)
  ELSE Step(p, IF proc[p].cmd.op = "update" THEN "check" ELSE "remove")

Inspect(p) ==
  /\ proc[p].pc = "inspect"
  /\ LET t == tree[proc[p].name]
     IN  CASE t.kind = "none" -> Advance(p)
           [] t.kind = "file" -> Decide(p, Status(p, t))
           [] t.kind = "dir" -> proc' = [proc EXCEPT ![p].pc = "manifest",
                                                     ![p].seen = t.content]
  /\ UNCHANGED <<tree, edits, quota>>

\* Without the directory there is no manifest to be found either.
ReadManifest(p) ==
  /\ proc[p].pc = "manifest"
  /\ Decide(p, Status(p, tree[proc[p].name]))
  /\ UNCHANGED <<tree, edits, quota>>

\* The directory vanishes or cannot be read; the stage cannot be built.
InspectFails(p) ==
  /\ proc[p].pc \in {"inspect", "manifest", "check"}
  /\ Fault /\ Fail(p)
  /\ UNCHANGED <<tree, edits>>

-----------------------------------------------------------------------------
(* stageAndSwapBundledSkill and swapSkillDirectory                          *)

Here(p) == tree[proc[p].name]

\* update has decided and replaces whatever there is.
MayReplace(p) == proc[p].cmd.op = "update" \/ proc[p].cmd.force

\* The stage is private, so its building is one step with the check.
Check(p) ==
  /\ proc[p].pc = "check"
  /\ IF Here(p).kind # "none" /\ ~MayReplace(p) THEN Fail(p) ELSE Step(p, "swap")
  /\ UNCHANGED <<tree, edits, quota>>

Swap(p) ==
  /\ proc[p].pc = "swap"
  /\ IF Here(p).kind = "none" THEN Step(p, "place")
     ELSE IF MayReplace(p) THEN Step(p, "backup") ELSE Fail(p)
  /\ UNCHANGED <<tree, edits, quota>>

\* Mutant of Backup: the old tree is removed first.
BackupRemoves(p) ==
  /\ proc[p].pc = "backup"
  /\ proc' = [proc EXCEPT ![p].pc = "place"]
  /\ tree' = [tree EXCEPT ![proc[p].name] = NoTree]
  /\ UNCHANGED <<edits, quota>>

Backup(p) ==
  /\ proc[p].pc = "backup"
  /\ \/ /\ Here(p).kind # "none"
        /\ proc' = [proc EXCEPT ![p].pc = "place", ![p].of = proc[p].name,
                                ![p].backup = Here(p)]
        /\ tree' = [tree EXCEPT ![proc[p].name] = NoTree]
        /\ UNCHANGED quota
     \/ /\ \/ Here(p).kind = "none" /\ UNCHANGED quota
           \/ Here(p).kind # "none" /\ Fault
        /\ Fail(p) /\ UNCHANGED tree
  /\ UNCHANGED edits

\* rename(2) of a directory replaces nothing, or an empty directory, which
\* is all that may be left of a tree that is being removed.
Vacant(t) == t.kind = "none" \/ (t.kind = "dir" /\ t.content = Partial)
Occupied(t) == t.kind # "none"

Place(p) ==
  /\ proc[p].pc = "place"
  /\ \/ /\ Vacant(Here(p))
        /\ tree' = [tree EXCEPT ![proc[p].name] = Installed(proc[p].cmd.version)]
        /\ IF proc[p].backup = NoTree THEN Advance(p) ELSE Step(p, "cleanup")
        /\ UNCHANGED quota
     \/ /\ \/ Occupied(Here(p)) /\ UNCHANGED quota
           \/ Fault
        /\ IF proc[p].backup = NoTree THEN Fail(p) ELSE Step(p, "rollback")
        /\ UNCHANGED tree
  /\ UNCHANGED edits

\* Mutant of Rollback: the backup is left to the user.
RollbackSkipped(p) ==
  /\ proc[p].pc = "rollback"
  /\ Fail(p)
  /\ UNCHANGED <<tree, edits, quota>>

Rollback(p) ==
  /\ proc[p].pc = "rollback"
  /\ \/ /\ Vacant(Here(p))
        /\ tree' = [tree EXCEPT ![proc[p].name] = proc[p].backup]
        /\ proc' = [proc EXCEPT ![p].pc = "done", ![p].out = "error",
                                ![p].backup = NoTree]
        /\ UNCHANGED quota
     \/ /\ \/ Occupied(Here(p)) /\ UNCHANGED quota
           \/ Fault
        /\ proc' = [proc EXCEPT ![p].pc = "done", ![p].out = "stuck"]
        /\ UNCHANGED tree
  /\ UNCHANGED edits

\* The backup is removed, or some of it.
Cleanup(p) ==
  /\ proc[p].pc = "cleanup"
  /\ \/ Advance(p) /\ UNCHANGED quota
     \/ /\ Fault
        /\ proc' = [proc EXCEPT ![p].pc = "done", ![p].out = "error",
                                ![p].backup.content = Partial]
  /\ UNCHANGED <<tree, edits>>

-----------------------------------------------------------------------------
(* removeSkillDirectory                                                     *)

\* RemoveAll takes the files one by one, in any order.
BeginRemove(p) ==
  /\ proc[p].pc = "remove"
  /\ \/ Here(p).kind = "none" /\ Advance(p) /\ UNCHANGED tree
     \/ /\ Here(p).kind = "file" /\ Advance(p)
        /\ tree' = [tree EXCEPT ![proc[p].name] = NoTree]
     \/ /\ Here(p).kind = "dir" /\ Step(p, "removing")
        /\ \E m \in {Here(p).manifest, "missing"} :
             tree' = [tree EXCEPT ![proc[p].name].content = Partial,
                                  ![proc[p].name].manifest = m]
  /\ UNCHANGED <<edits, quota>>

\* What another process has put there meanwhile stays.
Removing(p) ==
  /\ proc[p].pc = "removing"
  /\ \/ /\ Vacant(Here(p)) /\ Advance(p)
        /\ tree' = [tree EXCEPT ![proc[p].name] = NoTree]
        /\ UNCHANGED quota
     \/ /\ \/ ~Vacant(Here(p)) /\ UNCHANGED quota
           \/ Fault
        /\ Fail(p) /\ UNCHANGED tree
  /\ UNCHANGED edits

-----------------------------------------------------------------------------
(* The user and the machine                                                 *)

Active(p) == proc[p].pc \notin {"start", "done", "dead"}

\* A process at a skill has read some of what it will decide by.
HasLooked(p) ==
  /\ Active(p) /\ proc[p].pc # "inspect"
  /\ ~(proc[p].pc = "check" /\ proc[p].cmd.op = "install")

\* The user edits a file of a skill, or also loses its manifest.
Edit(n) ==
  /\ quota.edits > 0 /\ tree[n].kind = "dir" /\ tree[n].content # Partial
  /\ quota' = [quota EXCEPT !.edits = @ - 1]
  /\ \E m \in {tree[n].manifest, "missing", "invalid"} :
       tree' = [tree EXCEPT ![n].content = Mine, ![n].manifest = m]
  /\ edits' = [edits EXCEPT ![n] =
       IF \E p \in Invokers : HasLooked(p) /\ proc[p].name = n THEN "raced"
       ELSE "quiet"]
  /\ UNCHANGED proc

Dies(p) ==
  /\ Active(p) /\ quota.crashes > 0
  /\ quota' = [quota EXCEPT !.crashes = @ - 1]
  /\ Step(p, "dead")
  /\ UNCHANGED <<tree, edits>>

SkillStep(p) ==
  \/ Begin(p) \/ Inspect(p) \/ ReadManifest(p) \/ InspectFails(p)
  \/ Check(p) \/ Swap(p) \/ Backup(p) \/ Place(p) \/ Rollback(p) \/ Cleanup(p)
  \/ BeginRemove(p) \/ Removing(p)

SkillNext ==
  \/ \E p \in Invokers : SkillStep(p) \/ Dies(p)
  \/ \E n \in Names : Edit(n)

-----------------------------------------------------------------------------
(* Properties                                                               *)

SkillTypeOK ==
  /\ tree \in [Names -> Tree]
  /\ edits \in [Names -> {"none", "quiet", "raced"}]
  /\ \A p \in Invokers :
       /\ proc[p].cmd \in Command /\ proc[p].backup \in Tree
       /\ proc[p].name \in Names \cup {0} /\ proc[p].seen \in Contents
       /\ proc[p].out \in {"none", "ok", "error", "stuck"}

Selected(n) == {p \in Invokers : n \in proc[p].cmd.names}
Copies(n) ==
  {tree[n]} \cup {proc[p].backup : p \in {q \in Invokers : proc[q].of = n}}
Whole == {t \in Tree : t.kind # "none" /\ t.content # Partial}

(***************************************************************************)
(* As long as no command for a skill has --force, what the user wrote in it *)
(* last is at its path or in a backup, whatever the processes do and        *)
(* wherever they die, if no process at work on that skill had looked at it  *)
(* before the user wrote (skill_lifecycle.go:294, :357).  What is written   *)
(* after such a look may be lost: see ModifiedIsUntouched.                  *)
(***************************************************************************)
OwnWorkSurvives ==
  \A n \in Names :
    edits[n] = "quiet" /\ (\A p \in Selected(n) : ~proc[p].cmd.force)
    => \E t \in Copies(n) : t.content = Mine

(***************************************************************************)
(* docs/6-Advanced.md:105 says it without the exception: "`update` and      *)
(* `uninstall` leave `modified`, `untracked`, and `invalid_manifest` Skills *)
(* untouched by default".  This does not hold: an edit between the look of  *)
(* update or uninstall and its swap or removal is lost.                     *)
(***************************************************************************)
ModifiedIsUntouched ==
  \A n \in Names :
    edits[n] # "none" /\ (\A p \in Selected(n) : ~proc[p].cmd.force)
    => \E t \in Copies(n) : t.content = Mine

(***************************************************************************)
(* install without --force never replaces a skill, not even one that        *)
(* appears after its first check (skill_lifecycle.go:512, :588); it may     *)
(* take the empty directory that a removal leaves.                          *)
(***************************************************************************)
InstallOnlyFills ==
  [][\A p \in Invokers, n \in Names :
       /\ proc[p].cmd.op = "install" /\ ~proc[p].cmd.force
       /\ proc'[p] # proc[p]
       => tree'[n] = tree[n] \/ Vacant(tree[n])]_skillVars

Kept(n) ==
  \A p \in Selected(n) : proc[p].cmd.op # "uninstall"

(***************************************************************************)
(* The swap of skill_lifecycle.go:563 keeps a whole tree at every moment,   *)
(* old or new, at the path of the skill or in a backup, whichever rename    *)
(* fails and wherever a process dies: no step takes the last whole copy of  *)
(* a skill for which there is no uninstall.                                 *)
(***************************************************************************)
OldOrNew ==
  [][\A n \in Names :
       Kept(n) /\ (\E t \in Copies(n) : t \in Whole)
       => (\E t \in Copies(n) : t \in Whole)']_skillVars

(***************************************************************************)
(* A replacement that fails does not leave the old skill beside an empty    *)
(* path (the rollback at skill_lifecycle.go:588): once no process is at     *)
(* work, the path of a skill that nobody uninstalls is empty only if no     *)
(* backup of it is left, unless a process died or a rollback failed.        *)
(*                                                                         *)
(* It says nothing of an uninstall that fails, which leaves a part of the   *)
(* tree, nor that a failed command changes nothing: the skills before the   *)
(* one it fails at stay changed, and if only its backup cannot be removed   *)
(* the new version stays.                                                   *)
(***************************************************************************)
FailureRestores ==
  \A n \in Names :
    /\ Kept(n) /\ tree[n].kind = "none"
    /\ \A p \in Invokers : ~Active(p) /\ proc[p].pc # "dead"
                           /\ proc[p].out # "stuck"
    => \A p \in Invokers : proc[p].of # n \/ proc[p].backup = NoTree

(***************************************************************************)
(* What the user wrote before a command without --force looked at the skill *)
(* is not lost, and a replacement that fails does not leave the path empty  *)
(* with the old tree in a backup, short of a death or a failed rollback     *)
(* (skill_lifecycle.go:294, :588).                                          *)
(***************************************************************************)
SkillsSurvive ==
  SkillTypeOK /\ OwnWorkSurvives /\ FailureRestores

(***************************************************************************)
(* No step takes the last whole copy of a skill that nobody uninstalls, and *)
(* install without --force replaces no skill (skill_lifecycle.go:512, :563, *)
(* :588).                                                                   *)
(***************************************************************************)
SwapsAreWhole ==
  InstallOnlyFills /\ OldOrNew
=============================================================================
