------------------------------ MODULE Upgrade ------------------------------
(***************************************************************************)
(* volclog upgrade (internal/upgrade): one invocation compares the version  *)
(* it was built as with the one asked for or released last, and with --yes  *)
(* replaces the executable, or has npm replace it.  The release may be      *)
(* published again while it is downloaded, a download may be cut, and the   *)
(* process or the machine may stop anywhere.                                *)
(*                                                                         *)
(* A version is its parsed form: three numbers and the identifiers of the   *)
(* prerelease, each a sequence of character codes.                          *)
(***************************************************************************)
EXTENDS Integers, Sequences

CONSTANTS
  Releases,      \* the versions there are, see Version
  MaxRepublished \* bound on the times a release is published again

Digit == 48..57
Identifier == Seq(Digit \cup 65..90 \cup 97..122 \cup {45}) \ {<<>>}
IsNumeric(id) == \A i \in DOMAIN id : id[i] \in Digit

\* What parseVersion takes: three numbers, and no number with a leading zero.
Plain(id) == IsNumeric(id) => Len(id) = 1 \/ id[1] # 48
Version ==
  {v \in [core : [1..3 -> Identifier], pre : Seq(Identifier)] :
     /\ \A i \in 1..3 : IsNumeric(v.core[i]) /\ Plain(v.core[i])
     /\ \A i \in DOMAIN v.pre : Plain(v.pre[i])}

ASSUME UpgradeAssumption ==
  MaxRepublished \in Nat /\ Releases \subseteq Version /\ Releases # {}

-----------------------------------------------------------------------------
(* compareVersions                                                          *)

\* The comparison of Go strings.
StringLess(a, b) ==
  \E k \in 1..Len(b) :
    /\ k <= Len(a) + 1
    /\ \A i \in 1..(k - 1) : a[i] = b[i]
    /\ k > Len(a) \/ a[k] < b[k]

\* Mutant of CompareNumeric: numbers are compared as strings.
CompareNumericAsText(a, b) ==
  IF StringLess(a, b) THEN -1 ELSE IF StringLess(b, a) THEN 1 ELSE 0

\* Without leading zeros the longer number is the greater one.
CompareNumeric(a, b) ==
  CASE Len(a) < Len(b) -> -1
    [] Len(a) > Len(b) -> 1
    [] Len(a) = Len(b) /\ StringLess(a, b) -> -1
    [] Len(a) = Len(b) /\ StringLess(b, a) -> 1
    [] OTHER -> 0

CompareIdentifier(a, b) ==
  CASE IsNumeric(a) /\ IsNumeric(b) -> CompareNumeric(a, b)
    [] IsNumeric(a) /\ ~IsNumeric(b) -> -1
    [] ~IsNumeric(a) /\ IsNumeric(b) -> 1
    [] ~IsNumeric(a) /\ ~IsNumeric(b) ->
         IF StringLess(a, b) THEN -1 ELSE IF StringLess(b, a) THEN 1 ELSE 0

\* The first difference decides, or 0.
FirstOf(results) ==
  IF \A i \in DOMAIN results : results[i] = 0 THEN 0
  ELSE results[CHOOSE i \in DOMAIN results :
                 results[i] # 0 /\ \A j \in 1..(i - 1) : results[j] = 0]

Shorter(a, b) == IF Len(a) < Len(b) THEN Len(a) ELSE Len(b)
ComparePre(a, b) ==
  LET first == FirstOf([i \in 1..Shorter(a, b) |-> CompareIdentifier(a[i], b[i])])
  IN  CASE first # 0 -> first
        [] first = 0 /\ Len(a) < Len(b) -> -1
        [] first = 0 /\ Len(a) > Len(b) -> 1
        [] OTHER -> 0

CompareVersions(l, r) ==
  LET core == FirstOf([i \in 1..3 |-> CompareNumeric(l.core[i], r.core[i])])
  IN  CASE core # 0 -> core
        [] core = 0 /\ l.pre = <<>> /\ r.pre = <<>> -> 0
        [] core = 0 /\ l.pre = <<>> /\ r.pre # <<>> -> 1
        [] core = 0 /\ l.pre # <<>> /\ r.pre = <<>> -> -1
        [] OTHER -> ComparePre(l.pre, r.pre)

-----------------------------------------------------------------------------
(* The reference: precedence as Semantic Versioning defines it              *)

Value[id \in Seq(Digit)] ==
  IF id = <<>> THEN 0
  ELSE 10 * Value[SubSeq(id, 1, Len(id) - 1)] + id[Len(id)] - 48

\* Identifiers of digits only are below the others and ordered as numbers.
Key(id) == IF IsNumeric(id) THEN <<0, Value[id]>> ELSE <<1>> \o id
KeyLess(a, b) == StringLess(Key(a), Key(b))

Precedes(l, r) ==
  LET num(v) == [i \in 1..3 |-> Value[v.core[i]]]
  IN  \/ \E i \in 1..3 : /\ num(l)[i] < num(r)[i]
                         /\ \A j \in 1..(i - 1) : num(l)[j] = num(r)[j]
      \/ /\ num(l) = num(r)
         /\ \/ l.pre # <<>> /\ r.pre = <<>>
            \/ /\ l.pre # <<>>
               /\ \E k \in 1..Len(r.pre) :
                    /\ k <= Len(l.pre) + 1
                    /\ \A i \in 1..(k - 1) : l.pre[i] = r.pre[i]
                    /\ k > Len(l.pre) \/ KeyLess(l.pre[k], r.pre[k])

-----------------------------------------------------------------------------
(* The state                                                                *)

None == [core |-> <<>>, pre |-> <<>>]
Archive == [version : Releases \cup {None}, build : 0..MaxRepublished,
            whole : BOOLEAN]
NoArchive == [version |-> None, build |-> 0, whole |-> FALSE]

VARIABLES
  up,     \* the invocation: pc, the versions, flags, what it has fetched
  exe,    \* the executable on the disk
  temp,   \* the temporary file next to it
  builds, \* how often releases have been published again
  latest  \* the version released last

upgradeVars == <<up, exe, temp, builds, latest>>

NewUp(v, asked, yes, npm) ==
  [pc |-> "start", current |-> v, asked |-> asked, yes |-> yes, npm |-> npm,
   target |-> None, available |-> FALSE, archive |-> NoArchive, out |-> "none"]

UpgradeInit ==
  /\ latest \in Releases
  /\ builds = 0
  /\ \E v \in Releases, yes \in BOOLEAN, npm \in BOOLEAN :
       /\ \E asked \in Releases \cup {None} : up = NewUp(v, asked, yes, npm)
       /\ exe = [version |-> v, build |-> 0, whole |-> TRUE]
  /\ temp = NoArchive

UpgradeIdle ==
  /\ latest = CHOOSE v \in Releases : TRUE
  /\ builds = MaxRepublished
  /\ up = [NewUp(latest, None, FALSE, FALSE) EXCEPT !.pc = "done"]
  /\ exe = [version |-> latest, build |-> 0, whole |-> TRUE]
  /\ temp = NoArchive

-----------------------------------------------------------------------------
(* Manager.Run                                                              *)

Failed == up' = [up EXCEPT !.pc = "done", !.out = "error"]

\* The target: what was asked for, or what the service says it released last.
Select ==
  /\ up.pc = "start"
  /\ LET target == IF up.asked # None THEN up.asked ELSE latest
         newer == CompareVersions(up.current, target) < 0
     IN  up' = [up EXCEPT !.target = target, !.available = newer,
                  !.pc = IF ~up.yes \/ ~newer THEN "done"
                         ELSE IF up.npm THEN "npm" ELSE "archive",
                  !.out = IF ~up.yes \/ ~newer THEN "checked" ELSE "none"]
  /\ UNCHANGED <<exe, temp, builds, latest>>

\* The service cannot be reached, the version is not valid, npm fails, an
\* archive holds no binary or one beyond the limit.
StepFails ==
  /\ up.pc \in {"start", "npm", "archive", "checksum", "extract"}
  /\ Failed
  /\ UNCHANGED <<exe, temp, builds, latest>>

\* npm replaces its package; it is external and the executable is its own.
NpmInstalls ==
  /\ up.pc = "npm"
  /\ up' = [up EXCEPT !.pc = "done", !.out = "updated"]
  /\ UNCHANGED <<exe, temp, builds, latest>>

\* A download may be cut or damaged without an error.
Download ==
  /\ up.pc = "archive"
  /\ \E whole \in BOOLEAN :
       up' = [up EXCEPT !.pc = "checksum",
                !.archive = [version |-> up.target, build |-> builds,
                             whole |-> whole]]
  /\ UNCHANGED <<exe, temp, builds, latest>>

\* The checksum is that of the build published now.
Verify ==
  /\ up.pc = "checksum"
  /\ IF up.archive = [version |-> up.target, build |-> builds, whole |-> TRUE]
       THEN up' = [up EXCEPT !.pc = "extract"]
       ELSE Failed
  /\ UNCHANGED <<exe, temp, builds, latest>>

-----------------------------------------------------------------------------
(* atomicReplace                                                            *)

\* The temporary file is there, with some of its content.
CreateTemp ==
  /\ up.pc = "extract"
  /\ temp' = [up.archive EXCEPT !.whole = FALSE]
  /\ up' = [up EXCEPT !.pc = "write"]
  /\ UNCHANGED <<exe, builds, latest>>

WriteTemp ==
  /\ up.pc = "write"
  /\ \/ temp' = up.archive /\ up' = [up EXCEPT !.pc = "rename"]
     \/ temp' = NoArchive /\ Failed
  /\ UNCHANGED <<exe, builds, latest>>

\* replaceFile; the deferred removal of the temporary file.
Replace ==
  /\ up.pc = "rename"
  /\ \/ exe' = temp /\ up' = [up EXCEPT !.pc = "done", !.out = "updated"]
     \/ Failed /\ UNCHANGED exe
  /\ temp' = NoArchive
  /\ UNCHANGED <<builds, latest>>

-----------------------------------------------------------------------------
(* The environment                                                          *)

Killed ==
  /\ up.pc # "done"
  /\ up' = [up EXCEPT !.pc = "done", !.out = "killed"]
  /\ UNCHANGED <<exe, temp, builds, latest>>

Republished ==
  /\ up.pc \in {"archive", "checksum"} /\ builds < MaxRepublished
  /\ builds' = builds + 1
  /\ UNCHANGED <<up, exe, temp, latest>>

UpgradeNext ==
  \/ Select \/ StepFails \/ NpmInstalls \/ Download \/ Verify
  \/ CreateTemp \/ WriteTemp \/ Replace \/ Killed \/ Republished

-----------------------------------------------------------------------------
(* Properties                                                               *)

UpgradeTypeOK ==
  /\ up.current \in Releases /\ up.target \in Releases \cup {None}
  /\ up.available \in BOOLEAN /\ up.archive \in Archive
  /\ up.out \in {"none", "error", "checked", "updated", "killed"}
  /\ exe \in Archive /\ temp \in Archive

(***************************************************************************)
(* An update is available just when the target has a higher precedence in   *)
(* Semantic Versioning (upgrade.go:493), although the code compares the     *)
(* digits of numbers as text and never their values.                        *)
(***************************************************************************)
OffersOnlyNewer ==
  up.target # None => (up.available <=> Precedes(up.current, up.target))

(***************************************************************************)
(* docs/6-Advanced.md:120: an upgrade verifies the checksum and replaces    *)
(* the executable atomically.  Whatever is cut, published again or killed,  *)
(* the executable is a whole build of one release, and another one than     *)
(* before only after an update with --yes.                                  *)
(***************************************************************************)
ExecutableIsWhole ==
  /\ exe.whole
  /\ exe.version # up.current =>
       up.yes /\ Precedes(up.current, exe.version)

(***************************************************************************)
(* atomicReplace (upgrade.go:368) leaves its temporary file behind only if  *)
(* the process is killed.                                                   *)
(***************************************************************************)
NoTempLeft == temp # NoArchive => up.pc \in {"write", "rename"} \/ up.out = "killed"

(***************************************************************************)
(* An upgrade only goes forward, the executable is at any time a complete   *)
(* release that was verified, and no temporary file outlives the command    *)
(* (upgrade.go:368, :493).                                                  *)
(***************************************************************************)
UpgradeIsSafe ==
  UpgradeTypeOK /\ OffersOnlyNewer /\ ExecutableIsWhole /\ NoTempLeft
=============================================================================
