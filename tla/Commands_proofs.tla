-------------------------- MODULE Commands_proofs --------------------------
(***************************************************************************)
(* Theorems about what commands do (MCCommands), for every set of skills,   *)
(* processes, versions, releases, log lines, tables, page sizes, flags,     *)
(* sources of credentials, fields, applications and sizes.  The parts share *)
(* no variables: each has an inductive invariant of its own.                *)
(***************************************************************************)
EXTENDS MCCommands, SequenceTheorems, FiniteSetTheorems, WellFoundedInduction,
        TLAPS

-----------------------------------------------------------------------------
(* The skills                                                              *)

Bundled == {Source[v] : v \in Versions}
ProcSet ==
  [pc : {"start", "inspect", "manifest", "check", "swap", "backup", "place",
         "rollback", "cleanup", "remove", "removing", "done", "dead"},
   cmd : Command, name : Names \cup {0}, seen : Contents, backup : Tree,
   of : Names \cup {0}, out : {"none", "ok", "error", "stuck"}]

Works(q) == q.pc \notin {"start", "done", "dead"}

\* A manifest that can be read is one that an installation has written.
Listing(t) == t.manifest = "valid" => t.digest \in Bundled

\* What the progress of a process says of it alone.
ProcOK(q) ==
  /\ Works(q) => q.name \in q.cmd.names
  /\ q.pc \in {"inspect", "manifest"} => q.cmd.op # "install"
  /\ q.pc \in {"remove", "removing"} => q.cmd.op = "uninstall"
  /\ q.pc = "backup" => q.cmd.op = "update" \/ q.cmd.force
  /\ q.pc \notin {"place", "rollback", "cleanup", "done", "dead"} =>
       q.backup = NoTree
  /\ q.pc \in {"rollback", "cleanup"} => q.backup # NoTree
  /\ Works(q) /\ q.backup # NoTree => q.of = q.name /\ q.backup.kind # "none"
  /\ Listing(q.backup)

\* A skill with the user's own work that nobody may replace.
Guarded(n) ==
  edits[n] = "quiet" /\ \A p \in Selected(n) : ~proc[p].cmd.force

\* A process at a skill has not decided to replace it.
Undecided(q, n) ==
  q.name = n /\ Works(q) =>
    \/ q.pc = "check" /\ q.cmd.op = "install"
    \/ q.pc = "inspect"
    \/ q.pc = "manifest" /\ q.seen = Mine

OwnWork(n) ==
  Guarded(n) =>
    /\ tree[n].kind # "none" /\ tree[n].content = Mine
    /\ \A p \in Invokers : Undecided(proc[p], n)

\* A backup that is going back, or was left by a death or a failed rollback.
Anchor(q, n) ==
  /\ q.of = n /\ q.backup \in Whole
  /\ q.pc \in {"place", "rollback", "dead"} \/ (q.pc = "done" /\ q.out = "stuck")

\* A skill that has a backup is never without a whole tree.
Anchored(n) ==
  Kept(n) =>
    /\ tree[n].kind = "none" \/ tree[n] \in Whole
    /\ \A p \in Invokers :
         Works(proc[p]) /\ proc[p].backup # NoTree /\ proc[p].of = n =>
           proc[p].backup \in Whole
    /\ (\E p \in Invokers : proc[p].of = n /\ proc[p].backup # NoTree) =>
         tree[n] \in Whole \/ \E q \in Invokers : Anchor(proc[q], n)

SkillInv ==
  /\ tree \in [Names -> Tree] /\ \A n \in Names : Listing(tree[n])
  /\ edits \in [Names -> {"none", "quiet", "raced"}]
  /\ proc \in [Invokers -> ProcSet] /\ \A p \in Invokers : ProcOK(proc[p])
  /\ \A n \in Names : OwnWork(n) /\ Anchored(n)

LEMMA Trees ==
  /\ NoTree \in Tree /\ Listing(NoTree) /\ NoTree \notin Whole
  /\ NoTree.kind = "none"
  /\ \A v \in Versions :
       Installed(v) \in Tree /\ Listing(Installed(v)) /\ Installed(v) \in Whole
  /\ \A t \in Whole : t \in Tree /\ t.kind # "none" /\ t # NoTree
  /\ \A t \in UserTrees :
       t \in Tree /\ Listing(t) /\ t \in Whole /\ t.content = Mine
<1>1. Mine # Partial /\ \A v \in Versions : Source[v] # Partial
  BY SkillAssumption DEF SkillAssumption
<1>2. /\ NoTree \in Tree /\ Listing(NoTree) /\ NoTree \notin Whole
      /\ NoTree.kind = "none"
  BY DEF NoTree, Tree, Contents, Listing, Whole
<1>3. ASSUME NEW v \in Versions
      PROVE  /\ Installed(v) \in Tree /\ Listing(Installed(v))
             /\ Installed(v) \in Whole
             /\ [Installed(v) EXCEPT !.content = Mine] \in Tree
             /\ Listing([Installed(v) EXCEPT !.content = Mine])
             /\ [Installed(v) EXCEPT !.content = Mine].kind = "dir"
             /\ [Installed(v) EXCEPT !.content = Mine].content = Mine
  BY <1>1 DEF Installed, Tree, Contents, Listing, Whole, Bundled
<1>4. \A t \in Whole : t \in Tree /\ t.kind # "none" /\ t # NoTree
  BY <1>2 DEF Whole
<1>5. ASSUME NEW kind \in {"file", "dir"}, NEW t,
             t = [NoTree EXCEPT !.kind = kind, !.content = Mine]
      PROVE  t \in Tree /\ Listing(t) /\ t.kind # "none" /\ t.content = Mine
  <2>1. t = [kind |-> kind, content |-> Mine, manifest |-> "missing",
             version |-> Nothing, digest |-> Nothing]
    BY <1>5 DEF NoTree
  <2>. QED  BY <2>1 DEF Tree, Contents, Listing
<1>6. ASSUME NEW t \in UserTrees
      PROVE  t \in Tree /\ Listing(t) /\ t.kind # "none" /\ t.content = Mine
  <2>1. CASE t = File
    BY <1>5, <2>1 DEF File
  <2>2. CASE t = [NoTree EXCEPT !.kind = "dir", !.content = Mine]
    BY <1>5, <2>2
  <2>3. CASE t \in {[Installed(v) EXCEPT !.content = Mine] : v \in Versions}
    BY <1>3, <2>3
  <2>. QED  BY <2>1, <2>2, <2>3 DEF UserTrees
<1>. QED  BY <1>1, <1>2, <1>3, <1>4, <1>6 DEF Whole

LEMMA SkillStarts == SkillInit \/ SkillIdle => SkillInv
<1>1. \A c \in Command :
        /\ NewProc(c) \in ProcSet /\ ProcOK(NewProc(c)) /\ NewProc(c).cmd = c
        /\ NewProc(c).pc = "start" /\ NewProc(c).backup = NoTree
        /\ NewProc(c).out = "none"
  BY Trees DEF NewProc, ProcSet, ProcOK, Works, Contents
<1>2. Commands \subseteq Command /\ Commands # {}
  BY SkillStartAssumption DEF SkillStartAssumption
<1>3. CASE SkillInit
  <2>1. /\ proc \in [Invokers -> ProcSet]
        /\ \A p \in Invokers : /\ ProcOK(proc[p]) /\ ~Works(proc[p])
                               /\ proc[p].backup = NoTree
    BY <1>1, <1>2, <1>3 DEF SkillInit, Works
  <2>2. \A n \in Names :
          \/ tree[n] \in UserTrees \/ tree[n] = NoTree
          \/ \E v \in Versions : tree[n] = Installed(v)
    BY <1>3, SkillStartAssumption DEF SkillInit, SkillStartAssumption
  <2>3. \A n \in Names : /\ tree[n] \in Tree /\ Listing(tree[n])
                         /\ tree[n].kind = "none" \/ tree[n] \in Whole
    BY <2>2, Trees
  <2>4. tree \in [Names -> Tree]
        /\ edits \in [Names -> {"none", "quiet", "raced"}]
    BY <1>3, <2>3 DEF SkillInit
  <2>5. \A n \in Names : OwnWork(n)
    <3>1. \A n \in Names : edits[n] = "quiet" => tree[n] \in UserTrees
      BY <1>3 DEF SkillInit
    <3>2. \A n \in Names : edits[n] = "quiet" =>
            tree[n].kind # "none" /\ tree[n].content = Mine
      BY <3>1, Trees
    <3>. QED  BY <2>1, <3>2 DEF OwnWork, Guarded, Undecided
  <2>6. \A n \in Names : Anchored(n)
    BY <2>1, <2>3 DEF Anchored
  <2>. QED  BY <2>1, <2>3, <2>4, <2>5, <2>6 DEF SkillInv
<1>4. CASE SkillIdle
  <2>. DEFINE q == NewProc(CHOOSE c \in Commands : TRUE)
  <2>1. q \in ProcSet /\ ProcOK(q) /\ q.backup = NoTree
    BY <1>1, <1>2
  <2>2. \A p \in Invokers : proc[p] = [q EXCEPT !.pc = "done"]
    BY <1>4 DEF SkillIdle
  <2>3. proc \in [Invokers -> {[q EXCEPT !.pc = "done"]}]
    BY <1>4 DEF SkillIdle
  <2>. HIDE DEF q
  <2>4. [q EXCEPT !.pc = "done"] \in ProcSet
        /\ [q EXCEPT !.pc = "done"].pc = "done"
        /\ [q EXCEPT !.pc = "done"].backup = NoTree
    BY <2>1 DEF ProcSet
  <2>5. /\ proc \in [Invokers -> ProcSet]
        /\ \A p \in Invokers : /\ ProcOK(proc[p]) /\ ~Works(proc[p])
                               /\ proc[p].backup = NoTree
    BY <2>2, <2>3, <2>4, Trees DEF ProcOK, Works
  <2>6. /\ tree \in [Names -> Tree]
        /\ edits \in [Names -> {"none", "quiet", "raced"}]
        /\ \A n \in Names : Listing(tree[n]) /\ tree[n].kind = "none"
                            /\ edits[n] = "none"
    BY <1>4, Trees DEF SkillIdle
  <2>7. \A n \in Names : OwnWork(n)
    BY <2>6 DEF OwnWork, Guarded
  <2>8. \A n \in Names : Anchored(n)
    BY <2>5, <2>6 DEF Anchored
  <2>. QED  BY <2>5, <2>6, <2>7, <2>8 DEF SkillInv
<1>. QED  BY <1>3, <1>4

-----------------------------------------------------------------------------
\* A process goes on to r and leaves the skills as they are.

Retains(q, r) ==
  /\ r \in ProcSet /\ ProcOK(r) /\ r.cmd = q.cmd
  /\ r.backup # NoTree => q.backup # NoTree /\ r.of = q.of
  /\ Works(r) /\ r.backup # NoTree => Works(q) /\ r.backup = q.backup

WholeCopy(n) == \E t \in Copies(n) : t \in Whole

\* What a step may do to skills and what it may not.
StepOK ==
  /\ SkillInv'
  /\ \A n \in Names : Kept(n) /\ WholeCopy(n) => WholeCopy(n)'

LEMMA CopyIsAnchored ==
  ASSUME SkillInv, NEW n \in Names, Kept(n), WholeCopy(n)
  PROVE  tree[n] \in Whole \/ \E q \in Invokers : Anchor(proc[q], n)
<1>1. PICK t \in Copies(n) : t \in Whole
  BY DEF WholeCopy
<1>2. CASE t = tree[n]
  BY <1>1, <1>2
<1>3. ASSUME NEW p \in Invokers, proc[p].of = n, t = proc[p].backup
      PROVE  tree[n] \in Whole \/ \E q \in Invokers : Anchor(proc[q], n)
  <2>1. proc[p].backup # NoTree
    BY <1>1, <1>3, Trees
  <2>. QED  BY <1>3, <2>1 DEF SkillInv, Anchored
<1>. QED  BY <1>1, <1>2, <1>3 DEF Copies

LEMMA AnchorIsCopy ==
  ASSUME NEW n \in Names,
         tree[n] \in Whole \/ \E q \in Invokers : Anchor(proc[q], n)
  PROVE  WholeCopy(n)
BY DEF WholeCopy, Copies, Anchor

LEMMA GoesOn ==
  ASSUME SkillInv, NEW p \in Invokers, NEW r,
         proc' = [proc EXCEPT ![p] = r], UNCHANGED <<tree, edits>>,
         Retains(proc[p], r),
         \A n \in Names : Guarded(n) => Undecided(r, n),
         \A n \in Names : Anchor(proc[p], n) => Anchor(r, n)
  PROVE  StepOK
<1>1. /\ proc' \in [Invokers -> ProcSet] /\ proc'[p] = r
      /\ \A q \in Invokers : q # p => proc'[q] = proc[q]
      /\ \A q \in Invokers : proc'[q].cmd = proc[q].cmd
  BY DEF SkillInv, Retains
<1>2. /\ tree' \in [Names -> Tree] /\ (\A n \in Names : Listing(tree'[n]))
      /\ edits' \in [Names -> {"none", "quiet", "raced"}]
      /\ \A q \in Invokers : ProcOK(proc'[q])
  BY <1>1 DEF SkillInv, Retains
<1>3. \A n \in Names : (Guarded(n)' <=> Guarded(n)) /\ (Kept(n)' <=> Kept(n))
  BY <1>1 DEF Guarded, Kept, Selected
<1>4. \A n \in Names : OwnWork(n)'
  BY <1>1, <1>3 DEF SkillInv, OwnWork
<1>5. \A n \in Names : (\E q \in Invokers : Anchor(proc[q], n))
                       => \E q \in Invokers : Anchor(proc'[q], n)
  BY <1>1
<1>6. ASSUME NEW n \in Names  PROVE Anchored(n)'
  <2>. SUFFICES ASSUME Kept(n)
       PROVE /\ tree'[n].kind = "none" \/ tree'[n] \in Whole
             /\ \A q \in Invokers :
                  Works(proc'[q]) /\ proc'[q].backup # NoTree
                    /\ proc'[q].of = n => proc'[q].backup \in Whole
             /\ (\E q \in Invokers : proc'[q].of = n /\ proc'[q].backup # NoTree)
                => tree'[n] \in Whole \/ \E q \in Invokers : Anchor(proc'[q], n)
    BY <1>3 DEF Anchored, Whole, Tree, Contents, NoTree
  <2>1. Anchored(n)
    BY DEF SkillInv
  <2>2. tree'[n].kind = "none" \/ tree'[n] \in Whole
    BY <2>1 DEF Anchored
  <2>3. ASSUME NEW q \in Invokers, Works(proc'[q]), proc'[q].backup # NoTree,
               proc'[q].of = n
        PROVE  proc'[q].backup \in Whole
    BY <1>1, <2>1, <2>3 DEF Retains, Anchored
  <2>4. ASSUME NEW q \in Invokers, proc'[q].of = n, proc'[q].backup # NoTree
        PROVE  tree'[n] \in Whole \/ \E o \in Invokers : Anchor(proc'[o], n)
    <3>1. proc[q].of = n /\ proc[q].backup # NoTree
      BY <1>1, <2>4 DEF Retains
    <3>2. tree[n] \in Whole \/ \E o \in Invokers : Anchor(proc[o], n)
      BY <2>1, <3>1 DEF Anchored
    <3>. QED  BY <1>5, <3>2
  <2>. QED  BY <2>2, <2>3, <2>4
<1>7. ASSUME NEW n \in Names, Kept(n), WholeCopy(n)  PROVE WholeCopy(n)'
  <2>1. tree[n] \in Whole \/ \E q \in Invokers : Anchor(proc[q], n)
    BY <1>7, CopyIsAnchored
  <2>2. tree'[n] \in Whole \/ \E q \in Invokers : Anchor(proc'[q], n)
    BY <1>5, <2>1
  <2>. QED  BY <2>2 DEF WholeCopy, Copies, Anchor, Whole, Tree, Contents
<1>. QED  BY <1>2, <1>1, <1>4, <1>6, <1>7 DEF StepOK, SkillInv

\* A process goes on to r and puts t in the place of its skill.
LEMMA Places ==
  ASSUME SkillInv, NEW p \in Invokers, NEW r, NEW n \in Names, NEW t,
         proc' = [proc EXCEPT ![p] = r], tree' = [tree EXCEPT ![n] = t],
         UNCHANGED edits, Works(proc[p]), proc[p].name = n,
         t \in Tree, Listing(t),
         r \in ProcSet, ProcOK(r), r.cmd = proc[p].cmd, ~Guarded(n),
         \A m \in Names : m # n => Undecided(r, m),
         r.backup # NoTree => r.of = n,
         Kept(n) => \/ t \in Whole
                    \/ t.kind = "none" /\ Anchor(r, n),
         Kept(n) /\ Works(r) /\ r.backup # NoTree => r.backup \in Whole
  PROVE  StepOK
<1>1. /\ proc' \in [Invokers -> ProcSet] /\ proc'[p] = r
      /\ \A q \in Invokers : q # p => proc'[q] = proc[q]
      /\ \A q \in Invokers : proc'[q].cmd = proc[q].cmd
  BY DEF SkillInv
<1>2. /\ tree' \in [Names -> Tree] /\ (\A m \in Names : Listing(tree'[m]))
      /\ tree'[n] = t /\ \A m \in Names : m # n => tree'[m] = tree[m]
      /\ edits' \in [Names -> {"none", "quiet", "raced"}]
      /\ \A q \in Invokers : ProcOK(proc'[q])
  BY <1>1 DEF SkillInv
<1>3. \A m \in Names : (Guarded(m)' <=> Guarded(m)) /\ (Kept(m)' <=> Kept(m))
  BY <1>1 DEF Guarded, Kept, Selected
<1>4. \A m \in Names : OwnWork(m)'
  BY <1>1, <1>2, <1>3 DEF SkillInv, OwnWork
<1>5. \A m \in Names : m # n =>
        /\ ~Anchor(proc[p], m)
        /\ ~(proc[p].of = m /\ proc[p].backup # NoTree)
  BY Trees DEF SkillInv, ProcOK, Anchor
<1>6. \A m \in Names : m # n /\ (\E q \in Invokers : Anchor(proc[q], m))
                       => \E q \in Invokers : Anchor(proc'[q], m)
  BY <1>1, <1>5
<1>7. ASSUME NEW m \in Names
      PROVE  Anchored(m)'
             /\ (Kept(m) /\ WholeCopy(m) =>
                   tree'[m] \in Whole \/ \E q \in Invokers : Anchor(proc'[q], m))
  <2>. SUFFICES ASSUME Kept(m)
       PROVE /\ tree'[m].kind = "none" \/ tree'[m] \in Whole
             /\ \A q \in Invokers :
                  Works(proc'[q]) /\ proc'[q].backup # NoTree
                    /\ proc'[q].of = m => proc'[q].backup \in Whole
             /\ (\E q \in Invokers : proc'[q].of = m /\ proc'[q].backup # NoTree)
                => tree'[m] \in Whole \/ \E q \in Invokers : Anchor(proc'[q], m)
             /\ WholeCopy(m) =>
                   tree'[m] \in Whole \/ \E q \in Invokers : Anchor(proc'[q], m)
    BY <1>3 DEF Anchored, Whole, Tree, Contents, NoTree
  <2>1. Anchored(m)
    BY DEF SkillInv
  <2>2. CASE m = n
    <3>1. tree'[m] \in Whole \/ \E q \in Invokers : Anchor(proc'[q], m)
      BY <1>1, <1>2, <2>2
    <3>2. tree'[m].kind = "none" \/ tree'[m] \in Whole
      BY <1>2, <2>2
    <3>3. ASSUME NEW q \in Invokers, Works(proc'[q]), proc'[q].backup # NoTree,
                 proc'[q].of = m
          PROVE  proc'[q].backup \in Whole
      BY <1>1, <2>1, <2>2, <3>3 DEF Anchored
    <3>. QED  BY <3>1, <3>2, <3>3
  <2>3. CASE m # n
    <3>1. WholeCopy(m) =>
            tree'[m] \in Whole \/ \E q \in Invokers : Anchor(proc'[q], m)
      BY <1>2, <1>6, <2>3, CopyIsAnchored
    <3>2. tree'[m].kind = "none" \/ tree'[m] \in Whole
      BY <1>2, <2>1, <2>3 DEF Anchored
    <3>3. ASSUME NEW q \in Invokers, Works(proc'[q]), proc'[q].backup # NoTree,
                 proc'[q].of = m
          PROVE  proc'[q].backup \in Whole
      BY <1>1, <2>1, <2>3, <3>3 DEF Anchored
    <3>4. ASSUME NEW q \in Invokers, proc'[q].of = m, proc'[q].backup # NoTree
          PROVE  tree'[m] \in Whole \/ \E o \in Invokers : Anchor(proc'[o], m)
      <4>1. proc[q].of = m /\ proc[q].backup # NoTree
        BY <1>1, <2>3, <3>4
      <4>2. tree[m] \in Whole \/ \E o \in Invokers : Anchor(proc[o], m)
        BY <2>1, <4>1 DEF Anchored
      <4>. QED  BY <1>2, <1>6, <2>3, <4>2
    <3>. QED  BY <3>1, <3>2, <3>3, <3>4
  <2>. QED  BY <2>2, <2>3
<1>8. ASSUME NEW m \in Names, Kept(m), WholeCopy(m)  PROVE WholeCopy(m)'
  <2>1. tree'[m] \in Whole \/ \E q \in Invokers : Anchor(proc'[q], m)
    BY <1>7, <1>8
  <2>. QED  BY <2>1 DEF WholeCopy, Copies, Anchor, Whole, Tree, Contents
<1>. QED  BY <1>1, <1>2, <1>4, <1>7, <1>8 DEF StepOK, SkillInv

-----------------------------------------------------------------------------
\* A set of natural numbers that is not empty has a least element.
LEMMA Least ==
  ASSUME NEW S \in SUBSET Nat, S # {}
  PROVE  \E m \in S : \A k \in S : m <= k
<1>1. PICK m \in S : \A k \in S : ~(<<k, m>> \in OpToRel(<, Nat))
  BY WFMin, NatLessThanWellFounded
<1>2. m \in Nat /\ \A k \in S : k \in Nat /\ ~(k < m)
  BY <1>1, Zenon DEF OpToRel
<1>3. \A k \in S : m <= k
  BY <1>2
<1>. QED  BY <1>1, <1>3, Zenon

\* The next skill is one of the command's.
LEMMA LaterLeast ==
  ASSUME SkillInv, NEW p \in Invokers, Later(p) # {}
  PROVE  (CHOOSE n \in Later(p) : \A m \in Later(p) : n <= m) \in Later(p)
<1>1. Later(p) \in SUBSET Nat
  BY SkillAssumption DEF Later, SkillInv, ProcSet, Command, SkillAssumption
<1>2. \E n \in Later(p) : \A m \in Later(p) : n <= m
  BY <1>1, Least
<1>. QED  BY <1>2

\* A process at a skill has its place in the tree.
LEMMA AtSkill ==
  ASSUME SkillInv, NEW p \in Invokers, Works(proc[p])
  PROVE  /\ proc[p] \in ProcSet /\ ProcOK(proc[p])
         /\ proc[p].name \in Names /\ proc[p].name \in proc[p].cmd.names
         /\ proc[p].cmd \in Command /\ proc[p].cmd.version \in Versions
         /\ Here(p) = tree[proc[p].name] /\ Here(p) \in Tree /\ Listing(Here(p))
         /\ p \in Selected(proc[p].name)
<1>1. proc[p] \in ProcSet /\ ProcOK(proc[p])
  BY DEF SkillInv
<1>2. /\ proc[p].cmd \in Command /\ proc[p].cmd.names \subseteq Names
      /\ proc[p].cmd.version \in Versions
  BY <1>1 DEF ProcSet, Command
<1>3. proc[p].name \in proc[p].cmd.names
  BY <1>1 DEF ProcOK
<1>. QED  BY <1>1, <1>2, <1>3 DEF Here, SkillInv, Selected

\* Moving on at a skill: the process only changes its place.
LEMMA StepKeeps ==
  ASSUME SkillInv, NEW p \in Invokers, Works(proc[p]), NEW pc,
         Step(p, pc), UNCHANGED <<tree, edits>>,
         pc \in {"check", "swap", "backup", "place", "rollback", "remove",
                 "dead"},
         pc = "rollback" => proc[p].pc = "place" /\ proc[p].backup # NoTree,
         pc \in {"check", "swap", "backup", "remove"} => proc[p].backup = NoTree,
         pc = "place" => proc[p].backup = NoTree,
         pc = "remove" => proc[p].cmd.op = "uninstall",
         pc = "backup" => proc[p].cmd.op = "update" \/ proc[p].cmd.force,
         Guarded(proc[p].name) => pc = "dead"
  PROVE  StepOK
<1>. DEFINE q == proc[p]
            r == [q EXCEPT !.pc = pc]
<1>1. q \in ProcSet /\ ProcOK(q) /\ Works(q) /\ q.name \in Names
  BY AtSkill
<1>2. proc' = [proc EXCEPT ![p] = r]
  BY DEF Step
<1>3. /\ r \in ProcSet /\ r.pc = pc /\ r.cmd = q.cmd /\ r.name = q.name
      /\ r.backup = q.backup /\ r.of = q.of
  BY <1>1 DEF ProcSet
<1>. HIDE DEF r
<1>4. ProcOK(r)
  BY <1>1, <1>3 DEF ProcOK, Works
<1>5. Retains(q, r)
  BY <1>1, <1>3, <1>4 DEF Retains
<1>6. \A n \in Names : Guarded(n) => Undecided(r, n)
  BY <1>3 DEF Undecided, Works
<1>7. \A n \in Names : Anchor(q, n) => Anchor(r, n)
  BY <1>1, <1>3, Trees DEF Anchor, Works
<1>. QED  BY <1>2, <1>5, <1>6, <1>7, GoesOn

\* A command that fails, and leaves no backup of its own.
LEMMA FailKeeps ==
  ASSUME SkillInv, NEW p \in Invokers, Works(proc[p]), Fail(p),
         UNCHANGED <<tree, edits>>, proc[p].backup = NoTree
  PROVE  StepOK
<1>. DEFINE q == proc[p]
            r == [q EXCEPT !.pc = "done", !.out = "error"]
<1>1. q \in ProcSet /\ ProcOK(q)
  BY AtSkill
<1>2. proc' = [proc EXCEPT ![p] = r]
  BY DEF Fail
<1>3. /\ r \in ProcSet /\ r.pc = "done" /\ r.cmd = q.cmd
      /\ r.backup = NoTree
  BY <1>1 DEF ProcSet
<1>. HIDE DEF r
<1>4. ProcOK(r)
  BY <1>3, Trees DEF ProcOK, Works
<1>5. Retains(q, r)
  BY <1>3, <1>4 DEF Retains
<1>6. \A n \in Names : Undecided(r, n)
  BY <1>3 DEF Undecided, Works
<1>7. \A n \in Names : ~Anchor(q, n)
  BY Trees DEF Anchor
<1>. QED  BY <1>2, <1>5, <1>6, <1>7, GoesOn

\* Where a process is that has taken leave of a skill.
LEMMA AdvancedOK ==
  ASSUME SkillInv, NEW p \in Invokers
  PROVE  LET r == Advanced(p) IN
         /\ r \in ProcSet /\ ProcOK(r) /\ r.cmd = proc[p].cmd
         /\ r.backup = NoTree /\ \A n : Undecided(r, n)
<1>. DEFINE q == [proc[p] EXCEPT !.backup = NoTree, !.seen = Nothing]
            r == Advanced(p)
            next == CHOOSE n \in Later(p) : \A m \in Later(p) : n <= m
<1>1. /\ q \in ProcSet /\ q.cmd = proc[p].cmd /\ q.backup = NoTree
      /\ q.seen = Nothing
  BY Trees DEF SkillInv, ProcSet, Contents
<1>2. CASE Later(p) = {}
  <2>1. r = [q EXCEPT !.pc = "done", !.out = "ok"]
    BY <1>2 DEF Advanced
  <2>. HIDE DEF q, r
  <2>2. r \in ProcSet /\ r.cmd = proc[p].cmd /\ r.backup = NoTree /\ r.pc = "done"
    BY <1>1, <2>1 DEF ProcSet
  <2>. QED  BY <2>2, Trees DEF ProcOK, Undecided, Works, r
<1>3. CASE Later(p) # {}
  <2>1. next \in Later(p)
    BY <1>3, LaterLeast
  <2>2. next \in proc[p].cmd.names /\ next \in Names
    BY <2>1 DEF Later, SkillInv, ProcSet, Command
  <2>. DEFINE pc == IF proc[p].cmd.op = "install" THEN "check" ELSE "inspect"
  <2>3. r = [q EXCEPT !.name = next, !.pc = pc]
    BY <1>3 DEF Advanced
  <2>4. pc \in {"check", "inspect"} /\ (pc = "check" <=> q.cmd.op = "install")
    BY <1>1
  <2>. HIDE DEF q, r, next, pc
  <2>5. /\ r \in ProcSet /\ r.cmd = proc[p].cmd /\ r.backup = NoTree
        /\ r.pc = pc /\ r.name = next
    BY <1>1, <2>2, <2>3, <2>4 DEF ProcSet
  <2>6. ProcOK(r)
    BY <1>1, <2>2, <2>4, <2>5, Trees DEF ProcOK, Works
  <2>7. \A n : Undecided(r, n)
    BY <1>1, <2>4, <2>5 DEF Undecided
  <2>. QED  BY <2>5, <2>6, <2>7 DEF r
<1>. QED  BY <1>2, <1>3

LEMMA AdvanceKeeps ==
  ASSUME SkillInv, NEW p \in Invokers, Advance(p), UNCHANGED <<tree, edits>>,
         proc[p].backup = NoTree \/ proc[p].pc = "cleanup"
  PROVE  StepOK
<1>. DEFINE r == Advanced(p)
<1>1. /\ r \in ProcSet /\ ProcOK(r) /\ r.cmd = proc[p].cmd
      /\ r.backup = NoTree /\ \A n : Undecided(r, n)
  BY AdvancedOK
<1>2. proc' = [proc EXCEPT ![p] = r]
  BY DEF Advance
<1>. HIDE DEF r
<1>3. Retains(proc[p], r)
  BY <1>1 DEF Retains
<1>4. \A n \in Names : ~Anchor(proc[p], n)
  BY Trees DEF Anchor
<1>. QED  BY <1>1, <1>2, <1>3, <1>4, GoesOn

\* ... and has put t in its place.
LEMMA AdvancePlaces ==
  ASSUME SkillInv, NEW p \in Invokers, Works(proc[p]), Advance(p), NEW t,
         tree' = [tree EXCEPT ![proc[p].name] = t], UNCHANGED edits,
         t \in Tree, Listing(t), ~Guarded(proc[p].name),
         Kept(proc[p].name) => t \in Whole
  PROVE  StepOK
<1>. DEFINE r == Advanced(p)
            n == proc[p].name
<1>1. /\ r \in ProcSet /\ ProcOK(r) /\ r.cmd = proc[p].cmd
      /\ r.backup = NoTree /\ \A m : Undecided(r, m)
  BY AdvancedOK
<1>2. proc' = [proc EXCEPT ![p] = r]
  BY DEF Advance
<1>3. n \in Names
  BY AtSkill
<1>. HIDE DEF r
<1>. QED  BY <1>1, <1>2, <1>3, Places

-----------------------------------------------------------------------------
\* A process that has decided to replace a skill finds no work of the user's.
LEMMA DecidedUnguarded ==
  ASSUME SkillInv, NEW p \in Invokers,
         proc[p].pc \in {"swap", "backup", "place", "rollback", "cleanup",
                         "remove", "removing"}
  PROVE  Works(proc[p]) /\ ~Guarded(proc[p].name)
<1>1. Works(proc[p])
  BY DEF Works
<1>2. proc[p].name \in Names
  BY <1>1, AtSkill
<1>3. Guarded(proc[p].name) => Undecided(proc[p], proc[p].name)
  BY <1>2 DEF SkillInv, OwnWork
<1>. QED  BY <1>1, <1>3 DEF Undecided

LEMMA DecideKeeps ==
  ASSUME SkillInv, NEW p \in Invokers, NEW status, Decide(p, status),
         UNCHANGED <<tree, edits>>, proc[p].pc \in {"inspect", "manifest"},
         Guarded(proc[p].name) => status \in Protected
  PROVE  StepOK
<1>1. /\ Works(proc[p]) /\ ProcOK(proc[p]) /\ proc[p] \in ProcSet
      /\ p \in Selected(proc[p].name)
  BY AtSkill DEF Works
<1>2. proc[p].backup = NoTree /\ proc[p].cmd.op \in {"update", "uninstall"}
  BY <1>1 DEF ProcOK, ProcSet, Command
<1>3. CASE status \in Protected /\ ~proc[p].cmd.force
  <2>1. Advance(p)
    BY <1>3 DEF Decide
  <2>. QED  BY <1>2, <2>1, AdvanceKeeps
<1>4. CASE ~(status \in Protected /\ ~proc[p].cmd.force)
  <2>. DEFINE pc == IF proc[p].cmd.op = "update" THEN "check" ELSE "remove"
  <2>1. Step(p, pc)
    BY <1>4 DEF Decide
  <2>2. pc \in {"check", "remove"} /\ (pc = "remove" => proc[p].cmd.op = "uninstall")
    BY <1>2
  <2>3. ~Guarded(proc[p].name)
    BY <1>1, <1>4 DEF Guarded
  <2>. HIDE DEF pc
  <2>. QED  BY <1>1, <1>2, <2>1, <2>2, <2>3, StepKeeps
<1>. QED  BY <1>3, <1>4

LEMMA BeginKeeps ==
  ASSUME SkillInv, NEW p \in Invokers, Begin(p)  PROVE StepOK
<1>1. proc[p].backup = NoTree
  BY DEF Begin, SkillInv, ProcOK
<1>. QED  BY <1>1, AdvanceKeeps DEF Begin

LEMMA InspectKeeps ==
  ASSUME SkillInv, NEW p \in Invokers, Inspect(p)  PROVE StepOK
<1>. DEFINE q == proc[p]
            n == q.name
            t == tree[n]
<1>1. /\ q.pc = "inspect" /\ Works(q) /\ UNCHANGED <<tree, edits>>
  BY DEF Inspect, Works
<1>2. /\ q \in ProcSet /\ ProcOK(q) /\ n \in Names /\ t \in Tree
      /\ q.backup = NoTree /\ q.cmd.op # "install" /\ n \in q.cmd.names
  BY <1>1, AtSkill DEF ProcOK
<1>3. Guarded(n) => t.content = Mine
  BY <1>2 DEF SkillInv, OwnWork
<1>4. CASE Advance(p)
  BY <1>1, <1>2, <1>4, AdvanceKeeps
<1>5. CASE t.kind = "file" /\ Decide(p, Status(p, t))
  <2>1. Status(p, t) \in Protected
    BY <1>5 DEF Status, Protected
  <2>. QED  BY <1>1, <1>5, <2>1, DecideKeeps
<1>6. CASE proc' = [proc EXCEPT ![p].pc = "manifest", ![p].seen = t.content]
  <2>. DEFINE r == [q EXCEPT !.pc = "manifest", !.seen = t.content]
  <2>1. t.content \in Contents
    BY <1>2 DEF Tree
  <2>2. proc' = [proc EXCEPT ![p] = r]
    BY <1>6 DEF SkillInv
  <2>3. /\ r \in ProcSet /\ r.pc = "manifest" /\ r.seen = t.content
        /\ r.cmd = q.cmd /\ r.name = n /\ r.backup = NoTree /\ r.of = q.of
    BY <1>2, <2>1 DEF ProcSet
  <2>. HIDE DEF r
  <2>4. ProcOK(r)
    BY <1>2, <2>3, Trees DEF ProcOK, Works
  <2>5. Retains(q, r)
    BY <2>3, <2>4 DEF Retains
  <2>6. \A m \in Names : Guarded(m) => Undecided(r, m)
    BY <1>3, <2>3 DEF Undecided
  <2>7. \A m \in Names : ~Anchor(q, m)
    BY <1>1 DEF Anchor
  <2>. QED  BY <1>1, <2>2, <2>5, <2>6, <2>7, GoesOn
<1>7. t.kind \in {"none", "file", "dir"}
  BY <1>2 DEF Tree
<1>. QED  BY <1>4, <1>5, <1>6, <1>7 DEF Inspect

LEMMA ReadManifestKeeps ==
  ASSUME SkillInv, NEW p \in Invokers, ReadManifest(p)  PROVE StepOK
<1>. DEFINE q == proc[p]
            n == q.name
            t == tree[n]
<1>1. /\ q.pc = "manifest" /\ Works(q) /\ UNCHANGED <<tree, edits>>
      /\ Decide(p, Status(p, t))
  BY DEF ReadManifest, Works
<1>2. /\ n \in Names /\ t \in Tree /\ Listing(t)
  BY <1>1, AtSkill DEF SkillInv
<1>3. Guarded(n) => t.content = Mine /\ q.seen = Mine
  BY <1>1, <1>2 DEF SkillInv, OwnWork, Undecided
<1>4. Guarded(n) => Status(p, t) \in Protected
  <2>. SUFFICES ASSUME Guarded(n)  PROVE Status(p, t) \in Protected
    OBVIOUS
  <2>1. t.manifest = "valid" => q.seen # t.digest
    BY <1>2, <1>3, SkillAssumption DEF Listing, Bundled, SkillAssumption
  <2>2. t.manifest \in {"valid", "missing", "invalid"}
    BY <1>2 DEF Tree
  <2>. QED  BY <2>1, <2>2 DEF Status, Protected
<1>. QED  BY <1>1, <1>4, DecideKeeps

LEMMA InspectFailsKeeps ==
  ASSUME SkillInv, NEW p \in Invokers, InspectFails(p)  PROVE StepOK
<1>1. Works(proc[p]) /\ Fail(p) /\ UNCHANGED <<tree, edits>>
  BY DEF InspectFails, Works
<1>2. proc[p].backup = NoTree
  BY DEF InspectFails, SkillInv, ProcOK
<1>. QED  BY <1>1, <1>2, FailKeeps

LEMMA CheckKeeps ==
  ASSUME SkillInv, NEW p \in Invokers, Check(p)  PROVE StepOK
<1>1. proc[p].pc = "check" /\ Works(proc[p]) /\ UNCHANGED <<tree, edits>>
  BY DEF Check, Works
<1>2. /\ proc[p].backup = NoTree /\ proc[p].name \in Names
      /\ Here(p) = tree[proc[p].name] /\ p \in Selected(proc[p].name)
  BY <1>1, AtSkill DEF ProcOK
<1>3. CASE Fail(p)
  BY <1>1, <1>2, <1>3, FailKeeps
<1>4. CASE Step(p, "swap") /\ ~(Here(p).kind # "none" /\ ~MayReplace(p))
  <2>1. ~Guarded(proc[p].name)
    <3>. SUFFICES ASSUME Guarded(proc[p].name)  PROVE FALSE
      OBVIOUS
    <3>1. /\ tree[proc[p].name].kind # "none"
          /\ Undecided(proc[p], proc[p].name) /\ ~proc[p].cmd.force
      BY <1>2 DEF SkillInv, OwnWork, Guarded
    <3>2. proc[p].cmd.op = "install"
      BY <1>1, <3>1 DEF Undecided
    <3>. QED  BY <1>2, <1>4, <3>1, <3>2 DEF MayReplace
  <2>. QED  BY <1>1, <1>2, <1>4, <2>1, StepKeeps
<1>. QED  BY <1>3, <1>4 DEF Check

LEMMA SwapKeeps ==
  ASSUME SkillInv, NEW p \in Invokers, Swap(p)  PROVE StepOK
<1>1. /\ proc[p].pc = "swap" /\ Works(proc[p]) /\ UNCHANGED <<tree, edits>>
      /\ ~Guarded(proc[p].name)
  BY DecidedUnguarded DEF Swap
<1>2. proc[p].backup = NoTree
  BY <1>1 DEF SkillInv, ProcOK
<1>3. CASE Fail(p)
  BY <1>1, <1>2, <1>3, FailKeeps
<1>4. CASE Step(p, "place")
  BY <1>1, <1>2, <1>4, StepKeeps
<1>5. CASE MayReplace(p) /\ Step(p, "backup")
  BY <1>1, <1>2, <1>5, StepKeeps DEF MayReplace
<1>. QED  BY <1>3, <1>4, <1>5 DEF Swap

LEMMA BackupKeeps ==
  ASSUME SkillInv, NEW p \in Invokers, Backup(p)  PROVE StepOK
<1>. DEFINE q == proc[p]
            n == q.name
            t == tree[n]
<1>1. /\ q.pc = "backup" /\ Works(q) /\ UNCHANGED edits /\ ~Guarded(n)
  BY DecidedUnguarded DEF Backup
<1>2. /\ q \in ProcSet /\ ProcOK(q) /\ n \in Names /\ t \in Tree /\ Listing(t)
      /\ q.backup = NoTree /\ n \in q.cmd.names /\ Here(p) = t
  BY <1>1, AtSkill DEF ProcOK
<1>3. CASE Fail(p) /\ UNCHANGED tree
  BY <1>1, <1>2, <1>3, FailKeeps
<1>4. CASE /\ Here(p).kind # "none"
           /\ proc' = [proc EXCEPT ![p].pc = "place", ![p].of = n,
                                   ![p].backup = Here(p)]
           /\ tree' = [tree EXCEPT ![n] = NoTree]
  <2>. DEFINE r == [q EXCEPT !.pc = "place", !.of = n, !.backup = t]
  <2>1. proc' = [proc EXCEPT ![p] = r]
    BY <1>2, <1>4 DEF SkillInv
  <2>2. /\ r \in ProcSet /\ r.pc = "place" /\ r.of = n /\ r.backup = t
        /\ r.cmd = q.cmd /\ r.name = n
    BY <1>2 DEF ProcSet
  <2>. HIDE DEF r
  <2>3. ProcOK(r)
    BY <1>2, <1>4, <2>2 DEF ProcOK, Works
  <2>4. Kept(n) => t \in Whole
    BY <1>2, <1>4 DEF SkillInv, Anchored
  <2>5. Kept(n) => NoTree.kind = "none" /\ Anchor(r, n)
    BY <2>2, <2>4, Trees DEF Anchor
  <2>6. \A m \in Names : m # n => Undecided(r, m)
    BY <2>2 DEF Undecided
  <2>. HIDE DEF n, t
  <2>7. tree' = [tree EXCEPT ![n] = NoTree] /\ q.name = n
    BY <1>4 DEF n
  <2>8. r.backup # NoTree => r.of = n
    BY <2>2
  <2>9. Kept(n) => \/ NoTree \in Whole
                   \/ NoTree.kind = "none" /\ Anchor(r, n)
    BY <2>5
  <2>10. Kept(n) /\ Works(r) /\ r.backup # NoTree => r.backup \in Whole
    BY <2>2, <2>4
  <2>11. NoTree \in Tree /\ Listing(NoTree)
    BY Trees
  <2>. QED
    BY <1>1, <1>2, <2>1, <2>2, <2>3, <2>6, <2>7, <2>8, <2>9, <2>10, <2>11, Places
<1>. QED  BY <1>3, <1>4 DEF Backup

LEMMA PlaceKeeps ==
  ASSUME SkillInv, NEW p \in Invokers, Place(p)  PROVE StepOK
<1>. DEFINE q == proc[p]
            n == q.name
            t == Installed(q.cmd.version)
<1>1. /\ q.pc = "place" /\ Works(q) /\ UNCHANGED edits /\ ~Guarded(n)
  BY DecidedUnguarded DEF Place
<1>2. /\ q \in ProcSet /\ ProcOK(q) /\ n \in Names
      /\ n \in q.cmd.names /\ q.cmd.version \in Versions
  BY <1>1, AtSkill
<1>3. t \in Tree /\ Listing(t) /\ t \in Whole
  BY <1>2, Trees
<1>4. CASE UNCHANGED tree /\ q.backup = NoTree /\ Fail(p)
  BY <1>1, <1>4, FailKeeps
<1>5. CASE UNCHANGED tree /\ q.backup # NoTree /\ Step(p, "rollback")
  BY <1>1, <1>5, StepKeeps
<1>6. CASE tree' = [tree EXCEPT ![n] = t] /\ q.backup = NoTree /\ Advance(p)
  <2>. HIDE DEF t
  <2>. QED  BY <1>1, <1>3, <1>6, AdvancePlaces
<1>7. CASE tree' = [tree EXCEPT ![n] = t] /\ q.backup # NoTree /\ Step(p, "cleanup")
  <2>. DEFINE r == [q EXCEPT !.pc = "cleanup"]
  <2>1. proc' = [proc EXCEPT ![p] = r]
    BY <1>7 DEF Step, SkillInv
  <2>2. /\ r \in ProcSet /\ r.pc = "cleanup" /\ r.of = q.of
        /\ r.backup = q.backup /\ r.cmd = q.cmd /\ r.name = n
    BY <1>2 DEF ProcSet
  <2>. HIDE DEF r
  <2>3. ProcOK(r)
    BY <1>1, <1>2, <1>7, <2>2 DEF ProcOK, Works
  <2>4. Kept(n) => r.backup \in Whole
    BY <1>1, <1>2, <1>7, <2>2 DEF SkillInv, Anchored, ProcOK
  <2>5. r.of = n
    BY <1>1, <1>2, <1>7, <2>2 DEF ProcOK
  <2>6. \A m \in Names : m # n => Undecided(r, m)
    BY <2>2 DEF Undecided
  <2>. HIDE DEF n, t
  <2>7. q.name = n
    BY DEF n
  <2>. QED
    BY <1>1, <1>2, <1>3, <1>7, <2>1, <2>2, <2>3, <2>4, <2>5, <2>6, <2>7, Places
<1>. QED  BY <1>4, <1>5, <1>6, <1>7 DEF Place

LEMMA RollbackKeeps ==
  ASSUME SkillInv, NEW p \in Invokers, Rollback(p)  PROVE StepOK
<1>. DEFINE q == proc[p]
            n == q.name
            t == q.backup
<1>1. /\ q.pc = "rollback" /\ Works(q) /\ UNCHANGED edits /\ ~Guarded(n)
  BY DecidedUnguarded DEF Rollback
<1>2. /\ q \in ProcSet /\ ProcOK(q) /\ n \in Names /\ n \in q.cmd.names
      /\ t # NoTree /\ q.of = n /\ t \in Tree /\ Listing(t)
  BY <1>1, AtSkill DEF ProcOK, ProcSet
<1>3. CASE /\ tree' = [tree EXCEPT ![n] = t]
           /\ proc' = [proc EXCEPT ![p].pc = "done", ![p].out = "error",
                                   ![p].backup = NoTree]
  <2>. DEFINE r == [q EXCEPT !.pc = "done", !.out = "error", !.backup = NoTree]
  <2>1. proc' = [proc EXCEPT ![p] = r]
    BY <1>3 DEF SkillInv
  <2>2. r \in ProcSet /\ r.pc = "done" /\ r.backup = NoTree /\ r.cmd = q.cmd
    BY <1>2, Trees DEF ProcSet
  <2>. HIDE DEF r
  <2>3. ProcOK(r)
    BY <2>2, Trees DEF ProcOK, Works
  <2>4. Kept(n) => t \in Whole
    BY <1>1, <1>2 DEF SkillInv, Anchored
  <2>5. \A m \in Names : m # n => Undecided(r, m)
    BY <2>2 DEF Undecided, Works
  <2>. HIDE DEF n, t
  <2>6. q.name = n
    BY DEF n
  <2>. QED
    BY <1>1, <1>2, <1>3, <2>1, <2>2, <2>3, <2>4, <2>5, <2>6, Places
<1>4. CASE /\ proc' = [proc EXCEPT ![p].pc = "done", ![p].out = "stuck"]
           /\ UNCHANGED tree
  <2>. DEFINE r == [q EXCEPT !.pc = "done", !.out = "stuck"]
  <2>1. proc' = [proc EXCEPT ![p] = r]
    BY <1>4 DEF SkillInv
  <2>2. /\ r \in ProcSet /\ r.pc = "done" /\ r.backup = q.backup
        /\ r.cmd = q.cmd /\ r.of = q.of /\ r.out = "stuck"
    BY <1>2, Trees DEF ProcSet
  <2>. HIDE DEF r
  <2>3. ProcOK(r)
    BY <1>2, <2>2, Trees DEF ProcOK, Works
  <2>4. Retains(q, r)
    BY <1>1, <1>2, <2>2, <2>3 DEF Retains
  <2>5. \A m \in Names : Undecided(r, m) /\ (Anchor(q, m) => Anchor(r, m))
    BY <2>2 DEF Undecided, Anchor, Works
  <2>. QED  BY <1>1, <1>4, <2>1, <2>4, <2>5, GoesOn
<1>. QED  BY <1>3, <1>4 DEF Rollback

LEMMA CleanupKeeps ==
  ASSUME SkillInv, NEW p \in Invokers, Cleanup(p)  PROVE StepOK
<1>. DEFINE q == proc[p]
<1>1. q.pc = "cleanup" /\ Works(q) /\ UNCHANGED <<tree, edits>>
  BY DecidedUnguarded DEF Cleanup
<1>2. /\ q \in ProcSet /\ ProcOK(q) /\ q.backup # NoTree /\ q.backup \in Tree
      /\ Listing(q.backup)
  BY <1>1, AtSkill DEF ProcOK, ProcSet
<1>3. CASE Advance(p)
  BY <1>1, <1>3, AdvanceKeeps
<1>4. CASE proc' = [proc EXCEPT ![p].pc = "done", ![p].out = "error",
                                ![p].backup.content = Partial]
  <2>. DEFINE t == [q.backup EXCEPT !.content = Partial]
              r == [q EXCEPT !.pc = "done", !.out = "error", !.backup = t]
  <2>1. t \in Tree /\ Listing(t)
    BY <1>2 DEF Tree, Listing, Contents
  <2>2. proc' = [proc EXCEPT ![p] = r]
    BY <1>4 DEF SkillInv
  <2>. HIDE DEF t
  <2>3. /\ r \in ProcSet /\ r.pc = "done" /\ r.backup = t
        /\ r.cmd = q.cmd /\ r.of = q.of
    BY <1>2, <2>1 DEF ProcSet
  <2>. HIDE DEF r
  <2>4. ProcOK(r)
    BY <2>1, <2>3, Trees DEF ProcOK, Works
  <2>5. Retains(q, r)
    BY <1>2, <2>3, <2>4 DEF Retains, Works
  <2>6. \A m \in Names : Undecided(r, m) /\ ~Anchor(q, m)
    BY <1>1, <2>3 DEF Undecided, Anchor, Works
  <2>. QED  BY <1>1, <2>2, <2>5, <2>6, GoesOn
<1>. QED  BY <1>3, <1>4 DEF Cleanup

\* Only an uninstallation removes a skill.
LEMMA Unkept ==
  ASSUME SkillInv, NEW p \in Invokers, proc[p].pc \in {"remove", "removing"}
  PROVE  /\ Works(proc[p]) /\ proc[p].backup = NoTree /\ proc[p].name \in Names
         /\ proc[p].cmd.op = "uninstall"
         /\ ~Guarded(proc[p].name) /\ ~Kept(proc[p].name)
<1>1. Works(proc[p]) /\ ~Guarded(proc[p].name)
  BY DecidedUnguarded
<1>2. /\ ProcOK(proc[p]) /\ p \in Selected(proc[p].name)
      /\ proc[p].name \in Names
  BY <1>1, AtSkill
<1>. QED  BY <1>1, <1>2 DEF ProcOK, Kept

LEMMA BeginRemoveKeeps ==
  ASSUME SkillInv, NEW p \in Invokers, BeginRemove(p)  PROVE StepOK
<1>. DEFINE q == proc[p]
            n == q.name
<1>1. /\ q.pc = "remove" /\ Works(q) /\ UNCHANGED edits /\ ~Guarded(n)
      /\ ~Kept(n) /\ q.backup = NoTree /\ q.cmd.op = "uninstall"
  BY Unkept DEF BeginRemove
<1>2. /\ q \in ProcSet /\ ProcOK(q) /\ n \in Names /\ tree[n] \in Tree
      /\ Listing(tree[n]) /\ n \in q.cmd.names
  BY <1>1, AtSkill
<1>3. CASE Advance(p) /\ UNCHANGED tree
  BY <1>1, <1>3, AdvanceKeeps
<1>4. CASE Advance(p) /\ tree' = [tree EXCEPT ![n] = NoTree]
  BY <1>1, <1>4, Trees, AdvancePlaces
<1>5. ASSUME NEW m \in {tree[n].manifest, "missing"}, Step(p, "removing"),
             tree' = [tree EXCEPT ![n].content = Partial, ![n].manifest = m]
      PROVE  StepOK
  <2>. DEFINE t == [tree[n] EXCEPT !.content = Partial, !.manifest = m]
              r == [q EXCEPT !.pc = "removing"]
  <2>1. tree' = [tree EXCEPT ![n] = t] /\ proc' = [proc EXCEPT ![p] = r]
    BY <1>2, <1>5 DEF Step, SkillInv
  <2>2. t \in Tree /\ Listing(t)
    BY <1>2 DEF Tree, Listing, Contents
  <2>. HIDE DEF t
  <2>3. /\ r \in ProcSet /\ r.pc = "removing" /\ r.backup = NoTree
        /\ r.cmd = q.cmd /\ r.name = n
    BY <1>1, <1>2 DEF ProcSet
  <2>. HIDE DEF r
  <2>4. ProcOK(r)
    BY <1>1, <1>2, <2>3, Trees DEF ProcOK, Works
  <2>5. \A k \in Names : k # n => Undecided(r, k)
    BY <2>3 DEF Undecided
  <2>. QED  BY <1>1, <1>2, <2>1, <2>2, <2>3, <2>4, <2>5, Places
<1>. QED  BY <1>3, <1>4, <1>5 DEF BeginRemove, Here

LEMMA RemovingKeeps ==
  ASSUME SkillInv, NEW p \in Invokers, Removing(p)  PROVE StepOK
<1>1. /\ Works(proc[p]) /\ UNCHANGED edits /\ ~Guarded(proc[p].name)
      /\ ~Kept(proc[p].name) /\ proc[p].backup = NoTree
  BY Unkept DEF Removing
<1>2. CASE Advance(p) /\ tree' = [tree EXCEPT ![proc[p].name] = NoTree]
  BY <1>1, <1>2, Trees, AdvancePlaces
<1>3. CASE Fail(p) /\ UNCHANGED tree
  BY <1>1, <1>3, FailKeeps
<1>. QED  BY <1>2, <1>3 DEF Removing

LEMMA DiesKeeps ==
  ASSUME SkillInv, NEW p \in Invokers, Dies(p)  PROVE StepOK
BY StepKeeps DEF Dies, Active, Works

LEMMA EditKeeps ==
  ASSUME SkillInv, NEW n \in Names, Edit(n)  PROVE StepOK
<1>1. /\ tree[n].kind = "dir" /\ UNCHANGED proc
      /\ tree[n] \in Tree /\ Listing(tree[n])
  BY DEF Edit, SkillInv
<1>2. PICK m \in {tree[n].manifest, "missing", "invalid"} :
        tree' = [tree EXCEPT ![n].content = Mine, ![n].manifest = m]
  BY DEF Edit
<1>. DEFINE t == [tree[n] EXCEPT !.content = Mine, !.manifest = m]
<1>3. tree' = [tree EXCEPT ![n] = t]
  BY <1>2 DEF SkillInv
<1>4. t \in Tree /\ Listing(t) /\ t \in Whole /\ t.kind # "none" /\ t.content = Mine
  BY <1>1, SkillAssumption DEF Tree, Listing, Contents, Whole, SkillAssumption
<1>. HIDE DEF t
<1>5. /\ tree' \in [Names -> Tree] /\ (\A k \in Names : Listing(tree'[k]))
      /\ tree'[n] = t /\ \A k \in Names : k # n => tree'[k] = tree[k]
  BY <1>3, <1>4 DEF SkillInv
<1>6. /\ edits' \in [Names -> {"none", "quiet", "raced"}]
      /\ \A k \in Names : k # n => edits'[k] = edits[k]
      /\ edits'[n] = "quiet" =>
           \A p \in Invokers : ~(HasLooked(p) /\ proc[p].name = n)
  BY DEF Edit, SkillInv
<1>7. \A k \in Names : OwnWork(k)'
  <2>1. OwnWork(n)'
    BY <1>1, <1>4, <1>5, <1>6 DEF OwnWork, Guarded, Undecided, Works, Active,
                                  HasLooked
  <2>2. ASSUME NEW k \in Names, k # n  PROVE OwnWork(k)'
    BY <1>1, <1>5, <1>6, <2>2 DEF SkillInv, OwnWork, Guarded, Selected
  <2>. QED  BY <2>1, <2>2
<1>8. \A k \in Names : Kept(k)' <=> Kept(k)
  BY <1>1 DEF Kept, Selected
<1>9. \A k \in Names : Anchored(k)'
  <2>1. \A k \in Names : tree'[k] = tree[k] \/ tree'[k] \in Whole
    BY <1>4, <1>5
  <2>2. \A k \in Names, p \in Invokers : Anchor(proc'[p], k) <=> Anchor(proc[p], k)
    BY <1>1
  <2>3. Whole' = Whole /\ NoTree' = NoTree
    BY DEF Whole, Tree, Contents, NoTree
  <2>4. ASSUME NEW k \in Names, Kept(k)'
        PROVE  /\ tree'[k].kind = "none" \/ tree'[k] \in Whole
               /\ \A p \in Invokers :
                    Works(proc'[p]) /\ proc'[p].backup # NoTree
                      /\ proc'[p].of = k => proc'[p].backup \in Whole
               /\ (\E p \in Invokers : proc'[p].of = k /\ proc'[p].backup # NoTree)
                  => tree'[k] \in Whole \/ \E p \in Invokers : Anchor(proc'[p], k)
    <3>1. Anchored(k) /\ Kept(k)
      BY <1>8, <2>4 DEF SkillInv
    <3>. QED  BY <1>1, <2>1, <2>2, <3>1 DEF Anchored
  <2>. QED  BY <2>3, <2>4 DEF Anchored
<1>10. ASSUME NEW k \in Names, Kept(k), WholeCopy(k)  PROVE WholeCopy(k)'
  <2>1. tree[k] \in Whole \/ \E q \in Invokers : Anchor(proc[q], k)
    BY <1>10, CopyIsAnchored
  <2>2. tree'[k] \in Whole \/ \E q \in Invokers : Anchor(proc'[q], k)
    BY <1>1, <1>4, <1>5, <2>1
  <2>. QED  BY <2>2 DEF WholeCopy, Copies, Anchor, Whole, Tree, Contents
<1>. QED  BY <1>1, <1>5, <1>6, <1>7, <1>9, <1>10 DEF StepOK, SkillInv

LEMMA SkillStepOK == SkillInv /\ SkillNext => StepOK
BY BeginKeeps, InspectKeeps, ReadManifestKeeps, InspectFailsKeeps, CheckKeeps,
   SwapKeeps, BackupKeeps, PlaceKeeps, RollbackKeeps, CleanupKeeps,
   BeginRemoveKeeps, RemovingKeeps, DiesKeeps, EditKeeps
   DEF SkillNext, SkillStep

LEMMA SkillKeeps == SkillInv /\ [SkillNext]_skillVars => SkillInv'
<1>1. SkillInv /\ SkillNext => SkillInv'
  BY SkillStepOK DEF StepOK
<1>2. SkillInv /\ UNCHANGED skillVars => SkillInv'
  <2>. SUFFICES ASSUME SkillInv, UNCHANGED skillVars  PROVE SkillInv'
    OBVIOUS
  <2>1. tree' = tree /\ proc' = proc /\ edits' = edits
    BY DEF skillVars
  <2>2. \A n \in Names : OwnWork(n)' /\ Anchored(n)'
    BY <2>1 DEF SkillInv, OwnWork, Guarded, Selected, Anchored, Kept, Whole,
                Tree, Contents, NoTree
  <2>. QED  BY <2>1, <2>2 DEF SkillInv
<1>. QED  BY <1>1, <1>2

LEMMA SkillInvGives == SkillInv => SkillsSurvive
<1>. SUFFICES ASSUME SkillInv  PROVE SkillsSurvive
  OBVIOUS
<1>1. SkillTypeOK
  BY DEF SkillTypeOK, SkillInv, ProcSet
<1>2. OwnWorkSurvives
  BY DEF OwnWorkSurvives, SkillInv, OwnWork, Guarded, Copies
<1>3. ASSUME NEW n \in Names, Kept(n), tree[n].kind = "none",
             \A p \in Invokers : ~Active(p) /\ proc[p].pc # "dead"
                                 /\ proc[p].out # "stuck"
      PROVE  \A p \in Invokers : proc[p].of # n \/ proc[p].backup = NoTree
  <2>1. tree[n] \notin Whole
    BY <1>3, Trees
  <2>2. \A q \in Invokers : ~Anchor(proc[q], n)
    BY <1>3 DEF Anchor, Active
  <2>. QED  BY <1>3, <2>1, <2>2 DEF SkillInv, Anchored
<1>. QED  BY <1>1, <1>2, <1>3 DEF SkillsSurvive, FailureRestores

LEMMA InstallFills ==
  ASSUME SkillInv, SkillNext, NEW p \in Invokers, NEW n \in Names,
         proc[p].cmd.op = "install", ~proc[p].cmd.force, proc'[p] # proc[p]
  PROVE  tree'[n] = tree[n] \/ Vacant(tree[n])
<1>1. ProcOK(proc[p]) /\ tree \in [Names -> Tree]
  BY DEF SkillInv
<1>2. proc[p].pc \notin {"backup", "remove", "removing"}
  BY <1>1 DEF ProcOK
<1>3. SkillStep(p) \/ Dies(p)
  <2>1. PICK q \in Invokers : SkillStep(q) \/ Dies(q)
    BY DEF SkillNext, Edit
  <2>2. CASE q = p
    BY <2>1, <2>2
  <2>3. CASE q # p
    <3>1. /\ \A pc : Step(q, pc) => proc'[p] = proc[p]
          /\ Fail(q) => proc'[p] = proc[p]
          /\ Advance(q) => proc'[p] = proc[p]
      BY <2>3 DEF SkillInv, Step, Fail, Advance
    <3>2. \A status : Decide(q, status) => proc'[p] = proc[p]
      BY <3>1 DEF Decide
    <3>3. CASE Inspect(q)
      <4>1. tree[proc[q].name] \in Tree
        BY <3>3, AtSkill DEF Inspect, Works
      <4>2. tree[proc[q].name].kind \in {"none", "file", "dir"}
        BY <4>1 DEF Tree
      <4>. QED  BY <2>3, <3>1, <3>2, <3>3, <4>2 DEF Inspect, SkillInv
    <3>4. CASE Backup(q)
      BY <2>3, <3>1, <3>4 DEF Backup, SkillInv
    <3>5. CASE Rollback(q)
      BY <2>3, <3>5 DEF Rollback, SkillInv
    <3>6. CASE Cleanup(q)
      BY <2>3, <3>1, <3>6 DEF Cleanup, SkillInv
    <3>7. CASE ReadManifest(q)
      BY <3>2, <3>7 DEF ReadManifest
    <3>8. CASE \/ Begin(q) \/ InspectFails(q) \/ Check(q) \/ Swap(q) \/ Dies(q)
      BY <3>1, <3>8 DEF Begin, InspectFails, Check, Swap, Dies
    <3>9. CASE Place(q) \/ BeginRemove(q) \/ Removing(q)
      BY <3>1, <3>9 DEF Place, BeginRemove, Removing
    <3>. QED  BY <2>1, <3>3, <3>4, <3>5, <3>6, <3>7, <3>8, <3>9 DEF SkillStep
  <2>. QED  BY <2>2, <2>3
<1>4. CASE UNCHANGED tree
  BY <1>4
<1>5. CASE Place(p) \/ Rollback(p)
  BY <1>1, <1>5 DEF Place, Rollback, Here
<1>. QED
  BY <1>2, <1>3, <1>4, <1>5 DEF SkillStep, Begin, Inspect, ReadManifest,
    InspectFails, Check, Swap, Backup, Cleanup, BeginRemove, Removing, Dies

LEMMA SkillInvMeans ==
  SkillInv /\ [SkillNext]_skillVars =>
    /\ [\A p \in Invokers, n \in Names :
          /\ proc[p].cmd.op = "install" /\ ~proc[p].cmd.force
          /\ proc'[p] # proc[p]
          => tree'[n] = tree[n] \/ Vacant(tree[n])]_skillVars
    /\ [\A n \in Names :
          Kept(n) /\ (\E t \in Copies(n) : t \in Whole)
          => (\E t \in Copies(n) : t \in Whole)']_skillVars
<1>1. SkillInv /\ SkillNext =>
        \A p \in Invokers, n \in Names :
          /\ proc[p].cmd.op = "install" /\ ~proc[p].cmd.force
          /\ proc'[p] # proc[p]
          => tree'[n] = tree[n] \/ Vacant(tree[n])
  BY InstallFills
<1>2. SkillInv /\ SkillNext =>
        \A n \in Names :
          Kept(n) /\ (\E t \in Copies(n) : t \in Whole)
          => (\E t \in Copies(n) : t \in Whole)'
  BY SkillStepOK DEF StepOK, WholeCopy
<1>. QED  BY <1>1, <1>2

-----------------------------------------------------------------------------
(* The versions of upgrade                                                 *)

-----------------------------------------------------------------------------
(* The order of Go strings                                                  *)

\* The first place where two sequences differ.
LEMMA FirstDifference ==
  ASSUME NEW a \in Seq(Int), NEW b \in Seq(Int), NEW n \in Nat,
         n <= Len(a), n <= Len(b), \E i \in 1..n : a[i] # b[i]
  PROVE  \E k \in 1..n : a[k] # b[k] /\ \A i \in 1..(k - 1) : a[i] = b[i]
<1>. DEFINE D == {i \in 1..n : a[i] # b[i]}
<1>1. D \in SUBSET Nat
  OBVIOUS
<1>2. D # {}
  OBVIOUS
<1>. HIDE DEF D
<1>3. PICK k \in D : \A i \in D : k <= i
  BY <1>1, <1>2, Least
<1>. USE DEF D
<1>4. k \in 1..n /\ a[k] # b[k]
  BY <1>3
<1>5. ASSUME NEW i \in 1..(k - 1)  PROVE a[i] = b[i]
  <2>. HIDE DEF D
  <2>1. k \in Int /\ k <= n /\ n \in Int
    BY <1>4
  <2>2. i \in Int /\ 1 <= i /\ i <= k - 1
    BY <2>1
  <2>3. i \in 1..n
    BY <2>1, <2>2
  <2>5. ~(k <= i)
    BY <2>1, <2>2
  <2>4. i \notin D
    BY <1>3, <2>5
  <2>. QED  BY <2>3, <2>4 DEF D
<1>. QED  BY <1>4, <1>5

LEMMA StringOrder ==
  ASSUME NEW a \in Seq(Int), NEW b \in Seq(Int)
  PROVE  /\ StringLess(a, b) => ~StringLess(b, a) /\ a # b
         /\ StringLess(a, b) \/ StringLess(b, a) \/ a = b
<1>1. ASSUME StringLess(a, b), StringLess(b, a)  PROVE FALSE
  <2>1. PICK k \in 1..Len(b) :
          /\ k <= Len(a) + 1 /\ (\A i \in 1..(k - 1) : a[i] = b[i])
          /\ k > Len(a) \/ a[k] < b[k]
    BY <1>1 DEF StringLess
  <2>2. PICK j \in 1..Len(a) :
          /\ j <= Len(b) + 1 /\ (\A i \in 1..(j - 1) : b[i] = a[i])
          /\ j > Len(b) \/ b[j] < a[j]
    BY <1>1 DEF StringLess
  <2>3. a \in [1..Len(a) -> Int] /\ b \in [1..Len(b) -> Int]
    OBVIOUS
  <2>4. CASE j < k
    BY <2>1, <2>2, <2>3, <2>4
  <2>5. CASE k < j
    BY <2>1, <2>2, <2>3, <2>5
  <2>6. CASE k = j
    BY <2>1, <2>2, <2>3, <2>6
  <2>. QED  BY <2>1, <2>2, <2>4, <2>5, <2>6
<1>2. StringLess(a, b) => a # b
  <2>. SUFFICES ASSUME StringLess(a, b), a = b  PROVE FALSE
    OBVIOUS
  <2>. QED  BY <1>1
<1>3. StringLess(a, b) \/ StringLess(b, a) \/ a = b
  <2>1. CASE \E i \in 1..Shorter(a, b) : a[i] # b[i]
    <3>. DEFINE n == Shorter(a, b)
    <3>1. n \in Nat /\ n <= Len(a) /\ n <= Len(b) /\ \E i \in 1..n : a[i] # b[i]
      BY <2>1 DEF Shorter
    <3>. HIDE DEF n
    <3>3. PICK k \in 1..n : a[k] # b[k] /\ \A i \in 1..(k - 1) : a[i] = b[i]
      BY <3>1, FirstDifference
    <3>4. k \in 1..Len(a) /\ k \in 1..Len(b) /\ k <= Len(a) + 1 /\ k <= Len(b) + 1
      BY <3>1, <3>3
    <3>5. a[k] < b[k] \/ b[k] < a[k]
      BY <3>3, <3>4
    <3>. QED  BY <3>3, <3>4, <3>5 DEF StringLess
  <2>2. CASE \A i \in 1..Shorter(a, b) : a[i] = b[i]
    <3>1. CASE Len(a) < Len(b)
      <4>1. /\ Len(a) + 1 \in 1..Len(b) /\ Shorter(a, b) = Len(a)
            /\ \A i \in 1..(Len(a) + 1 - 1) : a[i] = b[i]
        BY <2>2, <3>1 DEF Shorter
      <4>. QED  BY <4>1 DEF StringLess
    <3>2. CASE Len(b) < Len(a)
      <4>1. /\ Len(b) + 1 \in 1..Len(a) /\ Shorter(a, b) = Len(b)
            /\ \A i \in 1..(Len(b) + 1 - 1) : b[i] = a[i]
        BY <2>2, <3>2 DEF Shorter
      <4>2. Len(b) + 1 <= Len(b) + 1 /\ Len(b) + 1 > Len(b)
        OBVIOUS
      <4>3. StringLess(b, a)
        BY <4>1, <4>2 DEF StringLess
      <4>. QED  BY <4>3
    <3>3. CASE Len(a) = Len(b)
      <4>1. \A i \in 1..Len(a) : a[i] = b[i]
        BY <2>2, <3>3 DEF Shorter
      <4>. QED  BY <3>3, <4>1
    <3>. QED  BY <3>1, <3>2, <3>3
  <2>. QED  BY <2>1, <2>2
<1>. QED  BY <1>1, <1>2, <1>3

-----------------------------------------------------------------------------
(* The value of a number                                                    *)

ValueStep(g, id) == IF id = <<>> THEN 0 ELSE 10 * g[Front(id)] + id[Len(id)] - 48
Upto(n) == {id \in Seq(Digit) : Len(id) <= n}
ValueFcns(n) == {g \in [Upto(n) -> Nat] : \A id \in Upto(n) : g[id] = ValueStep(g, id)}

LEMMA FrontIs ==
  ASSUME NEW S, NEW id \in Seq(S), id # <<>>
  PROVE  /\ Front(id) \in Seq(S) /\ Len(Front(id)) = Len(id) - 1
         /\ \A i \in 1..(Len(id) - 1) : Front(id)[i] = id[i]
         /\ Len(id) \in Nat \ {0} /\ id[Len(id)] \in S
<1>1. Len(id) \in Nat \ {0}
  BY EmptySeq
<1>2. \A i \in 1..(Len(id) - 1) : id[i] \in S
  BY <1>1
<1>3. /\ SubSeq(id, 1, Len(id) - 1) \in Seq(S)
      /\ Len(SubSeq(id, 1, Len(id) - 1)) =
           IF 1 <= Len(id) - 1 THEN Len(id) - 1 - 1 + 1 ELSE 0
      /\ \A i \in 1..(Len(id) - 1 - 1 + 1) :
           SubSeq(id, 1, Len(id) - 1)[i] = id[1 + i - 1]
  BY <1>1, <1>2, SubSeqProperties
<1>4. \A i \in 1..(Len(id) - 1) : Front(id)[i] = id[i]
  BY <1>1, <1>3 DEF Front
<1>. DEFINE f == SubSeq(id, 1, Len(id) - 1)
<1>5. f \in Seq(S) /\ Len(f) = IF 1 <= Len(id) - 1 THEN Len(id) - 1 - 1 + 1 ELSE 0
  BY <1>3
<1>. HIDE DEF f
<1>7. Len(f) = Len(id) - 1
  <2>1. Len(id) = 1 \/ Len(id) > 1
    BY <1>1
  <2>. DEFINE l == Len(id)
              m == Len(f)
  <2>2. l \in Nat \ {0} /\ m = IF 1 <= l - 1 THEN l - 1 - 1 + 1 ELSE 0
    BY <1>1, <1>5
  <2>. HIDE DEF l, m
  <2>3. m = l - 1
    BY <2>2
  <2>. QED  BY <2>3 DEF l, m
<1>8. Front(id) \in Seq(S) /\ Len(Front(id)) = Len(id) - 1
  BY <1>5, <1>7 DEF Front, f
<1>6. id[Len(id)] \in S
  BY <1>1
<1>. QED  BY <1>1, <1>4, <1>6, <1>8

LEMMA DigitAdds == \A v \in Nat, d \in Digit : 10 * v + d - 48 \in Nat
BY DEF Digit

LEMMA ValueFcnsExist == \A n \in Nat : ValueFcns(n) # {}
<1>. DEFINE Bad == {n \in Nat : ValueFcns(n) = {}}
<1>. SUFFICES ASSUME Bad # {}  PROVE FALSE
  OBVIOUS
<1>1. PICK n \in Bad : \A k \in Bad : n <= k
  BY Least
<1>2. CASE n = 0
  <2>. DEFINE g == [id \in Upto(0) |-> 0]
  <2>1. \A id \in Upto(0) : id = <<>>
    BY EmptySeq DEF Upto
  <2>2. g \in [Upto(0) -> Nat] /\ \A id \in Upto(0) : g[id] = ValueStep(g, id)
    BY <2>1 DEF ValueStep
  <2>. QED  BY <1>1, <1>2, <2>2 DEF ValueFcns
<1>3. CASE n # 0
  <2>1. n \in Nat /\ n - 1 \in Nat /\ n - 1 \notin Bad
    BY <1>1, <1>3
  <2>2. PICK g : /\ g \in [Upto(n - 1) -> Nat]
                 /\ \A id \in Upto(n - 1) : g[id] = ValueStep(g, id)
    BY <2>1 DEF ValueFcns
  <2>. DEFINE h == [id \in Upto(n) |-> ValueStep(g, id)]
  <2>3. ASSUME NEW id \in Upto(n)
        PROVE  h[id] \in Nat /\ h[id] = ValueStep(h, id)
    <3>1. CASE id = <<>>
      BY <3>1 DEF ValueStep
    <3>2. CASE id # <<>>
      <4>1. /\ Front(id) \in Upto(n - 1) /\ Front(id) \in Upto(n)
            /\ id[Len(id)] \in Digit
        BY <2>1, <3>2, FrontIs DEF Upto
      <4>2. h[Front(id)] = g[Front(id)] /\ g[Front(id)] \in Nat
        BY <2>2, <4>1
      <4>3. 10 * g[Front(id)] + id[Len(id)] - 48 \in Nat
        BY <4>1, <4>2, DigitAdds
      <4>. HIDE DEF h
      <4>4. /\ ValueStep(g, id) = 10 * g[Front(id)] + id[Len(id)] - 48
            /\ ValueStep(h, id) = 10 * h[Front(id)] + id[Len(id)] - 48
        BY <3>2 DEF ValueStep
      <4>5. h[id] = ValueStep(g, id)
        BY DEF h
      <4>. QED  BY <4>2, <4>3, <4>4, <4>5
    <3>. QED  BY <3>1, <3>2
  <2>4. h \in [Upto(n) -> Nat]
    BY <2>3
  <2>. QED  BY <1>1, <2>3, <2>4 DEF ValueFcns
<1>. QED  BY <1>2, <1>3

LEMMA ValueFcnsAgree ==
  ASSUME NEW m \in Nat, NEW n \in Nat, NEW g \in ValueFcns(m), NEW h \in ValueFcns(n),
         NEW id \in Seq(Digit), Len(id) <= m, Len(id) <= n
  PROVE  g[id] = h[id]
<1>. DEFINE Bad == {k \in Nat : k <= m /\ k <= n /\
                      \E d \in Seq(Digit) : Len(d) = k /\ g[d] # h[d]}
<1>. SUFFICES ASSUME Bad # {}  PROVE FALSE
  <2>1. g[id] # h[id] => Len(id) \in Bad
    OBVIOUS
  <2>. QED  BY <2>1
<1>1. PICK k \in Bad : \A l \in Bad : k <= l
  BY Least
<1>2. PICK d \in Seq(Digit) : Len(d) = k /\ g[d] # h[d]
  BY <1>1
<1>3. g[d] = ValueStep(g, d) /\ h[d] = ValueStep(h, d)
  BY <1>1, <1>2 DEF ValueFcns, Upto
<1>4. d # <<>>
  BY <1>2, <1>3 DEF ValueStep
<1>5. Front(d) \in Seq(Digit) /\ Len(Front(d)) = k - 1 /\ k - 1 \in Nat
  BY <1>2, <1>4, FrontIs
<1>6. k - 1 \notin Bad
  BY <1>1, <1>5
<1>7. g[Front(d)] = h[Front(d)]
  BY <1>1, <1>5, <1>6
<1>. QED  BY <1>2, <1>3, <1>7 DEF ValueStep

LEMMA ValueIs ==
  ASSUME NEW id \in Seq(Digit)
  PROVE  /\ Value[id] \in Nat
         /\ id = <<>> => Value[id] = 0
         /\ id # <<>> => Value[id] = 10 * Value[Front(id)] + id[Len(id)] - 48
<1>. DEFINE F == [d \in Seq(Digit) |-> (CHOOSE g : g \in ValueFcns(Len(d)))[d]]
            IsValue(f) == f = [d \in Seq(Digit) |->
                                 IF d = <<>> THEN 0
                                 ELSE 10 * f[SubSeq(d, 1, Len(d) - 1)] + d[Len(d)] - 48]
<1>1. ASSUME NEW d \in Seq(Digit)
      PROVE  F[d] \in Nat /\ F[d] = ValueStep(F, d)
  <2>1. PICK g : g = (CHOOSE h : h \in ValueFcns(Len(d))) /\ g \in ValueFcns(Len(d))
    BY ValueFcnsExist
  <2>2. F[d] = g[d] /\ d \in Upto(Len(d))
    BY <2>1 DEF Upto
  <2>3. g[d] = ValueStep(g, d) /\ g[d] \in Nat
    BY <2>1, <2>2 DEF ValueFcns
  <2>4. ASSUME d # <<>>  PROVE g[Front(d)] = F[Front(d)]
    <3>1. Front(d) \in Seq(Digit) /\ Len(Front(d)) = Len(d) - 1 /\ Len(d) \in Nat \ {0}
      BY <2>4, FrontIs
    <3>2. PICK h : /\ h = (CHOOSE f : f \in ValueFcns(Len(Front(d))))
                   /\ h \in ValueFcns(Len(Front(d)))
      BY <3>1, ValueFcnsExist
    <3>3. g[Front(d)] = h[Front(d)]
      BY <2>1, <3>1, <3>2, ValueFcnsAgree
    <3>. QED  BY <3>1, <3>2, <3>3
  <2>. HIDE DEF F
  <2>. QED  BY <2>2, <2>3, <2>4 DEF ValueStep
<1>2. F = [d \in Seq(Digit) |-> F[d]]
  OBVIOUS
<1>. HIDE DEF F
<1>3. IsValue(CHOOSE f : IsValue(f))
  <2>1. IsValue(F)
    BY <1>1, <1>2 DEF ValueStep, Front
  <2>. QED  BY <2>1
<1>4. Value = (CHOOSE f : IsValue(f))
  BY DEF Value
<1>5. IsValue(Value)
  BY <1>3, <1>4
<1>6. \A d \in Seq(Digit) : Value[d] = ValueStep(Value, d)
  BY <1>5 DEF ValueStep, Front
<1>7. ASSUME NEW d \in Seq(Digit)  PROVE Value[d] \in Nat
  <2>. DEFINE Bad == {k \in Nat : \E e \in Seq(Digit) :
                        Len(e) = k /\ Value[e] \notin Nat}
  <2>. SUFFICES ASSUME Bad # {}  PROVE FALSE
    <3>1. Value[d] \notin Nat => Len(d) \in Bad
      OBVIOUS
    <3>. QED  BY <3>1
  <2>1. PICK k \in Bad : \A l \in Bad : k <= l
    BY Least
  <2>2. PICK e \in Seq(Digit) : Len(e) = k /\ Value[e] \notin Nat
    BY <2>1
  <2>3. e # <<>>
    BY <1>6, <2>2 DEF ValueStep
  <2>4. /\ Front(e) \in Seq(Digit) /\ Len(Front(e)) = k - 1 /\ k - 1 \in Nat
        /\ e[Len(e)] \in Digit
    BY <2>2, <2>3, FrontIs
  <2>5. Value[Front(e)] \in Nat
    BY <2>1, <2>4
  <2>6. Value[e] = 10 * Value[Front(e)] + e[Len(e)] - 48
    BY <1>6, <2>3 DEF ValueStep
  <2>7. 10 * Value[Front(e)] + e[Len(e)] - 48 \in Nat
    BY <2>4, <2>5, DigitAdds
  <2>. QED  BY <2>2, <2>6, <2>7
<1>. QED  BY <1>6, <1>7 DEF ValueStep

LEMMA DigitsAreInts == \A a \in Seq(Digit) : a \in Seq(Int)
BY DEF Digit

LEMMA FrontOf ==
  ASSUME NEW d \in Seq(Digit), NEW k, Len(d) = k, d # <<>>
  PROVE  /\ Front(d) \in Seq(Digit) /\ Len(Front(d)) = k - 1 /\ d[k] \in Digit
         /\ \A i \in 1..(k - 1) : Front(d)[i] = d[i]
         /\ Value[d] = 10 * Value[Front(d)] + d[k] - 48 /\ Value[Front(d)] \in Nat
<1>1. /\ Front(d) \in Seq(Digit) /\ Len(Front(d)) = Len(d) - 1
      /\ \A i \in 1..(Len(d) - 1) : Front(d)[i] = d[i]
      /\ Len(d) \in Nat \ {0} /\ d[Len(d)] \in Digit
  BY FrontIs
<1>2. Value[d] = 10 * Value[Front(d)] + d[Len(d)] - 48
  BY ValueIs
<1>3. Value[Front(d)] \in Nat
  BY <1>1, ValueIs
<1>. QED  BY <1>1, <1>2, <1>3

\* Of two numbers of the same length the one that is less as a string is less.
LEMMA SameLength ==
  ASSUME NEW a \in Seq(Digit), NEW b \in Seq(Digit), Len(a) = Len(b),
         StringLess(a, b)
  PROVE  Value[a] < Value[b]
<1>. DEFINE Bad == {k \in Nat : \E c, d \in Seq(Digit) :
                      /\ Len(c) = k /\ Len(d) = k /\ StringLess(c, d)
                      /\ ~(Value[c] < Value[d])}
<1>. SUFFICES ASSUME Bad # {}  PROVE FALSE
  <2>1. ~(Value[a] < Value[b]) => Len(a) \in Bad
    OBVIOUS
  <2>. QED  BY <2>1
<1>1. PICK k \in Bad : \A l \in Bad : k <= l
  BY Least
<1>2. PICK c \in Seq(Digit), d \in Seq(Digit) :
        /\ Len(c) = k /\ Len(d) = k /\ StringLess(c, d) /\ ~(Value[c] < Value[d])
  BY <1>1
<1>3. PICK j \in 1..k : c[j] < d[j] /\ \A i \in 1..(j - 1) : c[i] = d[i]
  BY <1>2 DEF StringLess
<1>4. k \in Nat \ {0} /\ c # <<>> /\ d # <<>>
  BY <1>1, <1>2, <1>3
<1>5. /\ Front(c) \in Seq(Digit) /\ Len(Front(c)) = k - 1 /\ c[k] \in Digit
      /\ \A i \in 1..(k - 1) : Front(c)[i] = c[i]
      /\ Value[c] = 10 * Value[Front(c)] + c[k] - 48 /\ Value[Front(c)] \in Nat
  BY <1>2, <1>4, FrontOf
<1>6. /\ Front(d) \in Seq(Digit) /\ Len(Front(d)) = k - 1 /\ d[k] \in Digit
      /\ \A i \in 1..(k - 1) : Front(d)[i] = d[i]
      /\ Value[d] = 10 * Value[Front(d)] + d[k] - 48 /\ Value[Front(d)] \in Nat
  BY <1>2, <1>4, FrontOf
<1>. DEFINE v == Value[Front(c)]
            w == Value[Front(d)]
            x == c[k]
            y == d[k]
<1>8. v \in Nat /\ w \in Nat /\ x \in 48..57 /\ y \in 48..57
  BY <1>5, <1>6 DEF Digit
<1>9. ~(10 * v + x - 48 < 10 * w + y - 48)
  BY <1>2, <1>5, <1>6
<1>10. CASE j = k
  <2>1. Front(c) = Front(d)
    <3>1. \A i \in 1..(k - 1) : Front(c)[i] = Front(d)[i]
      BY <1>3, <1>5, <1>6, <1>10
    <3>. QED  BY <1>5, <1>6, <3>1, SeqEqual
  <2>2. v = w /\ x < y
    BY <1>3, <1>10, <2>1
  <2>. HIDE DEF v, w, x, y
  <2>. QED  BY <1>8, <1>9, <2>2
<1>11. CASE j # k
  <2>1. j \in 1..(k - 1)
    BY <1>3, <1>4, <1>11
  <2>2. /\ Front(c)[j] < Front(d)[j] /\ j <= Len(Front(c)) + 1
        /\ j \in 1..Len(Front(d)) /\ \A i \in 1..(j - 1) : Front(c)[i] = Front(d)[i]
    BY <1>3, <1>4, <1>5, <1>6, <2>1
  <2>3. StringLess(Front(c), Front(d))
    BY <2>2 DEF StringLess
  <2>4. k - 1 \in Nat /\ k - 1 \notin Bad
    BY <1>1, <1>4
  <2>5. v < w
    BY <1>5, <1>6, <2>3, <2>4
  <2>. HIDE DEF v, w, x, y
  <2>. QED  BY <1>8, <1>9, <2>5
<1>. QED  BY <1>10, <1>11

\* The longer of two numbers is the greater one, unless it begins with 0.
LEMMA Longer ==
  ASSUME NEW a \in Seq(Digit), NEW b \in Seq(Digit), Len(a) < Len(b), b[1] # 48
  PROVE  Value[a] < Value[b]
<1>. DEFINE Bad == {k \in Nat : \E c, d \in Seq(Digit) :
                      /\ Len(d) = k /\ Len(c) < k /\ d[1] # 48
                      /\ ~(Value[c] < Value[d])}
<1>. SUFFICES ASSUME Bad # {}  PROVE FALSE
  <2>1. ~(Value[a] < Value[b]) => Len(b) \in Bad
    OBVIOUS
  <2>. QED  BY <2>1
<1>1. PICK k \in Bad : \A l \in Bad : k <= l
  BY Least
<1>2. PICK c \in Seq(Digit), d \in Seq(Digit) :
        /\ Len(d) = k /\ Len(c) < k /\ d[1] # 48 /\ ~(Value[c] < Value[d])
  BY <1>1
<1>3. k \in Nat \ {0} /\ d # <<>> /\ k - 1 \in Nat /\ k - 1 \notin Bad
  <2>1. k \in Nat /\ Len(c) \in Nat
    BY <1>1, <1>2
  <2>2. k \in Nat \ {0}
    BY <1>2, <2>1
  <2>3. k - 1 \in Nat /\ ~(k <= k - 1)
    BY <2>2
  <2>. HIDE DEF Bad
  <2>5. k - 1 \notin Bad
    BY <1>1, <2>3
  <2>. USE DEF Bad
  <2>4. d # <<>>
    BY <1>2, <2>2, EmptySeq
  <2>. QED  BY <2>2, <2>3, <2>4, <2>5
<1>4. /\ Front(d) \in Seq(Digit) /\ Len(Front(d)) = k - 1 /\ d[k] \in Digit
      /\ \A i \in 1..(k - 1) : Front(d)[i] = d[i]
      /\ Value[d] = 10 * Value[Front(d)] + d[k] - 48 /\ Value[Front(d)] \in Nat
  BY <1>2, <1>3, FrontOf
<1>. DEFINE w == Value[Front(d)]
            y == d[k]
<1>5. w \in Nat /\ y \in 48..57 /\ Value[d] = 10 * w + y - 48
  BY <1>4 DEF Digit
<1>6. CASE k = 1
  <2>1. c = <<>> /\ Value[c] = 0 /\ y # 48
    BY <1>2, <1>6, EmptySeq, ValueIs
  <2>2. ~(0 < 10 * w + y - 48)
    BY <1>2, <1>5, <2>1
  <2>. HIDE DEF w, y
  <2>. QED  BY <1>5, <2>1, <2>2
<1>7. CASE k # 1 /\ c = <<>>
  <2>1. Len(c) = 0 /\ Value[c] = 0
    BY <1>7, EmptySeq, ValueIs
  <2>2. Value[c] < w
    <3>1. k - 1 > 0 /\ 1 \in 1..(k - 1)
      BY <1>3, <1>7
    <3>2. Front(d)[1] # 48 /\ Len(c) < k - 1
      BY <1>2, <1>4, <2>1, <3>1
    <3>. QED  BY <1>3, <1>4, <3>2
  <2>3. ~(0 < 10 * w + y - 48)
    BY <1>2, <1>5, <2>1
  <2>. HIDE DEF w, y
  <2>. QED  BY <1>5, <2>1, <2>2, <2>3
<1>8. CASE k # 1 /\ c # <<>>
  <2>1. /\ Front(c) \in Seq(Digit) /\ Len(Front(c)) = Len(c) - 1
        /\ c[Len(c)] \in Digit /\ Len(c) \in Nat \ {0}
        /\ Value[c] = 10 * Value[Front(c)] + c[Len(c)] - 48
        /\ Value[Front(c)] \in Nat
    BY <1>8, FrontIs, ValueIs
  <2>. DEFINE v == Value[Front(c)]
              x == c[Len(c)]
  <2>2. v \in Nat /\ x \in 48..57 /\ Value[c] = 10 * v + x - 48
    BY <2>1 DEF Digit
  <2>3. Len(Front(c)) < k - 1 /\ Front(d)[1] # 48
    BY <1>2, <1>3, <1>4, <1>8, <2>1
  <2>4. v < w
    BY <1>3, <1>4, <2>1, <2>3
  <2>5. ~(10 * v + x - 48 < 10 * w + y - 48)
    BY <1>2, <1>5, <2>2
  <2>. HIDE DEF v, w, x, y
  <2>. QED  BY <1>5, <2>2, <2>4, <2>5
<1>. QED  BY <1>6, <1>7, <1>8

LEMMA NumericOrder ==
  ASSUME NEW a \in Identifier, NEW b \in Identifier, IsNumeric(a), IsNumeric(b),
         Plain(a), Plain(b)
  PROVE  /\ Value[a] \in Nat /\ Value[b] \in Nat
         /\ CompareNumeric(a, b) \in {-1, 0, 1}
         /\ CompareNumeric(a, b) < 0 <=> Value[a] < Value[b]
         /\ CompareNumeric(a, b) = 0 <=> a = b
         /\ Value[a] = Value[b] => a = b
<1>1. /\ a \in Seq(Digit) /\ b \in Seq(Digit) /\ Len(a) \in Nat \ {0}
      /\ Len(b) \in Nat \ {0}
  BY EmptySeq DEF Identifier, IsNumeric
<1>2. a \in Seq(Int) /\ b \in Seq(Int)
  BY <1>1, DigitsAreInts
<1>3. Value[a] \in Nat /\ Value[b] \in Nat
  BY <1>1, ValueIs
<1>4. CASE Len(a) < Len(b)
  <2>1. b[1] # 48 /\ a # b
    BY <1>1, <1>4 DEF Plain
  <2>2. Value[a] < Value[b]
    BY <1>1, <1>4, <2>1, Longer
  <2>3. CompareNumeric(a, b) = -1
    BY <1>1, <1>4 DEF CompareNumeric
  <2>. QED  BY <1>3, <2>1, <2>2, <2>3
<1>5. CASE Len(b) < Len(a)
  <2>1. a[1] # 48 /\ a # b
    BY <1>1, <1>5 DEF Plain
  <2>2. Value[b] < Value[a]
    BY <1>1, <1>5, <2>1, Longer
  <2>3. CompareNumeric(a, b) = 1
    BY <1>1, <1>5 DEF CompareNumeric
  <2>. QED  BY <1>3, <2>1, <2>2, <2>3
<1>6. CASE Len(a) = Len(b) /\ StringLess(a, b)
  <2>1. Value[a] < Value[b]
    BY <1>1, <1>6, SameLength
  <2>2. a # b /\ ~StringLess(b, a)
    BY <1>2, <1>6, StringOrder
  <2>3. CompareNumeric(a, b) = -1
    BY <1>1, <1>6, <2>2 DEF CompareNumeric
  <2>. QED  BY <1>3, <2>1, <2>2, <2>3
<1>7. CASE Len(a) = Len(b) /\ StringLess(b, a)
  <2>1. Value[b] < Value[a]
    BY <1>1, <1>7, SameLength
  <2>2. a # b /\ ~StringLess(a, b)
    BY <1>2, <1>7, StringOrder
  <2>3. CompareNumeric(a, b) = 1
    BY <1>1, <1>7, <2>2 DEF CompareNumeric
  <2>. QED  BY <1>3, <2>1, <2>2, <2>3
<1>8. CASE Len(a) = Len(b) /\ ~StringLess(a, b) /\ ~StringLess(b, a)
  <2>1. a = b
    BY <1>2, <1>8, StringOrder
  <2>2. CompareNumeric(a, b) = 0
    BY <1>1, <1>8 DEF CompareNumeric
  <2>. QED  BY <1>3, <2>1, <2>2
<1>. QED  BY <1>1, <1>4, <1>5, <1>6, <1>7, <1>8

-----------------------------------------------------------------------------
(* compareVersions is the precedence of Semantic Versioning                 *)

\* CompareIdentifier is the order of the keys.
LEMMA KeyOrder ==
  ASSUME NEW a \in Identifier, NEW b \in Identifier, Plain(a), Plain(b)
  PROVE  /\ CompareIdentifier(a, b) \in {-1, 0, 1}
         /\ CompareIdentifier(a, b) < 0 <=> KeyLess(a, b)
         /\ CompareIdentifier(a, b) = 0 <=> a = b
<1>1. a \in Seq(Int) /\ b \in Seq(Int)
  <2>. DEFINE S == Digit \cup 65..90 \cup 97..122 \cup {45}
  <2>1. S \subseteq Int /\ a \in Seq(S) /\ b \in Seq(S)
    BY DEF Identifier, Digit
  <2>. HIDE DEF S
  <2>. QED  BY <2>1, SeqMonotonic
<1>. DEFINE v == Value[a]
            w == Value[b]
            s == <<1>> \o a
            t == <<1>> \o b
<1>2. /\ s \in Seq(Int) /\ Len(s) = Len(a) + 1 /\ s[1] = 1
      /\ \A i \in 1..Len(a) : s[i + 1] = a[i]
  BY <1>1
<1>3. /\ t \in Seq(Int) /\ Len(t) = Len(b) + 1 /\ t[1] = 1
      /\ \A i \in 1..Len(b) : t[i + 1] = b[i]
  BY <1>1
<1>4. CASE IsNumeric(a) /\ IsNumeric(b)
  <2>1. /\ v \in Nat /\ w \in Nat /\ CompareNumeric(a, b) \in {-1, 0, 1}
        /\ CompareNumeric(a, b) < 0 <=> v < w
        /\ CompareNumeric(a, b) = 0 <=> a = b
    BY <1>4, NumericOrder
  <2>2. CompareIdentifier(a, b) = CompareNumeric(a, b)
    BY <1>4 DEF CompareIdentifier
  <2>3. Key(a) = <<0, v>> /\ Key(b) = <<0, w>>
    BY <1>4 DEF Key
  <2>. HIDE DEF v, w
  <2>4. StringLess(<<0, v>>, <<0, w>>) <=> v < w
    <3>. DEFINE x == <<0, v>>
                y == <<0, w>>
    <3>1. /\ Len(x) = 2 /\ Len(y) = 2 /\ x[1] = 0 /\ y[1] = 0
          /\ x[2] = v /\ y[2] = w
      OBVIOUS
    <3>. HIDE DEF x, y
    <3>2. ASSUME v < w  PROVE StringLess(x, y)
      <4>1. /\ 2 \in 1..Len(y) /\ 2 <= Len(x) + 1 /\ x[2] < y[2]
            /\ \A i \in 1..(2 - 1) : x[i] = y[i]
        BY <3>1, <3>2
      <4>. QED  BY <4>1 DEF StringLess
    <3>3. ASSUME StringLess(x, y)  PROVE v < w
      <4>1. PICK k \in 1..Len(y) : k > Len(x) \/ x[k] < y[k]
        BY <3>3 DEF StringLess
      <4>2. k = 1 \/ k = 2
        BY <3>1, <4>1
      <4>. QED  BY <3>1, <4>1, <4>2
    <3>4. StringLess(x, y) <=> v < w
      BY <3>2, <3>3
    <3>. QED  BY <3>4 DEF x, y
  <2>. QED  BY <2>1, <2>2, <2>3, <2>4 DEF KeyLess
<1>5. CASE IsNumeric(a) /\ ~IsNumeric(b)
  <2>1. CompareIdentifier(a, b) = -1 /\ a # b
    BY <1>5 DEF CompareIdentifier
  <2>2. Key(a) = <<0, v>> /\ Key(b) = t
    BY <1>5 DEF Key
  <2>. HIDE DEF v, t
  <2>3. StringLess(<<0, v>>, t)
    <3>1. 1 \in 1..Len(t) /\ 1 <= Len(<<0, v>>) + 1 /\ <<0, v>>[1] < t[1]
      BY <1>1, <1>3
    <3>2. \A i \in 1..(1 - 1) : <<0, v>>[i] = t[i]
      OBVIOUS
    <3>. QED  BY <3>1, <3>2 DEF StringLess
  <2>. QED  BY <2>1, <2>2, <2>3 DEF KeyLess
<1>6. CASE ~IsNumeric(a) /\ IsNumeric(b)
  <2>1. CompareIdentifier(a, b) = 1 /\ a # b
    BY <1>6 DEF CompareIdentifier
  <2>2. Key(a) = s /\ Key(b) = <<0, w>>
    BY <1>6 DEF Key
  <2>. HIDE DEF w, s
  <2>3. ~StringLess(s, <<0, w>>)
    <3>1. ASSUME NEW k \in 1..Len(<<0, w>>), k <= Len(s) + 1,
                 \A i \in 1..(k - 1) : s[i] = <<0, w>>[i],
                 k > Len(s) \/ s[k] < <<0, w>>[k]
          PROVE  FALSE
      <4>1. Len(s) \in Nat \ {0} /\ s[1] = 1 /\ <<0, w>>[1] = 0
        BY <1>1, <1>2
      <4>2. k = 1
        BY <3>1, <4>1
      <4>. QED  BY <3>1, <4>1, <4>2
    <3>. QED  BY <3>1 DEF StringLess
  <2>. QED  BY <2>1, <2>2, <2>3 DEF KeyLess
<1>7. CASE ~IsNumeric(a) /\ ~IsNumeric(b)
  <2>1. CompareIdentifier(a, b) =
          IF StringLess(a, b) THEN -1 ELSE IF StringLess(b, a) THEN 1 ELSE 0
    BY <1>7 DEF CompareIdentifier
  <2>2. Key(a) = s /\ Key(b) = t
    BY <1>7 DEF Key
  <2>. HIDE DEF s, t
  <2>3. ASSUME StringLess(a, b)  PROVE StringLess(s, t)
    <3>1. PICK k \in 1..Len(b) :
            /\ k <= Len(a) + 1 /\ (\A i \in 1..(k - 1) : a[i] = b[i])
            /\ k > Len(a) \/ a[k] < b[k]
      BY <2>3 DEF StringLess
    <3>2. k + 1 \in 1..Len(t) /\ k + 1 <= Len(s) + 1 /\ k \in Nat \ {0}
      BY <1>1, <1>2, <1>3, <3>1
    <3>3. k + 1 > Len(s) \/ s[k + 1] < t[k + 1]
      BY <1>1, <1>2, <1>3, <3>1, <3>2
    <3>4. ASSUME NEW i \in 1..(k + 1 - 1)  PROVE s[i] = t[i]
      <4>1. CASE i = 1
        BY <1>2, <1>3, <4>1
      <4>2. CASE i # 1
        <5>1. /\ i - 1 \in 1..(k - 1) /\ i - 1 \in 1..Len(a)
              /\ i - 1 \in 1..Len(b) /\ i - 1 + 1 = i
          BY <1>1, <3>1, <3>2, <4>2
        <5>2. s[i - 1 + 1] = a[i - 1] /\ t[i - 1 + 1] = b[i - 1]
          BY <1>2, <1>3, <5>1
        <5>. QED  BY <3>1, <5>1, <5>2
      <4>. QED  BY <4>1, <4>2
    <3>. QED  BY <3>2, <3>3, <3>4 DEF StringLess
  <2>4. ASSUME StringLess(s, t)  PROVE StringLess(a, b)
    <3>1. PICK k \in 1..Len(t) :
            /\ k <= Len(s) + 1 /\ (\A i \in 1..(k - 1) : s[i] = t[i])
            /\ k > Len(s) \/ s[k] < t[k]
      BY <2>4 DEF StringLess
    <3>2. k # 1 /\ k \in Nat
      BY <1>1, <1>2, <1>3, <3>1
    <3>3. PICK j \in Nat : j = k - 1 /\ k = j + 1
      BY <3>1, <3>2
    <3>4. j \in 1..Len(b) /\ j <= Len(a) + 1
      BY <1>1, <1>2, <1>3, <3>1, <3>2, <3>3
    <3>5. ASSUME ~(j > Len(a))  PROVE a[j] < b[j]
      <4>1. j \in 1..Len(a)
        BY <1>1, <3>4, <3>5
      <4>3. ~(k > Len(s))
        BY <1>1, <1>2, <3>3, <4>1
      <4>2. s[j + 1] < t[j + 1]
        BY <3>1, <3>3, <4>3
      <4>. QED  BY <1>2, <1>3, <3>4, <4>1, <4>2
    <3>6. ASSUME NEW i \in 1..(j - 1)  PROVE a[i] = b[i]
      <4>1. i + 1 \in 1..(k - 1) /\ i \in 1..Len(a) /\ i \in 1..Len(b)
        BY <1>1, <3>3, <3>4
      <4>2. s[i + 1] = a[i] /\ t[i + 1] = b[i] /\ s[i + 1] = t[i + 1]
        BY <1>2, <1>3, <3>1, <4>1
      <4>. QED  BY <4>2
    <3>. QED  BY <3>4, <3>5, <3>6 DEF StringLess
  <2>5. /\ StringLess(a, b) => ~StringLess(b, a) /\ a # b
        /\ StringLess(b, a) => a # b
        /\ StringLess(a, b) \/ StringLess(b, a) \/ a = b
    BY <1>1, StringOrder
  <2>. QED  BY <2>1, <2>2, <2>3, <2>4, <2>5 DEF KeyLess
<1>. QED  BY <1>4, <1>5, <1>6, <1>7

\* The first result that is not 0.
LEMMA FirstIs ==
  ASSUME NEW n \in Nat, NEW c \in [1..n -> {-1, 0, 1}]
  PROVE  \/ FirstOf(c) = 0 /\ \A i \in 1..n : c[i] = 0
         \/ \E k \in 1..n : /\ FirstOf(c) = c[k] /\ c[k] # 0
                            /\ \A i \in 1..(k - 1) : c[i] = 0
<1>1. CASE \A i \in 1..n : c[i] = 0
  BY <1>1 DEF FirstOf
<1>2. CASE \E i \in 1..n : c[i] # 0
  <2>. DEFINE D == {i \in 1..n : c[i] # 0}
              P(i) == c[i] # 0 /\ \A j \in 1..(i - 1) : c[j] = 0
  <2>1. D \in SUBSET Nat /\ D # {}
    BY <1>2
  <2>. HIDE DEF D
  <2>2. PICK k \in D : \A i \in D : k <= i
    BY <2>1, Least
  <2>3. k \in 1..n /\ c[k] # 0
    BY <2>2 DEF D
  <2>4. ASSUME NEW i \in 1..(k - 1)  PROVE c[i] = 0
    <3>1. i \in 1..n /\ ~(k <= i)
      BY <2>3
    <3>2. i \notin D
      BY <2>2, <3>1
    <3>. QED  BY <3>1, <3>2 DEF D
  <2>5. \E i \in 1..n : P(i)
    BY <2>3, <2>4
  <2>6. PICK m : m = (CHOOSE i \in 1..n : P(i))
    OBVIOUS
  <2>7. m \in 1..n /\ P(m)
    BY <2>5, <2>6
  <2>8. FirstOf(c) = c[m]
    BY <1>2, <2>6 DEF FirstOf
  <2>. QED  BY <2>7, <2>8
<1>. QED  BY <1>1, <1>2

PreLess(a, b) ==
  \E k \in 1..Len(b) : /\ k <= Len(a) + 1
                       /\ \A i \in 1..(k - 1) : a[i] = b[i]
                       /\ k > Len(a) \/ KeyLess(a[k], b[k])

LEMMA PreOrder ==
  ASSUME NEW a \in Seq(Identifier), NEW b \in Seq(Identifier),
         \A i \in 1..Len(a) : Plain(a[i]), \A i \in 1..Len(b) : Plain(b[i])
  PROVE  ComparePre(a, b) \in {-1, 0, 1} /\ (ComparePre(a, b) < 0 <=> PreLess(a, b))
<1>. DEFINE n == Shorter(a, b)
            c == [i \in 1..n |-> CompareIdentifier(a[i], b[i])]
<1>1. n \in Nat /\ n <= Len(a) /\ n <= Len(b) /\ (n = Len(a) \/ n = Len(b))
  BY DEF Shorter
<1>2. ASSUME NEW i \in 1..n
      PROVE  /\ c[i] \in {-1, 0, 1} /\ (c[i] < 0 <=> KeyLess(a[i], b[i]))
             /\ c[i] = 0 <=> a[i] = b[i]
  <2>1. /\ i \in 1..Len(a) /\ i \in 1..Len(b)
        /\ a[i] \in Identifier /\ b[i] \in Identifier
    BY <1>1
  <2>2. c[i] = CompareIdentifier(a[i], b[i]) /\ Plain(a[i]) /\ Plain(b[i])
    BY <2>1
  <2>. QED  BY <2>1, <2>2, KeyOrder
<1>3. c \in [1..n -> {-1, 0, 1}]
  BY <1>2
<1>4. ComparePre(a, b) =
        (CASE FirstOf(c) # 0 -> FirstOf(c)
           [] FirstOf(c) = 0 /\ Len(a) < Len(b) -> -1
           [] FirstOf(c) = 0 /\ Len(a) > Len(b) -> 1
           [] OTHER -> 0)
  BY DEF ComparePre
<1>. HIDE DEF n, c
<1>5. CASE FirstOf(c) = 0 /\ \A i \in 1..n : c[i] = 0
  <2>1. \A i \in 1..n : a[i] = b[i] /\ ~KeyLess(a[i], b[i])
    BY <1>2, <1>5
  <2>2. ComparePre(a, b) \in {-1, 0, 1} /\ (ComparePre(a, b) < 0 <=> Len(a) < Len(b))
    BY <1>4, <1>5
  <2>3. ASSUME Len(a) < Len(b)  PROVE PreLess(a, b)
    <3>1. n = Len(a)
      BY <1>1, <2>3
    <3>2. Len(a) + 1 \in 1..Len(b) /\ Len(a) + 1 > Len(a)
          /\ \A i \in 1..(Len(a) + 1 - 1) : a[i] = b[i]
      BY <2>1, <2>3, <3>1
    <3>. QED  BY <3>2 DEF PreLess
  <2>4. ASSUME PreLess(a, b)  PROVE Len(a) < Len(b)
    <3>1. PICK k \in 1..Len(b) : k > Len(a) \/ KeyLess(a[k], b[k])
      BY <2>4 DEF PreLess
    <3>2. k \notin 1..n \/ k > Len(a)
      BY <2>1, <3>1
    <3>. QED  BY <1>1, <3>1, <3>2
  <2>. QED  BY <2>2, <2>3, <2>4
<1>6. CASE \E k \in 1..n : /\ FirstOf(c) = c[k] /\ c[k] # 0
                           /\ \A i \in 1..(k - 1) : c[i] = 0
  <2>1. PICK k \in 1..n : /\ FirstOf(c) = c[k] /\ c[k] # 0
                          /\ \A i \in 1..(k - 1) : c[i] = 0
    BY <1>6
  <2>2. ComparePre(a, b) = c[k] /\ c[k] \in {-1, 0, 1} /\ a[k] # b[k]
    BY <1>2, <1>4, <2>1
  <2>3. \A i \in 1..(k - 1) : a[i] = b[i] /\ ~KeyLess(a[i], b[i])
    <3>1. \A i \in 1..(k - 1) : i \in 1..n
      BY <1>1
    <3>. QED  BY <1>2, <2>1, <3>1
  <2>4. k \in 1..Len(b) /\ k <= Len(a) /\ k <= Len(a) + 1
    BY <1>1
  <2>5. ASSUME c[k] < 0  PROVE PreLess(a, b)
    <3>1. KeyLess(a[k], b[k])
      BY <1>2, <2>5
    <3>. QED  BY <2>3, <2>4, <3>1 DEF PreLess
  <2>6. ASSUME PreLess(a, b)  PROVE c[k] < 0
    <3>1. PICK j \in 1..Len(b) :
            /\ j <= Len(a) + 1 /\ (\A i \in 1..(j - 1) : a[i] = b[i])
            /\ j > Len(a) \/ KeyLess(a[j], b[j])
      BY <2>6 DEF PreLess
    <3>2. ~(k < j)
      BY <2>2, <2>4, <3>1
    <3>3. ~(j < k)
      BY <2>3, <2>4, <3>1
    <3>4. j = k
      BY <3>2, <3>3, <2>4, <3>1
    <3>. QED  BY <1>2, <2>4, <3>1, <3>4
  <2>. QED  BY <2>2, <2>5, <2>6
<1>. QED  BY <1>3, <1>5, <1>6, <1>1, FirstIs

LEMMA VersionOrder ==
  ASSUME NEW l \in Version, NEW r \in Version
  PROVE  CompareVersions(l, r) < 0 <=> Precedes(l, r)
<1>. DEFINE x == [i \in 1..3 |-> Value[l.core[i]]]
            y == [i \in 1..3 |-> Value[r.core[i]]]
            c == [i \in 1..3 |-> CompareNumeric(l.core[i], r.core[i])]
<1>1. /\ l.pre \in Seq(Identifier) /\ r.pre \in Seq(Identifier)
      /\ \A i \in 1..Len(l.pre) : Plain(l.pre[i])
      /\ \A i \in 1..Len(r.pre) : Plain(r.pre[i])
  BY DEF Version
<1>2. ASSUME NEW i \in 1..3
      PROVE  /\ x[i] \in Nat /\ y[i] \in Nat /\ c[i] \in {-1, 0, 1}
             /\ c[i] < 0 <=> x[i] < y[i]
             /\ c[i] = 0 <=> x[i] = y[i]
  <2>1. /\ l.core[i] \in Identifier /\ r.core[i] \in Identifier
        /\ IsNumeric(l.core[i]) /\ IsNumeric(r.core[i])
        /\ Plain(l.core[i]) /\ Plain(r.core[i])
    BY DEF Version
  <2>. HIDE DEF c
  <2>2. c[i] = CompareNumeric(l.core[i], r.core[i])
    BY DEF c
  <2>3. /\ x[i] \in Nat /\ y[i] \in Nat /\ c[i] \in {-1, 0, 1}
        /\ c[i] < 0 <=> x[i] < y[i]
        /\ c[i] = 0 <=> l.core[i] = r.core[i]
        /\ x[i] = y[i] => l.core[i] = r.core[i]
    BY <2>1, <2>2, NumericOrder
  <2>. QED  BY <2>3
<1>3. c \in [1..3 -> {-1, 0, 1}]
  BY <1>2
<1>4. x = y <=> \A i \in 1..3 : x[i] = y[i]
  OBVIOUS
<1>5. CompareVersions(l, r) =
        (CASE FirstOf(c) # 0 -> FirstOf(c)
           [] FirstOf(c) = 0 /\ l.pre = <<>> /\ r.pre = <<>> -> 0
           [] FirstOf(c) = 0 /\ l.pre = <<>> /\ r.pre # <<>> -> 1
           [] FirstOf(c) = 0 /\ l.pre # <<>> /\ r.pre = <<>> -> -1
           [] OTHER -> ComparePre(l.pre, r.pre))
  BY DEF CompareVersions
<1>6. Precedes(l, r) <=>
        \/ \E i \in 1..3 : x[i] < y[i] /\ \A j \in 1..(i - 1) : x[j] = y[j]
        \/ /\ x = y
           /\ \/ l.pre # <<>> /\ r.pre = <<>>
              \/ l.pre # <<>> /\ PreLess(l.pre, r.pre)
  BY DEF Precedes, PreLess
<1>. HIDE DEF x, y, c
<1>7. CASE FirstOf(c) = 0 /\ \A i \in 1..3 : c[i] = 0
  <2>1. x = y /\ \A i \in 1..3 : ~(x[i] < y[i])
    BY <1>2, <1>4, <1>7
  <2>2. ComparePre(l.pre, r.pre) < 0 <=> PreLess(l.pre, r.pre)
    BY <1>1, PreOrder
  <2>3. r.pre = <<>> => ~PreLess(l.pre, r.pre)
    BY DEF PreLess
  <2>4. CASE l.pre = <<>> \/ r.pre = <<>>
    BY <1>5, <1>6, <1>7, <2>1, <2>3, <2>4
  <2>5. CASE l.pre # <<>> /\ r.pre # <<>>
    <3>1. CompareVersions(l, r) = ComparePre(l.pre, r.pre)
      BY <1>5, <1>7, <2>5
    <3>. QED  BY <1>6, <2>1, <2>2, <2>5, <3>1
  <2>. QED  BY <2>4, <2>5
<1>8. CASE \E k \in 1..3 : /\ FirstOf(c) = c[k] /\ c[k] # 0
                           /\ \A i \in 1..(k - 1) : c[i] = 0
  <2>1. PICK k \in 1..3 : /\ FirstOf(c) = c[k] /\ c[k] # 0
                          /\ \A i \in 1..(k - 1) : c[i] = 0
    BY <1>8
  <2>2. CompareVersions(l, r) = c[k] /\ c[k] \in {-1, 1} /\ x[k] # y[k] /\ x # y
    BY <1>2, <1>5, <2>1
  <2>3. \A i \in 1..(k - 1) : i \in 1..3 /\ x[i] = y[i] /\ ~(x[i] < y[i])
    <3>1. \A i \in 1..(k - 1) : i \in 1..3
      OBVIOUS
    <3>. QED  BY <1>2, <2>1, <3>1
  <2>4. c[k] < 0 => Precedes(l, r)
    BY <1>2, <1>6, <2>3
  <2>5. ASSUME NEW i \in 1..3, x[i] < y[i], \A j \in 1..(i - 1) : x[j] = y[j]
        PROVE  c[k] < 0
    <3>1. ~(k < i)
      BY <2>2, <2>5
    <3>2. ~(i < k)
      BY <2>3, <2>5
    <3>. QED  BY <1>2, <2>5, <3>1, <3>2
  <2>. QED  BY <1>6, <2>2, <2>4, <2>5
<1>. QED  BY <1>3, <1>7, <1>8, FirstIs

-----------------------------------------------------------------------------
(* The invocation                                                           *)

Armed == {"npm", "archive", "checksum", "extract", "write", "rename"}

UpSet ==
  [pc : Armed \cup {"start", "done"}, current : Releases,
   asked : Releases \cup {None}, yes : BOOLEAN, npm : BOOLEAN,
   target : Releases \cup {None}, available : BOOLEAN, archive : Archive,
   out : {"none", "error", "checked", "updated", "killed"}]

\* Until the rename the executable is the one that runs; what is about to
\* replace it was verified and is newer.
UpOK(u, e, t) ==
  /\ u.target # None => (u.available <=> Precedes(u.current, u.target))
  /\ e.whole
  /\ e.version # u.current => u.yes /\ Precedes(u.current, e.version)
  /\ u.pc # "done" => e.version = u.current /\ u.out = "none"
  /\ u.pc \in Armed => u.yes /\ u.target # None /\ Precedes(u.current, u.target)
  /\ u.pc \in {"extract", "write", "rename"} =>
       u.archive.whole /\ u.archive.version = u.target
  /\ u.pc = "rename" => t = u.archive
  /\ t # NoArchive => u.pc \in {"write", "rename"} \/ u.out = "killed"

UpInv ==
  /\ up \in UpSet /\ exe \in Archive /\ temp \in Archive
  /\ latest \in Releases /\ builds \in 0..MaxRepublished
  /\ UpOK(up, exe, temp)

LEMMA NoneIsNoRelease == None \notin Releases
<1>1. \A v \in Releases : v.core \in [1..3 -> Identifier]
  BY UpgradeAssumption DEF UpgradeAssumption, Version
<1>2. <<>> \notin [1..3 -> Identifier]
  OBVIOUS
<1>. QED  BY <1>1, <1>2 DEF None

LEMMA UpgradeStarts == UpgradeInit \/ UpgradeIdle => UpInv
<1>1. MaxRepublished \in Nat /\ Releases # {} /\ NoArchive \in Archive
      /\ \A v \in Releases : [version |-> v, build |-> 0, whole |-> TRUE] \in Archive
  BY UpgradeAssumption DEF UpgradeAssumption, Archive, NoArchive
<1>2. CASE UpgradeInit
  <2>1. PICK v \in Releases, yes \in BOOLEAN, npm \in BOOLEAN,
             asked \in Releases \cup {None} :
          /\ up = NewUp(v, asked, yes, npm)
          /\ exe = [version |-> v, build |-> 0, whole |-> TRUE]
    BY <1>2 DEF UpgradeInit
  <2>2. up \in UpSet
    BY <1>1, <2>1 DEF UpSet, NewUp
  <2>3. UpOK(up, exe, temp)
    BY <1>2, <2>1 DEF UpgradeInit, UpOK, NewUp, Armed
  <2>. QED  BY <1>1, <1>2, <2>1, <2>2, <2>3 DEF UpgradeInit, UpInv
<1>3. CASE UpgradeIdle
  <2>1. latest \in Releases
    BY <1>1, <1>3 DEF UpgradeIdle
  <2>2. up \in UpSet
    BY <1>1, <1>3, <2>1 DEF UpgradeIdle, UpSet, NewUp
  <2>3. /\ up.pc = "done" /\ up.target = None /\ up.current = latest
        /\ exe = [version |-> latest, build |-> 0, whole |-> TRUE]
        /\ temp = NoArchive /\ builds = MaxRepublished
    BY <1>3 DEF UpgradeIdle, NewUp
  <2>4. UpOK(up, exe, temp)
    BY <2>3 DEF UpOK, Armed
  <2>5. exe \in Archive /\ builds \in 0..MaxRepublished
    BY <1>1, <2>1, <2>3
  <2>. QED  BY <1>1, <2>1, <2>2, <2>3, <2>4, <2>5 DEF UpInv
<1>. QED  BY <1>2, <1>3

LEMMA UpgradeKeeps == UpInv /\ [UpgradeNext]_upgradeVars => UpInv'
<1>. SUFFICES ASSUME UpInv, [UpgradeNext]_upgradeVars  PROVE UpInv'
  OBVIOUS
<1>0. /\ up \in UpSet /\ exe \in Archive /\ temp \in Archive
      /\ latest \in Releases /\ builds \in 0..MaxRepublished
      /\ UpOK(up, exe, temp) /\ NoArchive \in Archive /\ MaxRepublished \in Nat
  BY UpgradeAssumption DEF UpInv, UpgradeAssumption, Archive, NoArchive
<1>. SUFFICES /\ up' \in UpSet /\ exe' \in Archive /\ temp' \in Archive
              /\ latest' \in Releases /\ builds' \in 0..MaxRepublished
              /\ UpOK(up', exe', temp')
  BY DEF UpInv
<1>1. CASE UNCHANGED upgradeVars
  BY <1>0, <1>1 DEF upgradeVars
<1>2. CASE Select
  <2>. DEFINE target == IF up.asked # None THEN up.asked ELSE latest
              newer == CompareVersions(up.current, target) < 0
              idle == ~up.yes \/ ~newer
              pc == IF idle THEN "done" ELSE IF up.npm THEN "npm" ELSE "archive"
              out == IF idle THEN "checked" ELSE "none"
              r == [up EXCEPT !.target = target, !.available = newer,
                              !.pc = pc, !.out = out]
  <2>1. target \in Releases /\ up.current \in Releases
    BY <1>0 DEF UpSet
  <2>2. newer <=> Precedes(up.current, target)
    BY <2>1, VersionOrder, UpgradeAssumption DEF UpgradeAssumption
  <2>3. newer \in BOOLEAN
    OBVIOUS
  <2>4. /\ up.pc = "start" /\ UNCHANGED <<exe, temp, builds, latest>> /\ up' = r
    BY <1>2 DEF Select
  <2>5. /\ pc \in {"done", "npm", "archive"} /\ out \in {"checked", "none"}
        /\ pc # "done" => up.yes /\ newer /\ out = "none"
    OBVIOUS
  <2>. HIDE DEF target, newer, idle, pc, out
  <2>6. /\ r \in UpSet /\ r.pc = pc /\ r.out = out /\ r.target = target
        /\ r.available = newer /\ r.current = up.current /\ r.yes = up.yes
        /\ r.archive = up.archive
    BY <1>0, <2>1, <2>3, <2>5 DEF UpSet, Armed
  <2>7. r.available <=> Precedes(r.current, r.target)
    BY <2>2, <2>6
  <2>8. r.target # None /\ (r.pc # "done" => r.available)
    BY <2>1, <2>5, <2>6, NoneIsNoRelease
  <2>. HIDE DEF r
  <2>9. UpOK(r, exe, temp)
    BY <1>0, <2>4, <2>5, <2>6, <2>7, <2>8 DEF UpOK, Armed
  <2>. QED  BY <1>0, <2>4, <2>6, <2>9
<1>3. ASSUME NEW out \in {"error", "updated", "killed"},
             up' = [up EXCEPT !.pc = "done", !.out = out],
             UNCHANGED <<exe, temp, builds, latest>>,
             temp # NoArchive => out = "killed"
      PROVE  /\ up' \in UpSet /\ exe' \in Archive /\ temp' \in Archive
             /\ latest' \in Releases /\ builds' \in 0..MaxRepublished
             /\ UpOK(up', exe', temp')
  <2>. DEFINE r == [up EXCEPT !.pc = "done", !.out = out]
  <2>1. /\ r \in UpSet /\ r.pc = "done" /\ r.out = out /\ r.target = up.target
        /\ r.available = up.available /\ r.current = up.current
        /\ r.yes = up.yes /\ r.archive = up.archive
    BY <1>0 DEF UpSet
  <2>. HIDE DEF r
  <2>2. UpOK(r, exe, temp)
    BY <1>0, <1>3, <2>1 DEF UpOK, Armed
  <2>. QED  BY <1>0, <1>3, <2>1, <2>2 DEF r
<1>4. CASE StepFails \/ NpmInstalls \/ Killed
  BY <1>0, <1>3, <1>4 DEF StepFails, NpmInstalls, Killed, Failed, UpOK
<1>5. ASSUME NEW pc \in Armed, up' = [up EXCEPT !.pc = pc], exe' = exe,
             temp' \in Archive, latest' = latest, builds' = builds, up.pc \in Armed,
             pc \in {"extract", "write", "rename"},
             up.archive.whole /\ up.archive.version = up.target,
             pc = "rename" => temp' = up.archive,
             pc = "extract" => temp' = NoArchive
      PROVE  /\ up' \in UpSet /\ exe' \in Archive /\ temp' \in Archive
             /\ latest' \in Releases /\ builds' \in 0..MaxRepublished
             /\ UpOK(up', exe', temp')
  <2>. DEFINE r == [up EXCEPT !.pc = pc]
  <2>1. /\ r \in UpSet /\ r.pc = pc /\ r.out = up.out /\ r.target = up.target
        /\ r.available = up.available /\ r.current = up.current
        /\ r.yes = up.yes /\ r.archive = up.archive
    BY <1>0 DEF UpSet
  <2>. HIDE DEF r
  <2>2. UpOK(r, exe, temp')
    BY <1>0, <1>5, <2>1 DEF UpOK, Armed
  <2>. QED  BY <1>0, <1>5, <2>1, <2>2 DEF r
<1>6. CASE Download
  <2>1. PICK whole \in BOOLEAN :
          up' = [up EXCEPT !.pc = "checksum",
                   !.archive = [version |-> up.target, build |-> builds,
                                whole |-> whole]]
    BY <1>6 DEF Download
  <2>. DEFINE a == [version |-> up.target, build |-> builds, whole |-> whole]
              r == [up EXCEPT !.pc = "checksum", !.archive = a]
  <2>2. a \in Archive
    BY <1>0 DEF Archive, UpSet
  <2>. HIDE DEF a
  <2>3. /\ r \in UpSet /\ r.pc = "checksum" /\ r.out = up.out
        /\ r.target = up.target /\ r.available = up.available
        /\ r.current = up.current /\ r.yes = up.yes
    BY <1>0, <2>2 DEF UpSet, Armed
  <2>4. up' = r /\ up.pc = "archive" /\ UNCHANGED <<exe, temp, builds, latest>>
    BY <1>6, <2>1 DEF Download, a
  <2>. HIDE DEF r
  <2>5. UpOK(r, exe, temp)
    BY <1>0, <2>3, <2>4 DEF UpOK, Armed
  <2>. QED  BY <1>0, <2>3, <2>4, <2>5
<1>7. CASE Verify
  <2>1. /\ up.pc = "checksum" /\ UNCHANGED <<exe, temp, builds, latest>>
        /\ temp = NoArchive
    BY <1>0, <1>7 DEF Verify, UpOK
  <2>2. CASE up' = [up EXCEPT !.pc = "done", !.out = "error"]
    BY <1>3, <2>1, <2>2
  <2>3. CASE /\ up.archive = [version |-> up.target, build |-> builds, whole |-> TRUE]
             /\ up' = [up EXCEPT !.pc = "extract"]
    BY <1>0, <1>5, <2>1, <2>3 DEF Armed
  <2>. QED  BY <1>7, <2>2, <2>3 DEF Verify, Failed
<1>8. CASE CreateTemp
  <2>1. [up.archive EXCEPT !.whole = FALSE] \in Archive
    BY <1>0 DEF UpSet, Archive
  <2>. QED  BY <1>0, <1>5, <1>8, <2>1 DEF CreateTemp, UpOK, Armed
<1>9. CASE WriteTemp
  <2>1. up.pc = "write" /\ exe' = exe /\ builds' = builds /\ latest' = latest
    BY <1>9 DEF WriteTemp
  <2>2. CASE temp' = up.archive /\ up' = [up EXCEPT !.pc = "rename"]
    <3>1. /\ up.archive \in Archive /\ up.archive.whole
          /\ up.archive.version = up.target
      BY <1>0, <2>1 DEF UpOK, UpSet
    <3>. QED  BY <1>5, <2>1, <2>2, <3>1 DEF Armed
  <2>3. CASE temp' = NoArchive /\ Failed
    <3>. DEFINE r == [up EXCEPT !.pc = "done", !.out = "error"]
    <3>1. /\ r \in UpSet /\ r.pc = "done" /\ r.target = up.target
          /\ r.available = up.available /\ r.current = up.current
          /\ r.yes = up.yes
      BY <1>0 DEF UpSet
    <3>2. up' = r
      BY <2>3 DEF Failed
    <3>. HIDE DEF r
    <3>3. UpOK(r, exe, NoArchive)
      BY <1>0, <3>1 DEF UpOK, Armed
    <3>. QED  BY <1>0, <2>1, <2>3, <3>1, <3>2, <3>3
  <2>. QED  BY <1>9, <2>2, <2>3 DEF WriteTemp
<1>10. CASE Replace
  <2>1. /\ up.pc = "rename" /\ temp' = NoArchive /\ builds' = builds
        /\ latest' = latest
    BY <1>10 DEF Replace
  <2>2. /\ temp.whole /\ temp.version = up.target /\ up.yes
        /\ Precedes(up.current, up.target)
    BY <1>0, <2>1 DEF UpOK, Armed
  <2>3. PICK out \in {"updated", "error"} :
          /\ up' = [up EXCEPT !.pc = "done", !.out = out]
          /\ exe' = temp \/ exe' = exe
    BY <1>10 DEF Replace, Failed
  <2>. DEFINE r == [up EXCEPT !.pc = "done", !.out = out]
  <2>4. /\ r \in UpSet /\ r.pc = "done" /\ r.target = up.target
        /\ r.available = up.available /\ r.current = up.current
        /\ r.yes = up.yes
    BY <1>0 DEF UpSet
  <2>5. up' = r
    BY <2>3
  <2>. HIDE DEF r
  <2>6. UpOK(r, exe', NoArchive)
    BY <1>0, <2>2, <2>3, <2>4 DEF UpOK, Armed
  <2>. QED  BY <1>0, <2>1, <2>3, <2>4, <2>5, <2>6
<1>11. CASE Republished
  BY <1>0, <1>11 DEF Republished
<1>. QED
  BY <1>1, <1>2, <1>4, <1>6, <1>7, <1>8, <1>9, <1>10, <1>11 DEF UpgradeNext

LEMMA UpInvGives == UpInv => UpgradeIsSafe
BY DEF UpInv, UpSet, UpOK, UpgradeIsSafe, UpgradeTypeOK, OffersOnlyNewer,
       ExecutableIsWhole, NoTempLeft

-----------------------------------------------------------------------------
(* The file of an export                                                   *)

FileSet == [of : {"nobody", "earlier", "ours"}, rows : Seq(1..LogCount),
            closed : BOOLEAN]
SearchSet ==
  [pc : {"start", "page", "commit", "remove", "rename", "done"},
   req : Requests, page : Nat, next : 1..(LogCount + 1), rows : Seq(1..LogCount),
   out : {"none", "error", "ok", "killed"}]

\* The file being written has the rows so far.
PartFollows ==
  IF search.req.file
  THEN /\ part.of = "ours" /\ part.rows = search.rows
       /\ search.pc \in {"remove", "rename"} => part.closed
  ELSE part = Absent

ExportInv ==
  /\ search \in SearchSet /\ part \in FileSet /\ final \in FileSet
  /\ source.empty \in 0..MaxEmpty
  /\ source = [endless |-> source.endless, empty |-> source.empty]
  /\ search.page <= MaxPages
  /\ search.pc = "start" => search.page = 0 /\ search.next = 1
                            /\ search.rows = << >> /\ part = Absent
  /\ search.pc = "page" =>
       /\ search.page < MaxPages /\ search.rows = SubSeq(AllLogs, 1, search.next - 1)
       /\ search.req.command = "export-analysis" => search.next = 1
  /\ search.pc \in {"commit", "remove", "rename"} =>
       Truncated \/ search.rows = AllLogs
  /\ search.pc \in {"page", "commit", "remove", "rename"} => PartFollows
  /\ search.pc \in {"remove", "rename"} => search.req.file
  /\ search.pc # "done" => search.out = "none" /\ final.of # "ours"
  /\ ExportIsWhole /\ SuccessIsComplete /\ NoPartLeft

LEMMA Logs ==
  /\ AllLogs \in Seq(1..LogCount) /\ Len(AllLogs) = LogCount
  /\ LogCount \in Nat
BY LogExportAssumption DEF AllLogs, LogExportAssumption

\* The logs before a page and those on it.
LEMMA LogsJoin ==
  ASSUME NEW from \in 1..(LogCount + 1), NEW to \in (from - 1)..LogCount
  PROVE  /\ SubSeq(AllLogs, 1, from - 1) \o SubSeq(AllLogs, from, to)
              = SubSeq(AllLogs, 1, to)
         /\ SubSeq(AllLogs, from, to) \in Seq(1..LogCount)
         /\ SubSeq(AllLogs, 1, to) \in Seq(1..LogCount)
         /\ Len(SubSeq(AllLogs, from, to)) = to - from + 1
<1>. DEFINE list == AllLogs
            m == from - 1
<1>1. list \in Seq(1..LogCount) /\ Len(list) = LogCount /\ LogCount \in Nat
  BY Logs
<1>2. m \in 0..Len(list) /\ to \in m..Len(list) /\ from = m + 1
  BY <1>1
<1>. HIDE DEF list, m
<1>3. SubSeq(list, 1, m) \o SubSeq(list, m + 1, to) = SubSeq(list, 1, to)
  BY <1>1, <1>2
<1>4. /\ SubSeq(list, m + 1, to) \in Seq(1..LogCount)
      /\ SubSeq(list, 1, to) \in Seq(1..LogCount)
      /\ Len(SubSeq(list, m + 1, to)) = to - m
  BY <1>1, <1>2
<1>5. to - m = to - from + 1
  BY <1>1, <1>2
<1>. QED  BY <1>2, <1>3, <1>4, <1>5 DEF list, m

LEMMA LogsWhole ==
  SubSeq(AllLogs, 1, LogCount) = AllLogs /\ SubSeq(AllLogs, 1, 0) = << >>
<1>. DEFINE list == AllLogs
<1>1. list \in Seq(1..LogCount) /\ Len(list) = LogCount /\ LogCount \in Nat
  BY Logs
<1>. HIDE DEF list
<1>2. SubSeq(list, 1, Len(list)) = list /\ SubSeq(list, 1, 0) = << >>
  BY <1>1
<1>. QED  BY <1>1, <1>2 DEF list

LEMMA Files ==
  /\ Absent \in FileSet /\ Earlier \in FileSet /\ Absent.of = "nobody"
  /\ Earlier.of = "earlier"
  /\ \A closed \in BOOLEAN :
       /\ Ours(<< >>, closed) \in FileSet /\ Ours(<< >>, closed).of = "ours"
       /\ Ours(<< >>, closed).rows = << >>
BY DEF Absent, Earlier, Ours, FileSet

LEMMA PageBound ==
  ASSUME search.req \in Requests  PROVE MaxPages \in Nat \ {0}
<1>1. search.req.maxPages \in PageLimits
  BY DEF Requests
<1>2. search.req.maxPages \in Nat /\ DefaultMaxPages \in Nat \ {0}
  BY <1>1, LogExportAssumption DEF LogExportAssumption
<1>. QED  BY <1>2 DEF MaxPages

LEMMA ExportStarts == ExportInit \/ ExportIdle => ExportInv
<1>1. \A req \in Requests :
        /\ NewSearch(req) \in SearchSet /\ NewSearch(req).page = 0
        /\ NewSearch(req).next = 1 /\ NewSearch(req).rows = << >>
        /\ NewSearch(req).out = "none" /\ NewSearch(req).pc = "start"
        /\ NewSearch(req).req = req
  <2>1. 1 \in 1..(LogCount + 1) /\ 0 \in Nat
    BY LogExportAssumption DEF LogExportAssumption
  <2>. QED  BY <2>1 DEF NewSearch, SearchSet
<1>2. CASE ExportInit
  <2>1. /\ search \in SearchSet /\ search.page = 0
        /\ search.next = 1 /\ search.rows = << >>
        /\ search.out = "none" /\ search.pc = "start"
    BY <1>1, <1>2 DEF ExportInit
  <2>2. 0 <= MaxPages
    <3>1. search.req \in Requests
      BY <2>1 DEF SearchSet
    <3>. QED  BY <3>1, PageBound
  <2>3. /\ source.empty \in 0..MaxEmpty
        /\ source = [endless |-> source.endless, empty |-> source.empty]
    BY <1>2, LogExportAssumption DEF ExportInit, LogExportAssumption
  <2>4. part = Absent /\ final \in {Absent, Earlier}
    BY <1>2 DEF ExportInit
  <2>. QED
    BY <2>1, <2>2, <2>3, <2>4, Files
    DEF ExportInv, ExportIsWhole, SuccessIsComplete, NoPartLeft
<1>3. CASE ExportIdle
  <2>. DEFINE req == CHOOSE r \in Requests : TRUE
              s == NewSearch(req)
  <2>1. req \in Requests
    <3>1. PICK limit \in Limits : TRUE
      BY LogExportAssumption DEF LogExportAssumption
    <3>2. [complete |-> TRUE, paged |-> TRUE, analysis |-> TRUE,
           command |-> "export", file |-> TRUE, json |-> TRUE,
           limit |-> limit, maxPages |-> 0] \in Requests
      BY <3>1, LogExportAssumption DEF Requests, LogExportAssumption
    <3>. QED  BY <3>2
  <2>2. /\ s \in SearchSet /\ s.page = 0 /\ s.out = "none"
    BY <1>1, <2>1
  <2>3. search = [s EXCEPT !.pc = "done"]
    BY <1>3 DEF ExportIdle
  <2>. HIDE DEF s, req
  <2>4. /\ search \in SearchSet /\ search.page = 0 /\ search.out = "none"
        /\ search.pc = "done" /\ search.req \in Requests
    BY <2>2, <2>3 DEF SearchSet
  <2>5. 0 <= MaxPages
    BY <2>4, PageBound
  <2>6. /\ source.empty \in 0..MaxEmpty
        /\ source = [endless |-> source.endless, empty |-> source.empty]
    BY <1>3, LogExportAssumption DEF ExportIdle, LogExportAssumption
  <2>7. part = Absent /\ final = Absent
    BY <1>3 DEF ExportIdle
  <2>. QED
    BY <2>4, <2>5, <2>6, <2>7, Files
    DEF ExportInv, ExportIsWhole, SuccessIsComplete, NoPartLeft
<1>. QED  BY <1>2, <1>3

\* A command that returns without a file of its own.
LEMMA EndsKeeps ==
  ASSUME ExportInv, search.pc # "done", NEW out \in {"error", "ok"}, Ends(out),
         UNCHANGED source, final' \in FileSet,
         final'.of = "ours" => /\ final'.closed /\ final'.rows = search.rows
                               /\ Truncated \/ search.rows = AllLogs,
         out = "ok" => /\ Truncated \/ search.rows = AllLogs
                       /\ search.req.file => final'.of = "ours"
  PROVE  ExportInv'
<1>1. /\ search' \in SearchSet /\ search'.pc = "done" /\ search'.out = out
      /\ search'.req = search.req /\ search'.page = search.page
      /\ search'.rows = search.rows
  BY DEF Ends, ExportInv, SearchSet
<1>2. part' = Absent /\ part' \in FileSet
  BY Files DEF Ends
<1>3. MaxPages' = MaxPages
  BY <1>1 DEF MaxPages
<1>4. Truncated' <=> Truncated
  BY <1>1, <1>3 DEF Truncated
<1>5. ExportIsWhole' /\ SuccessIsComplete' /\ NoPartLeft'
  BY <1>1, <1>2, <1>4 DEF ExportIsWhole, SuccessIsComplete, NoPartLeft
<1>. QED  BY <1>1, <1>2, <1>3, <1>5 DEF ExportInv

LEMMA StartKeeps == ExportInv /\ Start => ExportInv'
<1>. SUFFICES ASSUME ExportInv, Start  PROVE ExportInv'
  OBVIOUS
<1>1. /\ search.pc = "start" /\ UNCHANGED <<source, final>>
      /\ final.of # "ours" /\ final \in FileSet
      /\ search \in SearchSet /\ search.page = 0 /\ search.next = 1
      /\ search.rows = << >> /\ search.out = "none"
  BY DEF Start, ExportInv
<1>2. CASE Ends("error")
  BY <1>1, <1>2, EndsKeeps
<1>3. CASE /\ search' = [search EXCEPT !.pc = "page"]
           /\ part' = IF search.req.file THEN Ours(<<>>, ~search.req.json)
                      ELSE Absent
  <2>1. /\ search' \in SearchSet /\ search'.pc = "page"
        /\ search'.req = search.req /\ search'.page = 0 /\ search'.next = 1
        /\ search'.rows = << >> /\ search'.out = "none"
    BY <1>1, <1>3 DEF SearchSet
  <2>2. MaxPages' = MaxPages /\ MaxPages \in Nat \ {0}
    BY <1>1, <2>1, PageBound DEF MaxPages, SearchSet
  <2>3. (~search.req.json) \in BOOLEAN
    OBVIOUS
  <2>4. part' \in FileSet /\ PartFollows'
    BY <1>3, <2>1, <2>3, Files DEF PartFollows
  <2>5. search'.rows = SubSeq(AllLogs, 1, search'.next - 1)
    <3>1. 1 - 1 = 0
      OBVIOUS
    <3>. QED  BY <2>1, <3>1, LogsWhole
  <2>6. ExportIsWhole' /\ SuccessIsComplete' /\ NoPartLeft'
    BY <1>1, <2>1 DEF ExportIsWhole, SuccessIsComplete, NoPartLeft
  <2>7. search'.page < MaxPages' /\ search'.page <= MaxPages'
    BY <2>1, <2>2
  <2>. QED  BY <1>1, <2>1, <2>2, <2>4, <2>5, <2>6, <2>7 DEF ExportInv
<1>. QED  BY <1>2, <1>3 DEF Start

\* A page is added to the rows and to the file.
LEMMA AfterKeeps ==
  ASSUME ExportInv, search.pc = "page", NEW rows \in Seq(1..LogCount),
         NEW over \in BOOLEAN, NEW next \in 1..(LogCount + 1),
         After(rows, over, next), UNCHANGED final,
         source'.empty \in 0..MaxEmpty,
         source' = [endless |-> source'.endless, empty |-> source'.empty],
         over => search.rows \o rows = AllLogs,
         ~over => /\ search.req.command = "export"
                  /\ search.rows \o rows = SubSeq(AllLogs, 1, next - 1)
  PROVE  ExportInv'
<1>. DEFINE all == search.rows \o rows
            s == [search EXCEPT !.rows = all, !.page = @ + 1]
<1>1. /\ search \in SearchSet /\ search.page < MaxPages /\ search.page \in Nat
      /\ final.of # "ours" /\ final \in FileSet /\ part \in FileSet /\ PartFollows
      /\ search.rows \in Seq(1..LogCount) /\ search.req \in Requests
      /\ search.out = "none" /\ MaxPages \in Nat \ {0}
  BY PageBound DEF ExportInv, SearchSet
<1>2. all \in Seq(1..LogCount) /\ search.page + 1 \in Nat
      /\ search.page + 1 <= MaxPages
  BY <1>1
<1>3. /\ search' = IF over \/ s.page >= MaxPages
                     THEN [s EXCEPT !.pc = "commit"]
                     ELSE [s EXCEPT !.next = next]
      /\ part' = IF search.req.file THEN [part EXCEPT !.rows = @ \o rows]
                 ELSE part
  BY DEF After
<1>4. over => all = AllLogs
  OBVIOUS
<1>5. ~over => /\ search.req.command = "export"
               /\ all = SubSeq(AllLogs, 1, next - 1)
  OBVIOUS
<1>6. search.req.file =>
        part' = [part EXCEPT !.rows = all] /\ part.of = "ours"
  BY <1>1, <1>3 DEF PartFollows
<1>7. ~search.req.file => part' = Absent
  BY <1>1, <1>3 DEF PartFollows
<1>. HIDE DEF all
<1>8. /\ s \in SearchSet /\ s.page = search.page + 1 /\ s.rows = all
      /\ s.req = search.req /\ s.out = "none" /\ s.pc = "page"
  BY <1>1, <1>2 DEF SearchSet
<1>. HIDE DEF s
<1>9. /\ search' \in SearchSet /\ search'.page = search.page + 1
      /\ search'.rows = all /\ search'.req = search.req
      /\ search'.out = "none" /\ search'.pc \in {"page", "commit"}
  <2>1. CASE over \/ s.page >= MaxPages
    BY <1>3, <1>8, <2>1 DEF SearchSet
  <2>2. CASE ~(over \/ s.page >= MaxPages)
    BY <1>3, <1>8, <2>2 DEF SearchSet
  <2>. QED  BY <2>1, <2>2
<1>10. MaxPages' = MaxPages
  BY <1>9 DEF MaxPages
<1>11. part' \in FileSet /\ PartFollows'
  <2>1. CASE search.req.file
    BY <1>1, <1>2, <1>6, <1>9, <2>1 DEF FileSet, PartFollows
  <2>2. CASE ~search.req.file
    BY <1>7, <1>9, <2>2, Files DEF PartFollows
  <2>. QED  BY <2>1, <2>2
<1>12. search'.pc = "page" =>
         /\ search'.page < MaxPages' /\ all = SubSeq(AllLogs, 1, search'.next - 1)
         /\ search'.req.command = "export"
  <2>. SUFFICES ASSUME search'.pc = "page"
                PROVE  /\ search'.page < MaxPages'
                       /\ all = SubSeq(AllLogs, 1, search'.next - 1)
                       /\ search'.req.command = "export"
    OBVIOUS
  <2>1. ~(over \/ s.page >= MaxPages)
    BY <1>3, <1>8 DEF SearchSet
  <2>2. search' = [s EXCEPT !.next = next]
    BY <1>3, <2>1
  <2>3. search'.next = next
    BY <1>8, <2>2 DEF SearchSet
  <2>4. s.page < MaxPages
    BY <1>1, <1>2, <1>8, <2>1
  <2>. QED  BY <1>5, <1>8, <1>9, <1>10, <2>1, <2>3, <2>4
<1>13. search'.pc = "commit" => Truncated' \/ all = AllLogs
  <2>. SUFFICES ASSUME search'.pc = "commit", ~over  PROVE Truncated'
    BY <1>4
  <2>1. s.page >= MaxPages
    BY <1>3, <1>8 DEF SearchSet
  <2>. QED  BY <1>5, <1>8, <1>9, <1>10, <2>1 DEF Truncated
<1>14. ExportIsWhole' /\ SuccessIsComplete' /\ NoPartLeft'
  BY <1>1, <1>9 DEF ExportIsWhole, SuccessIsComplete, NoPartLeft
<1>. QED
  BY <1>1, <1>2, <1>9, <1>10, <1>11, <1>12, <1>13, <1>14 DEF ExportInv

LEMMA SearchedRows ==
  ASSUME ExportInv, search.pc = "page"
  PROVE  LET rows == PageOf(search.next)
             next == search.next + Len(rows)
         IN  /\ rows \in Seq(1..LogCount) /\ next \in 1..(LogCount + 1)
             /\ search.rows \o rows = SubSeq(AllLogs, 1, next - 1)
             /\ next > LogCount => search.rows \o rows = AllLogs
<1>. DEFINE from == search.next
            last == from + search.req.limit - 1
            to == IF last < LogCount THEN last ELSE LogCount
            rows == PageOf(from)
            next == from + Len(rows)
<1>1. from \in 1..(LogCount + 1) /\ search.rows = SubSeq(AllLogs, 1, from - 1)
      /\ search.req.limit \in Limits
  BY DEF ExportInv, SearchSet, Requests
<1>2. search.req.limit \in Nat \ {0} /\ LogCount \in Nat
  BY <1>1, LogExportAssumption DEF LogExportAssumption
<1>3. to \in (from - 1)..LogCount /\ from \in Nat
  <2>. HIDE DEF from
  <2>0. from \in Nat /\ from >= 1 /\ from <= LogCount + 1
    BY <1>1, <1>2
  <2>1. last \in Nat /\ last >= from
    BY <1>2, <2>0
  <2>. HIDE DEF last
  <2>2. CASE last < LogCount
    BY <1>2, <2>0, <2>1, <2>2
  <2>3. CASE ~(last < LogCount)
    BY <1>2, <2>0, <2>1, <2>3
  <2>. QED  BY <2>2, <2>3
<1>4. rows = SubSeq(AllLogs, from, to)
  BY DEF PageOf
<1>. HIDE DEF to, rows, from
<1>5. /\ search.rows \o rows = SubSeq(AllLogs, 1, to)
      /\ rows \in Seq(1..LogCount) /\ Len(rows) = to - from + 1
  BY <1>1, <1>3, <1>4, LogsJoin
<1>6. next = to + 1 /\ next \in 1..(LogCount + 1) /\ next - 1 = to
      /\ (next > LogCount => to = LogCount)
  BY <1>1, <1>2, <1>3, <1>5
<1>7. next > LogCount => search.rows \o rows = AllLogs
  BY <1>5, <1>6, LogsWhole
<1>. QED  BY <1>5, <1>6, <1>7 DEF rows, from

LEMMA PageKeeps == ExportInv /\ Page => ExportInv'
<1>. SUFFICES ASSUME ExportInv, Page  PROVE ExportInv'
  OBVIOUS
<1>1. /\ search.pc = "page" /\ search.req.command = "export" /\ UNCHANGED final
      /\ source.empty \in 0..MaxEmpty /\ MaxEmpty \in Nat
      /\ source = [endless |-> source.endless, empty |-> source.empty]
      /\ search.next \in 1..(LogCount + 1)
      /\ search.rows = SubSeq(AllLogs, 1, search.next - 1)
      /\ search.rows \in Seq(1..LogCount)
  BY LogExportAssumption DEF Page, ExportInv, SearchSet, LogExportAssumption
<1>. DEFINE rows == PageOf(search.next)
            next == search.next + Len(rows)
            over == ~source.endless /\ next > LogCount
<1>2. CASE After(rows, over, next) /\ UNCHANGED source
  <2>1. /\ rows \in Seq(1..LogCount) /\ next \in 1..(LogCount + 1)
        /\ search.rows \o rows = SubSeq(AllLogs, 1, next - 1)
        /\ next > LogCount => search.rows \o rows = AllLogs
    BY <1>1, SearchedRows
  <2>2. over \in BOOLEAN /\ (over => next > LogCount)
    OBVIOUS
  <2>3. /\ source'.empty \in 0..MaxEmpty
        /\ source' = [endless |-> source'.endless, empty |-> source'.empty]
    BY <1>1, <1>2
  <2>. HIDE DEF rows, next, over
  <2>. QED  BY <1>1, <1>2, <2>1, <2>2, <2>3, AfterKeeps
<1>3. CASE /\ source.empty < MaxEmpty
           /\ source' = [source EXCEPT !.empty = @ + 1]
           /\ After(<<>>, FALSE, search.next)
  <2>1. /\ source'.empty \in 0..MaxEmpty
        /\ source' = [endless |-> source'.endless, empty |-> source'.empty]
    BY <1>1, <1>3
  <2>2. << >> \in Seq(1..LogCount) /\ FALSE \in BOOLEAN
        /\ search.rows \o << >> = SubSeq(AllLogs, 1, search.next - 1)
    BY <1>1
  <2>. QED  BY <1>1, <1>3, <2>1, <2>2, AfterKeeps
<1>. QED  BY <1>2, <1>3 DEF Page

LEMMA AnalysisKeeps == ExportInv /\ Analysis => ExportInv'
<1>. SUFFICES ASSUME ExportInv, Analysis  PROVE ExportInv'
  OBVIOUS
<1>1. /\ search.pc = "page" /\ search.req.command = "export-analysis"
      /\ UNCHANGED <<source, final>> /\ After(AllLogs, TRUE, 1)
      /\ source.empty \in 0..MaxEmpty /\ search.next = 1
      /\ source = [endless |-> source.endless, empty |-> source.empty]
      /\ search.rows = SubSeq(AllLogs, 1, search.next - 1)
  BY DEF Analysis, ExportInv
<1>2. search.rows = << >>
  <2>1. search.next - 1 = 0
    BY <1>1
  <2>. QED  BY <1>1, <2>1, LogsWhole
<1>3. /\ search.rows \o AllLogs = AllLogs /\ AllLogs \in Seq(1..LogCount)
      /\ 1 \in 1..(LogCount + 1) /\ TRUE \in BOOLEAN
  <2>. DEFINE list == AllLogs
  <2>1. list \in Seq(1..LogCount) /\ LogCount \in Nat
    BY Logs
  <2>. HIDE DEF list
  <2>2. << >> \o list = list
    BY <2>1
  <2>. QED  BY <1>2, <2>1, <2>2 DEF list
<1>4. /\ source'.empty \in 0..MaxEmpty
      /\ source' = [endless |-> source'.endless, empty |-> source'.empty]
  BY <1>1
<1>. QED  BY <1>1, <1>3, <1>4, AfterKeeps

\* What a finished file is renamed to.
LEMMA RenameKeeps == ExportInv /\ Rename => ExportInv'
<1>. SUFFICES ASSUME ExportInv, Rename  PROVE ExportInv'
  OBVIOUS
<1>1. /\ search.pc = "rename" /\ UNCHANGED source /\ search.req.file
      /\ part.of = "ours" /\ part.rows = search.rows /\ part.closed
      /\ Truncated \/ search.rows = AllLogs
      /\ final \in FileSet /\ part \in FileSet /\ final.of # "ours"
  BY DEF Rename, ExportInv, PartFollows
<1>2. CASE final' = part /\ Ends("ok")
  BY <1>1, <1>2, EndsKeeps
<1>3. CASE Ends("error") /\ UNCHANGED final
  BY <1>1, <1>3, EndsKeeps
<1>. QED  BY <1>2, <1>3 DEF Rename

\* The file and the search go on with the rows they have.
LEMMA CommitGoesOn ==
  ASSUME ExportInv, search.pc \in {"commit", "remove"}, search.req.file,
         NEW pc \in {"remove", "rename"},
         search' = [search EXCEPT !.pc = pc], UNCHANGED source,
         part' \in FileSet, part'.of = "ours", part'.rows = part.rows,
         part'.closed, final' \in FileSet, final'.of # "ours"
  PROVE  ExportInv'
<1>1. /\ search' \in SearchSet /\ search'.pc = pc /\ search'.req = search.req
      /\ search'.page = search.page /\ search'.rows = search.rows
      /\ search'.out = "none"
  BY DEF ExportInv, SearchSet
<1>2. MaxPages' = MaxPages
  BY <1>1 DEF MaxPages
<1>3. Truncated' <=> Truncated
  BY <1>1, <1>2 DEF Truncated
<1>4. PartFollows'
  BY <1>1 DEF PartFollows, ExportInv
<1>5. ExportIsWhole' /\ SuccessIsComplete' /\ NoPartLeft'
  BY <1>1 DEF ExportIsWhole, SuccessIsComplete, NoPartLeft
<1>. QED  BY <1>1, <1>2, <1>3, <1>4, <1>5 DEF ExportInv

LEMMA ExportKeeps == ExportInv /\ [ExportNext]_exportVars => ExportInv'
<1>. SUFFICES ASSUME ExportInv, [ExportNext]_exportVars  PROVE ExportInv'
  OBVIOUS
<1>1. CASE PageFails
  <2>1. /\ search.pc = "page" /\ Ends("error") /\ UNCHANGED <<source, final>>
        /\ final \in FileSet /\ final.of # "ours"
    BY <1>1 DEF PageFails, ExportInv
  <2>. QED  BY <2>1, EndsKeeps
<1>2. CASE Report
  <2>1. /\ search.pc = "commit" /\ Ends("ok") /\ UNCHANGED <<source, final>>
        /\ final \in FileSet /\ final.of # "ours" /\ ~search.req.file
        /\ Truncated \/ search.rows = AllLogs
    BY <1>2 DEF Report, ExportInv
  <2>. QED  BY <2>1, EndsKeeps
<1>3. CASE Close
  <2>1. /\ search.pc = "commit" /\ UNCHANGED <<source, final>>
        /\ final \in FileSet /\ final.of # "ours" /\ search.req.file
        /\ part \in FileSet /\ part.of = "ours"
    BY <1>3 DEF Close, ExportInv, PartFollows
  <2>2. CASE Ends("error")
    BY <2>1, <2>2, EndsKeeps
  <2>3. CASE /\ part' = [part EXCEPT !.closed = TRUE]
             /\ search' = [search EXCEPT !.pc = "remove"]
    <3>1. part' \in FileSet /\ part'.of = "ours" /\ part'.rows = part.rows
          /\ part'.closed
      BY <2>1, <2>3 DEF FileSet
    <3>. QED  BY <2>1, <2>3, <3>1, CommitGoesOn
  <2>. QED  BY <1>3, <2>2, <2>3 DEF Close
<1>4. CASE RemoveEarlier
  <2>1. /\ search.pc = "remove" /\ UNCHANGED <<source, part>>
        /\ search.req.file /\ part \in FileSet /\ part.of = "ours"
        /\ part.closed /\ search' = [search EXCEPT !.pc = "rename"]
    BY <1>4 DEF RemoveEarlier, ExportInv, PartFollows
  <2>2. final' \in FileSet /\ final'.of # "ours"
    BY <1>4, Files DEF RemoveEarlier, ExportInv
  <2>. QED  BY <2>1, <2>2, CommitGoesOn
<1>5. CASE ExportDies
  <2>1. /\ search' = [search EXCEPT !.pc = "done", !.out = "killed"]
        /\ UNCHANGED <<source, final, part>> /\ final.of # "ours"
    BY <1>5 DEF ExportDies, ExportInv
  <2>2. /\ search' \in SearchSet /\ search'.pc = "done"
        /\ search'.req = search.req /\ search'.page = search.page
        /\ search'.out = "killed"
    BY <2>1 DEF ExportInv, SearchSet
  <2>3. MaxPages' = MaxPages
    BY <2>2 DEF MaxPages
  <2>. QED
    BY <2>1, <2>2, <2>3
    DEF ExportInv, ExportIsWhole, SuccessIsComplete, NoPartLeft
<1>6. CASE UNCHANGED exportVars
  <2>1. UNCHANGED <<search, source, final, part>>
    BY <1>6 DEF exportVars
  <2>2. MaxPages' = MaxPages
    BY <2>1 DEF MaxPages
  <2>. QED
    BY <2>1, <2>2
    DEF ExportInv, ExportIsWhole, SuccessIsComplete, NoPartLeft, PartFollows,
        Truncated
<1>. QED
  BY <1>1, <1>2, <1>3, <1>4, <1>5, <1>6, StartKeeps, PageKeeps, AnalysisKeeps,
     RenameKeeps
  DEF ExportNext, ExportStep

LEMMA ExportInvGives == ExportInv => ExportIsHonest
<1>. SUFFICES ASSUME ExportInv  PROVE ExportIsHonest
  OBVIOUS
<1>1. search.req \in Requests /\ search.page \in Nat /\ MaxPages \in Nat
      /\ search.page <= MaxPages
  BY PageBound DEF ExportInv, SearchSet
<1>2. ExportTypeOK
  BY <1>1 DEF ExportTypeOK, ExportInv, SearchSet, FileSet
<1>. QED  BY <1>2 DEF ExportIsHonest, ExportInv

-----------------------------------------------------------------------------
(* Pages of requests                                                       *)

ExecShape ==
  exec = [pc |-> exec.pc, page |-> exec.page, cursor |-> exec.cursor,
          rows |-> exec.rows, size |-> exec.size, out |-> exec.out,
          pages |-> exec.pages, merged |-> exec.merged]

\* What has been sent when the next page is asked for, and by whom.
ExecInv ==
  /\ ExecShape
  /\ exec.pc = "start" => inv \in Invocation /\ sent.count = 0
  /\ exec.pc = "request" =>
       /\ inv \in Invocation /\ ~inv.dryRun
       /\ exec.page \in Nat /\ sent.count = exec.page - 1
       /\ IF inv.pageAll THEN exec.page <= inv.maxPages ELSE exec.page = 1
  /\ exec.pc # "done" => cred \in Credentials /\ exec.out # "ok"
  /\ sent = [ak |-> sent.ak, token |-> sent.token, count |-> sent.count]
  /\ sent.count \in Nat
  /\ RequestsBounded /\ SignedAsOneIdentity /\ DryRunSendsNothing

LEMMA ExecStarts == ExecInit \/ ExecIdle => ExecInv
BY ExecutionAssumption, InvocationAssumption
DEF ExecInit, ExecIdle, ExecInv, NewExec, NotSent, RequestsBounded,
    SignedAsOneIdentity, DryRunSendsNothing, ExecShape

\* A request counts once and is signed with the credential that is current.
LEMMA SendIsOne ==
  ASSUME ExecInv, exec.pc = "request", Send, UNCHANGED inv
  PROVE  /\ sent' = [ak |-> sent'.ak, token |-> sent'.token,
                     count |-> sent'.count]
         /\ sent'.count = sent.count + 1 /\ sent'.count \in Nat
         /\ sent'.count = exec.page
         /\ RequestsBounded' /\ SignedAsOneIdentity'
<1>1. /\ sent'.count = sent.count + 1 /\ sent'.ak = cred.ak
      /\ sent'.token = SignedToken
      /\ sent' = [ak |-> sent'.ak, token |-> sent'.token, count |-> sent'.count]
  BY DEF Send
<1>2. sent'.count = exec.page /\ sent'.count \in Nat
  BY <1>1 DEF ExecInv
<1>3. RequestsBounded'
  BY <1>2 DEF ExecInv, RequestsBounded
<1>4. SignedAsOneIdentity'
  <2>1. inv.auth = "dynamic" => SignedToken = cred.token
    BY DEF SignedToken
  <2>2. cred = [ak |-> cred.ak, token |-> cred.token] /\ cred \in Credentials
    BY ExecutionAssumption DEF ExecutionAssumption, ExecInv
  <2>. QED  BY <1>1, <2>1, <2>2 DEF SignedAsOneIdentity
<1>. QED  BY <1>1, <1>2, <1>3, <1>4

\* An invocation that ends after a request.
LEMMA EndsWell ==
  ASSUME ExecInv, exec.pc = "request", Send, UNCHANGED inv,
         exec'.pc = "done", ExecShape'
  PROVE  ExecInv'
<1>1. ~inv.dryRun
  BY DEF ExecInv
<1>. QED  BY <1>1, SendIsOne DEF ExecInv, DryRunSendsNothing


\* The rows of a page do not matter to what is sent.
LEMMA MergedOrNext ==
  ASSUME ExecInv, exec.pc = "request", Send, UNCHANGED <<inv, cred>>,
         inv.pageAll, NEW rows, NEW cursor,
         Merged(rows) \/ NextPage(rows, cursor)
  PROVE  ExecInv'
<1>1. CASE Merged(rows)
  <2>1. exec'.pc = "done" /\ ExecShape'
    BY <1>1 DEF Merged, ExecInv, ExecShape
  <2>. QED  BY <2>1, EndsWell
<1>2. CASE ~Merged(rows)
  <2>1. exec.page < inv.maxPages
    BY <1>2 DEF NextPage
  <2>2. /\ exec'.pc = "request" /\ exec'.page = exec.page + 1
        /\ exec'.out = exec.out /\ ExecShape'
    BY <1>2, <2>1 DEF NextPage, ExecInv, ExecShape
  <2>3. /\ sent' = [ak |-> sent'.ak, token |-> sent'.token,
                    count |-> sent'.count]
        /\ sent'.count \in Nat /\ sent'.count = exec.page
        /\ RequestsBounded' /\ SignedAsOneIdentity'
    BY SendIsOne
  <2>4. /\ inv \in Invocation /\ ~inv.dryRun /\ exec.page \in Nat
        /\ cred \in Credentials /\ exec.out # "ok" /\ inv.maxPages \in Int
    BY DEF ExecInv, Invocation
  <2>5. exec'.page \in Nat /\ sent'.count = exec'.page - 1
        /\ exec'.page <= inv.maxPages
    BY <2>1, <2>2, <2>3, <2>4
  <2>. QED
    BY <2>2, <2>3, <2>4, <2>5 DEF ExecInv, DryRunSendsNothing
<1>. QED  BY <1>1, <1>2

LEMMA PrepareKeeps == ExecInv /\ Prepare => ExecInv'
<1>. SUFFICES ASSUME ExecInv, Prepare  PROVE ExecInv'
  OBVIOUS
<1>1. /\ exec.pc = "start" /\ UNCHANGED <<inv, service, cred, sent>>
      /\ inv \in Invocation /\ sent.count = 0 /\ cred \in Credentials
  BY DEF Prepare, ExecInv
<1>2. RequestsBounded' /\ SignedAsOneIdentity'
  BY <1>1 DEF RequestsBounded, SignedAsOneIdentity
<1>3. CASE Finish("error") \/ (inv.dryRun /\ Finish("plan"))
  <2>1. exec'.pc = "done" /\ exec'.out # "ok" /\ ExecShape'
    BY <1>3 DEF Finish, ExecInv, ExecShape
  <2>. QED  BY <1>1, <1>2, <2>1 DEF ExecInv, DryRunSendsNothing
<1>4. CASE ~(Finish("error") \/ (inv.dryRun /\ Finish("plan")))
  <2>1. /\ ~inv.dryRun /\ (inv.pageAll => ~(inv.maxPages <= 0))
        /\ exec' = [exec EXCEPT !.pc = "request", !.page = 1,
                      !.size = IF inv.pageAll THEN PageSize ELSE 0]
    <3>1. inv.dryRun \in BOOLEAN /\ inv.pageAll \in BOOLEAN
      BY <1>1 DEF Invocation
    <3>. QED  BY <1>4, <3>1 DEF Prepare
  <2>2. exec'.pc = "request" /\ exec'.page = 1 /\ exec'.out = exec.out
        /\ ExecShape'
    BY <2>1 DEF ExecInv, ExecShape
  <2>3. inv.pageAll => exec'.page <= inv.maxPages
    BY <1>1, <2>1, <2>2 DEF Invocation
  <2>. QED
    BY <1>1, <1>2, <2>1, <2>2, <2>3 DEF ExecInv, DryRunSendsNothing
<1>. QED  BY <1>3, <1>4 DEF Prepare

LEMMA ExecKeeps == ExecInv /\ [ExecNext]_execVars => ExecInv'
<1>. SUFFICES ASSUME ExecInv, [ExecNext]_execVars  PROVE ExecInv'
  OBVIOUS
<1>1. CASE Prepare
  BY <1>1, PrepareKeeps
<1>2. CASE SignFails
  <2>1. /\ exec'.pc = "done" /\ exec'.out = "error" /\ ExecShape'
        /\ UNCHANGED <<inv, cred, sent>>
    BY <1>2 DEF SignFails, ExecInv, ExecShape
  <2>. QED
    BY <2>1 DEF ExecInv, RequestsBounded, SignedAsOneIdentity,
                DryRunSendsNothing
<1>3. CASE RequestFails
  <2>1. /\ exec.pc = "request" /\ Send /\ UNCHANGED inv
        /\ exec'.pc = "done" /\ ExecShape'
    BY <1>3 DEF RequestFails, ExecInv, ExecShape
  <2>. QED  BY <2>1, EndsWell
<1>4. CASE ItemsMissing
  <2>1. /\ exec.pc = "request" /\ Send /\ UNCHANGED inv
        /\ exec'.pc = "done" /\ ExecShape'
    BY <1>4 DEF ItemsMissing, ExecInv, ExecShape
  <2>. QED  BY <2>1, EndsWell
<1>5. CASE SingleAnswer
  <2>1. /\ exec.pc = "request" /\ Send /\ UNCHANGED inv
        /\ exec'.pc = "done" /\ ExecShape'
    BY <1>5 DEF SingleAnswer, Finish, ExecInv, ExecShape
  <2>. QED  BY <2>1, EndsWell
<1>6. CASE PageNumber
  <2>1. /\ exec.pc = "request" /\ Send /\ UNCHANGED <<inv, cred>>
        /\ inv.pageAll
    BY <1>6 DEF PageNumber
  <2>2. PICK rows : Merged(rows) \/ NextPage(rows, 0)
    BY <1>6 DEF PageNumber
  <2>. QED  BY <2>1, <2>2, MergedOrNext
<1>7. CASE Cursor
  <2>1. /\ exec.pc = "request" /\ Send /\ UNCHANGED <<inv, cred>>
        /\ inv.pageAll
    BY <1>7 DEF Cursor
  <2>2. PICK rows, cursor : Merged(rows) \/ NextPage(rows, cursor)
    BY <1>7 DEF Cursor
  <2>. QED  BY <2>1, <2>2, MergedOrNext
<1>8. CASE RowsChange
  BY <1>8 DEF RowsChange, ExecInv, ExecShape, RequestsBounded,
              SignedAsOneIdentity, DryRunSendsNothing
<1>9. CASE CredentialRotates
  BY <1>9 DEF CredentialRotates, ExecInv, ExecShape, RequestsBounded,
              SignedAsOneIdentity, DryRunSendsNothing
<1>10. CASE UNCHANGED execVars
  BY <1>10 DEF execVars, ExecInv, ExecShape, RequestsBounded,
               SignedAsOneIdentity, DryRunSendsNothing
<1>. QED
  BY <1>1, <1>2, <1>3, <1>4, <1>5, <1>6, <1>7, <1>8, <1>9, <1>10
  DEF ExecNext, ExecStep

-----------------------------------------------------------------------------
(* A listing of pages                                                      *)

ServiceSet ==
  [rows : SUBSET Rows, cap : Nat, total : BOOLEAN, endless : BOOLEAN,
   token : CallerTokens \cup {NoToken}, changes : Nat]
ExecSet ==
  [pc : {"start", "request", "done"}, page : Nat, cursor : Nat, rows : Seq(Rows),
   size : Int, out : {"none", "error", "plan", "ok"}, pages : Nat, merged : BOOLEAN]

HasListed(k) == k \in 0..Len(Listed) /\ exec.rows = SubSeq(Listed, 1, k)

\* While the service keeps its rows and the size of its pages, what has been listed
\* is all there is before the page that is asked for next.
SoFar ==
  exec.pc = "request" /\ inv.pageAll /\ Unchanged /\ ~service.endless =>
    /\ inv.mode = "page_number" /\ Honoured => HasListed((exec.page - 1) * exec.size)
    /\ inv.mode = "cursor" => HasListed(UpTo(exec.cursor))

ListInv ==
  /\ inv \in Invocation /\ exec \in ExecSet /\ service \in ServiceSet
  /\ IsFiniteSet(service.rows)
  /\ exec.pages <= exec.page
  /\ exec.pc = "start" =>
       exec.page = 0 /\ exec.pages = 0 /\ exec.cursor = 0 /\ exec.rows = <<>>
  /\ exec.pc = "request" =>
       /\ exec.page >= 1 /\ exec.pages = exec.page - 1
       /\ inv.pageAll => exec.size = PageSize
  /\ exec.pc # "done" => ~exec.merged
  /\ SoFar /\ ListingIsComplete

LEMMA UpToRange ==
  ASSUME IsFiniteSet(service.rows), NEW c
  PROVE  UpTo(c) \in 0..Cardinality(service.rows)
<1>1. {r \in service.rows : r <= c} \in SUBSET service.rows
  OBVIOUS
<1>. QED  BY <1>1, FS_Subset, FS_CardinalityType DEF UpTo

\* A row further on has more rows up to it.
LEMMA UpToGrows ==
  ASSUME IsFiniteSet(service.rows), service.rows \subseteq Nat,
         NEW a \in service.rows, NEW b \in service.rows, a < b
  PROVE  UpTo(a) < UpTo(b)
<1>. DEFINE A == {r \in service.rows : r <= a}
            B == {r \in service.rows : r <= b}
<1>1. A \subseteq B /\ b \in B /\ b \notin A /\ B \in SUBSET service.rows
  OBVIOUS
<1>2. IsFiniteSet(B)
  BY <1>1, FS_Subset
<1>. HIDE DEF A, B
<1>3. Cardinality(A) <= Cardinality(B) /\ Cardinality(A) # Cardinality(B)
      /\ IsFiniteSet(A)
  BY <1>1, <1>2, FS_Subset
<1>4. Cardinality(A) \in Nat /\ Cardinality(B) \in Nat
  BY <1>2, <1>3, FS_CardinalityType
<1>. QED  BY <1>3, <1>4 DEF A, B, UpTo

\* Every number of rows is that of the rows up to exactly one row.
LEMMA RowAt ==
  ASSUME IsFiniteSet(service.rows), service.rows \subseteq Nat,
         NEW i \in 1..Cardinality(service.rows)
  PROVE  \E r \in service.rows : UpTo(r) = i
<1>. DEFINE n == Cardinality(service.rows)
            f == [r \in service.rows |-> UpTo(r)]
<1>1. n \in Nat
  BY FS_CardinalityType
<1>2. \A r \in service.rows : UpTo(r) \in 1..n
  <2>. SUFFICES ASSUME NEW r \in service.rows  PROVE UpTo(r) # 0
    BY <1>1, UpToRange
  <2>1. {q \in service.rows : q <= r} \in SUBSET service.rows
    OBVIOUS
  <2>2. IsFiniteSet({q \in service.rows : q <= r}) /\ r \in {q \in service.rows : q <= r}
    BY <2>1, FS_Subset
  <2>. QED  BY <2>2, FS_EmptySet DEF UpTo
<1>3. f \in [service.rows -> 1..n]
  BY <1>2
<1>4. \A a, b \in service.rows : f[a] = f[b] => a = b
  <2>. SUFFICES ASSUME NEW a \in service.rows, NEW b \in service.rows, a # b
                PROVE  UpTo(a) # UpTo(b)
    OBVIOUS
  <2>1. a < b \/ b < a
    OBVIOUS
  <2>2. UpTo(a) \in Nat /\ UpTo(b) \in Nat
    BY <1>1, UpToRange
  <2>. QED  BY <2>1, <2>2, UpToGrows
<1>5. IsFiniteSet(1..n) /\ Cardinality(1..n) = n
  BY <1>1, FS_Interval
<1>6. f \in Injection(service.rows, 1..n)
  BY <1>3, <1>4 DEF Injection, IsInjective
<1>. HIDE DEF f
<1>7. f \in Surjection(service.rows, 1..n)
  BY <1>5, <1>6, FS_Injection
<1>8. \E r \in service.rows : f[r] = i
  BY <1>7 DEF Surjection
<1>. QED  BY <1>8 DEF f

LEMMA ListedOK ==
  ASSUME IsFiniteSet(service.rows), service.rows \subseteq Rows
  PROVE  /\ Listed \in Seq(Rows) /\ Len(Listed) = Cardinality(service.rows)
         /\ Len(Listed) \in Nat
         /\ \A i \in 1..Len(Listed) : Listed[i] \in service.rows /\ UpTo(Listed[i]) = i
         /\ UpTo(0) = 0
<1>. DEFINE n == Cardinality(service.rows)
<1>1. n \in Nat /\ Rows \subseteq Nat \ {0}
  BY FS_CardinalityType, ExecutionAssumption
<1>2. \A i \in 1..n : Listed[i] \in service.rows /\ UpTo(Listed[i]) = i
  BY <1>1, RowAt DEF Listed
<1>3. Listed \in [1..n -> Rows]
  BY <1>2 DEF Listed
<1>4. Listed \in Seq(Rows) /\ Len(Listed) = n
  BY <1>1, <1>3, IsASeq, LenProperties
<1>5. {r \in service.rows : r <= 0} = {}
  <2>1. ASSUME NEW r \in service.rows  PROVE ~(r <= 0)
    <3>1. r \in Nat \ {0}
      BY <1>1
    <3>. QED  BY <3>1
  <2>. QED  BY <2>1
<1>6. UpTo(0) = 0
  BY <1>5, FS_EmptySet DEF UpTo
<1>. QED  BY <1>1, <1>2, <1>4, <1>6

\* A slice of a listing, and what is before it.
LEMMA SliceSeq ==
  ASSUME NEW S, NEW s \in Seq(S), NEW a \in Nat \ {0}, NEW b \in Int, b <= Len(s)
  PROVE  SubSeq(s, a, b) \in Seq(S)
<1>1. \A i \in a..b : s[i] \in S
  BY ElementOfSeq, LenProperties
<1>. QED  BY <1>1, SubSeqProperties

LEMMA SliceOK ==
  ASSUME NEW S, NEW s \in Seq(S), NEW k \in 0..Len(s), NEW m \in k..Len(s)
  PROVE  /\ SubSeq(s, k + 1, m) \in Seq(S) /\ Len(SubSeq(s, k + 1, m)) = m - k
         /\ SubSeq(s, 1, k) \o SubSeq(s, k + 1, m) = SubSeq(s, 1, m)
         /\ k < m => SubSeq(s, k + 1, m)[m - k] = s[m]
<1>1. Len(s) \in Nat
  BY LenProperties
<1>2. \A i \in (k + 1)..m : s[i] \in S
  BY <1>1, ElementOfSeq
<1>3. k + 1 \in Int /\ m \in Int
  BY <1>1
<1>4. /\ SubSeq(s, k + 1, m) \in Seq(S)
      /\ Len(SubSeq(s, k + 1, m)) = IF k + 1 <= m THEN m - (k + 1) + 1 ELSE 0
      /\ \A i \in 1 .. m - (k + 1) + 1 : SubSeq(s, k + 1, m)[i] = s[(k + 1) + i - 1]
  BY <1>2, <1>3, SubSeqProperties
<1>5. SubSeq(s, 1, k) \o SubSeq(s, k + 1, m) = SubSeq(s, 1, m)
  BY <1>1, ConcatAdjacentSubSeq
<1>6. k < m => m - k \in 1 .. m - (k + 1) + 1 /\ (k + 1) + (m - k) - 1 = m
  BY <1>1
<1>. QED  BY <1>1, <1>4, <1>5, <1>6

LEMMA ServedSize ==
  ASSUME exec \in ExecSet, service \in ServiceSet, exec.size >= 0
  PROVE  Served \in Nat \ {0}
BY ExecutionAssumption DEF Served, ExecSet, ServiceSet

\* The rows of a page are rows there are.
LEMMA PageRowsType ==
  ASSUME exec \in ExecSet, service \in ServiceSet, IsFiniteSet(service.rows),
         exec.size >= 0, NEW p \in Nat \ {0}
  PROVE  PageRows(p) \in Seq(Rows)
<1>1. Listed \in Seq(Rows) /\ Len(Listed) \in Nat
  BY ListedOK DEF ServiceSet
<1>2. Served \in Nat \ {0}
  BY ServedSize
<1>3. (p - 1) * Served + 1 \in Nat \ {0} /\ p * Served \in Nat
  <2>1. p - 1 \in Nat
    OBVIOUS
  <2>2. \A x, y \in Nat : x * y \in Nat
    OBVIOUS
  <2>3. (p - 1) * Served \in Nat /\ p * Served \in Nat
    BY <1>2, <2>1, <2>2
  <2>. QED  BY <2>3
<1>4. /\ AtMostOf(p * Served, Len(Listed)) \in Int
      /\ AtMostOf(p * Served, Len(Listed)) <= Len(Listed)
  BY <1>1, <1>3 DEF AtMostOf
<1>. QED  BY <1>1, <1>3, <1>4, SliceSeq DEF PageRows

LEMMA RowsAfterType ==
  ASSUME exec \in ExecSet, service \in ServiceSet, IsFiniteSet(service.rows),
         exec.size >= 0, NEW c
  PROVE  RowsAfter(c) \in Seq(Rows)
<1>1. Listed \in Seq(Rows) /\ Len(Listed) \in Nat
  BY ListedOK DEF ServiceSet
<1>2. Served \in Nat \ {0}
  BY ServedSize
<1>3. UpTo(c) \in Nat
  BY UpToRange, FS_CardinalityType
<1>4. /\ AtMostOf(UpTo(c) + Served, Len(Listed)) \in Int
      /\ AtMostOf(UpTo(c) + Served, Len(Listed)) <= Len(Listed)
  BY <1>1, <1>2, <1>3 DEF AtMostOf
<1>. QED  BY <1>1, <1>3, <1>4, SliceSeq DEF RowsAfter

LEMMA ListStarts == ExecInit \/ ExecIdle => ListInv
<1>. SUFFICES ASSUME ExecInit \/ ExecIdle  PROVE ListInv
  OBVIOUS
<1>1. <<>> \in Seq(Rows)
  BY EmptySeq
<1>2. inv \in Invocation
  <2>1. ExecInit => inv \in Invocation
    BY InvocationAssumption DEF ExecInit
  <2>2. ExecIdle => inv \in Invocation
    BY DEF ExecIdle, Invocation, Defects, Modes
  <2>. QED  BY <2>1, <2>2
<1>3. exec \in ExecSet /\ exec.page = 0 /\ exec.pages = 0 /\ exec.cursor = 0
      /\ exec.rows = <<>> /\ exec.pc \in {"start", "done"} /\ ~exec.merged
  <2>1. \E pc \in {"start", "done"} :
          exec = [pc |-> pc, page |-> 0, cursor |-> 0, rows |-> <<>>,
                  size |-> 0, out |-> "none", pages |-> 0, merged |-> FALSE]
    BY DEF ExecInit, ExecIdle, NewExec
  <2>2. PICK pc \in {"start", "done"} :
          exec = [pc |-> pc, page |-> 0, cursor |-> 0, rows |-> <<>>,
                  size |-> 0, out |-> "none", pages |-> 0, merged |-> FALSE]
    BY <2>1
  <2>. QED  BY <1>1, <2>2 DEF ExecSet
<1>4. service \in ServiceSet /\ IsFiniteSet(service.rows)
  <2>1. CASE ExecInit
    <3>1. service.rows \in Tables /\ service \in
            [rows : Tables, cap : Caps, total : BOOLEAN, endless : BOOLEAN,
             token : CallerTokens, changes : {0}]
      BY <2>1 DEF ExecInit
    <3>. QED  BY <3>1, ExecutionAssumption DEF ServiceSet
  <2>2. CASE ExecIdle
    BY <2>2, FS_EmptySet DEF ExecIdle, ServiceSet
  <2>. QED  BY <2>1, <2>2
<1>. QED
  BY <1>2, <1>3, <1>4 DEF ListInv, SoFar, ListingIsComplete

\* Nothing is merged by a step that ends the invocation or only begins it.
LEMMA EndsUnmerged ==
  ASSUME ListInv, exec.pc # "done", UNCHANGED <<inv, service>>,
         exec' \in ExecSet, exec'.pc = "done", ~exec'.merged, exec'.pages <= exec'.page
  PROVE  ListInv'
BY DEF ListInv, SoFar, ListingIsComplete

\* What is listed of a page, in one step.
LEMMA PageMerges ==
  ASSUME ListInv, exec.pc = "request", UNCHANGED <<inv, service>>,
         NEW page \in Seq(Rows), NEW cursor \in Nat, Merged(page),
         exec.pages + 1 < inv.maxPages /\ Unchanged /\ ~service.endless
           /\ (inv.mode = "page_number" => Honoured) => exec.rows \o page = Listed
  PROVE  ListInv'
<1>1. exec.rows \o page \in Seq(Rows) /\ exec.pages + 1 \in Nat
      /\ exec \in ExecSet
  BY ConcatProperties DEF ListInv, ExecSet
<1>2. /\ exec' \in ExecSet /\ exec'.pc = "done" /\ exec'.pages = exec.pages + 1
      /\ exec'.page = exec.page /\ exec'.rows = exec.rows \o page
      /\ exec'.size = exec.size
  BY <1>1 DEF Merged, ExecSet
<1>3. exec'.pages <= exec'.page
  BY <1>1, <1>2 DEF ListInv, ExecSet
<1>4. ListingIsComplete'
  <2>1. Listed' = Listed
    BY DEF Listed, UpTo
  <2>. QED  BY <1>2, <2>1 DEF ListingIsComplete, Unchanged, Honoured
<1>. QED  BY <1>2, <1>3, <1>4 DEF ListInv, SoFar

LEMMA PageContinues ==
  ASSUME ListInv, exec.pc = "request", UNCHANGED <<inv, service>>,
         NEW page \in Seq(Rows), NEW cursor \in Nat, ~Merged(page), NextPage(page, cursor),
         Unchanged /\ ~service.endless /\ inv.mode = "page_number" /\ Honoured =>
           LET k == exec.page * exec.size
           IN  k \in 0..Len(Listed) /\ exec.rows \o page = SubSeq(Listed, 1, k),
         Unchanged /\ ~service.endless /\ inv.mode = "cursor" =>
           LET k == UpTo(cursor)
           IN  k \in 0..Len(Listed) /\ exec.rows \o page = SubSeq(Listed, 1, k)
  PROVE  ListInv'
<1>1. /\ exec.rows \o page \in Seq(Rows) /\ exec.pages + 1 \in Nat
      /\ exec.page + 1 \in Nat /\ exec \in ExecSet
  BY ConcatProperties DEF ListInv, ExecSet
<1>2. exec' = [exec EXCEPT !.page = @ + 1, !.cursor = cursor,
                 !.pages = @ + 1, !.rows = @ \o page]
  BY DEF NextPage
<1>3. /\ exec' \in ExecSet /\ exec'.pc = "request" /\ exec'.pages = exec.pages + 1
      /\ exec'.page = exec.page + 1 /\ exec'.rows = exec.rows \o page
      /\ exec'.size = exec.size /\ exec'.cursor = cursor /\ exec'.merged = exec.merged
  BY <1>1, <1>2 DEF ExecSet
<1>4. /\ exec'.pages <= exec'.page /\ exec'.page >= 1 /\ exec'.pages = exec'.page - 1
      /\ exec'.page - 1 = exec.page
  <2>1. exec.page \in Nat /\ exec.pages = exec.page - 1
    BY <1>1 DEF ListInv, ExecSet
  <2>. QED  BY <1>3, <2>1
<1>5. Listed' = Listed /\ UpTo(cursor)' = UpTo(cursor) /\ PageSize' = PageSize
  BY DEF Listed, UpTo, PageSize
<1>6. SoFar'
  BY <1>3, <1>4, <1>5 DEF SoFar, HasListed, Unchanged, Honoured
<1>7. ~exec'.merged /\ (inv.pageAll => exec'.size = PageSize')
  BY <1>3, <1>5 DEF ListInv
<1>. QED  BY <1>3, <1>4, <1>6, <1>7 DEF ListInv, ListingIsComplete

\* The size of the pages that a page_number operation asks for is positive.
LEMMA AskedSize ==
  ASSUME ListInv, exec.pc = "request", inv.pageAll
  PROVE  /\ exec.size \in Nat /\ exec \in ExecSet /\ service \in ServiceSet
         /\ inv.mode = "page_number" => exec.size # 0
<1>1. exec.size = PageSize /\ inv.size \in Int /\ inv.defaultSize \in Int
  BY DEF ListInv, Invocation
<1>. QED  BY <1>1, ExecutionAssumption DEF PageSize, ListInv

LEMMA PageNumberLists == ListInv /\ PageNumber => ListInv'
<1>. SUFFICES ASSUME ListInv, PageNumber  PROVE ListInv'
  OBVIOUS
<1>1. /\ exec.pc = "request" /\ UNCHANGED <<inv, service>> /\ inv.pageAll
      /\ inv.mode = "page_number" /\ exec \in ExecSet /\ service \in ServiceSet
      /\ IsFiniteSet(service.rows) /\ exec.page \in Nat \ {0}
      /\ exec.pages = exec.page - 1 /\ inv.maxPages \in Int
  BY DEF PageNumber, ListInv, ExecSet, Invocation
<1>2. exec.size \in Nat \ {0}
  BY <1>1, AskedSize
<1>3. PageRows(exec.page) \in Seq(Rows)
  BY <1>1, <1>2, PageRowsType
<1>4. PICK rows \in Seq(Rows) : /\ rows = PageRows(exec.page)
                                /\ IF LastPage(rows) THEN Merged(rows) ELSE NextPage(rows, 0)
  BY <1>3 DEF PageNumber
<1>. DEFINE n == Len(Listed)
            a == (exec.page - 1) * exec.size
            b == exec.page * exec.size
            to == AtMostOf(b, n)
<1>5. n \in Nat /\ Listed \in Seq(Rows)
  BY <1>1, ListedOK DEF ServiceSet
<1>6. a \in Nat /\ b = a + exec.size
  <2>. SUFFICES ASSUME NEW p \in Nat \ {0}, NEW s \in Nat \ {0}
                PROVE  (p - 1) * s \in Nat /\ p * s = (p - 1) * s + s
    BY <1>1, <1>2
  <2>. QED  OBVIOUS
<1>7. ASSUME Unchanged, ~service.endless, Honoured
      PROVE  /\ a \in 0..n /\ to \in a..n /\ exec.rows = SubSeq(Listed, 1, a)
             /\ rows = SubSeq(Listed, a + 1, to)
  <2>1. HasListed(a)
    BY <1>1, <1>7 DEF ListInv, SoFar
  <2>2. Served = exec.size
    BY <1>1, <1>2, <1>7, ExecutionAssumption DEF Served, Honoured, ServiceSet
  <2>3. rows = SubSeq(Listed, a + 1, to)
    BY <1>4, <2>2 DEF PageRows
  <2>4. to \in a..n
    BY <1>2, <1>5, <1>6, <2>1 DEF AtMostOf, HasListed
  <2>. QED  BY <2>1, <2>3, <2>4 DEF HasListed
<1>. HIDE DEF n, a, b, to
<1>8. ASSUME Unchanged, ~service.endless, Honoured
      PROVE  /\ exec.rows \o rows = SubSeq(Listed, 1, to)
             /\ Len(rows) = to - a /\ Len(exec.rows) = a
             /\ rows = <<>> => to = a
  <2>1. /\ a \in 0..Len(Listed) /\ to \in a..Len(Listed) /\ exec.rows = SubSeq(Listed, 1, a)
        /\ rows = SubSeq(Listed, a + 1, to)
    BY <1>7, <1>8 DEF n
  <2>2. /\ Len(rows) = to - a /\ exec.rows \o rows = SubSeq(Listed, 1, to)
    BY <1>5, <2>1, SliceOK
  <2>3. Len(exec.rows) = a
    <3>1. 0 \in 0..Len(Listed) /\ a \in 0..Len(Listed)
      BY <1>5, <2>1 DEF n
    <3>2. Len(SubSeq(Listed, 0 + 1, a)) = a - 0
      BY <1>5, <3>1, SliceOK
    <3>. QED  BY <2>1, <3>1, <3>2
  <2>4. rows = <<>> => Len(rows) = 0
    BY EmptySeq
  <2>5. rows = <<>> => to = a
    <3>1. a \in Nat /\ to \in Nat
      BY <1>5, <2>1 DEF n
    <3>. QED  BY <2>2, <2>4, <3>1
  <2>. QED  BY <2>2, <2>3, <2>5
<1>9. SubSeq(Listed, 1, n) = Listed
  BY <1>5, SubSeqFull DEF n
<1>10. to = IF b < n THEN b ELSE n
  BY DEF to, AtMostOf
<1>11. CASE Merged(rows)
  <2>1. ASSUME Unchanged, ~service.endless, Honoured, exec.pages + 1 < inv.maxPages
        PROVE  exec.rows \o rows = Listed
    <3>1. LastPage(rows)
      <4>1. ASSUME ~LastPage(rows)  PROVE FALSE
        <5>1. NextPage(rows, 0) /\ exec.page < inv.maxPages
          BY <1>1, <1>4, <2>1, <4>1
        <5>2. /\ exec' = [exec EXCEPT !.page = @ + 1, !.cursor = 0,
                            !.pages = @ + 1, !.rows = @ \o rows]
              /\ exec' = [exec EXCEPT !.pc = "done", !.out = "ok", !.merged = TRUE,
                            !.pages = @ + 1, !.rows = @ \o rows]
          BY <1>11, <5>1 DEF NextPage, Merged
        <5>. QED  BY <1>1, <5>2 DEF ExecSet
      <4>. QED  BY <4>1
    <3>2. /\ exec.rows \o rows = SubSeq(Listed, 1, to) /\ a \in 0..n /\ to \in a..n
          /\ Len(rows) = to - a /\ Len(exec.rows) = a /\ (rows = <<>> => to = a)
      BY <1>7, <1>8, <2>1
    <3>3. to = n
      BY <1>2, <1>5, <1>6, <1>10, <3>1, <3>2 DEF LastPage, n
    <3>. QED  BY <1>9, <3>2, <3>3
  <2>. QED  BY <1>1, <1>4, <1>11, <2>1, PageMerges
<1>12. CASE ~Merged(rows)
  <2>1. ~LastPage(rows) /\ NextPage(rows, 0)
    BY <1>4, <1>12
  <2>2. ASSUME Unchanged, ~service.endless, Honoured
        PROVE  b \in 0..n /\ exec.rows \o rows = SubSeq(Listed, 1, b)
    <3>1. /\ exec.rows \o rows = SubSeq(Listed, 1, to) /\ a \in 0..n /\ to \in a..n
          /\ Len(rows) = to - a
      BY <1>7, <1>8, <2>2
    <3>2. ~(Len(rows) < exec.size)
      BY <2>1 DEF LastPage
    <3>3. b = to
      BY <1>2, <1>5, <1>6, <1>10, <3>1, <3>2
    <3>. QED  BY <1>5, <1>6, <3>1, <3>3
  <2>3. Unchanged /\ ~service.endless /\ inv.mode = "page_number" /\ Honoured =>
          LET k == exec.page * exec.size
          IN  k \in 0..Len(Listed) /\ exec.rows \o rows = SubSeq(Listed, 1, k)
    BY <2>2 DEF b, n
  <2>. QED  BY <1>1, <1>4, <1>12, <2>1, <2>3, PageContinues
<1>. QED  BY <1>11, <1>12

LEMMA CursorLists == ListInv /\ Cursor => ListInv'
<1>. SUFFICES ASSUME ListInv, Cursor  PROVE ListInv'
  OBVIOUS
<1>1. /\ exec.pc = "request" /\ UNCHANGED <<inv, service>> /\ inv.pageAll
      /\ inv.mode = "cursor" /\ exec \in ExecSet /\ service \in ServiceSet
      /\ IsFiniteSet(service.rows) /\ exec.page \in Nat \ {0} /\ exec.cursor \in Nat
      /\ exec.pages = exec.page - 1 /\ inv.maxPages \in Int
  BY DEF Cursor, ListInv, ExecSet, Invocation
<1>2. exec.size \in Nat
  BY <1>1, AskedSize
<1>3. RowsAfter(exec.cursor) \in Seq(Rows)
  BY <1>1, <1>2, RowsAfterType
<1>. DEFINE n == Len(Listed)
            a == UpTo(exec.cursor)
            to == AtMostOf(a + Served, n)
<1>4. PICK rows \in Seq(Rows) :
        /\ rows = RowsAfter(exec.cursor)
        /\ IF rows = <<>> \/ ~(a + Len(rows) < n \/ service.endless) THEN Merged(rows)
           ELSE NextPage(rows, IF service.endless THEN exec.cursor ELSE rows[Len(rows)])
  BY <1>3 DEF Cursor
<1>5. /\ n \in Nat /\ Listed \in Seq(Rows) /\ n = Cardinality(service.rows)
      /\ \A i \in 1..n : Listed[i] \in service.rows /\ UpTo(Listed[i]) = i
  BY <1>1, ListedOK DEF ServiceSet
<1>6. a \in 0..n /\ Served \in Nat \ {0}
  BY <1>1, <1>2, <1>5, UpToRange, ServedSize
<1>7. /\ to \in a..n /\ rows = SubSeq(Listed, a + 1, to)
      /\ a < n => a < to
  BY <1>4, <1>5, <1>6 DEF AtMostOf, RowsAfter
<1>. HIDE DEF n, a, to
<1>8. /\ Len(rows) = to - a
      /\ SubSeq(Listed, 1, a) \o rows = SubSeq(Listed, 1, to)
      /\ a < to => rows[Len(rows)] = Listed[to]
      /\ rows = <<>> => to = a
  <2>1. a \in 0..Len(Listed) /\ to \in a..Len(Listed)
    BY <1>6, <1>7 DEF n
  <2>2. /\ Len(rows) = to - a
        /\ SubSeq(Listed, 1, a) \o rows = SubSeq(Listed, 1, to)
        /\ a < to => rows[to - a] = Listed[to]
    BY <1>5, <1>7, <2>1, SliceOK
  <2>3. rows = <<>> => Len(rows) = 0
    BY EmptySeq
  <2>. QED  BY <1>5, <1>6, <2>1, <2>2, <2>3 DEF n
<1>9. Unchanged /\ ~service.endless => exec.rows = SubSeq(Listed, 1, a)
  BY <1>1 DEF ListInv, SoFar, HasListed, a
<1>10. SubSeq(Listed, 1, n) = Listed
  BY <1>5, SubSeqFull DEF n
<1>11. CASE Merged(rows)
  <2>1. ASSUME Unchanged, ~service.endless, exec.pages + 1 < inv.maxPages
        PROVE  exec.rows \o rows = Listed
    <3>1. rows = <<>> \/ ~(a + Len(rows) < n)
      <4>1. ASSUME rows # <<>>, a + Len(rows) < n  PROVE FALSE
        <5>1. NextPage(rows, rows[Len(rows)]) /\ exec.page < inv.maxPages
          BY <1>1, <1>4, <2>1, <4>1
        <5>2. /\ exec' = [exec EXCEPT !.page = @ + 1, !.cursor = rows[Len(rows)],
                            !.pages = @ + 1, !.rows = @ \o rows]
              /\ exec' = [exec EXCEPT !.pc = "done", !.out = "ok", !.merged = TRUE,
                            !.pages = @ + 1, !.rows = @ \o rows]
          BY <1>11, <5>1 DEF NextPage, Merged
        <5>. QED  BY <1>1, <5>2 DEF ExecSet
      <4>. QED  BY <4>1
    <3>2. to = n
      <4>1. n \in Nat /\ a \in 0..n /\ to \in a..n /\ (a < n => a < to)
        BY <1>5, <1>6, <1>7
      <4>2. Len(rows) = to - a /\ (rows = <<>> => to = a)
        BY <1>8
      <4>. QED  BY <3>1, <4>1, <4>2
    <3>. QED  BY <1>8, <1>9, <1>10, <2>1, <3>2
  <2>. QED  BY <1>1, <1>4, <1>11, <2>1, PageMerges
<1>12. CASE ~Merged(rows)
  <2>. DEFINE cursor == IF service.endless THEN exec.cursor ELSE rows[Len(rows)]
  <2>1. rows # <<>> /\ NextPage(rows, cursor)
    BY <1>4, <1>12
  <2>2. a < to
    <3>1. Len(rows) # 0
      BY <2>1, EmptySeq
    <3>. QED  BY <1>6, <1>7, <1>8, <3>1
  <2>3. ~service.endless => cursor = Listed[to] /\ to \in 1..n
    BY <1>5, <1>6, <1>7, <1>8, <2>2
  <2>4. cursor \in Nat
    <3>1. service.rows \subseteq Nat
      BY <1>1, ExecutionAssumption DEF ServiceSet
    <3>. QED  BY <1>1, <1>5, <2>3, <3>1
  <2>. HIDE DEF cursor
  <2>5. Unchanged /\ ~service.endless /\ inv.mode = "cursor" =>
          LET k == UpTo(cursor)
          IN  k \in 0..Len(Listed) /\ exec.rows \o rows = SubSeq(Listed, 1, k)
    <3>. SUFFICES ASSUME Unchanged, ~service.endless
                  PROVE  /\ UpTo(cursor) \in 0..Len(Listed)
                         /\ exec.rows \o rows = SubSeq(Listed, 1, UpTo(cursor))
      OBVIOUS
    <3>1. UpTo(cursor) = to /\ to \in 0..n
      BY <1>5, <2>3
    <3>2. exec.rows \o rows = SubSeq(Listed, 1, to)
      BY <1>8, <1>9
    <3>. QED  BY <3>1, <3>2 DEF n
  <2>. QED  BY <1>1, <1>4, <1>12, <2>1, <2>4, <2>5, PageContinues
<1>. QED  BY <1>11, <1>12

LEMMA PrepareLists == ListInv /\ Prepare => ListInv'
<1>. SUFFICES ASSUME ListInv, Prepare  PROVE ListInv'
  OBVIOUS
<1>1. /\ exec.pc = "start" /\ UNCHANGED <<inv, service>> /\ exec \in ExecSet
      /\ exec.page = 0 /\ exec.pages = 0 /\ exec.cursor = 0 /\ exec.rows = <<>>
      /\ ~exec.merged /\ inv \in Invocation
  BY DEF Prepare, ListInv
<1>2. CASE \E out \in {"error", "plan"} : Finish(out)
  <2>0. PICK out \in {"error", "plan"} : exec' = [exec EXCEPT !.pc = "done", !.out = out]
    BY <1>2 DEF Finish
  <2>1. exec' \in ExecSet /\ exec'.pc = "done" /\ ~exec'.merged /\ exec'.pages <= exec'.page
    <3>1. /\ exec' \in ExecSet /\ exec'.pc = "done" /\ exec'.merged = exec.merged
          /\ exec'.pages = exec.pages /\ exec'.page = exec.page
      BY <1>1, <2>0 DEF ExecSet
    <3>. QED  BY <1>1, <3>1
  <2>. QED  BY <1>1, <2>1, EndsUnmerged
<1>3. CASE exec' = [exec EXCEPT !.pc = "request", !.page = 1,
                      !.size = IF inv.pageAll THEN PageSize ELSE 0]
  <2>1. PageSize \in Int
    BY <1>1, ExecutionAssumption DEF PageSize, Invocation
  <2>2. (IF inv.pageAll THEN PageSize ELSE 0) \in Int
    BY <2>1
  <2>3. /\ exec' \in ExecSet /\ exec'.pc = "request" /\ exec'.page = 1 /\ exec'.pages = 0
        /\ exec'.cursor = 0 /\ exec'.rows = <<>> /\ ~exec'.merged
        /\ exec'.size = IF inv.pageAll THEN PageSize ELSE 0
    BY <1>1, <1>3, <2>2 DEF ExecSet
  <2>4. Listed' = Listed /\ UpTo(0)' = UpTo(0) /\ PageSize' = PageSize
    BY <1>1 DEF Listed, UpTo, PageSize
  <2>5. Listed \in Seq(Rows) /\ Len(Listed) \in Nat /\ UpTo(0) = 0
    BY ListedOK DEF ListInv, ServiceSet
  <2>6. SubSeq(Listed, 1, 0) = <<>>
    BY SubSeqEmpty
  <2>7. (exec'.page - 1) * exec'.size = 0
    BY <2>2, <2>3
  <2>8. SoFar'
    BY <2>3, <2>4, <2>5, <2>6, <2>7 DEF SoFar, HasListed
  <2>. QED  BY <1>1, <2>3, <2>4, <2>8 DEF ListInv, ListingIsComplete
<1>. QED  BY <1>2, <1>3 DEF Prepare

LEMMA ListKeeps == ListInv /\ [ExecNext]_execVars => ListInv'
<1>. SUFFICES ASSUME ListInv, [ExecNext]_execVars  PROVE ListInv'
  OBVIOUS
<1>0. exec \in ExecSet /\ service \in ServiceSet /\ IsFiniteSet(service.rows)
      /\ exec.pages <= exec.page
  BY DEF ListInv
<1>1. CASE SignFails \/ RequestFails \/ ItemsMissing \/ SingleAnswer
  <2>1. /\ exec.pc = "request" /\ UNCHANGED <<inv, service>> /\ ~exec.merged
        /\ exec.pages = exec.page - 1
    BY <1>1 DEF SignFails, RequestFails, ItemsMissing, SingleAnswer, ListInv
  <2>2. \E out \in {"error", "ok"}, pages \in {exec.pages, exec.pages + 1} :
          exec' = [exec EXCEPT !.pc = "done", !.out = out, !.pages = pages]
    <3>1. exec = [exec EXCEPT !.pages = exec.pages]
      BY <1>0 DEF ExecSet
    <3>2. CASE ItemsMissing
      BY <3>2 DEF ItemsMissing
    <3>3. CASE SignFails \/ RequestFails \/ SingleAnswer
      <4>1. \E out \in {"error", "ok"} : exec' = [exec EXCEPT !.pc = "done", !.out = out]
        BY <3>3 DEF SignFails, RequestFails, SingleAnswer, Finish
      <4>2. PICK out \in {"error", "ok"} : exec' = [exec EXCEPT !.pc = "done", !.out = out]
        BY <4>1
      <4>3. exec' = [exec EXCEPT !.pc = "done", !.out = out, !.pages = exec.pages]
        BY <1>0, <4>2 DEF ExecSet
      <4>. QED  BY <4>3
    <3>. QED  BY <1>1, <3>2, <3>3
  <2>3. PICK out \in {"error", "ok"}, pages \in {exec.pages, exec.pages + 1} :
          exec' = [exec EXCEPT !.pc = "done", !.out = out, !.pages = pages]
    BY <2>2
  <2>4. pages \in Nat /\ pages <= exec.page
    BY <1>0, <2>1 DEF ExecSet
  <2>5. exec' \in ExecSet /\ exec'.pc = "done" /\ exec'.merged = exec.merged
        /\ exec'.pages = pages /\ exec'.page = exec.page
    BY <1>0, <2>3, <2>4 DEF ExecSet
  <2>. QED  BY <2>1, <2>4, <2>5, EndsUnmerged
<1>2. CASE RowsChange
  <2>1. PICK r \in Rows : service' = [service EXCEPT !.changes = @ + 1,
                     !.rows = IF r \in @ THEN @ \ {r} ELSE @ \cup {r}]
    BY <1>2 DEF RowsChange
  <2>. DEFINE rows == IF r \in service.rows THEN service.rows \ {r} ELSE service.rows \cup {r}
  <2>2. rows \subseteq Rows /\ IsFiniteSet(rows)
    BY <1>0, FS_AddElement, FS_RemoveElement DEF ServiceSet
  <2>3. service' = [service EXCEPT !.changes = @ + 1, !.rows = rows]
    BY <2>1
  <2>. HIDE DEF rows
  <2>. DEFINE changes == service.changes + 1
  <2>4. changes \in Nat /\ changes # 0
    BY <1>0 DEF ServiceSet
  <2>8. service' = [service EXCEPT !.changes = changes, !.rows = rows]
    BY <2>3
  <2>9. rows \in SUBSET Rows
    BY <2>2
  <2>. HIDE DEF changes
  <2>10. service' \in ServiceSet /\ service'.rows = rows /\ service'.changes = changes
    BY <1>0, <2>4, <2>8, <2>9 DEF ServiceSet
  <2>5. service' \in ServiceSet /\ service'.rows = rows /\ service'.changes # 0
    BY <2>4, <2>10
  <2>6. UNCHANGED <<inv, exec>> /\ exec.pc = "request"
    BY <1>2 DEF RowsChange
  <2>7. PageSize' = PageSize
    BY <2>6 DEF PageSize
  <2>. QED
    BY <2>2, <2>5, <2>6, <2>7 DEF ListInv, SoFar, ListingIsComplete, Unchanged
<1>3. CASE CredentialRotates \/ UNCHANGED execVars
  <2>1. UNCHANGED <<inv, exec, service>>
    BY <1>3 DEF CredentialRotates, execVars
  <2>2. Listed' = Listed /\ PageSize' = PageSize /\ UpTo(exec.cursor)' = UpTo(exec.cursor)
    BY <2>1 DEF Listed, UpTo, PageSize
  <2>. QED
    BY <2>1, <2>2 DEF ListInv, SoFar, HasListed, ListingIsComplete, Unchanged, Honoured
<1>. QED
  BY <1>1, <1>2, <1>3, PrepareLists, PageNumberLists, CursorLists DEF ExecNext, ExecStep

LEMMA ListInvGives ==
  ListInv /\ sent.count \in Nat /\ RequestsBounded /\ DryRunSendsNothing => ListingIsSound
BY DEF ListInv, ExecSet, ServiceSet, ListingIsSound, ExecTypeOK

-----------------------------------------------------------------------------
(* One run of the command line                                             *)

CmdSet ==
  [kind : Kinds \cup {"plain"}, project : {"unset", "file"},
   parsed : 0..MaxFlags, mode : {"unset", "stdout", "file", "other"},
   given : BOOLEAN, file : BOOLEAN,
   dir : {"none", "blocked", "readonly", "good"},
   filter : {"none", "bad", "miss", "hit"}, format : {"json", "jsonl", "table"},
   secrets : {"none", "bad", "good"}, profile : BOOLEAN, trace : BOOLEAN,
   dry : BOOLEAN, context : Contexts]

ResultParts == {"data", "preview", "plan", "warning", "error"}

RunSet ==
  [pc : {"parse", "preflight", "dispatch", "context", "send", "project",
         "spill", "report", "render", "done"},
   exit : 0..3, sent : BOOLEAN, made : BOOLEAN, error : 0..3,
   result : SUBSET ResultParts, text : BOOLEAN, large : BOOLEAN,
   file : SUBSET ResultParts,
   out : {"nothing", "usage", "error", "value", "filtered", "notice", "path"},
   shown : SUBSET ResultParts]

\* What has been ruled out when a command gets to a step.
CheckedFlags ==
  /\ cmd.filter # "bad" /\ cmd.mode \in {"stdout", "file"}
  /\ cmd.kind = "login" => ~Diverts
  /\ ~(FilterTargetsEnvelope /\ cmd.mode = "file" /\ cmd.filter # "none")
  /\ ~(cmd.file /\ RejectsOutputFile)
  /\ cmd.dry => DryRunInScope
  /\ cmd.mode = "file" => CanMake
  /\ cmd.secrets = "bad" => Exec

CheckedContext ==
  /\ cmd.secrets # "bad" /\ cmd.context.projection # "bad"
  /\ cmd.filter # "bad" /\ cmd.mode \in {"stdout", "file"}
  /\ ~(cmd.mode = "file" /\ cmd.filter # "none")
  /\ cmd.mode = "file" => CanMake

\* A context that has not been checked: what may be wrong is its own.
GivenContext ==
  /\ cmd.filter # "bad" /\ cmd.mode \in {"stdout", "file"}
  /\ cmd.context.artifact = "none" =>
       /\ ~(cmd.mode = "file" /\ cmd.filter # "none")
       /\ cmd.mode = "file" => CanMake

CmdInv ==
  /\ run.pc \in {"parse", "preflight"} =>
       cmd.context = NoContext /\ run.error = 0
  /\ run.pc = "parse" /\ cmd.given => cmd.mode # "unset"
  /\ run.pc = "preflight" => cmd.mode # "unset"
  /\ run.pc = "dispatch" =>
       cmd.context = NoContext /\ CheckedFlags /\ run.error = 0
  /\ run.pc \in {"context", "send", "project", "spill"} => Exec /\ run.error = 0
  /\ run.pc = "context" => GivenContext
  /\ run.pc = "send" => CheckedContext

RunInv ==
  /\ run.pc \in {"parse", "preflight", "dispatch", "context", "send"} =>
       ~run.sent /\ run.file = {}
  /\ run.pc = "project" => HasResult(run.result) /\ run.file = {}
  /\ run.pc = "spill" =>
       HasResult(run.result) /\ (run.file = {} \/ HasResult(run.file))
  /\ run.pc = "render" =>
       /\ run.error = 0 /\ (run.file = {} \/ HasResult(run.file))
       /\ HasResult(run.result) \/ (Exec /\ HasResult(run.file))
  /\ run.pc = "report" => run.error # 0

CommandInv ==
  /\ cmd \in CmdSet /\ run \in RunSet /\ CmdInv /\ RunInv
  /\ NothingSentInVain /\ ExitZeroDelivers /\ FailureIsReported

LEMMA CommandStarts == CommandInit \/ CommandIdle => CommandInv
<1>1. CASE CommandInit
  <2>1. PICK kind \in Kinds, project \in {"unset", "file"} :
          cmd = Plainly(kind, project)
    BY <1>1 DEF CommandInit
  <2>2. cmd \in CmdSet /\ cmd.context = NoContext /\ ~cmd.given
    BY <2>1, CommandRunAssumption
    DEF Plainly, CmdSet, Contexts, NoContext, CommandRunAssumption
  <2>3. /\ run \in RunSet /\ run.pc = "parse" /\ ~run.sent /\ run.file = {}
        /\ run.error = 0
    BY <1>1 DEF CommandInit, NewRun, RunSet
  <2>. QED
    BY <2>2, <2>3 DEF CommandInv, CmdInv, RunInv, NothingSentInVain,
    DryRunIsLocal, RefusedIsLocal, UndeliverableIsNotSent, ExitZeroDelivers,
    FailureIsReported, Done
<1>2. CASE CommandIdle
  <2>2. cmd \in CmdSet
    BY <1>2, CommandRunAssumption
    DEF CommandIdle, Plainly, CmdSet, Contexts, NoContext, CommandRunAssumption
  <2>3. /\ run \in RunSet /\ run.pc = "done" /\ ~run.sent /\ run.file = {}
        /\ run.error = 0 /\ run.out = "nothing"
    <3>1. NewRun \in RunSet
      BY DEF NewRun, RunSet
    <3>2. /\ NewRun.sent = FALSE /\ NewRun.file = {} /\ NewRun.error = 0
          /\ NewRun.out = "nothing"
      BY DEF NewRun
    <3>. QED  BY <1>2, <3>1, <3>2 DEF CommandIdle, RunSet
  <2>. QED
    BY <2>2, <2>3 DEF CommandInv, CmdInv, RunInv, NothingSentInVain,
    DryRunIsLocal, RefusedIsLocal, UndeliverableIsNotSent, ExitZeroDelivers,
    FailureIsReported, Done
<1>. QED  BY <1>1, <1>2

\* A run that ends: nothing else changes than how, and the command stays.
LEMMA RunEnds ==
  ASSUME CommandInv, UNCHANGED cmd, NEW s \in RunSet, run' = s, s.pc = "done",
         run.sent => s.sent, s.sent => run.sent, run.pc # "done",
         s.error = run.error, s.error # 0 => s.exit = s.error,
         s.exit = 0 /\ s.out \notin {"nothing", "usage"} =>
           CASE s.out \in {"notice", "path"} -> HasResult(s.file)
             [] s.out = "filtered" -> HasResult(s.shown) \/ HasResult(s.file)
             [] OTHER -> HasResult(s.shown)
  PROVE  CommandInv'
<1>1. CmdInv' /\ RunInv'
  BY DEF CmdInv, RunInv
<1>2. NothingSentInVain'
  BY DEF CommandInv, NothingSentInVain, DryRunIsLocal, RefusedIsLocal,
         UndeliverableIsNotSent, Exec, Diverts, CanMake
<1>3. ExitZeroDelivers' /\ FailureIsReported'
  BY DEF ExitZeroDelivers, FailureIsReported, Done, HasResult
<1>. QED  BY <1>1, <1>2, <1>3 DEF CommandInv

LEMMA EndsWithKeeps ==
  ASSUME CommandInv, UNCHANGED cmd, run.pc # "done",
         NEW out \in {"nothing", "usage", "error", "value", "filtered"},
         NEW shown \in SUBSET ResultParts, NEW exit \in 0..3,
         EndsWith(out, shown, exit), run.error # 0 => exit = run.error,
         exit = 0 /\ out \notin {"nothing", "usage"} =>
           HasResult(shown) \/ (out = "filtered" /\ HasResult(run.file))
  PROVE  CommandInv'
<1>. DEFINE s == [run EXCEPT !.pc = "done", !.out = out, !.shown = shown,
                             !.exit = exit]
<1>1. /\ s \in RunSet /\ s.pc = "done" /\ s.sent = run.sent
      /\ s.error = run.error /\ s.exit = exit /\ s.out = out
      /\ s.shown = shown /\ s.file = run.file
  BY DEF CommandInv, RunSet
<1>2. run' = s
  BY DEF EndsWith
<1>. HIDE DEF s
<1>3. s.exit = 0 /\ s.out \notin {"nothing", "usage"} =>
           CASE s.out \in {"notice", "path"} -> HasResult(s.file)
             [] s.out = "filtered" -> HasResult(s.shown) \/ HasResult(s.file)
             [] OTHER -> HasResult(s.shown)
  BY <1>1
<1>4. s.error # 0 => s.exit = s.error
  BY <1>1
<1>. QED  BY <1>1, <1>2, <1>3, <1>4, RunEnds

LEMMA RaisedRun ==
  ASSUME NEW e \in 0..3, e # 0, run \in RunSet,
         run' = [run EXCEPT !.pc = "report", !.error = e]
  PROVE  /\ run' \in RunSet /\ run'.pc = "report" /\ run'.sent = run.sent
         /\ run'.error # 0
BY DEF RunSet

LEMMA RaisesKeeps ==
  ASSUME CommandInv, UNCHANGED cmd, run.pc # "done", NEW exit \in {1, 2, 3},
         Raises(exit)
  PROVE  CommandInv'
<1>1. /\ run' \in RunSet /\ run'.pc = "report" /\ run'.sent = run.sent
      /\ run'.error # 0
  <2>1. exit \in 0..3 /\ exit # 0
    OBVIOUS
  <2>2. run \in RunSet /\ run' = [run EXCEPT !.pc = "report", !.error = exit]
    BY DEF Raises, CommandInv
  <2>. QED  BY <2>1, <2>2, RaisedRun
<1>2. NothingSentInVain'
  BY <1>1 DEF CommandInv, NothingSentInVain, DryRunIsLocal, RefusedIsLocal,
         UndeliverableIsNotSent, Exec, Diverts, CanMake
<1>. QED
  BY <1>1, <1>2 DEF CommandInv, CmdInv, RunInv, ExitZeroDelivers,
     FailureIsReported, Done

LEMMA ParseFlagKeeps == CommandInv /\ ParseFlag => CommandInv'
<1>. SUFFICES ASSUME CommandInv, ParseFlag  PROVE CommandInv'
  OBVIOUS
<1>1. /\ run.pc = "parse" /\ UNCHANGED run /\ cmd.context = NoContext
      /\ cmd \in CmdSet /\ ~run.sent /\ cmd.parsed < MaxFlags /\ MaxFlags \in Nat
  BY CommandRunAssumption
  DEF ParseFlag, CommandInv, CmdInv, RunInv, CommandRunAssumption
<1>2. cmd.parsed + 1 \in 0..MaxFlags
  BY <1>1 DEF CmdSet
<1>3. /\ cmd' \in CmdSet /\ cmd'.context = cmd.context
      /\ cmd'.given => cmd.given \/ cmd'.mode # "unset"
      /\ cmd.mode # "unset" => cmd'.mode # "unset"
  <2>. DEFINE c == [cmd EXCEPT !.parsed = @ + 1]
  <2>1. /\ c \in CmdSet /\ c.context = cmd.context /\ c.mode = cmd.mode
        /\ c.given = cmd.given
    BY <1>1, <1>2 DEF CmdSet
  <2>2. \/ \E m \in {"stdout", "file", "other"} :
              cmd' = [c EXCEPT !.mode = m, !.given = TRUE]
        \/ \E d \in {"blocked", "readonly", "good"} :
              cmd' = [c EXCEPT !.dir = d]
        \/ \E f \in {"bad", "miss", "hit"} : cmd' = [c EXCEPT !.filter = f]
        \/ \E f \in {"jsonl", "table"} : cmd' = [c EXCEPT !.format = f]
        \/ \E s \in {"bad", "good"} : cmd' = [c EXCEPT !.secrets = s]
        \/ cmd' = [c EXCEPT !.file = TRUE]
        \/ cmd' = [c EXCEPT !.profile = TRUE]
        \/ cmd' = [c EXCEPT !.trace = TRUE]
        \/ cmd' = [c EXCEPT !.dry = TRUE]
    BY DEF ParseFlag
  <2>. HIDE DEF c
  <2>3. CASE \E m \in {"stdout", "file", "other"} :
               cmd' = [c EXCEPT !.mode = m, !.given = TRUE]
    BY <2>1, <2>3 DEF CmdSet
  <2>4. CASE \E d \in {"blocked", "readonly", "good"} :
               cmd' = [c EXCEPT !.dir = d]
    BY <2>1, <2>4 DEF CmdSet
  <2>5. CASE \/ \E f \in {"bad", "miss", "hit"} :
                  cmd' = [c EXCEPT !.filter = f]
             \/ \E f \in {"jsonl", "table"} : cmd' = [c EXCEPT !.format = f]
    BY <2>1, <2>5 DEF CmdSet
  <2>6. CASE \E s \in {"bad", "good"} : cmd' = [c EXCEPT !.secrets = s]
    BY <2>1, <2>6 DEF CmdSet
  <2>7. CASE cmd' = [c EXCEPT !.file = TRUE] \/ cmd' = [c EXCEPT !.profile = TRUE]
    BY <2>1, <2>7 DEF CmdSet
  <2>8. CASE cmd' = [c EXCEPT !.trace = TRUE] \/ cmd' = [c EXCEPT !.dry = TRUE]
    BY <2>1, <2>8 DEF CmdSet
  <2>. QED  BY <2>2, <2>3, <2>4, <2>5, <2>6, <2>7, <2>8
<1>4. CmdInv' /\ RunInv'
  BY <1>1, <1>3 DEF CommandInv, CmdInv, RunInv
<1>. QED
  BY <1>1, <1>3, <1>4
  DEF CommandInv, NothingSentInVain, DryRunIsLocal, RefusedIsLocal,
      UndeliverableIsNotSent, ExitZeroDelivers, FailureIsReported, Done

LEMMA ParseStopsKeeps == CommandInv /\ ParseStops => CommandInv'
<1>. SUFFICES ASSUME CommandInv, ParseStops  PROVE CommandInv'
  OBVIOUS
<1>1. run.pc = "parse" /\ UNCHANGED cmd /\ run.error = 0
  BY DEF ParseStops, CommandInv, CmdInv
<1>2. {} \in SUBSET ResultParts /\ {"error"} \in SUBSET ResultParts
  BY DEF ResultParts
<1>3. CASE EndsWith("usage", {}, 1)
  BY <1>1, <1>2, <1>3, EndsWithKeeps
<1>4. CASE EndsWith("usage", {}, 0)
  BY <1>1, <1>2, <1>4, EndsWithKeeps
<1>5. CASE EndsWith("error", {"error"}, 2)
  BY <1>1, <1>2, <1>5, EndsWithKeeps
<1>. QED  BY <1>3, <1>4, <1>5 DEF ParseStops, Fails

LEMMA PrepareOutputKeeps == CommandInv /\ PrepareOutput => CommandInv'
<1>. SUFFICES ASSUME CommandInv, PrepareOutput  PROVE CommandInv'
  OBVIOUS
<1>1. /\ run.pc = "parse" /\ cmd.context = NoContext /\ cmd \in CmdSet
      /\ ~run.sent /\ run.error = 0 /\ run.file = {} /\ run \in RunSet
  BY DEF PrepareOutput, CommandInv, CmdInv, RunInv
<1>2. /\ run' \in RunSet /\ run'.pc = "preflight" /\ run'.error = 0
      /\ ~run'.sent /\ run'.file = {}
  BY <1>1 DEF PrepareOutput, RunSet
<1>3. PICK mode \in {"stdout", "file", "other"} :
        cmd' = [cmd EXCEPT !.mode = mode]
  BY <1>1 DEF PrepareOutput, CmdSet, CommandInv, CmdInv
<1>4. cmd' \in CmdSet /\ cmd'.context = NoContext /\ cmd'.mode # "unset"
  BY <1>1, <1>3 DEF CmdSet
<1>. QED
  BY <1>2, <1>4
  DEF CommandInv, CmdInv, RunInv, NothingSentInVain, DryRunIsLocal,
      RefusedIsLocal, UndeliverableIsNotSent, ExitZeroDelivers,
      FailureIsReported, Done

\* A list of refusals that passed ruled every one of them out.
LEMMA FlagsPassed ==
  ASSUME Passed(FlagRefusals)
  PROVE  /\ ~(cmd.kind = "login" /\ Diverts) /\ cmd.filter # "bad"
         /\ cmd.mode # "other"
         /\ ~(FilterTargetsEnvelope /\ cmd.mode = "file" /\ cmd.filter # "none")
         /\ ~(cmd.file /\ RejectsOutputFile) /\ ~(cmd.dry /\ ~DryRunInScope)
<1>. DOMAIN FlagRefusals = 1..6
  BY DEF FlagRefusals
<1>1. /\ ~FlagRefusals[1].when /\ ~FlagRefusals[2].when /\ ~FlagRefusals[3].when
      /\ ~FlagRefusals[4].when /\ ~FlagRefusals[5].when /\ ~FlagRefusals[6].when
  BY DEF Passed
<1>. QED  BY <1>1 DEF FlagRefusals, Refusal

LEMMA LaterPassed ==
  ASSUME Passed(LaterRefusals)
  PROVE  ~(cmd.mode = "file" /\ ~CanMake) /\ ~(cmd.secrets = "bad" /\ ~Exec)
<1>. DOMAIN LaterRefusals = 1..3
  BY DEF LaterRefusals
<1>1. ~LaterRefusals[1].when /\ ~LaterRefusals[3].when
  BY DEF Passed
<1>. QED  BY <1>1 DEF LaterRefusals, Refusal

LEMMA ContextPassed ==
  ASSUME Passed(ContextRefusals)
  PROVE  /\ cmd.secrets # "bad"
         /\ ~(cmd.context.artifact # "none" /\ cmd.filter # "none")
         /\ ~(cmd.context.artifact # "none" /\ ~CanMake)
         /\ cmd.context.projection # "bad"
<1>. DOMAIN ContextRefusals = 1..4
  BY DEF ContextRefusals
<1>1. /\ ~ContextRefusals[1].when /\ ~ContextRefusals[2].when
      /\ ~ContextRefusals[3].when /\ ~ContextRefusals[4].when
  BY DEF Passed
<1>. QED  BY <1>1 DEF ContextRefusals, Refusal

LEMMA PreflightKeeps == CommandInv /\ Preflight => CommandInv'
<1>. SUFFICES ASSUME CommandInv, Preflight  PROVE CommandInv'
  OBVIOUS
<1>. DEFINE made == Passed(FlagRefusals) /\ cmd.mode = "file" /\ CanMake
<1>1. /\ run.pc = "preflight" /\ UNCHANGED cmd /\ cmd.context = NoContext
      /\ cmd \in CmdSet /\ run \in RunSet /\ ~run.sent /\ run.error = 0
      /\ made \in BOOLEAN /\ run.file = {}
  BY DEF Preflight, CommandInv, CmdInv, RunInv
<1>2. CASE /\ Passed(FlagRefusals) /\ Passed(LaterRefusals)
           /\ run' = [run EXCEPT !.pc = "dispatch", !.made = made]
  <2>. HIDE DEF made
  <2>1. /\ run' \in RunSet /\ run'.pc = "dispatch" /\ ~run'.sent
        /\ run'.error = 0 /\ run'.file = {}
    BY <1>1, <1>2 DEF RunSet
  <2>2. CheckedFlags
    BY <1>1, <1>2, FlagsPassed, LaterPassed
    DEF CheckedFlags, CmdSet, CommandInv, CmdInv
  <2>3. CheckedFlags'
    BY <1>1, <2>2 DEF CheckedFlags, Diverts, FilterTargetsEnvelope,
       RejectsOutputFile, DryRunInScope, CanMake, Exec
  <2>. QED
    BY <1>1, <2>1, <2>3
    DEF CommandInv, CmdInv, RunInv, NothingSentInVain, DryRunIsLocal,
        RefusedIsLocal, UndeliverableIsNotSent, ExitZeroDelivers,
        FailureIsReported, Done
<1>3. ASSUME NEW exit \in {1, 2, 3},
             run' = [run EXCEPT !.pc = "done", !.made = made,
                       !.out = "error", !.shown = {"error"}, !.exit = exit]
      PROVE  CommandInv'
  <2>. HIDE DEF made
  <2>1. exit \in 0..3 /\ exit # 0 /\ {"error"} \in SUBSET ResultParts
    BY DEF ResultParts
  <2>2. /\ run' \in RunSet /\ run'.pc = "done" /\ run'.sent = run.sent
        /\ run'.error = 0 /\ run'.exit = exit
    BY <1>1, <1>3, <2>1 DEF RunSet
  <2>. QED  BY <1>1, <2>1, <2>2, RunEnds
<1>. QED  BY <1>1, <1>2, <1>3 DEF Preflight

LEMMA BadArgumentsKeeps == CommandInv /\ BadArguments => CommandInv'
<1>. SUFFICES ASSUME CommandInv, BadArguments  PROVE CommandInv'
  OBVIOUS
<1>1. run.pc = "dispatch" /\ UNCHANGED cmd /\ run.error = 0
  BY DEF BadArguments, CommandInv, CmdInv
<1>2. {} \in SUBSET ResultParts
  OBVIOUS
<1>3. CASE EndsWith("usage", {}, 0)
  BY <1>1, <1>2, <1>3, EndsWithKeeps
<1>4. CASE EndsWith("usage", {}, 1)
  BY <1>1, <1>2, <1>4, EndsWithKeeps
<1>5. CASE Raises(1)
  BY <1>1, <1>5, RaisesKeeps
<1>. QED  BY <1>3, <1>4, <1>5 DEF BadArguments

\* Nothing was sent in vain by a command that has sent nothing; one that may
\* send has been checked.
LEMMA NothingSent ==
  ASSUME ~run.sent
  PROVE  NothingSentInVain
BY DEF NothingSentInVain, DryRunIsLocal, RefusedIsLocal, UndeliverableIsNotSent

LEMMA Changes ==
  ASSUME CommandInv, cmd' \in CmdSet, run' \in RunSet, run'.pc # "done",
         CmdInv', RunInv', NothingSentInVain'
  PROVE  CommandInv'
BY DEF CommandInv, ExitZeroDelivers, FailureIsReported, Done

LEMMA ActKeeps == CommandInv /\ Act => CommandInv'
<1>. SUFFICES ASSUME CommandInv, Act  PROVE CommandInv'
  OBVIOUS
<1>1. /\ run.pc = "dispatch" /\ ~Exec /\ cmd.context = NoContext
      /\ cmd \in CmdSet /\ run \in RunSet /\ ~run.sent /\ run.error = 0
      /\ run.file = {} /\ CheckedFlags
  BY DEF Act, CommandInv, CmdInv, RunInv
<1>2. /\ cmd' \in CmdSet /\ cmd'.kind = cmd.kind /\ cmd'.mode = cmd.mode
      /\ cmd'.filter = cmd.filter /\ cmd'.file = cmd.file
      /\ cmd'.dir = cmd.dir /\ cmd'.secrets = cmd.secrets
      /\ cmd'.trace = cmd.trace /\ cmd'.dry = cmd.dry
      /\ cmd'.context = cmd.context
  <2>1. CASE UNCHANGED cmd
    BY <1>1, <2>1
  <2>2. CASE cmd' = [cmd EXCEPT !.format = "json"]
    BY <1>1, <2>2 DEF CmdSet
  <2>. QED  BY <2>1, <2>2 DEF Act
<1>3. cmd.dry => cmd.kind = "raw"
  BY <1>1 DEF CheckedFlags, DryRunInScope, Exec
<1>4. CASE cmd.kind = "raw" /\ cmd.dry
  <2>1. run' = [run EXCEPT !.pc = "render", !.result = {"plan"}]
    BY <1>4 DEF Act
  <2>2. {"plan"} \in SUBSET ResultParts /\ HasResult({"plan"})
    BY DEF ResultParts, HasResult
  <2>3. /\ run' \in RunSet /\ run'.pc = "render" /\ run'.result = {"plan"}
        /\ ~run'.sent /\ run'.error = 0 /\ run'.file = {}
    BY <1>1, <2>1, <2>2 DEF RunSet
  <2>4. CmdInv' /\ RunInv' /\ NothingSentInVain'
    BY <1>2, <2>2, <2>3
    DEF CmdInv, RunInv, NothingSentInVain, DryRunIsLocal, RefusedIsLocal,
        UndeliverableIsNotSent, HasResult
  <2>. QED  BY <1>2, <2>3, <2>4, Changes
<1>5. CASE ~(cmd.kind = "raw" /\ cmd.dry)
  <2>. DEFINE did == [run EXCEPT !.sent = cmd.kind # "list"]
  <2>1. /\ did \in RunSet /\ did.error = 0 /\ did.file = {}
    BY <1>1 DEF RunSet
  <2>2. \/ run' = [did EXCEPT !.pc = "report", !.error = 2]
        \/ \E text \in BOOLEAN, exit \in {0, 1} :
             run' = [did EXCEPT !.pc = "render", !.result = {"data"},
                                !.text = text, !.exit = exit]
    BY <1>5 DEF Act
  <2>3. {"data"} \in SUBSET ResultParts /\ HasResult({"data"})
    BY DEF ResultParts, HasResult
  <2>. HIDE DEF did
  <2>4. NothingSentInVain'
    <3>1. ~cmd.dry
      BY <1>3, <1>5
    <3>. QED
      BY <1>1, <1>2, <3>1
      DEF NothingSentInVain, DryRunIsLocal, RefusedIsLocal,
          UndeliverableIsNotSent, CheckedFlags, Exec, Diverts, CanMake,
          NoContext
  <2>5. CASE run' = [did EXCEPT !.pc = "report", !.error = 2]
    <3>1. run' \in RunSet /\ run'.pc = "report" /\ run'.error = 2
      <4>1. 2 \in 0..3
        OBVIOUS
      <4>. QED  BY <2>1, <2>5, <4>1 DEF RunSet
    <3>2. CmdInv' /\ RunInv'
      BY <3>1 DEF CmdInv, RunInv
    <3>. QED  BY <1>2, <2>4, <3>1, <3>2, Changes
  <2>6. ASSUME NEW text \in BOOLEAN, NEW exit \in {0, 1},
               run' = [did EXCEPT !.pc = "render", !.result = {"data"},
                                  !.text = text, !.exit = exit]
        PROVE  CommandInv'
    <3>1. exit \in 0..3
      OBVIOUS
    <3>2. /\ run' \in RunSet /\ run'.pc = "render" /\ run'.error = 0
          /\ run'.file = {} /\ run'.result = {"data"}
      BY <2>1, <2>3, <2>6, <3>1 DEF RunSet
    <3>3. CmdInv' /\ RunInv'
      BY <2>3, <3>2 DEF CmdInv, RunInv, HasResult
    <3>. QED  BY <1>2, <2>4, <3>2, <3>3, Changes
  <2>. QED  BY <2>2, <2>5, <2>6
<1>. QED  BY <1>4, <1>5

LEMMA LoadContextKeeps == CommandInv /\ LoadContext => CommandInv'
<1>. SUFFICES ASSUME CommandInv, LoadContext  PROVE CommandInv'
  OBVIOUS
<1>1. /\ run.pc = "dispatch" /\ Exec /\ cmd \in CmdSet /\ run \in RunSet
      /\ ~run.sent /\ run.error = 0 /\ run.file = {} /\ CheckedFlags
  BY DEF LoadContext, CommandInv, CmdInv, RunInv
<1>2. PICK x \in Contexts :
        cmd' = [cmd EXCEPT !.context = x, !.dry = @ \/ x.plan,
                  !.mode = IF x.artifact # "none" THEN "file" ELSE @,
                  !.file = x.artifact = "path"]
  BY DEF LoadContext
<1>3. x.plan \in BOOLEAN /\ (cmd.dry \/ x.plan) \in BOOLEAN
  BY DEF Contexts
<1>4. /\ cmd' \in CmdSet /\ cmd'.context = x /\ cmd'.kind = cmd.kind
      /\ cmd'.mode = IF x.artifact # "none" THEN "file" ELSE cmd.mode
      /\ cmd'.file = (x.artifact = "path") /\ cmd'.filter = cmd.filter
      /\ cmd'.dir = cmd.dir
  <2>. DEFINE dry == cmd.dry \/ x.plan
              mode == IF x.artifact # "none" THEN "file" ELSE cmd.mode
              file == x.artifact = "path"
  <2>1. cmd' = [cmd EXCEPT !.context = x, !.dry = dry, !.mode = mode,
                           !.file = file]
    BY <1>1, <1>2 DEF CmdSet
  <2>2. /\ dry \in BOOLEAN /\ file \in BOOLEAN
        /\ mode \in {"unset", "stdout", "file", "other"}
    BY <1>1, <1>3 DEF CmdSet
  <2>3. file = (x.artifact = "path")
        /\ mode = IF x.artifact # "none" THEN "file" ELSE cmd.mode
    OBVIOUS
  <2>. HIDE DEF dry, mode, file
  <2>4. /\ cmd' \in CmdSet /\ cmd'.context = x /\ cmd'.kind = cmd.kind
        /\ cmd'.mode = mode /\ cmd'.file = file /\ cmd'.filter = cmd.filter
        /\ cmd'.dir = cmd.dir
    BY <1>1, <2>1, <2>2 DEF CmdSet
  <2>. QED  BY <2>3, <2>4
<1>5. /\ run' \in RunSet /\ run'.pc = "context" /\ ~run'.sent
      /\ run'.error = 0 /\ run'.file = {}
  BY <1>1 DEF LoadContext, RunSet
<1>6. ~cmd.file
  BY <1>1 DEF CheckedFlags, RejectsOutputFile, Exec, CmdSet
<1>7. GivenContext'
  BY <1>1, <1>4, <1>6
  DEF GivenContext, CheckedFlags, CanMake, FilterTargetsEnvelope, Exec
<1>8. CmdInv' /\ RunInv' /\ NothingSentInVain'
  BY <1>1, <1>4, <1>5, <1>7
  DEF CmdInv, RunInv, Exec, NothingSentInVain, DryRunIsLocal, RefusedIsLocal,
      UndeliverableIsNotSent
<1>. QED  BY <1>4, <1>5, <1>8, Changes

LEMMA CheckContextKeeps == CommandInv /\ CheckContext => CommandInv'
<1>. SUFFICES ASSUME CommandInv, CheckContext  PROVE CommandInv'
  OBVIOUS
<1>1. /\ run.pc = "context" /\ Exec /\ cmd \in CmdSet /\ run \in RunSet
      /\ ~run.sent /\ run.error = 0 /\ run.file = {} /\ GivenContext
      /\ UNCHANGED cmd
  BY DEF CheckContext, CommandInv, CmdInv, RunInv
<1>2. CASE \E exit \in {1, 2, 3} : Raises(exit)
  BY <1>1, <1>2, RaisesKeeps
<1>3. CASE Passed(ContextRefusals) /\ run' = [run EXCEPT !.pc = "send"]
  <2>1. /\ run' \in RunSet /\ run'.pc = "send" /\ ~run'.sent
        /\ run'.error = 0 /\ run'.file = {}
    BY <1>1, <1>3 DEF RunSet
  <2>2. CheckedContext
    BY <1>1, <1>3, ContextPassed DEF CheckedContext, GivenContext
  <2>3. CmdInv' /\ RunInv' /\ NothingSentInVain'
    BY <1>1, <2>1, <2>2
    DEF CmdInv, RunInv, Exec, NothingSentInVain, DryRunIsLocal, RefusedIsLocal,
        UndeliverableIsNotSent, CheckedContext, CanMake
  <2>. QED  BY <1>1, <2>1, <2>3, Changes
<1>. QED  BY <1>2, <1>3 DEF CheckContext

LEMMA SendRequestsKeeps == CommandInv /\ SendRequests => CommandInv'
<1>. SUFFICES ASSUME CommandInv, SendRequests  PROVE CommandInv'
  OBVIOUS
<1>1. /\ run.pc = "send" /\ Exec /\ cmd \in CmdSet /\ run \in RunSet
      /\ ~run.sent /\ run.error = 0 /\ run.file = {} /\ CheckedContext
      /\ UNCHANGED cmd
  BY DEF SendRequests, CommandInv, CmdInv, RunInv
<1>2. ~cmd.dry => NothingSentInVain'
  BY <1>1
  DEF NothingSentInVain, DryRunIsLocal, RefusedIsLocal, UndeliverableIsNotSent,
      CheckedContext, CanMake, Exec
<1>3. /\ {"data"} \in SUBSET ResultParts /\ HasResult({"data"})
      /\ {"plan"} \in SUBSET ResultParts /\ HasResult({"plan"})
  BY DEF ResultParts, HasResult
<1>4. ASSUME cmd.dry, NEW large \in BOOLEAN,
             run' = [run EXCEPT !.pc = "project", !.result = {"plan"},
                                !.large = large]
      PROVE  CommandInv'
  <2>1. /\ run' \in RunSet /\ run'.pc = "project" /\ ~run'.sent
        /\ run'.error = 0 /\ run'.file = {} /\ run'.result = {"plan"}
    BY <1>1, <1>3, <1>4 DEF RunSet
  <2>2. CmdInv' /\ RunInv' /\ NothingSentInVain'
    BY <1>1, <1>3, <2>1
    DEF CmdInv, RunInv, Exec, HasResult, NothingSentInVain, DryRunIsLocal,
        RefusedIsLocal, UndeliverableIsNotSent
  <2>. QED  BY <1>1, <2>1, <2>2, Changes
<1>5. ASSUME ~cmd.dry, NEW large \in BOOLEAN,
             run' = [run EXCEPT !.sent = TRUE, !.pc = "project",
                                !.result = {"data"}, !.large = large]
      PROVE  CommandInv'
  <2>1. /\ run' \in RunSet /\ run'.pc = "project" /\ run'.error = 0
        /\ run'.file = {} /\ run'.result = {"data"}
    BY <1>1, <1>3, <1>5 DEF RunSet
  <2>2. CmdInv' /\ RunInv'
    BY <1>1, <1>3, <2>1 DEF CmdInv, RunInv, Exec, HasResult
  <2>. QED  BY <1>1, <1>2, <1>5, <2>1, <2>2, Changes
<1>6. CASE /\ ~cmd.dry
           /\ run' = [run EXCEPT !.sent = TRUE, !.pc = "report", !.error = 2]
  <2>1. run' \in RunSet /\ run'.pc = "report" /\ run'.error = 2
    <3>1. 2 \in 0..3
      OBVIOUS
    <3>. QED  BY <1>1, <1>6, <3>1 DEF RunSet
  <2>2. CmdInv' /\ RunInv'
    BY <1>1, <2>1 DEF CmdInv, RunInv
  <2>. QED  BY <1>1, <1>2, <1>6, <2>1, <2>2, Changes
<1>. QED  BY <1>4, <1>5, <1>6 DEF SendRequests

\* Once the request was sent, or is not to be, the command stays as it is.
LEMMA StaysSent ==
  ASSUME CommandInv, UNCHANGED cmd, run'.sent = run.sent
  PROVE  NothingSentInVain'
BY DEF CommandInv, NothingSentInVain, DryRunIsLocal, RefusedIsLocal,
       UndeliverableIsNotSent, Exec, Diverts, CanMake

LEMMA EnvelopeKeeps == CommandInv /\ Envelope => CommandInv'
<1>. SUFFICES ASSUME CommandInv, Envelope  PROVE CommandInv'
  OBVIOUS
<1>1. /\ run.pc = "project" /\ Exec /\ cmd \in CmdSet /\ run \in RunSet
      /\ run.error = 0 /\ run.file = {} /\ HasResult(run.result)
      /\ UNCHANGED cmd
  BY DEF Envelope, CommandInv, CmdInv, RunInv
<1>2. CASE Raises(3) \/ Raises(2)
  BY <1>1, <1>2, RaisesKeeps
<1>3. ASSUME NEW file \in {{}, run.result},
             run' = [run EXCEPT !.pc = "spill", !.file = file]
      PROVE  CommandInv'
  <2>1. file \in SUBSET ResultParts
    BY <1>1 DEF RunSet
  <2>2. /\ run' \in RunSet /\ run'.pc = "spill" /\ run'.error = 0
        /\ run'.file = file /\ run'.result = run.result /\ run'.sent = run.sent
    BY <1>1, <1>3, <2>1 DEF RunSet
  <2>3. CmdInv' /\ RunInv'
    BY <1>1, <1>3, <2>2 DEF CmdInv, RunInv, Exec, HasResult
  <2>. QED  BY <1>1, <2>2, <2>3, StaysSent, Changes
<1>4. CASE run' = [run EXCEPT !.pc = "spill"]
  <2>1. run' = [run EXCEPT !.pc = "spill", !.file = {}]
    BY <1>1, <1>4 DEF RunSet
  <2>. QED  BY <1>3, <2>1
<1>5. CASE run' = [run EXCEPT !.pc = "spill", !.file = run.result]
  BY <1>3, <1>5
<1>. QED  BY <1>2, <1>4, <1>5 DEF Envelope

LEMMA SpillKeeps == CommandInv /\ Spill => CommandInv'
<1>. SUFFICES ASSUME CommandInv, Spill  PROVE CommandInv'
  OBVIOUS
<1>1. /\ run.pc = "spill" /\ Exec /\ cmd \in CmdSet /\ run \in RunSet
      /\ run.error = 0 /\ (run.file = {} \/ HasResult(run.file))
      /\ HasResult(run.result) /\ UNCHANGED cmd
      /\ run.result \in SUBSET ResultParts
  BY DEF Spill, CommandInv, CmdInv, RunInv, RunSet
<1>2. CASE Raises(1) \/ Raises(2)
  BY <1>1, <1>2, RaisesKeeps
<1>3. Warnings \in SUBSET ResultParts
  BY DEF Warnings, ResultParts
<1>4. CASE run' = Unspilled
  <2>1. run.result \cup Warnings \in SUBSET ResultParts
        /\ HasResult(run.result \cup Warnings)
    BY <1>1, <1>3 DEF HasResult
  <2>2. /\ run' \in RunSet /\ run'.pc = "render" /\ run'.error = 0
        /\ run'.file = run.file /\ run'.sent = run.sent
        /\ run'.result = run.result \cup Warnings
    <3>. DEFINE parts == run.result \cup Warnings
    <3>1. run' = [run EXCEPT !.pc = "render", !.result = parts]
      BY <1>4 DEF Unspilled
    <3>2. parts \in SUBSET ResultParts
      BY <2>1
    <3>3. parts = run.result \cup Warnings
      OBVIOUS
    <3>. HIDE DEF parts
    <3>4. /\ run' \in RunSet /\ run'.pc = "render" /\ run'.error = 0
          /\ run'.file = run.file /\ run'.sent = run.sent
          /\ run'.result = parts
      BY <1>1, <3>1, <3>2 DEF RunSet
    <3>. QED  BY <3>3, <3>4
  <2>3. CmdInv' /\ RunInv'
    BY <1>1, <2>1, <2>2 DEF CmdInv, RunInv, HasResult
  <2>. QED  BY <1>1, <2>2, <2>3, StaysSent, Changes
<1>5. CASE run' = [run EXCEPT !.pc = "render", !.result = Previewed,
                              !.file = run.result]
  <2>1. Previewed \in SUBSET ResultParts
    BY <1>3 DEF Previewed, ResultParts
  <2>2. /\ run' \in RunSet /\ run'.pc = "render" /\ run'.error = 0
        /\ run'.file = run.result /\ run'.sent = run.sent
    BY <1>1, <1>5, <2>1 DEF RunSet
  <2>3. CmdInv' /\ RunInv'
    BY <1>1, <2>2 DEF CmdInv, RunInv, HasResult, Exec
  <2>. QED  BY <1>1, <2>2, <2>3, StaysSent, Changes
<1>. QED  BY <1>2, <1>4, <1>5 DEF Spill

LEMMA ReportErrorKeeps == CommandInv /\ ReportError => CommandInv'
<1>. SUFFICES ASSUME CommandInv, ReportError  PROVE CommandInv'
  OBVIOUS
<1>1. run.pc = "report" /\ UNCHANGED cmd /\ run.error # 0 /\ run.error \in 0..3
  BY DEF ReportError, CommandInv, CmdInv, RunInv, RunSet
<1>2. {"error"} \in SUBSET ResultParts
  BY DEF ResultParts
<1>3. CASE EndsWith("filtered", {"error"}, run.error)
  BY <1>1, <1>2, <1>3, EndsWithKeeps
<1>4. CASE EndsWith("error", {"error"}, run.error)
  BY <1>1, <1>2, <1>4, EndsWithKeeps
<1>. QED  BY <1>3, <1>4 DEF ReportError, Fails

\* A result that goes to stdout, and what went to a file before.
LEMMA ShowsKeeps ==
  ASSUME CommandInv, UNCHANGED cmd, run.pc = "render", Shows(run.result),
         HasResult(run.result) \/ (cmd.filter # "none" /\ HasResult(run.file))
  PROVE  CommandInv'
<1>1. /\ run.result \in SUBSET ResultParts /\ run.exit \in 0..3
      /\ run.error = 0
  BY DEF CommandInv, RunSet, RunInv
<1>2. CASE cmd.filter # "none"
  <2>1. EndsWith("filtered", run.result, run.exit)
    BY <1>2 DEF Shows
  <2>2. HasResult(run.result) \/ HasResult(run.file)
    OBVIOUS
  <2>. QED  BY <1>1, <2>1, <2>2, EndsWithKeeps
<1>3. CASE cmd.filter = "none"
  <2>1. EndsWith("value", run.result, run.exit)
    BY <1>3 DEF Shows
  <2>. QED  BY <1>1, <1>3, <2>1, EndsWithKeeps
<1>. QED  BY <1>2, <1>3

LEMMA FailsKeeps ==
  ASSUME CommandInv, UNCHANGED cmd, run.pc = "render",
         NEW exit \in {1, 2, 3}, Fails(exit)
  PROVE  CommandInv'
<1>1. exit \in 0..3 /\ exit # 0 /\ run.error = 0
      /\ {"error"} \in SUBSET ResultParts
  BY DEF CommandInv, RunInv, ResultParts
<1>2. EndsWith("error", {"error"}, exit)
  BY DEF Fails
<1>. QED  BY <1>1, <1>2, EndsWithKeeps

LEMMA DeliverKeeps ==
  ASSUME CommandInv, UNCHANGED cmd, run.pc = "render", ~Exec,
         Deliver(run.result)
  PROVE  CommandInv'
<1>1. HasResult(run.result) /\ run.error = 0 /\ run \in RunSet
  BY DEF CommandInv, RunInv
<1>2. CASE Shows(run.result)
  BY <1>1, <1>2, ShowsKeeps
<1>3. CASE Fails(2)
  BY <1>3, FailsKeeps
<1>4. CASE run' = [run EXCEPT !.pc = "done", !.file = run.result, !.out = "path"]
  <2>1. /\ run' \in RunSet /\ run'.pc = "done" /\ run'.sent = run.sent
        /\ run'.error = 0 /\ run'.file = run.result /\ run'.out = "path"
    BY <1>1, <1>4 DEF RunSet
  <2>2. HasResult(run'.file)
    BY <1>1, <2>1
  <2>. QED  BY <1>1, <2>1, <2>2, RunEnds
<1>. QED  BY <1>2, <1>3, <1>4 DEF Deliver

LEMMA DeliverEnvelopeKeeps ==
  ASSUME CommandInv, UNCHANGED cmd, run.pc = "render", ~Exec,
         DeliverEnvelope
  PROVE  CommandInv'
<1>1. HasResult(run.result) /\ run.error = 0 /\ run \in RunSet
  BY DEF CommandInv, RunInv
<1>2. CASE Fails(2)
  BY <1>2, FailsKeeps
<1>3. CASE cmd.kind = "raw" /\ cmd.mode = "file" /\ ~Fails(2)
  <2>1. run' = [run EXCEPT !.pc = "done", !.file = run.result, !.out = "notice"]
    BY <1>3 DEF DeliverEnvelope
  <2>2. /\ run' \in RunSet /\ run'.pc = "done" /\ run'.sent = run.sent
        /\ run'.error = 0 /\ run'.file = run.result /\ run'.out = "notice"
    BY <1>1, <2>1 DEF RunSet
  <2>3. HasResult(run'.file)
    BY <1>1, <2>2
  <2>. QED  BY <1>1, <2>2, <2>3, RunEnds
<1>4. CASE ~(cmd.kind = "raw" /\ cmd.mode = "file") /\ ~Fails(2)
  <2>1. PICK file \in {{}, run.result}, out \in {"filtered", "value"} :
          run' = [run EXCEPT !.pc = "done", !.file = file, !.out = out,
                             !.shown = run.result]
    BY <1>4 DEF DeliverEnvelope
  <2>2. file \in SUBSET ResultParts /\ run.result \in SUBSET ResultParts
    BY <1>1 DEF RunSet
  <2>3. /\ run' \in RunSet /\ run'.pc = "done" /\ run'.sent = run.sent
        /\ run'.error = 0 /\ run'.shown = run.result /\ run'.out = out
    BY <1>1, <2>1, <2>2 DEF RunSet
  <2>4. HasResult(run'.shown) /\ run'.out \notin {"notice", "path"}
    BY <1>1, <2>3
  <2>. QED  BY <1>1, <2>3, <2>4, RunEnds
<1>. QED  BY <1>2, <1>3, <1>4

LEMMA DeliverExecKeeps ==
  ASSUME CommandInv, UNCHANGED cmd, run.pc = "render", DeliverExec
  PROVE  CommandInv'
<1>1. /\ run.error = 0 /\ run \in RunSet
      /\ run.file = {} \/ HasResult(run.file)
      /\ HasResult(run.result) \/ HasResult(run.file)
  BY DEF CommandInv, RunInv
<1>2. CASE cmd.filter = "none" /\ run.file # {}
  <2>1. run' = [run EXCEPT !.pc = "done", !.out = "notice"]
    BY <1>2 DEF DeliverExec
  <2>2. /\ run' \in RunSet /\ run'.pc = "done" /\ run'.sent = run.sent
        /\ run'.error = 0 /\ run'.file = run.file /\ run'.out = "notice"
    BY <1>1, <2>1 DEF RunSet
  <2>3. HasResult(run'.file)
    BY <1>1, <1>2, <2>2
  <2>. QED  BY <1>1, <2>2, <2>3, RunEnds
<1>3. CASE ~(cmd.filter = "none" /\ run.file # {})
  <2>1. Shows(run.result)
    BY <1>3 DEF DeliverExec
  <2>2. HasResult(run.result) \/ (cmd.filter # "none" /\ HasResult(run.file))
    BY <1>1, <1>3 DEF HasResult
  <2>. QED  BY <2>1, <2>2, ShowsKeeps
<1>. QED  BY <1>2, <1>3

LEMMA RenderKeeps == CommandInv /\ Render => CommandInv'
<1>. SUFFICES ASSUME CommandInv, Render  PROVE CommandInv'
  OBVIOUS
<1>1. run.pc = "render" /\ UNCHANGED cmd
  BY DEF Render
<1>2. CASE Fails(3) \/ Fails(1)
  BY <1>1, <1>2, FailsKeeps
<1>3. CASE Deliver(run.result) /\ ~Exec
  BY <1>1, <1>3, DeliverKeeps
<1>4. CASE BuildsEnvelope /\ DeliverEnvelope
  BY <1>1, <1>4, DeliverEnvelopeKeeps DEF BuildsEnvelope, Exec
<1>5. CASE DeliverExec
  BY <1>1, <1>5, DeliverExecKeeps
<1>6. SupportsTable => ~Exec
  BY DEF SupportsTable, Exec
<1>. QED  BY <1>2, <1>3, <1>4, <1>5, <1>6 DEF Render

LEMMA CommandKeeps == CommandInv /\ [CommandNext]_commandVars => CommandInv'
<1>. SUFFICES ASSUME CommandInv, [CommandNext]_commandVars  PROVE CommandInv'
  OBVIOUS
<1>1. CASE UNCHANGED commandVars
  <2>1. UNCHANGED <<cmd, run>>
    BY <1>1 DEF commandVars
  <2>2. CmdInv' /\ RunInv'
    BY <2>1 DEF CommandInv, CmdInv, RunInv, CheckedFlags, CheckedContext,
       GivenContext, Diverts, FilterTargetsEnvelope, RejectsOutputFile,
       DryRunInScope, CanMake, Exec, HasResult
  <2>3. ExitZeroDelivers' /\ FailureIsReported'
    BY <2>1 DEF CommandInv, ExitZeroDelivers, FailureIsReported, Done,
       HasResult
  <2>. QED  BY <2>1, <2>2, <2>3, StaysSent DEF CommandInv
<1>. QED
  BY <1>1, ParseFlagKeeps, ParseStopsKeeps, PrepareOutputKeeps, PreflightKeeps,
     BadArgumentsKeeps, ActKeeps, LoadContextKeeps, CheckContextKeeps,
     SendRequestsKeeps, EnvelopeKeeps, SpillKeeps, ReportErrorKeeps, RenderKeeps
  DEF CommandNext

LEMMA CommandInvGives ==
  CommandInv => NothingSentInVain /\ ExitCodeIsTrue
BY DEF CommandInv, ExitCodeIsTrue, CommandTypeOK, CmdSet, RunSet, ResultParts

-----------------------------------------------------------------------------
(* The credentials of a run                                                *)

AskSet ==
  [pc : {"select", "load", "resolve", "failed", "done"}, exec : BOOLEAN,
   profile : Profiles \cup {Nowhere}, secrets : {Nowhere, "global"},
   contextProfile : Profiles \cup {Nowhere},
   contextSecrets : {Nowhere, "context"},
   used : Profiles \cup {Nowhere}, file : {Nowhere, "global", "context"}]
Parts == [Variables -> Origins]

\* What the selectors have settled when a command gets to a step.
AskOK ==
  /\ ask.pc = "select" => ask.file = Nowhere /\ ~static
  /\ ask.pc \in {"load", "resolve", "done"} =>
       \/ ask.profile = Nowhere /\ ask.contextProfile = Nowhere
       \/ ask.secrets = Nowhere /\ ask.contextSecrets = Nowhere
  /\ ask.pc \in {"load", "resolve", "done"} =>
       /\ ask.secrets = Nowhere \/ ask.contextSecrets = Nowhere
       /\ ask.file = Or(ask.contextSecrets, ask.secrets)
  /\ ask.pc \in {"resolve", "done"} => (static <=> ask.file # Nowhere)
  /\ ask.pc = "load" => ~static /\ ask.file # Nowhere
  /\ client.signs # "none" => ask.pc = "done"

\* How a client may sign, whatever profile it was made from.
Signed(c, fixed) ==
  /\ c.parts \in Parts
  /\ c.signs = "static" =>
       LET keys == {c.parts["ak"], c.parts["sk"]} IN
       /\ keys \subseteq Environment =>
            c.parts["token"] \in Environment /\ c.parts["region"] # "profile"
       /\ keys \subseteq Profile => c.parts["token"] \in Profile
  /\ fixed => c.signs # "provider"
  /\ ~fixed /\ c.mode \in {"sso", "ramrole"} => c.signs \in {"none", "provider"}
  /\ c.signs = "provider" =>
       {c.parts["ak"], c.parts["sk"], c.parts["token"]} \cap {"env", "file"} = {}

SourceInv ==
  /\ ask \in AskSet /\ static \in BOOLEAN
  /\ env \in [Variables -> {"env", "file", Nowhere}]
  /\ AskOK /\ (ask.pc # "done" => client = NoClient)
  /\ ask.pc = "done" => Signed(client, static) /\ client.signs \in {"none", "static", "provider"}

LEMMA NoClientSigned ==
  /\ NoClient.parts \in Parts /\ NoClient.signs = "none" /\ NoClient.mode = "none"
  /\ \A fixed \in BOOLEAN : Signed(NoClient, fixed)
BY DEF NoClient, Parts, Origins, Signed

LEMMA SourceStarts == SourceInit \/ SourceIdle => SourceInv
<1>1. CASE SourceInit
  BY <1>1 DEF SourceInit, Selections, SourceInv, AskSet, AskOK, NoClient
<1>2. CASE SourceIdle
  BY <1>2, NoClientSigned
  DEF SourceIdle, SourceInv, AskSet, AskOK, Or
<1>. QED  BY <1>1, <1>2

\* The command moves on or fails; its selectors stay.
LEMMA AskMoves ==
  ASSUME SourceInv, NEW pc \in {"load", "resolve", "failed", "done"},
         NEW used \in Profiles \cup {Nowhere},
         NEW file \in {Nowhere, "global", "context"},
         ask' = [ask EXCEPT !.pc = pc, !.used = used, !.file = file]
  PROVE  /\ ask' \in AskSet /\ ask'.pc = pc /\ ask'.file = file
         /\ ask'.profile = ask.profile /\ ask'.secrets = ask.secrets
         /\ ask'.contextProfile = ask.contextProfile
         /\ ask'.contextSecrets = ask.contextSecrets
BY DEF SourceInv, AskSet

LEMMA AskStops ==
  ASSUME SourceInv, Stops, ask.pc # "done", UNCHANGED client,
         static' \in BOOLEAN, env' \in [Variables -> {"env", "file", Nowhere}]
  PROVE  SourceInv'
BY NoClientSigned DEF SourceInv, AskSet, Stops, AskOK

LEMMA SelectSourceKeeps == SourceInv /\ SelectSource => SourceInv'
<1>. SUFFICES ASSUME SourceInv, SelectSource  PROVE SourceInv'
  OBVIOUS
<1>1. ask.pc = "select" /\ UNCHANGED <<env, static, client>> /\ ~static
      /\ client = NoClient /\ static \in BOOLEAN
      /\ env \in [Variables -> {"env", "file", Nowhere}]
  BY DEF SelectSource, SourceInv, AskOK
<1>2. CASE Stops
  BY <1>1, <1>2, AskStops
<1>3. CASE ~Stops
  <2>. DEFINE file == Or(ask.contextSecrets, ask.secrets)
              used == Or(ask.contextProfile, ask.profile)
              pc == IF file = Nowhere THEN "resolve" ELSE "load"
  <2>1. ~Conflict /\ ask' = [ask EXCEPT !.pc = pc, !.used = used, !.file = file]
    BY <1>3 DEF SelectSource
  <2>2. /\ file \in {Nowhere, "global", "context"}
        /\ used \in Profiles \cup {Nowhere}
        /\ pc \in {"load", "resolve", "failed", "done"}
    BY DEF SourceInv, AskSet, Or
  <2>3. pc \in {"load", "resolve"} /\ (pc = "resolve" <=> file = Nowhere)
    OBVIOUS
  <2>4. file # Nowhere => ask.profile = Nowhere /\ ask.contextProfile = Nowhere
    BY <2>1 DEF Or, Conflict
  <2>5. file = Nowhere => ask.secrets = Nowhere /\ ask.contextSecrets = Nowhere
    BY DEF Or
  <2>6. ask.secrets = Nowhere \/ ask.contextSecrets = Nowhere
    BY <2>1 DEF Conflict
  <2>7. file = Or(ask.contextSecrets, ask.secrets)
    OBVIOUS
  <2>. HIDE DEF file, used, pc
  <2>8. /\ ask' \in AskSet /\ ask'.pc = pc /\ ask'.file = file
        /\ ask'.profile = ask.profile /\ ask'.secrets = ask.secrets
        /\ ask'.contextProfile = ask.contextProfile
        /\ ask'.contextSecrets = ask.contextSecrets
    BY <2>1, <2>2, AskMoves
  <2>9. AskOK'
    BY <1>1, <2>3, <2>4, <2>5, <2>6, <2>7, <2>8
    DEF AskOK, NoClient
  <2>. QED  BY <1>1, <2>3, <2>8, <2>9 DEF SourceInv
<1>. QED  BY <1>2, <1>3

LEMMA LoadSecretsKeeps == SourceInv /\ LoadSecrets => SourceInv'
<1>. SUFFICES ASSUME SourceInv, LoadSecrets  PROVE SourceInv'
  OBVIOUS
<1>1. ask.pc = "load" /\ UNCHANGED client /\ client = NoClient /\ ~static
      /\ static \in BOOLEAN
      /\ env \in [Variables -> {"env", "file", Nowhere}]
      /\ ask.file = Or(ask.contextSecrets, ask.secrets)
  BY DEF LoadSecrets, SourceInv, AskOK
<1>2. CASE Stops /\ UNCHANGED <<env, static>>
  BY <1>1, <1>2, AskStops
<1>3. ASSUME NEW set \in Assigned \ {{}}, static' = TRUE,
             env' = [v \in Variables |-> IF v \in set THEN "file" ELSE env[v]],
             ask' = [ask EXCEPT !.pc = "resolve"]
      PROVE  SourceInv'
  <2>1. /\ ask' \in AskSet /\ ask'.pc = "resolve" /\ ask'.file = ask.file
        /\ ask'.profile = ask.profile /\ ask'.secrets = ask.secrets
        /\ ask'.contextProfile = ask.contextProfile
        /\ ask'.contextSecrets = ask.contextSecrets
    BY <1>3 DEF SourceInv, AskSet
  <2>2. env' \in [Variables -> {"env", "file", Nowhere}]
    BY <1>1, <1>3
  <2>3. ask.file # Nowhere
    BY <1>1 DEF SourceInv, AskOK
  <2>4. AskOK'
    BY <1>1, <1>3, <2>1, <2>3 DEF SourceInv, AskOK, NoClient
  <2>. QED  BY <1>1, <1>3, <2>1, <2>2, <2>4 DEF SourceInv
<1>. QED  BY <1>2, <1>3 DEF LoadSecrets

\* Values the parts of an identity come from.
LEMMA Sources ==
  /\ Environment = {"env", "file", Nowhere} /\ Profile = {"profile", "cred", Nowhere}
  /\ Environment \subseteq Origins /\ Profile \subseteq Origins
  /\ Nowhere \notin {"env", "file", "profile", "cred", "cli", "default"}
  /\ \A v \in Environment : v \in Profile => v = Nowhere
BY CredentialAssumption
DEF Environment, Profile, Origins, CredentialAssumption

LEMMA EnvIdentityParts ==
  ASSUME SourceInv, CompleteEnv, NEW p, NEW layer \in {"cli", "default", Nowhere}
  PROVE  LET e == EnvIdentity(p, layer) IN
         /\ {e.ak, e.sk, e.token} \subseteq Environment
         /\ e.region \in {"cli", "default", "env", "file", Nowhere}
         /\ e.ak # Nowhere /\ e.sk # Nowhere
         /\ e = [ak |-> e.ak, sk |-> e.sk, token |-> e.token, region |-> e.region]
BY DEF EnvIdentity, CompleteEnv, Or, SourceInv, Variables, Environment

LEMMA ProfileIdentityParts ==
  ASSUME NEW p \in StoredProfiles, NEW layer \in {"cli", "default", Nowhere}
  PROVE  LET e == ProfileIdentity(p, layer) IN
         /\ {e.ak, e.sk, e.token} \subseteq Profile
         /\ e.region \in {"cli", "default", "profile", Nowhere}
         /\ e = [ak |-> e.ak, sk |-> e.sk, token |-> e.token, region |-> e.region]
BY DEF ProfileIdentity, MergedField, Has, ProfileRegion, Or, Profile

LEMMA DynamicIdentityParts ==
  ASSUME SourceInv, NEW p \in StoredProfiles,
         NEW layer \in {"cli", "default", Nowhere}
  PROVE  LET e == DynamicIdentity(p, layer) IN
         /\ {e.ak, e.sk, e.token} \subseteq Profile
         /\ e.region \in {"cli", "default", "profile", "env", "file", Nowhere}
         /\ e = [ak |-> e.ak, sk |-> e.sk, token |-> e.token, region |-> e.region]
BY DEF DynamicIdentity, ProfileIdentity, MergedField, Has, ProfileRegion, Or,
       Profile, SourceInv, Variables

\* A record of four origins is what a client is made of.
LEMMA PartsSet ==
  ASSUME NEW ak \in Origins, NEW sk \in Origins, NEW token \in Origins,
         NEW region \in Origins, NEW parts,
         parts = [ak |-> ak, sk |-> sk, token |-> token, region |-> region]
  PROVE  /\ parts \in Parts /\ parts["ak"] = ak /\ parts["sk"] = sk
         /\ parts["token"] = token /\ parts["region"] = region
BY DEF Parts, Variables

\* A client that was made: what it is made of says whether SourceInv is kept.
LEMMA SignsKeeps ==
  ASSUME SourceInv, ask.pc = "resolve", NEW how \in {"static", "provider"},
         NEW mode, NEW ak \in Origins, NEW sk \in Origins, NEW token \in Origins,
         NEW region \in Origins, NEW parts,
         parts = [ak |-> ak, sk |-> sk, token |-> token, region |-> region],
         Signs(how, mode, parts), UNCHANGED <<env, static>>,
         how = "static" =>
           /\ mode \in {"sso", "ramrole"} => static
           /\ ak \in Environment /\ sk \in Environment =>
                token \in Environment /\ region # "profile"
           /\ ak \in Profile /\ sk \in Profile => token \in Profile,
         how = "provider" => ~static /\ {ak, sk, token} \cap {"env", "file"} = {}
  PROVE  SourceInv'
<1>1. /\ parts \in Parts /\ parts["ak"] = ak /\ parts["sk"] = sk
      /\ parts["token"] = token /\ parts["region"] = region
  BY PartsSet
<1>2. /\ client'.signs = how /\ client'.mode = mode /\ client'.parts = parts
      /\ ask' = [ask EXCEPT !.pc = "done"]
  BY DEF Signs
<1>3. /\ ask' \in AskSet /\ ask'.pc = "done" /\ ask'.file = ask.file
      /\ ask'.profile = ask.profile /\ ask'.secrets = ask.secrets
      /\ ask'.contextProfile = ask.contextProfile
      /\ ask'.contextSecrets = ask.contextSecrets
  BY <1>2 DEF SourceInv, AskSet
<1>4. AskOK'
  BY <1>3 DEF SourceInv, AskOK
<1>5. Signed(client', static')
  <2>1. CASE how = "static"
    BY <1>1, <1>2, <2>1 DEF Signed, SourceInv
  <2>2. CASE how = "provider"
    BY <1>1, <1>2, <2>2 DEF Signed, SourceInv
  <2>. QED  BY <2>1, <2>2
<1>. QED  BY <1>2, <1>3, <1>4, <1>5 DEF SourceInv

\* A static client: of the environment whole, or of the profile, where a key
\* may be completed but both cannot come from the environment.
LEMMA StaticKeeps ==
  ASSUME SourceInv, ask.pc = "resolve", UNCHANGED <<env, static>>, NEW mode,
         mode \in {"sso", "ramrole"} => static,
         NEW ak, NEW sk, NEW token, NEW region \in Origins, NEW parts,
         parts = [ak |-> ak, sk |-> sk, token |-> token, region |-> region],
         StaticClient(parts, mode),
         \/ /\ {ak, sk, token} \subseteq Environment /\ region # "profile"
            /\ ak # Nowhere /\ sk # Nowhere
         \/ {ak, sk, token} \subseteq Profile /\ ~CompleteEnv
  PROVE  SourceInv'
<1>. DEFINE signing == SigningParts(parts)
<1>1. CASE Unusable
  BY <1>1, AskStops DEF Unusable, SourceInv
<1>2. CASE ~Unusable
  <2>1. Signs("static", mode, signing) /\ signing.ak # Nowhere
        /\ signing.sk # Nowhere
    BY <1>2 DEF StaticClient
  <2>2. /\ parts.ak = ak /\ parts.sk = sk /\ parts.token = token
        /\ parts.region = region
    OBVIOUS
  <2>3. env["ak"] \in Environment /\ env["sk"] \in Environment
        /\ env["token"] \in Environment
    BY DEF SourceInv, Variables, Environment
  <2>4. CASE ak # Nowhere /\ sk # Nowhere
    <3>1. signing = parts
      BY <2>2, <2>4 DEF SigningParts
    <3>2. ak \in Origins /\ sk \in Origins /\ token \in Origins
      BY Sources
    <3>3. /\ ak \in Environment /\ sk \in Environment =>
               token \in Environment /\ region # "profile"
          /\ ak \in Profile /\ sk \in Profile => token \in Profile
      BY <2>4, Sources
    <3>4. Signs("static", mode, parts)
      BY <2>1, <3>1
    <3>. QED  BY <3>2, <3>3, <3>4, SignsKeeps
  <2>5. CASE ~(ak # Nowhere /\ sk # Nowhere)
    <3>. DEFINE a == Or(ak, env["ak"])
                s == Or(sk, env["sk"])
                t == Or(token, env["token"])
    <3>1. {ak, sk, token} \subseteq Profile /\ ~CompleteEnv
      BY <2>5
    <3>2. signing = [ak |-> a, sk |-> s, token |-> t, region |-> region]
      BY <2>2, <2>5 DEF SigningParts
    <3>3. a \in Origins /\ s \in Origins /\ t \in Origins
      BY <2>3, <3>1, Sources DEF Or
    <3>4. a # Nowhere /\ s # Nowhere
      BY <2>1, <3>2
    <3>5. ~(a \in Profile /\ s \in Profile)
      BY <2>3, <2>5, <3>4, Sources DEF Or
    <3>6. ~(a \in Environment /\ s \in Environment)
      BY <3>1, <3>4, Sources DEF Or, CompleteEnv
    <3>7. Signs("static", mode, signing)
      BY <2>1
    <3>. HIDE DEF a, s, t, signing
    <3>. QED  BY <3>2, <3>3, <3>5, <3>6, <3>7, SignsKeeps
  <2>. QED  BY <2>4, <2>5
<1>. QED  BY <1>1, <1>2

LEMMA ProviderKeeps ==
  ASSUME SourceInv, ask.pc = "resolve", UNCHANGED <<env, static>>, ~static,
         NEW p \in StoredProfiles, NEW layer \in {"cli", "default", Nowhere},
         ProviderClient(p, DynamicIdentity(p, layer))
  PROVE  SourceInv'
<1>1. CASE Unusable
  BY <1>1, AskStops DEF Unusable, SourceInv
<1>2. CASE ~Unusable
  <2>. DEFINE e == DynamicIdentity(p, layer)
  <2>1. Signs("provider", p.mode, e)
    BY <1>2 DEF ProviderClient
  <2>2. /\ {e.ak, e.sk, e.token} \subseteq Profile
        /\ e.region \in {"cli", "default", "profile", "env", "file", Nowhere}
        /\ e = [ak |-> e.ak, sk |-> e.sk, token |-> e.token,
                region |-> e.region]
    BY DynamicIdentityParts
  <2>. HIDE DEF e
  <2>3. {e.ak, e.sk, e.token} \cap {"env", "file"} = {}
    BY <2>2, Sources
  <2>4. e.ak \in Origins /\ e.sk \in Origins /\ e.token \in Origins
        /\ e.region \in Origins
    BY <2>2, Sources DEF Origins
  <2>. QED  BY <2>1, <2>2, <2>3, <2>4, SignsKeeps
<1>. QED  BY <1>1, <1>2

LEMMA ResolveKeeps == SourceInv /\ Resolve => SourceInv'
<1>. SUFFICES ASSUME SourceInv, Resolve  PROVE SourceInv'
  OBVIOUS
<1>1. ask.pc = "resolve" /\ UNCHANGED <<env, static>>
  BY DEF Resolve
<1>2. PICK p \in StoredProfiles, layer \in {"cli", "default", Nowhere} :
        ResolveAs(p, layer)
  BY DEF Resolve
<1>3. CASE Unusable
  BY <1>1, <1>3, AskStops DEF Unusable, SourceInv
<1>4. CASE Dynamic(p) /\ ProviderClient(p, DynamicIdentity(p, layer))
  BY <1>1, <1>4, ProviderKeeps DEF Dynamic
<1>5. CASE ~Dynamic(p) /\ CompleteEnv
           /\ StaticClient(EnvIdentity(p, layer), p.mode)
  <2>. DEFINE e == EnvIdentity(p, layer)
  <2>1. /\ {e.ak, e.sk, e.token} \subseteq Environment
        /\ e.region \in {"cli", "default", "env", "file", Nowhere}
        /\ e.ak # Nowhere /\ e.sk # Nowhere
        /\ e = [ak |-> e.ak, sk |-> e.sk, token |-> e.token,
                region |-> e.region]
    BY <1>5, EnvIdentityParts
  <2>2. StaticClient(e, p.mode)
    BY <1>5
  <2>. HIDE DEF e
  <2>3. e.region \in Origins /\ e.region # "profile"
    BY <2>1, Sources DEF Origins
  <2>4. p.mode \in {"sso", "ramrole"} => static
    BY <1>5 DEF Dynamic
  <2>. QED  BY <1>1, <2>1, <2>2, <2>3, <2>4, StaticKeeps
<1>6. CASE ~Dynamic(p) /\ ~CompleteEnv
           /\ StaticClient(ProfileIdentity(p, layer), p.mode)
  <2>. DEFINE e == ProfileIdentity(p, layer)
  <2>1. /\ {e.ak, e.sk, e.token} \subseteq Profile
        /\ e.region \in {"cli", "default", "profile", Nowhere}
        /\ e = [ak |-> e.ak, sk |-> e.sk, token |-> e.token,
                region |-> e.region]
    BY ProfileIdentityParts
  <2>2. StaticClient(e, p.mode)
    BY <1>6
  <2>. HIDE DEF e
  <2>3. e.region \in Origins
    BY <2>1 DEF Origins
  <2>4. p.mode \in {"sso", "ramrole"} => static
    BY <1>6 DEF Dynamic
  <2>. QED  BY <1>1, <1>6, <2>1, <2>2, <2>3, <2>4, StaticKeeps
<1>. QED  BY <1>2, <1>3, <1>4, <1>5, <1>6 DEF ResolveAs

LEMMA SourceKeeps == SourceInv /\ [SourceNext]_sourceVars => SourceInv'
<1>. SUFFICES ASSUME SourceInv, [SourceNext]_sourceVars  PROVE SourceInv'
  OBVIOUS
<1>1. CASE UNCHANGED sourceVars
  BY <1>1 DEF sourceVars, SourceInv, AskOK, Signed
<1>. QED
  BY <1>1, SelectSourceKeeps, LoadSecretsKeeps, ResolveKeeps DEF SourceNext

LEMMA SourceInvGives == SourceInv => IdentityIsAsAsked
<1>. SUFFICES ASSUME SourceInv  PROVE IdentityIsAsAsked
  OBVIOUS
<1>1. Signed(client, static) /\ client.signs \in {"none", "static", "provider"}
  <2>1. CASE ask.pc = "done"
    BY <2>1 DEF SourceInv
  <2>2. CASE ask.pc # "done"
    BY <2>2, NoClientSigned DEF SourceInv
  <2>. QED  BY <2>1, <2>2
<1>2. SourceTypeOK
  BY <1>1 DEF SourceTypeOK, SourceInv, AskSet, Signed, Parts
<1>3. TokenFollowsKeys
  BY <1>1 DEF TokenFollowsKeys, Part, Signed
<1>4. SecretsFileDecides
  <2>. SUFFICES ASSUME client.signs # "none",
                       Or(ask.secrets, ask.contextSecrets) # Nowhere
                PROVE  /\ client.signs = "static"
                       /\ ask.profile = Nowhere /\ ask.contextProfile = Nowhere
                       /\ ask.secrets = Nowhere \/ ask.contextSecrets = Nowhere
    BY DEF SecretsFileDecides
  <2>1. ask.pc = "done"
    BY DEF SourceInv, AskOK
  <2>2. ask.secrets # Nowhere \/ ask.contextSecrets # Nowhere
    BY DEF Or
  <2>3. ask.file # Nowhere /\ static
    BY <2>1, <2>2 DEF SourceInv, AskOK, Or
  <2>. QED  BY <1>1, <2>1, <2>2, <2>3 DEF SourceInv, AskOK, Signed
<1>5. DynamicIgnoresKeys
  <2>1. CASE client.signs = "none"
    BY <2>1 DEF DynamicIgnoresKeys
  <2>2. CASE client.signs # "none"
    <3>1. ask.file = Nowhere => ~static
      BY <2>2 DEF SourceInv, AskOK
    <3>. QED  BY <1>1, <3>1 DEF DynamicIgnoresKeys, Part, Signed, SourceInv
  <2>. QED  BY <2>1, <2>2
<1>. QED  BY <1>2, <1>3, <1>4, <1>5 DEF IdentityIsAsAsked

-----------------------------------------------------------------------------
(* The input of a tool                                                     *)

ObjectSet == Objects(Fields, Values)
SectionSet ==
  [has : BOOLEAN, props : SUBSET Fields, required : SUBSET Fields, loose : BOOLEAN]
SchemaOK(schema) ==
  /\ \A s \in Sections :
       /\ schema[s] \in SectionSet
       /\ ~schema[s].has => schema[s].props = {} /\ schema[s].required = {}
  /\ schema["path"].has => schema["path"].required = {PathField}

LEMMA EmptyObject ==
  /\ Empty \in ObjectSet /\ DOMAIN Empty = {}
BY DEF Empty, ObjectSet, Objects

LEMMA ObjectIs ==
  ASSUME NEW o \in ObjectSet
  PROVE  /\ DOMAIN o \in SUBSET Fields /\ o = [f \in DOMAIN o |-> o[f]]
         /\ \A f \in DOMAIN o : o[f] \in {"null", "value"}
BY DEF ObjectSet, Objects, Values

LEMMA SchemasOK == \A schema \in Schemas : SchemaOK(schema)
<1>. TAKE schema \in Schemas
<1>1. PICK p \in PathSchemas, q \in SectionSchemas({FALSE}),
           b \in SectionSchemas(BOOLEAN) :
        schema = [path |-> p, query |-> q, body |-> b]
  BY DEF Schemas
<1>2. schema["path"] = p /\ schema["query"] = q /\ schema["body"] = b
  BY <1>1
<1>3. /\ NoSection \in SectionSet /\ ~NoSection.has /\ NoSection.props = {}
      /\ NoSection.required = {}
  BY DEF NoSection, SectionSet
<1>4. /\ p \in SectionSet /\ (~p.has => p.props = {} /\ p.required = {})
      /\ p.has => p.required = {PathField}
  <2>1. CASE p = NoSection
    BY <1>3, <2>1
  <2>2. CASE p = [has |-> TRUE, props |-> {PathField}, required |-> {PathField},
                  loose |-> FALSE]
    <3>1. {PathField} \in SUBSET Fields
      BY RequestInputAssumption DEF RequestInputAssumption
    <3>. QED  BY <2>2, <3>1 DEF SectionSet
  <2>. QED  BY <2>1, <2>2 DEF PathSchemas
<1>5. ASSUME NEW L \in SUBSET BOOLEAN, NEW s \in SectionSchemas(L)
      PROVE  s \in SectionSet /\ (~s.has => s.props = {} /\ s.required = {})
  BY <1>3 DEF SectionSchemas, SectionSet
<1>6. /\ q \in SectionSet /\ (~q.has => q.props = {} /\ q.required = {})
      /\ b \in SectionSet /\ (~b.has => b.props = {} /\ b.required = {})
  BY <1>5
<1>. QED  BY <1>2, <1>4, <1>6 DEF SchemaOK, Sections

\* The sections that name a field are none, one, or more.
LEMMA NamedIs ==
  ASSUME NEW f
  PROVE  /\ MatchingInputSections(f) = Named(f) /\ Named(f) \in SUBSET Sections
         /\ Cardinality(Named(f)) \in Nat
         /\ Named(f) = {} <=> Cardinality(Named(f)) = 0
         /\ Cardinality(Named(f)) = 1 <=> \E s \in Sections : Named(f) = {s}
<1>1. MatchingInputSections(f) = Named(f) /\ Named(f) \in SUBSET Sections
  BY DEF MatchingInputSections, Named
<1>2. IsFiniteSet(Sections)
  <2>1. IsFiniteSet({"path"})
    BY FS_Singleton
  <2>2. IsFiniteSet({"path"} \cup {"query"})
    BY <2>1, FS_AddElement
  <2>3. IsFiniteSet(({"path"} \cup {"query"}) \cup {"body"})
    BY <2>2, FS_AddElement
  <2>4. Sections = ({"path"} \cup {"query"}) \cup {"body"}
    BY DEF Sections
  <2>. QED  BY <2>3, <2>4
<1>3. IsFiniteSet(Named(f))
  BY <1>1, <1>2, FS_Subset
<1>. HIDE DEF Named
<1>. QED  BY <1>1, <1>3, FS_CardinalityType, FS_EmptySet, FS_Singleton

LEMMA AddedIs ==
  ASSUME NEW o \in ObjectSet, NEW f \in Fields, NEW v \in Values
  PROVE  [g \in DOMAIN o \cup {f} |-> IF g = f THEN v ELSE o[g]] \in ObjectSet
<1>1. DOMAIN o \cup {f} \in SUBSET Fields /\ \A g \in DOMAIN o : o[g] \in Values
  BY ObjectIs DEF Values
<1>2. \A g \in DOMAIN o \cup {f} : (IF g = f THEN v ELSE o[g]) \in Values
  BY <1>1
<1>3. [g \in DOMAIN o \cup {f} |-> IF g = f THEN v ELSE o[g]]
        \in [DOMAIN o \cup {f} -> Values]
  BY <1>2
<1>. QED  BY <1>1, <1>3 DEF ObjectSet, Objects

PutDone(fields, s, f, put) ==
  /\ put \in [Sections -> ObjectSet]
  /\ \A t \in Sections :
       DOMAIN put[t] = IF t = s THEN DOMAIN fields[t] \cup {f} ELSE DOMAIN fields[t]
  /\ \A t \in Sections : \A g \in DOMAIN put[t] :
       put[t][g] = IF t = s /\ g = f THEN input.flat[f] ELSE fields[t][g]

LEMMA PutIs ==
  ASSUME NEW fields \in [Sections -> ObjectSet], NEW s \in Sections,
         input.flat \in ObjectSet, NEW f \in DOMAIN input.flat
  PROVE  PutDone(fields, s, f, Put(fields, s, f))
<1>. DEFINE new == [g \in DOMAIN fields[s] \cup {f} |->
                      IF g = f THEN input.flat[f] ELSE fields[s][g]]
            put == Put(fields, s, f)
<1>1. fields[s] \in ObjectSet /\ f \in Fields /\ input.flat[f] \in Values
  BY ObjectIs DEF Values
<1>3. new \in ObjectSet
  BY <1>1, AddedIs
<1>4. put = [fields EXCEPT ![s] = new]
  BY DEF Put
<1>5. DOMAIN new = DOMAIN fields[s] \cup {f}
      /\ \A g \in DOMAIN new : new[g] = IF g = f THEN input.flat[f] ELSE fields[s][g]
  OBVIOUS
<1>. HIDE DEF new, put
<1>6. put \in [Sections -> ObjectSet] /\ put[s] = new
      /\ \A t \in Sections \ {s} : put[t] = fields[t]
  BY <1>3, <1>4
<1>. QED  BY <1>5, <1>6 DEF put, PutDone

-----------------------------------------------------------------------------
(* The state                                                                *)

InputPCs == {"sections", "assign", "validate", "build", "done"}
Errors ==
  {"none", "reserved", "ambiguous", "unknown", "missing", "unresolved"}
InputSet ==
  [pc : InputPCs, schema : {input.schema}, reserved : BOOLEAN,
   sectioned : BOOLEAN, flat : ObjectSet, nested : [Sections -> ObjectSet],
   left : SUBSET Fields, fields : [Sections -> ObjectSet],
   ambiguous : SUBSET Fields, unknown : SUBSET Fields, error : Errors,
   sent : BOOLEAN]

\* Where a field of a flat object goes: to the section that names it, or the body.
Home(f) ==
  IF Cardinality(Named(f)) = 1 THEN Named(f)
  ELSE IF Named(f) = {} /\ LooseBody THEN {"body"} ELSE {}

\* What has become of the fields that are not left.
AssignedOK ==
  LET seen == DOMAIN input.flat \ input.left
  IN  /\ \A s \in Sections : \A f \in Fields :
           f \in Given(s) <=> f \in seen /\ s \in Home(f)
      /\ \A s \in Sections : \A f \in Given(s) : input.fields[s][f] = input.flat[f]
      /\ input.ambiguous = {f \in seen : Cardinality(Named(f)) > 1}
      /\ input.unknown = {f \in seen : Named(f) = {} /\ ~LooseBody}

NothingLacks ==
  \A s \in Sections : \A f \in input.schema[s].required : ~Lacks(s, f)

ErrorOK(in) ==
  /\ in.error = "ambiguous" <=> in.ambiguous # {}
  /\ in.error = "unknown" <=> in.ambiguous = {} /\ in.unknown # {}

InputInv ==
  /\ input \in InputSet /\ SchemaOK(input.schema)
  /\ input.left \subseteq DOMAIN input.flat
  /\ input.pc # "done" => input.error = "none" /\ ~input.sent
  /\ input.pc \in {"validate", "build"} => ~input.reserved
  /\ input.pc = "sections" => AssignedOK /\ input.left = DOMAIN input.flat
  /\ input.pc = "assign" =>
       AssignedOK /\ HasSchema /\ ~input.reserved /\ ~input.sectioned
  /\ /\ input.pc \in {"validate", "build", "done"} /\ ~input.sectioned /\ HasSchema
     /\ ~input.reserved
     => AssignedOK /\ input.left = {} /\ ErrorOK(input)
  /\ input.pc = "done" /\ HasSchema => (input.error = "reserved" <=> input.reserved)
  /\ input.pc = "build" \/ input.sent => NothingLacks
  /\ input.sent => input.error = "none" /\ ~input.reserved
  /\ input.sent /\ input.schema["path"].has => PathField \in Given("path")
  /\ input.error = "unresolved" => input.schema["path"].has

LEMMA InputStarts == InputInit \/ InputIdle => InputInv
<1>. SUFFICES ASSUME InputInit \/ InputIdle  PROVE InputInv
  OBVIOUS
<1>1. CASE InputInit
  <2>1. PICK schema \in Schemas, reserved \in BOOLEAN, sectioned \in BOOLEAN,
             flat \in ObjectSet, nested \in [Sections -> ObjectSet] :
          input = InputOf(schema, reserved, sectioned, flat, nested)
    <3>1. [s \in Sections |-> Empty] \in [Sections -> ObjectSet]
      BY EmptyObject
    <3>2. ASSUME NEW n \in Nested  PROVE n \in [Sections -> ObjectSet]
      <4>1. PICK p \in Objects({PathField}, Values), b \in Objects(Fields, {"value"}) :
              n = [path |-> p, query |-> Empty, body |-> b]
        BY DEF Nested
      <4>2. p \in ObjectSet
        <5>1. {PathField} \in SUBSET Fields
          BY RequestInputAssumption DEF RequestInputAssumption
        <5>. QED  BY <5>1 DEF ObjectSet, Objects
      <4>3. b \in ObjectSet
        BY DEF ObjectSet, Objects, Values
      <4>. QED  BY <4>1, <4>2, <4>3, EmptyObject DEF Sections
    <3>. QED  BY <1>1, <3>1, <3>2, EmptyObject DEF InputInit, ObjectSet
  <2>2. SchemaOK(schema) /\ DOMAIN flat \in SUBSET Fields
    BY SchemasOK, ObjectIs
  <2>3. [s \in Sections |-> Empty] \in [Sections -> ObjectSet]
    BY EmptyObject
  <2>4. /\ input \in InputSet /\ input.pc = "sections" /\ input.schema = schema
        /\ input.error = "none" /\ ~input.sent /\ input.left = DOMAIN input.flat
        /\ input.fields = [s \in Sections |-> Empty]
        /\ input.ambiguous = {} /\ input.unknown = {}
    BY <2>1, <2>2, <2>3 DEF InputOf, InputSet, InputPCs, Errors
  <2>5. AssignedOK
    BY <2>4, EmptyObject DEF AssignedOK, Given
  <2>. QED  BY <2>2, <2>4, <2>5 DEF InputInv
<1>2. CASE InputIdle
  <2>. DEFINE none == [s \in Sections |-> NoSection]
              empty == [s \in Sections |-> Empty]
  <2>1. empty \in [Sections -> ObjectSet]
    BY EmptyObject
  <2>2. SchemaOK(none)
    BY DEF SchemaOK, NoSection, SectionSet, Sections
  <2>. HIDE DEF empty, none
  <2>3. input = [InputOf(none, FALSE, FALSE, Empty, empty) EXCEPT !.pc = "done"]
    BY <1>2 DEF InputIdle, none, empty
  <2>4. /\ input \in InputSet /\ input.pc = "done" /\ input.schema = none
        /\ input.error = "none" /\ ~input.sent /\ input.left = {}
        /\ input.flat = Empty /\ ~input.reserved
    BY <2>1, <2>3, EmptyObject DEF InputOf, InputSet, InputPCs, Errors, empty
  <2>5. ~HasSchema
    BY <2>4 DEF HasSchema, none, NoSection
  <2>. QED  BY <2>2, <2>4, <2>5, EmptyObject DEF InputInv
<1>. QED  BY <1>1, <1>2

\* What depends on the schema alone stays.
LEMMA SameSchema ==
  ASSUME input'.schema = input.schema
  PROVE  /\ \A f : Named(f)' = Named(f) /\ Home(f)' = Home(f)
         /\ HasSchema' <=> HasSchema
         /\ LooseBody' <=> LooseBody
<1>1. \A f : Named(f)' = Named(f)
  BY DEF Named
<1>2. (HasSchema' <=> HasSchema) /\ (LooseBody' <=> LooseBody)
  BY DEF HasSchema, LooseBody
<1>3. \A f : Home(f)' = Home(f)
  BY <1>1, <1>2 DEF Home
<1>. QED  BY <1>1, <1>2, <1>3

LEMMA InputFailsKeeps ==
  ASSUME InputInv, NEW why \in Errors, InputFails(why), input.pc # "done",
         HasSchema => (why = "reserved" <=> input.reserved),
         why = "unresolved" => input.schema["path"].has,
         ~input.sectioned /\ HasSchema /\ ~input.reserved =>
           /\ AssignedOK /\ input.left = {}
           /\ why = "ambiguous" <=> input.ambiguous # {}
           /\ why = "unknown" <=> input.ambiguous = {} /\ input.unknown # {}
  PROVE  InputInv'
<1>1. input \in InputSet /\ ~input.sent
  BY DEF InputInv
<1>2. input' = [input EXCEPT !.pc = "done", !.error = why]
  BY DEF InputFails
<1>3. /\ input' \in InputSet /\ input'.pc = "done" /\ input'.error = why
      /\ input'.schema = input.schema /\ input'.reserved = input.reserved
      /\ input'.sectioned = input.sectioned /\ input'.flat = input.flat
      /\ input'.left = input.left /\ input'.fields = input.fields
      /\ input'.ambiguous = input.ambiguous /\ input'.unknown = input.unknown
      /\ ~input'.sent
  BY <1>1, <1>2 DEF InputSet, InputPCs
<1>4. AssignedOK' <=> AssignedOK
  BY <1>3, SameSchema DEF AssignedOK, Given
<1>5. InputSet' = InputSet
  BY <1>3 DEF InputSet
<1>6. HasSchema' <=> HasSchema
  BY <1>3, SameSchema
<1>. QED  BY <1>3, <1>4, <1>5, <1>6 DEF InputInv, ErrorOK

LEMMA SplitKeeps == InputInv /\ SplitSections => InputInv'
<1>. SUFFICES ASSUME InputInv, SplitSections  PROVE InputInv'
  OBVIOUS
<1>1. /\ input \in InputSet /\ input.pc = "sections" /\ ~input.sent
      /\ input.error = "none" /\ AssignedOK /\ input.left = DOMAIN input.flat
      /\ SchemaOK(input.schema)
  BY DEF InputInv, SplitSections
<1>2. CASE input.reserved
  BY <1>1, <1>2, InputFailsKeeps DEF SplitSections, Errors
<1>3. CASE ~input.reserved /\ input.sectioned
  <2>1. input' = [input EXCEPT !.pc = "validate", !.fields = input.nested]
    BY <1>3 DEF SplitSections
  <2>2. /\ input' \in InputSet /\ input'.pc = "validate" /\ ~input'.sent
        /\ input'.error = "none" /\ input'.schema = input.schema
        /\ input'.sectioned /\ ~input'.reserved /\ input'.left = input.left
        /\ input'.flat = input.flat
    BY <1>1, <1>3, <2>1 DEF InputSet, InputPCs
  <2>3. InputSet' = InputSet
    BY <2>2 DEF InputSet
  <2>. QED  BY <1>1, <2>2, <2>3 DEF InputInv
<1>4. CASE ~input.reserved /\ ~input.sectioned /\ ~HasSchema
  <2>. DEFINE fields == [input.fields EXCEPT !["body"] = input.flat]
  <2>1. input' = [input EXCEPT !.pc = "validate", !.fields = fields]
    BY <1>4 DEF SplitSections
  <2>2. fields \in [Sections -> ObjectSet]
    BY <1>1 DEF InputSet
  <2>. HIDE DEF fields
  <2>3. /\ input' \in InputSet /\ input'.pc = "validate" /\ ~input'.sent
        /\ input'.error = "none" /\ input'.schema = input.schema
        /\ ~input'.reserved /\ input'.left = input.left
        /\ input'.flat = input.flat
    BY <1>1, <1>4, <2>1, <2>2 DEF InputSet, InputPCs
  <2>4. InputSet' = InputSet /\ ~HasSchema'
    BY <1>4, <2>3, SameSchema DEF InputSet
  <2>. QED  BY <1>1, <2>3, <2>4 DEF InputInv
<1>5. CASE ~input.reserved /\ ~input.sectioned /\ HasSchema
  <2>1. input' = [input EXCEPT !.pc = "assign"]
    BY <1>5 DEF SplitSections
  <2>2. /\ input' \in InputSet /\ input'.pc = "assign" /\ ~input'.sent
        /\ input'.error = "none" /\ input'.schema = input.schema
        /\ ~input'.reserved /\ ~input'.sectioned /\ input'.left = input.left
        /\ input'.flat = input.flat /\ input'.fields = input.fields
        /\ input'.ambiguous = input.ambiguous /\ input'.unknown = input.unknown
    BY <1>1, <1>5, <2>1 DEF InputSet, InputPCs
  <2>3. InputSet' = InputSet /\ HasSchema'
    BY <1>5, <2>2, SameSchema DEF InputSet
  <2>4. AssignedOK'
    BY <1>1, <2>2, SameSchema DEF AssignedOK, Given
  <2>. QED  BY <1>1, <2>2, <2>3, <2>4 DEF InputInv
<1>. QED  BY <1>2, <1>3, <1>4, <1>5

LEMMA AssignKeeps == InputInv /\ AssignField => InputInv'
<1>. SUFFICES ASSUME InputInv, AssignField  PROVE InputInv'
  OBVIOUS
<1>1. /\ input \in InputSet /\ input.pc = "assign" /\ ~input.sent
      /\ input.error = "none" /\ AssignedOK /\ HasSchema /\ ~input.reserved
      /\ ~input.sectioned /\ SchemaOK(input.schema)
      /\ input.left \subseteq DOMAIN input.flat
  BY DEF InputInv, AssignField
<1>2. PICK f \in input.left :
        LET matches == MatchingInputSections(f)
            next == [input EXCEPT !.left = @ \ {f}]
        IN  input' =
              CASE Cardinality(matches) = 1 ->
                     [next EXCEPT !.fields =
                        Put(@, CHOOSE s \in matches : TRUE, f)]
                [] matches = {} /\ LooseBody ->
                     [next EXCEPT !.fields = Put(@, "body", f)]
                [] matches = {} /\ ~LooseBody ->
                     [next EXCEPT !.unknown = @ \cup {f}]
                [] OTHER -> [next EXCEPT !.ambiguous = @ \cup {f}]
  BY DEF AssignField
<1>. DEFINE next == [input EXCEPT !.left = @ \ {f}]
            seen == DOMAIN input.flat \ input.left
<1>3. /\ MatchingInputSections(f) = Named(f) /\ Named(f) \in SUBSET Sections
      /\ Cardinality(Named(f)) \in Nat
      /\ Named(f) = {} <=> Cardinality(Named(f)) = 0
      /\ Cardinality(Named(f)) = 1 <=> \E s \in Sections : Named(f) = {s}
  BY NamedIs
<1>4. /\ input.flat \in ObjectSet /\ input.fields \in [Sections -> ObjectSet]
      /\ f \in DOMAIN input.flat /\ f \in Fields /\ f \notin seen
      /\ input.left \in SUBSET Fields
      /\ input.ambiguous \in SUBSET Fields /\ input.unknown \in SUBSET Fields
  BY <1>1, ObjectIs DEF InputSet
<1>5. /\ next \in InputSet /\ next.pc = "assign" /\ ~next.sent
      /\ next.error = "none" /\ next.schema = input.schema
      /\ ~next.reserved /\ ~next.sectioned /\ next.left = input.left \ {f}
      /\ next.flat = input.flat /\ next.fields = input.fields
      /\ next.ambiguous = input.ambiguous /\ next.unknown = input.unknown
  BY <1>1, <1>4 DEF InputSet
<1>. HIDE DEF next
<1>6. ASSUME /\ input' \in InputSet /\ input'.pc = "assign" /\ ~input'.sent
             /\ input'.error = "none" /\ input'.schema = input.schema
             /\ ~input'.reserved /\ ~input'.sectioned
             /\ input'.left = input.left \ {f} /\ input'.flat = input.flat,
             AssignedOK'
      PROVE  InputInv'
  <2>1. InputSet' = InputSet /\ HasSchema'
    BY <1>1, <1>6, SameSchema DEF InputSet
  <2>. QED  BY <1>1, <1>6, <2>1 DEF InputInv
\* Putting the field into its section.
<1>7. ASSUME NEW s \in Sections, Home(f) = {s},
             Cardinality(Named(f)) = 1 \/ (Named(f) = {} /\ LooseBody),
             input' = [next EXCEPT !.fields = Put(@, s, f)]
      PROVE  InputInv'
  <2>. DEFINE put == Put(input.fields, s, f)
  <2>1. PutDone(input.fields, s, f, put)
    BY <1>4, PutIs
  <2>. HIDE DEF put
  <2>11. /\ put \in [Sections -> ObjectSet]
         /\ \A t \in Sections :
              DOMAIN put[t] = IF t = s THEN DOMAIN input.fields[t] \cup {f}
                              ELSE DOMAIN input.fields[t]
         /\ \A t \in Sections : \A g \in DOMAIN put[t] :
              put[t][g] = IF t = s /\ g = f THEN input.flat[f]
                          ELSE input.fields[t][g]
    BY <2>1 DEF PutDone
  <2>2. input' = [next EXCEPT !.fields = put]
    BY <1>5, <1>7 DEF put
  <2>3. /\ input' \in InputSet /\ input'.pc = "assign" /\ ~input'.sent
        /\ input'.error = "none" /\ input'.schema = input.schema
        /\ ~input'.reserved /\ ~input'.sectioned
        /\ input'.left = input.left \ {f} /\ input'.flat = input.flat
        /\ input'.fields = put
        /\ input'.ambiguous = input.ambiguous /\ input'.unknown = input.unknown
    BY <1>5, <2>11, <2>2 DEF InputSet
  <2>10. /\ \A t \in Sections : \A g \in Fields :
              g \in DOMAIN input.fields[t] <=> g \in seen /\ t \in Home(g)
         /\ \A t \in Sections : \A g \in DOMAIN input.fields[t] :
              input.fields[t][g] = input.flat[g]
    BY <1>1 DEF AssignedOK, Given
  <2>. HIDE DEF seen
  <2>4. ASSUME NEW t \in Sections, NEW g \in Fields
        PROVE  g \in DOMAIN put[t] <=> g \in seen \cup {f} /\ t \in Home(g)
    <3>1. CASE t = s
      <4>1. g \in DOMAIN put[t] <=> g \in DOMAIN input.fields[t] \/ g = f
        BY <2>11, <3>1
      <4>. QED  BY <1>4, <1>7, <2>10, <3>1, <4>1
    <3>2. CASE t # s
      <4>1. g \in DOMAIN put[t] <=> g \in DOMAIN input.fields[t]
        BY <2>11, <3>2
      <4>2. t \notin Home(f)
        BY <1>7, <3>2
      <4>. QED  BY <1>4, <2>10, <4>1, <4>2
    <3>. QED  BY <3>1, <3>2
  <2>5. ASSUME NEW t \in Sections, NEW g \in DOMAIN put[t]
        PROVE  put[t][g] = input.flat[g]
    <3>1. CASE t = s /\ g = f
      BY <2>11, <3>1
    <3>2. CASE ~(t = s /\ g = f)
      <4>1. g \in DOMAIN input.fields[t] /\ put[t][g] = input.fields[t][g]
        BY <2>11, <3>2
      <4>. QED  BY <2>10, <4>1
    <3>. QED  BY <3>1, <3>2
  <2>. USE DEF seen
  <2>6. DOMAIN input.flat \ (input.left \ {f}) = seen \cup {f}
    BY <1>4
  <2>7. ~(Cardinality(Named(f)) > 1) /\ ~(Named(f) = {} /\ ~LooseBody)
    BY <1>3, <1>7
  <2>8. /\ input.ambiguous = {g \in seen \cup {f} : Cardinality(Named(g)) > 1}
        /\ input.unknown = {g \in seen \cup {f} : Named(g) = {} /\ ~LooseBody}
    BY <1>1, <2>7 DEF AssignedOK
  <2>9. AssignedOK'
    BY <2>3, <2>4, <2>5, <2>6, <2>8, SameSchema DEF AssignedOK, Given
  <2>. QED  BY <1>6, <2>3, <2>9
\* Nowhere to put it.
<1>8. ASSUME Home(f) = {},
             \/ /\ input' = [next EXCEPT !.unknown = @ \cup {f}]
                /\ Named(f) = {} /\ ~LooseBody
             \/ /\ input' = [next EXCEPT !.ambiguous = @ \cup {f}]
                /\ Cardinality(Named(f)) > 1
      PROVE  InputInv'
  <2>3. /\ input' \in InputSet /\ input'.pc = "assign" /\ ~input'.sent
        /\ input'.error = "none" /\ input'.schema = input.schema
        /\ ~input'.reserved /\ ~input'.sectioned
        /\ input'.left = input.left \ {f} /\ input'.flat = input.flat
        /\ input'.fields = input.fields
        /\ input'.ambiguous = input.ambiguous \cup
             (IF Cardinality(Named(f)) > 1 THEN {f} ELSE {})
        /\ input'.unknown = input.unknown \cup
             (IF Named(f) = {} /\ ~LooseBody THEN {f} ELSE {})
    BY <1>3, <1>4, <1>5, <1>8 DEF InputSet
  <2>4. \A t \in Sections : \A g \in Fields :
          g \in DOMAIN input.fields[t] <=> g \in seen \cup {f} /\ t \in Home(g)
    BY <1>1, <1>8 DEF AssignedOK, Given
  <2>5. \A t \in Sections : \A g \in DOMAIN input.fields[t] :
          input.fields[t][g] = input.flat[g]
    BY <1>1 DEF AssignedOK, Given
  <2>6. DOMAIN input.flat \ (input.left \ {f}) = seen \cup {f}
    BY <1>4
  <2>8. /\ input'.ambiguous = {g \in seen \cup {f} : Cardinality(Named(g)) > 1}
        /\ input'.unknown = {g \in seen \cup {f} : Named(g) = {} /\ ~LooseBody}
    BY <1>1, <2>3 DEF AssignedOK
  <2>9. AssignedOK'
    BY <2>3, <2>4, <2>5, <2>6, <2>8, SameSchema DEF AssignedOK, Given
  <2>. QED  BY <1>6, <2>3, <2>9
<1>9. CASE Cardinality(Named(f)) = 1
  <2>1. PICK s \in Sections : Named(f) = {s}
    BY <1>3, <1>9
  <2>2. (CHOOSE t \in Named(f) : TRUE) = s
    BY <2>1
  <2>3. input' = [next EXCEPT !.fields = Put(@, s, f)]
    BY <1>2, <1>3, <1>9, <2>2 DEF next
  <2>4. Home(f) = {s}
    BY <1>9, <2>1 DEF Home
  <2>. QED  BY <1>7, <1>9, <2>3, <2>4
<1>10. CASE Named(f) = {} /\ LooseBody
  <2>1. input' = [next EXCEPT !.fields = Put(@, "body", f)]
    BY <1>2, <1>3, <1>10 DEF next
  <2>2. Home(f) = {"body"} /\ "body" \in Sections
    BY <1>3, <1>10 DEF Home, Sections
  <2>. QED  BY <1>7, <1>10, <2>1, <2>2
<1>11. CASE Named(f) = {} /\ ~LooseBody
  <2>1. input' = [next EXCEPT !.unknown = @ \cup {f}]
    BY <1>2, <1>3, <1>11 DEF next
  <2>2. Home(f) = {}
    BY <1>3, <1>11 DEF Home
  <2>. QED  BY <1>8, <1>11, <2>1, <2>2
<1>12. CASE Cardinality(Named(f)) # 1 /\ Named(f) # {}
  <2>1. input' = [next EXCEPT !.ambiguous = @ \cup {f}]
    BY <1>2, <1>3, <1>12 DEF next
  <2>2. Home(f) = {} /\ Cardinality(Named(f)) > 1
    BY <1>3, <1>12 DEF Home
  <2>. QED  BY <1>8, <1>12, <2>1, <2>2
<1>. QED  BY <1>9, <1>10, <1>11, <1>12

LEMMA FinishKeeps == InputInv /\ FinishFlat => InputInv'
<1>. SUFFICES ASSUME InputInv, FinishFlat  PROVE InputInv'
  OBVIOUS
<1>1. /\ input \in InputSet /\ input.pc = "assign" /\ ~input.sent
      /\ input.error = "none" /\ AssignedOK /\ HasSchema /\ ~input.reserved
      /\ ~input.sectioned /\ SchemaOK(input.schema) /\ input.left = {}
  BY DEF InputInv, FinishFlat
<1>2. CASE input.ambiguous # {}
  BY <1>1, <1>2, InputFailsKeeps DEF FinishFlat, Errors
<1>3. CASE input.ambiguous = {} /\ input.unknown # {}
  BY <1>1, <1>3, InputFailsKeeps DEF FinishFlat, Errors
<1>4. CASE input.ambiguous = {} /\ input.unknown = {}
  <2>1. input' = [input EXCEPT !.pc = "validate"]
    BY <1>4 DEF FinishFlat
  <2>2. /\ input' \in InputSet /\ input'.pc = "validate" /\ ~input'.sent
        /\ input'.error = "none" /\ input'.schema = input.schema
        /\ ~input'.reserved /\ ~input'.sectioned /\ input'.left = input.left
        /\ input'.flat = input.flat /\ input'.fields = input.fields
        /\ input'.ambiguous = input.ambiguous /\ input'.unknown = input.unknown
    BY <1>1, <2>1 DEF InputSet, InputPCs
  <2>3. InputSet' = InputSet /\ HasSchema'
    BY <1>1, <2>2, SameSchema DEF InputSet
  <2>4. AssignedOK'
    BY <1>1, <2>2, SameSchema DEF AssignedOK, Given
  <2>5. ErrorOK(input')
    BY <1>4, <2>2 DEF ErrorOK
  <2>. QED  BY <1>1, <2>2, <2>3, <2>4, <2>5 DEF InputInv, ErrorOK
<1>. QED  BY <1>2, <1>3, <1>4

LEMMA ValidateKeeps == InputInv /\ ValidateInput => InputInv'
<1>. SUFFICES ASSUME InputInv, ValidateInput  PROVE InputInv'
  OBVIOUS
<1>1. /\ input \in InputSet /\ input.pc = "validate" /\ ~input.sent
      /\ input.error = "none" /\ ~input.reserved /\ SchemaOK(input.schema)
      /\ input.left \subseteq DOMAIN input.flat
      /\ ~input.sectioned /\ HasSchema =>
           /\ AssignedOK /\ input.left = {}
           /\ input.ambiguous = {} /\ input.unknown = {}
  BY DEF InputInv, ValidateInput, ErrorOK
<1>2. CASE ~NothingLacks
  <2>1. InputFails("missing")
    BY <1>2 DEF ValidateInput, NothingLacks
  <2>. QED  BY <1>1, <2>1, InputFailsKeeps DEF Errors
<1>3. CASE NothingLacks
  <2>1. input' = [input EXCEPT !.pc = "build"]
    BY <1>3 DEF ValidateInput, NothingLacks
  <2>2. /\ input' \in InputSet /\ input'.pc = "build" /\ ~input'.sent
        /\ input'.error = "none" /\ input'.schema = input.schema
        /\ ~input'.reserved /\ input'.sectioned = input.sectioned
        /\ input'.left = input.left
        /\ input'.flat = input.flat /\ input'.fields = input.fields
        /\ input'.ambiguous = input.ambiguous /\ input'.unknown = input.unknown
    BY <1>1, <2>1 DEF InputSet, InputPCs
  <2>3. InputSet' = InputSet /\ (HasSchema' <=> HasSchema)
    BY <2>2, SameSchema DEF InputSet
  <2>4. AssignedOK' <=> AssignedOK
    BY <2>2, SameSchema DEF AssignedOK, Given
  <2>5. NothingLacks'
    BY <1>3, <2>2 DEF NothingLacks, Lacks, Given
  <2>. QED  BY <1>1, <2>2, <2>3, <2>4, <2>5 DEF InputInv, ErrorOK
<1>. QED  BY <1>2, <1>3

LEMMA BuildKeeps == InputInv /\ BuildRequest => InputInv'
<1>. SUFFICES ASSUME InputInv, BuildRequest  PROVE InputInv'
  OBVIOUS
<1>1. /\ input \in InputSet /\ input.pc = "build" /\ ~input.sent
      /\ input.error = "none" /\ ~input.reserved /\ SchemaOK(input.schema)
      /\ input.left \subseteq DOMAIN input.flat /\ NothingLacks
      /\ ~input.sectioned /\ HasSchema =>
           /\ AssignedOK /\ input.left = {}
           /\ input.ambiguous = {} /\ input.unknown = {}
  BY DEF InputInv, BuildRequest, ErrorOK
<1>2. CASE input.schema["path"].has /\ PathField \notin Given("path")
  <2>1. InputFails("unresolved")
    BY <1>2 DEF BuildRequest
  <2>. QED  BY <1>1, <1>2, <2>1, InputFailsKeeps DEF Errors
<1>3. CASE ~(input.schema["path"].has /\ PathField \notin Given("path"))
  <2>1. input' = [input EXCEPT !.pc = "done", !.sent = TRUE]
    BY <1>3 DEF BuildRequest
  <2>2. /\ input' \in InputSet /\ input'.pc = "done" /\ input'.sent
        /\ input'.error = "none" /\ input'.schema = input.schema
        /\ ~input'.reserved /\ input'.sectioned = input.sectioned
        /\ input'.left = input.left
        /\ input'.flat = input.flat /\ input'.fields = input.fields
        /\ input'.ambiguous = input.ambiguous /\ input'.unknown = input.unknown
    BY <1>1, <2>1 DEF InputSet, InputPCs
  <2>3. InputSet' = InputSet /\ (HasSchema' <=> HasSchema)
    BY <2>2, SameSchema DEF InputSet
  <2>4. AssignedOK' <=> AssignedOK
    BY <2>2, SameSchema DEF AssignedOK, Given
  <2>5. NothingLacks'
    BY <1>1, <2>2 DEF NothingLacks, Lacks, Given
  <2>6. input'.schema["path"].has => PathField \in Given("path")'
    BY <1>3, <2>2 DEF Given
  <2>. QED  BY <1>1, <2>2, <2>3, <2>4, <2>5, <2>6 DEF InputInv, ErrorOK
<1>. QED  BY <1>2, <1>3

LEMMA InputKeeps == InputInv /\ [InputNext]_input => InputInv'
<1>. SUFFICES ASSUME InputInv, [InputNext]_input  PROVE InputInv'
  OBVIOUS
<1>1. CASE UNCHANGED input
  <2>1. InputSet' = InputSet /\ (HasSchema' <=> HasSchema)
    BY <1>1, SameSchema DEF InputSet
  <2>2. AssignedOK' <=> AssignedOK
    BY <1>1, SameSchema DEF AssignedOK, Given
  <2>3. NothingLacks' <=> NothingLacks
    BY <1>1 DEF NothingLacks, Lacks, Given
  <2>. QED  BY <1>1, <2>1, <2>2, <2>3 DEF InputInv, Given
<1>. QED  BY <1>1, SplitKeeps, AssignKeeps, FinishKeeps, ValidateKeeps, BuildKeeps
          DEF InputNext

LEMMA InputInvGives == InputInv => RequestIsAsGiven
<1>. SUFFICES ASSUME InputInv  PROVE RequestIsAsGiven
  OBVIOUS
<1>1. input \in InputSet /\ SchemaOK(input.schema)
      /\ input.left \subseteq DOMAIN input.flat
  BY DEF InputInv
<1>2. InputTypeOK
  BY <1>1 DEF InputTypeOK, InputSet, InputPCs, Errors
<1>3. ASSUME input.pc = "done", ~input.sectioned, HasSchema, ~input.reserved
      PROVE  /\ input.left = {} /\ ErrorOK(input)
             /\ \A s \in Sections : \A f \in Fields :
                  f \in Given(s) <=> f \in DOMAIN input.flat /\ s \in Home(f)
             /\ \A s \in Sections : \A f \in Given(s) :
                  input.fields[s][f] = input.flat[f]
             /\ input.ambiguous = {f \in DOMAIN input.flat : Cardinality(Named(f)) > 1}
             /\ input.unknown = {f \in DOMAIN input.flat : Named(f) = {} /\ ~LooseBody}
  <2>1. AssignedOK /\ input.left = {} /\ ErrorOK(input)
    BY <1>3 DEF InputInv
  <2>2. DOMAIN input.flat \ input.left = DOMAIN input.flat
    BY <2>1
  <2>. QED  BY <2>1, <2>2 DEF AssignedOK
<1>4. DOMAIN input.flat \in SUBSET Fields
      /\ \A s \in Sections : DOMAIN input.fields[s] \in SUBSET Fields
  BY <1>1, ObjectIs DEF InputSet
<1>5. FlatMeansOneThing
  <2>. SUFFICES ASSUME input.pc = "done", ~input.sectioned, HasSchema
                PROVE  /\ input.error = "ambiguous" <=>
                            /\ ~input.reserved
                            /\ \E f \in DOMAIN input.flat : Cardinality(Named(f)) > 1
                       /\ input.sent =>
                            \A f \in DOMAIN input.flat :
                              LET home == {s \in Sections : f \in Given(s)}
                              IN  /\ home = IF Named(f) # {} THEN Named(f) ELSE {"body"}
                                  /\ \A s \in home : input.fields[s][f] = input.flat[f]
    BY DEF FlatMeansOneThing
  <2>1. input.reserved => input.error = "reserved"
    BY DEF InputInv
  <2>2. CASE input.reserved
    BY <2>1, <2>2 DEF InputInv
  <2>3. CASE ~input.reserved
    <3>1. input.error = "ambiguous" <=>
            \E f \in DOMAIN input.flat : Cardinality(Named(f)) > 1
      BY <1>3, <2>3 DEF ErrorOK
    <3>2. ASSUME input.sent, NEW f \in DOMAIN input.flat
          PROVE  /\ {s \in Sections : f \in Given(s)} =
                      IF Named(f) # {} THEN Named(f) ELSE {"body"}
                 /\ \A s \in Sections : f \in Given(s) =>
                      input.fields[s][f] = input.flat[f]
      <4>1. input.ambiguous = {} /\ input.unknown = {}
        BY <1>3, <2>3, <3>2 DEF InputInv, ErrorOK
      <4>2. ~(Cardinality(Named(f)) > 1) /\ (Named(f) = {} => LooseBody)
        BY <1>3, <2>3, <4>1
      <4>3. Named(f) # {} => Cardinality(Named(f)) = 1
        BY <4>2, NamedIs
      <4>4. Home(f) = (IF Named(f) # {} THEN Named(f) ELSE {"body"})
            /\ Home(f) \subseteq Sections
        <5>1. CASE Named(f) # {}
          BY <4>3, <5>1, NamedIs DEF Home
        <5>2. CASE Named(f) = {}
          <6>1. Cardinality(Named(f)) # 1
            BY <5>2, NamedIs
          <6>. QED  BY <4>2, <5>2, <6>1 DEF Home, Sections
        <5>. QED  BY <5>1, <5>2
      <4>5. {s \in Sections : f \in Given(s)} = Home(f)
        BY <1>3, <1>4, <2>3, <4>4
      <4>. QED  BY <1>3, <2>3, <4>4, <4>5
    <3>. QED  BY <2>3, <3>1, <3>2
  <2>. QED  BY <2>2, <2>3
<1>6. ASSUME NEW s \in Sections, NEW f \in Given(s), ~Lacks(s, f)
      PROVE  input.fields[s][f] = "value"
  <2>1. input.fields[s] \in ObjectSet
    BY <1>1 DEF InputSet
  <2>. QED  BY <1>6, <2>1, ObjectIs DEF Lacks, Given
<1>7. SentIsComplete
  <2>. SUFFICES ASSUME input.sent
                PROVE  /\ \A s \in Sections : \A f \in input.schema[s].required :
                            f \in Given(s) /\ input.fields[s][f] = "value"
                       /\ input.schema["path"].has =>
                            input.fields["path"][PathField] = "value"
    BY DEF SentIsComplete
  <2>1. NothingLacks
    BY DEF InputInv
  <2>2. \A s \in Sections : \A f \in input.schema[s].required :
          f \in Given(s) /\ input.fields[s][f] = "value"
    BY <1>6, <2>1 DEF NothingLacks, Lacks
  <2>3. input.schema["path"].has => PathField \in input.schema["path"].required
    BY <1>1 DEF SchemaOK
  <2>. QED  BY <2>2, <2>3 DEF Sections
<1>8. BodyTakesAll
  <2>. SUFFICES ASSUME input.schema["body"].has, ~input.reserved, ~input.sectioned,
                       ~input.schema["path"].has, ~input.schema["query"].has,
                       input.pc = "done"
                PROVE  /\ input.error \in {"none", "missing"}
                       /\ input.sent => input.fields["body"] = input.flat
    BY DEF BodyTakesAll
  <2>1. HasSchema /\ LooseBody
    BY DEF HasSchema, LooseBody, Sections
  <2>2. \A f : "path" \notin Named(f) /\ "query" \notin Named(f)
    BY <1>1 DEF SchemaOK, Named, Sections
  <2>3. \A f : Named(f) \subseteq {"body"}
    BY <2>2 DEF Named, Sections
  <2>4. \A f : Named(f) = {} \/ Named(f) = {"body"}
    BY <2>3
  <2>5. \A f : Home(f) = {"body"} /\ ~(Cardinality(Named(f)) > 1)
    <3>. TAKE f
    <3>1. Cardinality({"body"}) = 1
      BY FS_Singleton
    <3>2. CASE Named(f) = {}
      <4>1. Cardinality(Named(f)) = 0
        BY <3>2, NamedIs
      <4>. QED  BY <2>1, <3>2, <4>1 DEF Home
    <3>3. CASE Named(f) = {"body"}
      BY <3>1, <3>3 DEF Home
    <3>. QED  BY <2>4, <3>2, <3>3
  <2>6. input.ambiguous = {} /\ input.unknown = {}
    BY <1>3, <2>1, <2>5
  <2>7. input.error \notin {"ambiguous", "unknown"}
    BY <1>3, <2>1, <2>6 DEF ErrorOK
  <2>8. input.error # "reserved" /\ input.error # "unresolved"
    BY <2>1 DEF InputInv
  <2>9. input.error \in {"none", "missing"}
    BY <1>1, <2>7, <2>8 DEF InputSet, Errors
  <2>10. input.fields["body"] = input.flat
    <3>1. /\ "body" \in Sections /\ input.fields["body"] \in ObjectSet
          /\ input.flat \in ObjectSet
      BY <1>1 DEF Sections, InputSet
    <3>2. DOMAIN input.fields["body"] = DOMAIN input.flat
      BY <1>3, <1>4, <2>1, <2>5, <3>1 DEF Given
    <3>3. \A f \in DOMAIN input.flat : input.fields["body"][f] = input.flat[f]
      BY <1>3, <2>1, <3>1, <3>2 DEF Given
    <3>4. /\ input.flat = [f \in DOMAIN input.flat |-> input.flat[f]]
          /\ input.fields["body"] =
               [f \in DOMAIN input.fields["body"] |-> input.fields["body"][f]]
      BY <3>1, ObjectIs
    <3>. QED  BY <3>2, <3>3, <3>4
  <2>. QED  BY <2>9, <2>10
<1>. QED  BY <1>2, <1>5, <1>7, <1>8 DEF RequestIsAsGiven

-----------------------------------------------------------------------------
(* The size an envelope announces                                          *)

-----------------------------------------------------------------------------
(* The number of digits                                                     *)

CountStep(g, n) == IF n < 10 THEN 1 ELSE 1 + g[n \div 10]
CountFcns(n) == {g \in [0..n -> Nat] : \A k \in 0..n : g[k] = CountStep(g, k)}

LEMMA Tenth ==
  ASSUME NEW n \in Nat
  PROVE  /\ n \div 10 \in Nat /\ 10 * (n \div 10) <= n /\ n < 10 * (n \div 10) + 10
         /\ n >= 10 => n \div 10 < n /\ n \div 10 >= 1
OBVIOUS

LEMMA CountFcnsExist == \A n \in Nat : CountFcns(n) # {}
<1>. DEFINE Bad == {n \in Nat : CountFcns(n) = {}}
<1>. SUFFICES ASSUME Bad # {}  PROVE FALSE
  OBVIOUS
<1>1. PICK n \in Bad : \A k \in Bad : n <= k
  BY Least
<1>2. CASE n = 0
  <2>. DEFINE g == [k \in 0..0 |-> 1]
  <2>1. g \in [0..0 -> Nat] /\ \A k \in 0..0 : g[k] = CountStep(g, k)
    BY DEF CountStep
  <2>. QED  BY <1>1, <1>2, <2>1 DEF CountFcns
<1>3. CASE n # 0
  <2>1. n \in Nat /\ n - 1 \in Nat /\ n - 1 \notin Bad
    BY <1>1, <1>3
  <2>2. PICK g : g \in [0..(n - 1) -> Nat] /\ \A k \in 0..(n - 1) : g[k] = CountStep(g, k)
    BY <2>1 DEF CountFcns
  <2>. DEFINE h == [k \in 0..n |-> CountStep(g, k)]
  <2>3. ASSUME NEW k \in 0..n  PROVE h[k] \in Nat /\ h[k] = CountStep(h, k)
    <3>1. h[k] = CountStep(g, k)
      OBVIOUS
    <3>2. CASE k < 10
      BY <3>1, <3>2 DEF CountStep
    <3>3. CASE ~(k < 10)
      <4>1. k \div 10 \in 0..(n - 1) /\ k \div 10 \in 0..n
        BY <2>1, <3>3, Tenth
      <4>2. h[k \div 10] = g[k \div 10] /\ g[k \div 10] \in Nat
        BY <2>2, <4>1
      <4>. HIDE DEF h
      <4>. QED  BY <3>1, <3>3, <4>2 DEF CountStep
    <3>. QED  BY <3>2, <3>3
  <2>4. h \in [0..n -> Nat]
    BY <2>3
  <2>. QED  BY <1>1, <2>3, <2>4 DEF CountFcns
<1>. QED  BY <1>2, <1>3

LEMMA CountFcnsAgree ==
  ASSUME NEW m \in Nat, NEW n \in Nat, NEW g \in CountFcns(m), NEW h \in CountFcns(n),
         NEW i \in Nat, i <= m, i <= n
  PROVE  g[i] = h[i]
<1>. DEFINE Bad == {k \in Nat : k <= m /\ k <= n /\ g[k] # h[k]}
<1>. SUFFICES ASSUME Bad # {}  PROVE FALSE
  OBVIOUS
<1>1. PICK k \in Bad : \A l \in Bad : k <= l
  BY Least
<1>2. g[k] = CountStep(g, k) /\ h[k] = CountStep(h, k)
  BY <1>1 DEF CountFcns
<1>3. CASE k < 10
  BY <1>1, <1>2, <1>3 DEF CountStep
<1>4. CASE ~(k < 10)
  <2>1. k \in Nat /\ k \div 10 \in Nat /\ k \div 10 < k
    BY <1>1, <1>4, Tenth
  <2>2. k \div 10 <= m /\ k \div 10 <= n /\ k \div 10 \notin Bad
    BY <1>1, <2>1
  <2>3. g[k \div 10] = h[k \div 10]
    BY <2>1, <2>2
  <2>. QED  BY <1>1, <1>2, <1>4, <2>3 DEF CountStep
<1>. QED  BY <1>3, <1>4

LEMMA DigitCountIs ==
  \A n \in Nat : /\ Digits(n) \in Nat
                 /\ Digits(n) = IF n < 10 THEN 1 ELSE 1 + Digits(n \div 10)
<1>. DEFINE F == [n \in Nat |-> (CHOOSE g : g \in CountFcns(n))[n]]
            IsCount(f) == f = [n \in Nat |-> IF n < 10 THEN 1 ELSE 1 + f[n \div 10]]
<1>1. ASSUME NEW n \in Nat
      PROVE  F[n] \in Nat /\ F[n] = CountStep(F, n)
  <2>1. PICK g : g = (CHOOSE h : h \in CountFcns(n)) /\ g \in CountFcns(n)
    BY CountFcnsExist
  <2>2. F[n] = g[n] /\ n \in 0..n
    BY <2>1
  <2>3. g[n] = CountStep(g, n) /\ g[n] \in Nat
    BY <2>1, <2>2 DEF CountFcns
  <2>4. ASSUME ~(n < 10)  PROVE g[n \div 10] = F[n \div 10]
    <3>1. n \div 10 \in Nat /\ n \div 10 <= n
      BY <2>4, Tenth
    <3>2. PICK h : /\ h = (CHOOSE f : f \in CountFcns(n \div 10))
                   /\ h \in CountFcns(n \div 10)
      BY <3>1, CountFcnsExist
    <3>3. n \div 10 <= n \div 10
      BY <3>1
    <3>4. g[n \div 10] = h[n \div 10]
      BY <2>1, <3>1, <3>2, <3>3, CountFcnsAgree
    <3>. QED  BY <3>1, <3>2, <3>4
  <2>. HIDE DEF F
  <2>. QED  BY <2>2, <2>3, <2>4 DEF CountStep
<1>2. F = [n \in Nat |-> F[n]]
  OBVIOUS
<1>. HIDE DEF F
<1>3. IsCount(CHOOSE f : IsCount(f))
  <2>1. IsCount(F)
    BY <1>1, <1>2 DEF CountStep
  <2>. QED  BY <2>1
<1>4. DigitCount = (CHOOSE f : IsCount(f))
  BY DEF DigitCount
<1>5. IsCount(DigitCount)
  BY <1>3, <1>4
<1>6. \A n \in Nat : DigitCount[n] = CountStep(DigitCount, n)
  BY <1>5 DEF CountStep
<1>7. ASSUME NEW n \in Nat  PROVE DigitCount[n] \in Nat
  <2>. DEFINE Bad == {k \in Nat : DigitCount[k] \notin Nat}
  <2>. SUFFICES ASSUME Bad # {}  PROVE FALSE
    OBVIOUS
  <2>1. PICK k \in Bad : \A l \in Bad : k <= l
    BY Least
  <2>2. CASE k < 10
    BY <1>6, <2>1, <2>2 DEF CountStep
  <2>3. CASE ~(k < 10)
    <3>1. k \in Nat /\ k \div 10 \in Nat /\ k \div 10 < k
      BY <2>1, <2>3, Tenth
    <3>2. k \div 10 \notin Bad
      BY <2>1, <3>1
    <3>3. DigitCount[k \div 10] \in Nat
      BY <3>1, <3>2
    <3>. QED  BY <1>6, <2>1, <2>3, <3>3 DEF CountStep
  <2>. QED  BY <2>2, <2>3
<1>. QED  BY <1>6, <1>7 DEF Digits, CountStep

\* It is at least one, at most the number itself, does not shrink when the number
\* grows, and grows by one at most when the number gets up to ten times as large.
LEMMA DigitsGrow ==
  ASSUME NEW m \in Nat, NEW n \in Nat, m <= n
  PROVE  Digits(m) <= Digits(n)
<1>. DEFINE Bad == {k \in Nat : \E l \in Nat : l <= k /\ ~(Digits(l) <= Digits(k))}
<1>. SUFFICES ASSUME Bad # {}  PROVE FALSE
  OBVIOUS
<1>1. PICK k \in Bad : \A l \in Bad : k <= l
  BY Least
<1>2. PICK l \in Nat : l <= k /\ ~(Digits(l) <= Digits(k))
  BY <1>1
<1>3. k \in Nat /\ Digits(k) \in Nat /\ Digits(l) \in Nat
  BY <1>1, DigitCountIs
<1>4. CASE l < 10
  <2>1. Digits(l) = 1 /\ (k < 10 => Digits(k) = 1)
    BY <1>3, <1>4, DigitCountIs
  <2>2. k >= 10 => Digits(k) = 1 + Digits(k \div 10) /\ Digits(k \div 10) \in Nat
    BY <1>3, DigitCountIs, Tenth
  <2>. QED  BY <1>2, <1>3, <2>1, <2>2
<1>5. CASE l >= 10
  <2>1. /\ k >= 10 /\ k \div 10 \in Nat /\ l \div 10 \in Nat
        /\ l \div 10 <= k \div 10 /\ k \div 10 < k
    BY <1>2, <1>3, <1>5, Tenth
  <2>2. k \div 10 \notin Bad
    BY <1>1, <1>3, <2>1
  <2>3. Digits(l \div 10) <= Digits(k \div 10)
    BY <2>1, <2>2
  <2>4. /\ Digits(l) = 1 + Digits(l \div 10) /\ Digits(k) = 1 + Digits(k \div 10)
        /\ Digits(l \div 10) \in Nat /\ Digits(k \div 10) \in Nat
    BY <1>3, <1>5, <2>1, DigitCountIs
  <2>. QED  BY <1>2, <2>3, <2>4
<1>. QED  BY <1>3, <1>4, <1>5

LEMMA DigitsAre ==
  ASSUME NEW m \in Nat, NEW n \in Nat
  PROVE  /\ Digits(n) \in Nat /\ Digits(n) >= 1
         /\ m <= n => Digits(m) <= Digits(n)
         /\ n <= 10 * m + 9 => Digits(n) <= Digits(m) + 1
         /\ n >= 1 => Digits(n) <= n
<1>1. \A k \in Nat : Digits(k) \in Nat /\ Digits(k) >= 1
  <2>. TAKE k \in Nat
  <2>1. k \div 10 \in Nat
    BY Tenth
  <2>. QED  BY <2>1, DigitCountIs
<1>2. n <= 10 * m + 9 => Digits(n) <= Digits(m) + 1
  <2>. SUFFICES ASSUME n <= 10 * m + 9  PROVE Digits(n) <= Digits(m) + 1
    OBVIOUS
  <2>1. CASE n < 10
    BY <1>1, <2>1, DigitCountIs
  <2>2. CASE n >= 10
    <3>1. n \div 10 \in Nat /\ n \div 10 <= m
      BY Tenth
    <3>2. Digits(n \div 10) <= Digits(m)
      BY <3>1, DigitsGrow
    <3>3. Digits(n) = 1 + Digits(n \div 10)
      BY <2>2, DigitCountIs
    <3>. QED  BY <1>1, <3>1, <3>2, <3>3
  <2>. QED  BY <2>1, <2>2
<1>3. n >= 1 => Digits(n) <= n
  <2>. DEFINE Bad == {k \in Nat : k >= 1 /\ ~(Digits(k) <= k)}
  <2>. SUFFICES ASSUME Bad # {}  PROVE FALSE
    OBVIOUS
  <2>1. PICK k \in Bad : \A l \in Bad : k <= l
    BY Least
  <2>2. k >= 10
    BY <1>1, <2>1, DigitCountIs
  <2>3. k \div 10 \in Nat /\ k \div 10 < k /\ k \div 10 >= 1
    BY <2>1, <2>2, Tenth
  <2>4. k \div 10 \notin Bad
    BY <2>1, <2>3
  <2>5. Digits(k \div 10) <= k \div 10
    BY <2>3, <2>4
  <2>6. Digits(k) = 1 + Digits(k \div 10)
    BY <2>1, <2>2, DigitCountIs
  <2>. QED  BY <1>1, <2>1, <2>3, <2>5, <2>6
<1>. QED  BY <1>1, <1>2, <1>3, DigitsGrow

-----------------------------------------------------------------------------
(* Passes and rounds                                                        *)

\* The length with an announced size a but for the digits of the total; what the
\* first and the second pass then count, and what a third finds again.
SizeBase(body, a) == body + IF a = Unsized THEN 0 ELSE Label + Digits(a)
SizeFirst(body, a) == SizeBase(body, a) + Digits(a)
SizeSecond(body, a) == SizeBase(body, a) + Digits(SizeFirst(body, a))
SizeFinal(body, a) ==
  IF Digits(SizeSecond(body, a)) = Digits(SizeFirst(body, a)) THEN SizeSecond(body, a)
  ELSE SizeSecond(body, a) + 1

\* Where an announced size comes from: the first is a total without a size, the
\* next ones a total with the size before, u.  Their digits grow by one at most
\* from the third on, and no more in the fourth.
Grown(body, a, u) == u >= 1 /\ u <= a /\ a = body + Label + Digits(u) + Digits(a)
RoundOK(body, a, r) ==
  \/ r = 0 /\ a = Unsized
  \/ r = 1 /\ a = body + Digits(a)
  \/ r = 2 /\ \E u \in Nat : Grown(body, a, u)
  \/ r = 3 /\ \E u \in Nat : /\ Grown(body, a, u) /\ body + Label + Digits(u) <= u
                             /\ Digits(a) <= Digits(u) + 1
  \/ r = 4 /\ a = body + Label + 2 * Digits(a)

LEMMA BaseIs ==
  ASSUME NEW b \in Nat, NEW a \in Nat
  PROVE  /\ Label \in Nat /\ SizeBase(b, a) \in Nat /\ SizeFirst(b, a) \in Nat
         /\ Digits(a) \in Nat /\ Digits(a) >= 1
         /\ a = 0 => SizeBase(b, a) = b
         /\ a # 0 => SizeBase(b, a) = b + Label + Digits(a)
         /\ SizeFirst(b, a) = SizeBase(b, a) + Digits(a) /\ SizeFirst(b, a) >= 1
<1>1. Label \in Nat /\ Digits(a) \in Nat /\ Digits(a) >= 1
  BY DigitsAre, EnvelopeSizeAssumption DEF EnvelopeSizeAssumption
<1>. DEFINE c == SizeBase(b, a)
<1>2. /\ c \in Nat /\ (a = 0 => c = b) /\ (a # 0 => c = b + Label + Digits(a))
  BY <1>1 DEF SizeBase, Unsized
<1>. HIDE DEF c
<1>3. c + Digits(a) \in Nat /\ c + Digits(a) >= 1
  BY <1>1, <1>2
<1>. QED  BY <1>1, <1>2, <1>3 DEF SizeFirst, c

\* Three passes are enough.
LEMMA PassesSettle ==
  ASSUME NEW b \in Nat, NEW a \in Nat, a <= SizeFirst(b, a)
  PROVE  /\ SizeSecond(b, a) = SizeBase(b, a) + Digits(SizeFirst(b, a))
         /\ SizeSecond(b, a) \in Nat /\ SizeFinal(b, a) \in Nat
         /\ SizeFirst(b, a) <= SizeSecond(b, a) /\ SizeSecond(b, a) <= SizeFinal(b, a)
         /\ SizeFinal(b, a) <= SizeSecond(b, a) + 1
         /\ Digits(SizeSecond(b, a)) = Digits(SizeFirst(b, a)) => SizeFinal(b, a) = SizeSecond(b, a)
         /\ SizeBase(b, a) + Digits(SizeSecond(b, a)) = SizeFinal(b, a)
         /\ SizeBase(b, a) + Digits(SizeFinal(b, a)) = SizeFinal(b, a)
<1>. DEFINE c == SizeBase(b, a)
            f == SizeFirst(b, a)
            s == SizeSecond(b, a)
            t == SizeFinal(b, a)
<1>1. c \in Nat /\ f \in Nat /\ f = c + Digits(a) /\ a <= f /\ f >= 1
  BY BaseIs
<1>2. Digits(a) \in Nat /\ Digits(f) \in Nat /\ Digits(a) <= Digits(f) /\ Digits(f) <= f
  BY <1>1, DigitsAre
<1>3. s = c + Digits(f)
  BY DEF SizeSecond
<1>4. t = IF Digits(s) = Digits(f) THEN s ELSE s + 1
  BY DEF SizeFinal
<1>. HIDE DEF c, f, s, t
<1>5. s \in Nat /\ f <= s /\ s <= 10 * f + 9
  BY <1>1, <1>2, <1>3
<1>6. /\ Digits(s) \in Nat /\ Digits(f) <= Digits(s)
      /\ Digits(s) <= Digits(f) + 1
  BY <1>1, <1>5, DigitsAre
<1>7. t \in Nat /\ s <= t /\ t <= s + 1 /\ c + Digits(s) = t
  BY <1>1, <1>2, <1>3, <1>4, <1>5, <1>6
<1>8. CASE Digits(s) = Digits(f)
  <2>1. t = s
    BY <1>4, <1>8
  <2>. QED  BY <1>3, <1>5, <1>7, <1>8, <2>1 DEF c, f, s, t
<1>9. CASE Digits(s) # Digits(f)
  <2>1. Digits(s) = Digits(f) + 1
    BY <1>2, <1>6, <1>9
  <2>2. t <= 10 * f + 9
    BY <1>1, <1>2, <1>3, <1>5, <1>7
  <2>3. /\ Digits(t) \in Nat /\ Digits(s) <= Digits(t) /\ Digits(t) <= Digits(f) + 1
    BY <1>1, <1>5, <1>7, <2>2, DigitsAre
  <2>4. Digits(t) = Digits(s)
    BY <1>2, <1>6, <2>1, <2>3
  <2>. QED  BY <1>3, <1>5, <1>7, <1>9, <2>4 DEF c, f, s, t
<1>. QED  BY <1>8, <1>9

LEMMA RoundGrows ==
  ASSUME NEW b \in Nat, NEW a \in Nat, NEW r \in Nat, RoundOK(b, a, r)
  PROVE  /\ a <= SizeFirst(b, a) /\ r <= 4
         /\ r # 0 => a >= 1
<1>. DEFINE f == SizeFirst(b, a)
            c == SizeBase(b, a)
<1>1. /\ Label \in Nat /\ c \in Nat /\ f \in Nat /\ f = c + Digits(a)
      /\ a # 0 => c = b + Label + Digits(a)
      /\ Digits(a) \in Nat /\ Digits(a) >= 1
  BY BaseIs
<1>. HIDE DEF f, c
<1>2. CASE r = 0 /\ a = Unsized
  BY <1>1, <1>2 DEF f, Unsized
<1>3. CASE r = 1 /\ a = b + Digits(a)
  BY <1>1, <1>3 DEF f
<1>4. ASSUME NEW u \in Nat, Grown(b, a, u), r \in {2, 3}
      PROVE  a <= f /\ a >= 1
  <2>1. u >= 1 /\ u <= a /\ a = b + Label + Digits(u) + Digits(a)
    BY <1>4 DEF Grown
  <2>2. Digits(u) \in Nat /\ Digits(u) <= Digits(a)
    BY <2>1, DigitsAre
  <2>. QED  BY <1>1, <2>1, <2>2
<1>5. CASE r = 4 /\ a = b + Label + 2 * Digits(a)
  BY <1>1, <1>5 DEF f
<1>. QED  BY <1>2, <1>3, <1>4, <1>5 DEF RoundOK, f

\* The size of a file settles after five encodings at most.
LEMMA RoundsSettle ==
  ASSUME NEW b \in Nat, NEW a \in Nat, NEW r \in Nat, RoundOK(b, a, r),
         SizeFinal(b, a) # a
  PROVE  RoundOK(b, SizeFinal(b, a), r + 1) /\ r < 4
<1>. DEFINE c == SizeBase(b, a)
            f == SizeFirst(b, a)
            s == SizeSecond(b, a)
            t == SizeFinal(b, a)
<1>1. /\ Label \in Nat /\ c \in Nat /\ f \in Nat /\ f = c + Digits(a)
      /\ a = 0 => c = b
      /\ a # 0 => c = b + Label + Digits(a)
      /\ Digits(a) \in Nat /\ Digits(a) >= 1
  BY BaseIs
<1>2. a <= f /\ r <= 4 /\ (r # 0 => a >= 1)
  BY RoundGrows
<1>3. /\ s = c + Digits(f) /\ s \in Nat /\ t \in Nat /\ f <= s /\ s <= t
      /\ t <= s + 1 /\ c + Digits(t) = t
      /\ Digits(s) = Digits(f) => t = s
  BY <1>2, PassesSettle
<1>4. t # a
  OBVIOUS
<1>. HIDE DEF c, f, s, t
<1>5. Digits(f) \in Nat /\ Digits(t) \in Nat /\ Digits(a) <= Digits(t) /\ a <= t
  <2>1. a <= t
    BY <1>1, <1>2, <1>3
  <2>. QED  BY <1>1, <1>3, <2>1, DigitsAre
<1>6. CASE r = 0 /\ a = Unsized
  <2>1. t = b + Digits(t)
    BY <1>1, <1>3, <1>6 DEF Unsized
  <2>. QED  BY <1>6, <2>1 DEF RoundOK, t
<1>7. CASE r = 1 /\ a = b + Digits(a)
  <2>1. Grown(b, t, a)
    BY <1>1, <1>2, <1>3, <1>5, <1>7 DEF Grown
  <2>. QED  BY <1>7, <2>1 DEF RoundOK, t
<1>8. CASE r = 2 /\ \E u \in Nat : Grown(b, a, u)
  <2>1. PICK u \in Nat : u >= 1 /\ u <= a /\ a = b + Label + Digits(u) + Digits(a)
    BY <1>8 DEF Grown
  <2>2. Digits(u) \in Nat
    BY DigitsAre
  <2>3. c = b + Label + Digits(a) /\ b + Label + Digits(a) <= a
    BY <1>1, <1>2, <1>8, <2>1, <2>2
  <2>4. Grown(b, t, a)
    BY <1>1, <1>2, <1>3, <1>5, <1>8, <2>3 DEF Grown
  <2>5. f <= 10 * a + 9 /\ Digits(a) <= a
    BY <1>1, <1>2, <1>8, <2>3, DigitsAre
  <2>6. Digits(f) <= Digits(a) + 1
    BY <1>1, <2>5, DigitsAre
  <2>7. t <= 10 * a + 9
    <3>1. t <= c + Digits(a) + 2
      BY <1>1, <1>3, <1>5, <2>6
    <3>. QED  BY <1>1, <1>2, <1>3, <1>8, <2>3, <2>5, <3>1
  <2>8. Digits(t) <= Digits(a) + 1
    BY <1>1, <1>3, <2>7, DigitsAre
  <2>. QED  BY <1>8, <2>3, <2>4, <2>8 DEF RoundOK, t
<1>9. CASE r = 3 /\ \E u \in Nat : /\ Grown(b, a, u) /\ b + Label + Digits(u) <= u
                                   /\ Digits(a) <= Digits(u) + 1
  <2>1. PICK u \in Nat : /\ u >= 1 /\ u <= a
                         /\ a = b + Label + Digits(u) + Digits(a)
                         /\ b + Label + Digits(u) <= u
                         /\ Digits(a) <= Digits(u) + 1
    BY <1>9 DEF Grown
  <2>2. Digits(u) \in Nat /\ Digits(u) <= Digits(a)
    BY <1>1, <2>1, DigitsAre
  <2>3. c = b + Label + Digits(a)
    BY <1>1, <1>2, <1>9
  <2>4. CASE Digits(a) = Digits(u)
    <3>1. f = a
      BY <1>1, <2>1, <2>2, <2>3, <2>4
    <3>2. s = a
      BY <1>1, <1>3, <2>1, <2>2, <2>3, <2>4, <3>1
    <3>. QED  BY <1>3, <1>4, <3>1, <3>2
  <2>5. CASE Digits(a) = Digits(u) + 1
    <3>1. f = a + 1 /\ f <= 10 * u + 9
      BY <1>1, <2>1, <2>2, <2>3, <2>5
    <3>2. Digits(f) <= Digits(a) /\ Digits(a) <= Digits(f)
      BY <1>1, <1>2, <2>2, <2>5, <3>1, DigitsAre
    <3>3. Digits(f) = Digits(a)
      BY <1>1, <1>5, <3>2
    <3>4. s = f
      BY <1>1, <1>3, <3>3
    <3>5. t = f /\ Digits(t) = Digits(a)
      BY <1>3, <3>3, <3>4
    <3>6. t = b + Label + 2 * Digits(t)
      BY <1>1, <2>3, <3>5
    <3>. QED  BY <1>9, <3>6 DEF RoundOK, t
  <2>. QED  BY <1>1, <2>1, <2>2, <2>4, <2>5
<1>10. CASE r = 4 /\ a = b + Label + 2 * Digits(a)
  <2>1. f = a
    BY <1>1, <1>2, <1>10
  <2>2. s = f
    BY <1>1, <1>3, <2>1
  <2>. QED  BY <1>3, <1>4, <2>1, <2>2
<1>. QED  BY <1>6, <1>7, <1>8, <1>9, <1>10 DEF RoundOK

-----------------------------------------------------------------------------
(* The state                                                                *)

SizingSet ==
  [pc : {"count", "encode", "done", "failed"}, file : BOOLEAN, body : Nat,
   total : Nat, announced : Nat, prev : Nat, pass : 0..Passes, round : 0..Rounds,
   written : Nat]

\* What a pass has found, and what is known of the size that is announced.
CountOK(s) ==
  /\ s.pc = "count" =>
       \/ s.pass = 0 /\ s.total = s.announced /\ s.prev = Unsized
       \/ s.pass = 1 /\ s.total = SizeFirst(s.body, s.announced) /\ s.prev = s.total
       \/ s.pass = 2 /\ s.total = SizeSecond(s.body, s.announced) /\ s.prev = s.total
  /\ s.pc = "encode" => s.file /\ s.total = SizeFinal(s.body, s.announced)
  /\ s.pc \in {"count", "encode"} =>
       RoundOK(s.body, s.announced, s.round) /\ s.written = 0

SizeInv ==
  sizing \in SizingSet /\ CountOK(sizing) /\ AnnouncedIsActual /\ SizeSettles

LEMMA SizeStarts == SizeInit \/ SizeIdle => SizeInv
<1>1. ASSUME NEW b \in Nat, NEW f \in BOOLEAN
      PROVE  EnvelopeOf(b, f) \in SizingSet /\ CountOK(EnvelopeOf(b, f))
  BY DEF EnvelopeOf, SizingSet, CountOK, RoundOK, Unsized, Passes, Rounds
<1>2. CASE SizeInit
  <2>1. PICK b \in Bodies, f \in BOOLEAN : sizing = EnvelopeOf(b, f)
    BY <1>2 DEF SizeInit
  <2>2. b \in Nat /\ sizing.written = 0 /\ sizing.pc = "count"
    BY <2>1, EnvelopeSizeAssumption DEF EnvelopeSizeAssumption, EnvelopeOf
  <2>3. sizing \in SizingSet /\ CountOK(sizing)
    BY <1>1, <2>1, <2>2
  <2>. QED  BY <2>2, <2>3 DEF SizeInv, AnnouncedIsActual, SizeSettles
<1>3. CASE SizeIdle
  <2>. DEFINE e == EnvelopeOf(0, FALSE)
  <2>1. e \in SizingSet /\ e.written = 0
    BY <1>1 DEF EnvelopeOf
  <2>2. sizing = [e EXCEPT !.pc = "done"]
    BY <1>3 DEF SizeIdle
  <2>. HIDE DEF e
  <2>3. sizing \in SizingSet /\ sizing.pc = "done" /\ sizing.written = 0
    BY <2>1, <2>2 DEF SizingSet
  <2>. QED  BY <2>3 DEF SizeInv, CountOK, AnnouncedIsActual, SizeSettles
<1>. QED  BY <1>2, <1>3

LEMMA LengthIs ==
  ASSUME NEW s \in SizingSet
  PROVE  Length(s) = SizeBase(s.body, s.announced) + Digits(s.total)
<1>1. /\ s.body \in Nat /\ s.total \in Nat /\ s.announced \in Nat
  BY DEF SizingSet
<1>2. /\ Label \in Nat /\ Digits(s.total) \in Nat /\ Digits(s.announced) \in Nat
  BY <1>1, BaseIs
<1>. QED  BY <1>1, <1>2 DEF Length, SizeBase

LEMMA CountKeeps ==
  ASSUME SizeInv, CountBytes
  PROVE  SizeInv'
<1>. DEFINE b == sizing.body
            a == sizing.announced
            size == Length(sizing)
            next == [sizing EXCEPT !.total = size, !.prev = size, !.pass = @ + 1]
<1>1. /\ sizing \in SizingSet /\ sizing.pc = "count" /\ b \in Nat /\ a \in Nat
      /\ sizing.round \in Nat /\ RoundOK(b, a, sizing.round)
      /\ sizing.written = 0 /\ sizing.pass \in 0..2
  BY DEF SizeInv, CountOK, CountBytes, SizingSet, Rounds
<1>2. /\ a <= SizeFirst(b, a) /\ SizeFirst(b, a) \in Nat /\ SizeFirst(b, a) >= 1
      /\ SizeFirst(b, a) = SizeBase(b, a) + Digits(a)
  BY <1>1, RoundGrows, BaseIs
<1>3. /\ SizeSecond(b, a) \in Nat /\ SizeFinal(b, a) \in Nat
      /\ SizeSecond(b, a) = SizeBase(b, a) + Digits(SizeFirst(b, a))
      /\ SizeFirst(b, a) <= SizeSecond(b, a)
      /\ SizeSecond(b, a) <= SizeFinal(b, a)
      /\ Digits(SizeSecond(b, a)) = Digits(SizeFirst(b, a)) => SizeFinal(b, a) = SizeSecond(b, a)
      /\ SizeBase(b, a) + Digits(SizeSecond(b, a)) = SizeFinal(b, a)
      /\ SizeBase(b, a) + Digits(SizeFinal(b, a)) = SizeFinal(b, a)
  BY <1>1, <1>2, PassesSettle
<1>4. \/ sizing.pass = 0 /\ sizing.prev = 0 /\ size = SizeFirst(b, a)
      \/ sizing.pass = 1 /\ sizing.prev = SizeFirst(b, a) /\ size = SizeSecond(b, a)
      \/ sizing.pass = 2 /\ sizing.prev = SizeSecond(b, a) /\ size = SizeFinal(b, a)
  BY <1>1, <1>2, <1>3, LengthIs DEF SizeInv, CountOK, Unsized
<1>5. size \in Nat /\ size >= 1
  BY <1>2, <1>3, <1>4
<1>6. LastPass(size) => size = SizeFinal(b, a)
  BY <1>1, <1>2, <1>3, <1>4, <1>5 DEF LastPass, Passes
<1>7. ~LastPass(size) => \/ sizing.pass = 0 /\ size = SizeFirst(b, a)
                         \/ sizing.pass = 1 /\ size = SizeSecond(b, a)
  BY <1>1, <1>4 DEF LastPass, Passes
<1>8. sizing' = IF ~LastPass(size) THEN next
                ELSE IF sizing.file THEN [next EXCEPT !.pc = "encode"]
                ELSE [next EXCEPT !.pc = "done", !.written = Length(next)]
  BY DEF CountBytes
<1>. HIDE DEF size
<1>13. sizing.pass + 1 \in 0..Passes
  BY <1>1 DEF Passes
<1>9. /\ next \in SizingSet /\ next.body = b /\ next.announced = a
      /\ next.total = size /\ next.prev = size /\ next.pass = sizing.pass + 1
      /\ next.pc = "count" /\ next.file = sizing.file /\ next.written = 0
      /\ next.round = sizing.round
  BY <1>1, <1>5, <1>13 DEF SizingSet
<1>. HIDE DEF next, b, a
<1>10. CASE ~LastPass(size)
  <2>1. sizing' = next
    BY <1>8, <1>10
  <2>2. CountOK(next)
    BY <1>1, <1>7, <1>9, <1>10 DEF CountOK
  <2>. QED  BY <1>9, <2>1, <2>2 DEF SizeInv, AnnouncedIsActual, SizeSettles
<1>11. CASE LastPass(size) /\ sizing.file
  <2>1. sizing' = [next EXCEPT !.pc = "encode"]
    BY <1>8, <1>11
  <2>2. sizing' \in SizingSet
    BY <1>9, <2>1 DEF SizingSet
  <2>3. /\ sizing'.pc = "encode" /\ sizing'.body = b /\ sizing'.announced = a
        /\ sizing'.file = sizing.file /\ sizing'.round = sizing.round
        /\ sizing'.total = size /\ sizing'.written = 0
    BY <1>9, <2>1 DEF SizingSet
  <2>4. CountOK(sizing')
    BY <1>1, <1>6, <1>11, <2>3 DEF CountOK
  <2>. QED  BY <2>2, <2>3, <2>4 DEF SizeInv, AnnouncedIsActual, SizeSettles
<1>12. CASE LastPass(size) /\ ~sizing.file
  <2>1. Length(next) = size
    BY <1>3, <1>6, <1>9, <1>12, LengthIs
  <2>2. sizing' = [next EXCEPT !.pc = "done", !.written = size]
    BY <1>8, <1>12, <2>1
  <2>3. sizing' \in SizingSet
    BY <1>5, <1>9, <2>2 DEF SizingSet
  <2>4. /\ sizing'.pc = "done" /\ ~sizing'.file /\ sizing'.total = size
        /\ sizing'.written = size
    BY <1>9, <1>12, <2>2 DEF SizingSet
  <2>. QED  BY <2>3, <2>4 DEF SizeInv, CountOK, AnnouncedIsActual, SizeSettles
<1>. QED  BY <1>10, <1>11, <1>12

LEMMA EncodeKeeps ==
  ASSUME SizeInv, EncodeFile
  PROVE  SizeInv'
<1>. DEFINE b == sizing.body
            a == sizing.announced
            r == sizing.round
            size == Length(sizing)
<1>1. /\ sizing \in SizingSet /\ sizing.pc = "encode" /\ b \in Nat /\ a \in Nat
      /\ r \in Nat /\ RoundOK(b, a, r) /\ sizing.file
      /\ sizing.written = 0 /\ sizing.total = SizeFinal(b, a)
  BY DEF SizeInv, CountOK, EncodeFile, SizingSet, Rounds
<1>2. a <= SizeFirst(b, a) /\ r <= 4
  BY <1>1, RoundGrows
<1>3. /\ SizeFinal(b, a) \in Nat
      /\ SizeBase(b, a) + Digits(SizeFinal(b, a)) = SizeFinal(b, a)
  BY <1>1, <1>2, PassesSettle
<1>4. size = SizeFinal(b, a) /\ size \in Nat
  BY <1>1, <1>3, LengthIs
<1>5. CASE size = a
  <2>1. sizing' = [sizing EXCEPT !.pc = "done", !.written = size]
    BY <1>5 DEF EncodeFile, Settled
  <2>. HIDE DEF size
  <2>2. sizing' \in SizingSet
    BY <1>1, <1>4, <2>1 DEF SizingSet
  <2>3. /\ sizing'.pc = "done" /\ sizing'.total = sizing.total
        /\ sizing'.announced = a /\ sizing'.written = size
    BY <1>1, <2>1 DEF SizingSet
  <2>. QED
    BY <1>1, <1>4, <1>5, <2>2, <2>3
    DEF SizeInv, CountOK, AnnouncedIsActual, SizeSettles
<1>6. CASE size # a
  <2>1. RoundOK(b, size, r + 1) /\ r < 4
    BY <1>1, <1>4, <1>6, RoundsSettle
  <2>2. r + 1 # Rounds /\ r + 1 \in 0..Rounds
    BY <1>1, <2>1 DEF Rounds
  <2>3. sizing' = [sizing EXCEPT !.announced = size, !.round = @ + 1,
                     !.prev = Unsized, !.pass = 0, !.pc = "count"]
    BY <1>6, <2>2 DEF EncodeFile, Settled
  <2>. HIDE DEF size
  <2>7. Unsized \in Nat /\ 0 \in 0..Passes /\ sizing.round + 1 \in 0..Rounds
    BY <2>2 DEF Passes, Unsized
  <2>4. sizing' \in SizingSet
    BY <1>1, <1>4, <2>3, <2>7 DEF SizingSet
  <2>5. /\ sizing'.pc = "count" /\ sizing'.total = sizing.total
        /\ sizing'.announced = size /\ sizing'.written = 0 /\ sizing'.body = b
        /\ sizing'.round = r + 1 /\ sizing'.pass = 0 /\ sizing'.prev = Unsized
    BY <1>1, <2>3 DEF SizingSet
  <2>6. CountOK(sizing')
    BY <1>1, <1>4, <2>1, <2>5 DEF CountOK
  <2>. QED
    BY <2>4, <2>5, <2>6 DEF SizeInv, AnnouncedIsActual, SizeSettles
<1>. QED  BY <1>5, <1>6

LEMMA SizeKeeps == SizeInv /\ [SizeNext]_sizing => SizeInv'
<1>. SUFFICES ASSUME SizeInv, [SizeNext]_sizing  PROVE SizeInv'
  OBVIOUS
<1>1. CASE UNCHANGED sizing
  BY <1>1 DEF SizeInv, AnnouncedIsActual, SizeSettles
<1>. QED  BY <1>1, CountKeeps, EncodeKeeps DEF SizeNext

LEMMA SizeInvGives == SizeInv => SizesAreTrue
BY DEF SizeInv, SizingSet, SizesAreTrue, SizeTypeOK

-----------------------------------------------------------------------------
(* The graph of an application                                             *)

\* What requests are made for, and what nodes there are.
Described ==
  {Root} \cup {Node("LogApp", a) : a \in LogApps}
         \cup {Node("TraceInstance", t) : t \in Traces}
Nodes ==
  {Root} \cup {Node(k, i) : k \in {"AppResource", "LogApp", "TraceInstance", "Topic"},
                            i \in LogApps \cup Traces \cup Topics}
Edges ==
  [from : Nodes, to : Nodes,
   relation : {"contains", "trace", "log", "metric", NoId, "own", "dependency"}]

WalkSet ==
  [pc : {"start", "app", "logapp", "finish", "done", "failed"},
   topicsOnly : BOOLEAN, dry : BOOLEAN, apps : Seq(LogApps \cup {NoId}),
   related : Seq(PlausibleRelated), from : LogApps \cup {NoId},
   type : {"LogApp", "other", NoId}, result : {"none", "plan", "graph", "topics"}]
GraphSet ==
  [nodes : SUBSET Nodes, edges : SUBSET Edges, logApps : Seq(LogApps),
   traces : Seq(Traces), topics : Seq(Topics)]
HeardSet ==
  [asked : Seq(Described), app : Seq(LogApps \cup {NoId}),
   related : Seq(Seq(PlausibleRelated)), trace : Seq(SUBSET (Topics \cup {NoId}))]

\* Every edge leads from a node of the graph to another.
Closed(g) == \A e \in g.edges : e.from \in g.nodes /\ e.to \in g.nodes

GraphShape ==
  /\ walk \in WalkSet /\ graph \in GraphSet /\ heard \in HeardSet
  /\ IsInjective(graph.topics) /\ Closed(graph)
  /\ DescribedOnce
  /\ Resolved => walk.pc = "done"

\* A resource that was looked at let the resolution go on, and a topic is listed.
Heeded(r) ==
  ~Unresolvable(r) /\ (r.type # "trace" => r.id \in Range(graph.topics))

TopicsHeard ==
  {r.id : r \in {q \in RelatedHeard : q.type # "trace"}} \cup UNION Range(heard.trace)

\* What is known while log applications are described: each request was for
\* something listed, each answer is in the graph or has yet to be looked at.
Exploring ==
  walk.pc = "logapp" =>
    /\ walk.type = "LogApp" /\ ~walk.dry /\ Root \in graph.nodes
    /\ Range(heard.asked) \subseteq
         {Root} \cup {Node("LogApp", a) : a \in Range(graph.logApps)}
                \cup {Node("TraceInstance", t) : t \in Range(graph.traces)}
    /\ Range(heard.app) = Range(graph.logApps) \cup Range(walk.apps)
    /\ walk.related # <<>> => Node("LogApp", walk.from) \in graph.nodes
    /\ Range(walk.related) \subseteq RelatedHeard
    /\ \A r \in RelatedHeard : r \in Range(walk.related) \/ Heeded(r)
    /\ Range(graph.topics) \subseteq TopicsHeard
    /\ \A own \in Range(heard.trace) : own \ {NoId} \subseteq Range(graph.topics)

GraphInv ==
  /\ GraphShape /\ Exploring
  /\ walk.pc \in {"start", "app"} =>
       heard = Unheard /\ graph = NoGraph /\ walk.related = <<>>
  /\ walk.pc = "app" => ~walk.dry
  /\ walk.pc = "finish" => walk.type = "other" /\ ~walk.dry /\ heard.related = <<>>
  /\ TopicsAreReachable /\ GraphIsClosed

LEMMA SeqOfIsSeq == ASSUME NEW S, NEW n \in Nat  PROVE SeqOf(S, n) \subseteq Seq(S)
BY SeqDef DEF SeqOf

LEMMA RangeIn == ASSUME NEW S, NEW s \in Seq(S)  PROVE Range(s) \subseteq S
BY DEF Range

LEMMA RangeOfAppend ==
  ASSUME NEW S, NEW s \in Seq(S), NEW x \in S
  PROVE  Append(s, x) \in Seq(S) /\ Range(Append(s, x)) = Range(s) \cup {x}
<1>1. /\ Append(s, x) \in Seq(S) /\ DOMAIN Append(s, x) = 1..(Len(s) + 1)
      /\ \A i \in 1..Len(s) : Append(s, x)[i] = s[i]
      /\ Append(s, x)[Len(s) + 1] = x
  BY AppendProperties
<1>2. Len(s) \in Nat /\ DOMAIN s = 1..Len(s)
  BY LenProperties
<1>. QED  BY <1>1, <1>2 DEF Range

LEMMA InjectiveAppend ==
  ASSUME NEW S, NEW s \in Seq(S), NEW x \in S, IsInjective(s), x \notin Range(s)
  PROVE  IsInjective(Append(s, x))
<1>1. /\ DOMAIN Append(s, x) = 1..(Len(s) + 1)
      /\ \A i \in 1..Len(s) : Append(s, x)[i] = s[i]
      /\ Append(s, x)[Len(s) + 1] = x
  BY AppendProperties
<1>2. Len(s) \in Nat /\ DOMAIN s = 1..Len(s)
  BY LenProperties
<1>. QED  BY <1>1, <1>2 DEF Range, IsInjective

LEMMA JoinedOK ==
  ASSUME NEW S, NEW s \in Seq(S), NEW x \in S
  PROVE  /\ Joined(s, x) \in Seq(S) /\ Range(Joined(s, x)) = Range(s) \cup {x}
         /\ IsInjective(s) => IsInjective(Joined(s, x))
BY RangeOfAppend, InjectiveAppend DEF Joined

LEMMA RangeOfTail ==
  ASSUME NEW S, NEW s \in Seq(S), s # <<>>
  PROVE  /\ Tail(s) \in Seq(S) /\ Head(s) \in S
         /\ Range(s) = {Head(s)} \cup Range(Tail(s))
<1>1. /\ Head(s) \in S /\ Tail(s) \in Seq(S) /\ Len(Tail(s)) = Len(s) - 1
      /\ \A i \in 1..Len(Tail(s)) : Tail(s)[i] = s[i + 1]
  BY HeadTailProperties
<1>2. Len(s) \in Nat \ {0} /\ DOMAIN s = 1..Len(s) /\ Head(s) = s[1]
  BY LenProperties, EmptySeq
<1>3. DOMAIN Tail(s) = 1..(Len(s) - 1)
  BY <1>1, LenProperties
<1>4. Range(s) \subseteq {Head(s)} \cup Range(Tail(s))
  <2>. SUFFICES ASSUME NEW i \in 1..Len(s), i # 1  PROVE s[i] \in Range(Tail(s))
    BY <1>2 DEF Range
  <2>1. i - 1 \in 1..(Len(s) - 1) /\ (i - 1) + 1 = i
    BY <1>2
  <2>2. Tail(s)[i - 1] = s[i] /\ i - 1 \in DOMAIN Tail(s)
    BY <1>1, <1>3, <2>1
  <2>. QED  BY <2>2 DEF Range
<1>5. {Head(s)} \cup Range(Tail(s)) \subseteq Range(s)
  BY <1>1, <1>2, <1>3 DEF Range
<1>. QED  BY <1>1, <1>4, <1>5

LEMMA EmptyRange == ASSUME NEW S  PROVE <<>> \in Seq(S) /\ Range(<<>>) = {} /\ IsInjective(<<>>)
BY EmptySeq DEF Range, IsInjective

\* One more node and an edge to it.
LEMMA ReachedOK ==
  ASSUME NEW g \in GraphSet, NEW from \in Nodes, NEW to \in Nodes, NEW relation,
         relation \in {"contains", "trace", "log", "metric", NoId, "own", "dependency"}
  PROVE  LET h == Reached(g, from, relation, to)
         IN  /\ h \in GraphSet /\ h.nodes = g.nodes \cup {to}
             /\ h.logApps = g.logApps /\ h.traces = g.traces /\ h.topics = g.topics
             /\ Closed(g) /\ from \in g.nodes => Closed(h)
<1>. DEFINE e == Edge(from, relation, to)
<1>1. e \in Edges /\ e.from = from /\ e.to = to
  BY DEF Edge, Edges
<1>2. Reached(g, from, relation, to) = [g EXCEPT !.nodes = @ \cup {to}, !.edges = @ \cup {e}]
  BY DEF Reached
<1>. HIDE DEF e
<1>3. g.nodes \cup {to} \in SUBSET Nodes /\ g.edges \cup {e} \in SUBSET Edges
  BY <1>1 DEF GraphSet
<1>4. /\ Reached(g, from, relation, to) \in GraphSet
      /\ Reached(g, from, relation, to).nodes = g.nodes \cup {to}
      /\ Reached(g, from, relation, to).edges = g.edges \cup {e}
      /\ Reached(g, from, relation, to).logApps = g.logApps
      /\ Reached(g, from, relation, to).traces = g.traces
      /\ Reached(g, from, relation, to).topics = g.topics
  BY <1>2, <1>3 DEF GraphSet
<1>. QED  BY <1>1, <1>4 DEF Closed

\* What adding a topic makes of a graph.
TopicAdded(h, g, from, id) ==
  /\ h \in GraphSet /\ g.nodes \subseteq h.nodes
  /\ h.logApps = g.logApps /\ h.traces = g.traces
  /\ Range(h.topics) = Range(g.topics) \cup ({id} \ {NoId})
  /\ IsInjective(g.topics) => IsInjective(h.topics)
  /\ Closed(g) /\ from \in g.nodes => Closed(h)

LEMMA AddTopicOK ==
  ASSUME NEW g \in GraphSet, NEW from \in Nodes, NEW id \in Topics \cup {NoId}, NEW relation,
         relation \in {"contains", "trace", "log", "metric", NoId, "own", "dependency"}
  PROVE  TopicAdded(AddTopic(g, from, relation, id), g, from, id)
<1>1. CASE id = NoId
  BY <1>1 DEF AddTopic, TopicAdded
<1>2. CASE id # NoId
  <2>. DEFINE f == Reached(g, from, relation, Node("Topic", id))
              t == Joined(f.topics, id)
              h == AddTopic(g, from, relation, id)
  <2>1. Node("Topic", id) \in Nodes
    BY <1>2 DEF Nodes
  <2>2. /\ f \in GraphSet /\ f.nodes = g.nodes \cup {Node("Topic", id)}
        /\ f.logApps = g.logApps /\ f.traces = g.traces /\ f.topics = g.topics
        /\ Closed(g) /\ from \in g.nodes => Closed(f)
    BY <2>1, ReachedOK
  <2>3. h = [f EXCEPT !.topics = t]
    BY <1>2 DEF AddTopic
  <2>4. f.topics \in Seq(Topics)
    BY <2>2 DEF GraphSet
  <2>5. /\ t \in Seq(Topics) /\ Range(t) = Range(g.topics) \cup {id}
        /\ IsInjective(g.topics) => IsInjective(t)
    BY <1>2, <2>2, <2>4, JoinedOK
  <2>. HIDE DEF f, t, h
  <2>6. /\ h \in GraphSet /\ h.nodes = f.nodes /\ h.edges = f.edges
        /\ h.logApps = f.logApps /\ h.traces = f.traces /\ h.topics = t
    BY <2>2, <2>3, <2>5 DEF GraphSet
  <2>7. Closed(f) => Closed(h)
    BY <2>6 DEF Closed
  <2>. QED  BY <1>2, <2>2, <2>5, <2>6, <2>7 DEF h, TopicAdded
<1>. QED  BY <1>1, <1>2

LEMMA GraphStarts == GraphInit \/ GraphIdle => GraphInv
<1>. SUFFICES ASSUME GraphInit \/ GraphIdle  PROVE GraphInv
  OBVIOUS
<1>. <<>> \in Seq(LogApps \cup {NoId}) /\ <<>> \in Seq(PlausibleRelated)
  BY EmptySeq
<1>1. /\ graph = NoGraph /\ heard = Unheard /\ walk \in WalkSet
      /\ walk.pc \in {"start", "done"} /\ walk.result = "none" /\ walk.related = <<>>
  <2>1. CASE GraphInit
    <3>1. PICK t \in BOOLEAN, d \in BOOLEAN :
             walk = [pc |-> "start", topicsOnly |-> t, dry |-> d,
                     apps |-> <<>>, related |-> <<>>, from |-> NoId,
                     type |-> NoId, result |-> "none"]
      BY <2>1 DEF GraphInit
    <3>. QED  BY <2>1, <3>1 DEF GraphInit, WalkSet
  <2>2. CASE GraphIdle
    BY <2>2 DEF GraphIdle, WalkSet
  <2>. QED  BY <2>1, <2>2
<1>2. graph \in GraphSet /\ heard \in HeardSet /\ heard.asked = <<>> /\ graph.topics = <<>>
      /\ graph.edges = {}
  BY <1>1, EmptySeq DEF GraphSet, HeardSet, NoGraph, Unheard
<1>3. IsInjective(<<>>)
  BY EmptyRange
<1>4. ~Resolved
  BY <1>1 DEF Resolved
<1>5. GraphShape
  BY <1>1, <1>2, <1>3, <1>4 DEF GraphShape, DescribedOnce, Closed
<1>. QED
  BY <1>1, <1>4, <1>5 DEF GraphInv, Exploring, TopicsAreReachable, GraphIsClosed

\* A request that is made once.
LEMMA GraphAskOK ==
  ASSUME GraphShape, NEW q \in Described, q \notin Range(heard.asked), ~walk.dry
  PROVE  LET h == Ask(q)
         IN  /\ h \in HeardSet /\ h.app = heard.app /\ h.related = heard.related
             /\ h.trace = heard.trace /\ IsInjective(h.asked)
             /\ Range(h.asked) = Range(heard.asked) \cup {q}
<1>. DEFINE a == Append(heard.asked, q)
<1>1. heard \in HeardSet /\ heard.asked \in Seq(Described) /\ IsInjective(heard.asked)
  BY DEF GraphShape, DescribedOnce, HeardSet
<1>2. a \in Seq(Described) /\ IsInjective(a) /\ Range(a) = Range(heard.asked) \cup {q}
  BY <1>1, RangeOfAppend, InjectiveAppend
<1>3. Ask(q) = [heard EXCEPT !.asked = a]
  BY DEF Ask
<1>. HIDE DEF a
<1>. QED  BY <1>1, <1>2, <1>3 DEF HeardSet

\* A resolution that fails may have asked and reached one thing more.
LEMMA FailOK ==
  ASSUME GraphShape, walk.pc # "done", walk' = [walk EXCEPT !.pc = "failed"],
         graph' \in GraphSet, IsInjective(graph'.topics), Closed(graph'),
         \/ heard' = heard
         \/ \E q \in Described : q \notin Range(heard.asked) /\ ~walk.dry /\ heard' = Ask(q)
  PROVE  GraphInv'
<1>1. /\ walk \in WalkSet /\ walk' \in WalkSet /\ walk'.pc = "failed"
      /\ walk'.dry = walk.dry /\ walk'.result = walk.result /\ ~Resolved
  BY DEF GraphShape, WalkSet
<1>2. ~Resolved'
  BY <1>1 DEF Resolved
<1>3. heard' \in HeardSet /\ DescribedOnce'
  <2>1. CASE heard' = heard
    BY <1>1, <2>1 DEF GraphShape, DescribedOnce
  <2>2. CASE \E q \in Described : q \notin Range(heard.asked) /\ ~walk.dry /\ heard' = Ask(q)
    BY <1>1, <2>2, GraphAskOK DEF DescribedOnce
  <2>. QED  BY <2>1, <2>2
<1>4. GraphShape'
  BY <1>1, <1>2, <1>3 DEF GraphShape
<1>. QED
  BY <1>1, <1>2, <1>4 DEF GraphInv, Exploring, TopicsAreReachable, GraphIsClosed

LEMMA GraphFailsOK ==
  ASSUME GraphShape, walk.pc # "done", GraphFails
  PROVE  GraphInv'
BY FailOK DEF GraphFails, GraphShape

LEMMA StartWalkKeeps == GraphInv /\ StartWalk => GraphInv'
<1>. SUFFICES ASSUME GraphInv, StartWalk  PROVE GraphInv'
  OBVIOUS
<1>1. GraphShape /\ walk \in WalkSet /\ walk.pc = "start" /\ ~Resolved
      /\ heard = Unheard /\ graph = NoGraph /\ walk.related = <<>>
  BY DEF GraphInv, GraphShape, StartWalk
<1>2. CASE GraphFails
  BY <1>1, <1>2, GraphFailsOK
<1>3. CASE /\ walk' = IF walk.dry THEN [walk EXCEPT !.pc = "done", !.result = "plan"]
                      ELSE [walk EXCEPT !.pc = "app"]
           /\ UNCHANGED <<graph, heard>>
  <2>1. /\ walk' \in WalkSet /\ walk'.dry = walk.dry /\ walk'.result \notin {"graph", "topics"}
        /\ walk'.related = walk.related
        /\ (walk'.pc = "done" \/ (walk'.pc = "app" /\ ~walk.dry))
    BY <1>1, <1>3 DEF WalkSet, Resolved
  <2>2. ~Resolved'
    BY <2>1 DEF Resolved
  <2>3. GraphShape'
    BY <1>1, <1>3, <2>1, <2>2 DEF GraphShape, DescribedOnce, Closed
  <2>. QED
    BY <1>1, <1>3, <2>1, <2>2, <2>3
    DEF GraphInv, Exploring, TopicsAreReachable, GraphIsClosed
<1>. QED  BY <1>2, <1>3 DEF StartWalk

\* An application that is described.
LEMMA DescribeAppKeeps == GraphInv /\ DescribeApp => GraphInv'
<1>. SUFFICES ASSUME GraphInv, DescribeApp  PROVE GraphInv'
  OBVIOUS
<1>1. GraphShape /\ walk \in WalkSet /\ walk.pc = "app" /\ ~Resolved /\ ~walk.dry
      /\ heard = Unheard /\ graph = NoGraph /\ heard \in HeardSet /\ graph \in GraphSet
      /\ walk.related = <<>>
  BY DEF GraphInv, GraphShape, DescribeApp
<1>2. Root \in Described /\ Root \in Nodes /\ heard.asked = <<>> /\ Range(<<>>) = {}
  BY <1>1, EmptyRange DEF Described, Nodes, Unheard
<1>3. /\ Ask(Root) \in HeardSet /\ Ask(Root).related = <<>>
      /\ IsInjective(Ask(Root).asked) /\ Range(Ask(Root).asked) = {Root}
      /\ Ask(Root).trace = <<>>
  BY <1>1, <1>2, GraphAskOK DEF Unheard
<1>4. ASSUME walk' = [walk EXCEPT !.pc = "failed"], UNCHANGED graph, heard' = Ask(Root)
      PROVE  GraphInv'
  BY <1>1, <1>2, <1>4, FailOK DEF GraphShape
<1>5. ASSUME NEW type \in {"LogApp", "other", NoId}, NEW resources \in Resources,
             NEW region \in {OwnRegion, OtherRegion},
             heard' = [Ask(Root) EXCEPT !.app = resources],
             CASE type = "LogApp" /\ region = OwnRegion ->
                    /\ walk' = [walk EXCEPT !.pc = "logapp", !.type = type,
                                            !.apps = resources]
                    /\ graph' = [NoGraph EXCEPT !.nodes = {Root}]
               [] type = "other" -> ListResources(resources)
               [] OTHER -> walk' = [walk EXCEPT !.pc = "failed"]
                           /\ UNCHANGED graph
      PROVE  GraphInv'
  <2>1. resources \in Seq(LogApps \cup {NoId})
    BY SeqOfIsSeq, AppGraphAssumption DEF Resources
  <2>2. /\ heard' \in HeardSet /\ heard'.related = <<>> /\ heard'.trace = <<>>
        /\ heard'.asked = Ask(Root).asked /\ heard'.app = resources
        /\ IsInjective(heard'.asked) /\ Range(heard'.asked) = {Root}
    BY <1>3, <1>5, <2>1 DEF HeardSet
  <2>3. RelatedHeard' = {} /\ UNION Range(heard'.trace) = {}
    BY <2>2, EmptyRange DEF RelatedHeard
  <2>4. ASSUME walk' = [walk EXCEPT !.pc = "failed"], UNCHANGED graph
        PROVE  GraphInv'
    <3>1. walk' \in WalkSet /\ walk'.pc = "failed" /\ walk'.dry = walk.dry
          /\ walk'.result = walk.result
      BY <1>1, <2>4 DEF WalkSet
    <3>2. ~Resolved' /\ GraphShape'
      BY <1>1, <2>2, <2>4, <3>1 DEF GraphShape, DescribedOnce, Resolved, Closed
    <3>. QED
      BY <3>1, <3>2 DEF GraphInv, Exploring, TopicsAreReachable, GraphIsClosed
  <2>5. ASSUME walk' = [walk EXCEPT !.pc = "logapp", !.type = "LogApp", !.apps = resources],
               graph' = [NoGraph EXCEPT !.nodes = {Root}]
        PROVE  GraphInv'
    <3>1. /\ walk' \in WalkSet /\ walk'.pc = "logapp" /\ walk'.dry = walk.dry
          /\ walk'.result = walk.result /\ walk'.type = "LogApp"
          /\ walk'.apps = resources /\ walk'.related = walk.related
      BY <1>1, <2>1, <2>5 DEF WalkSet
    <3>2. /\ graph'.nodes = {Root} /\ graph'.edges = {} /\ graph'.logApps = <<>>
          /\ graph'.traces = <<>> /\ graph'.topics = <<>> /\ graph' \in GraphSet
      BY <1>1, <1>2, <2>5 DEF GraphSet, NoGraph
    <3>3. ~Resolved'
      BY <1>1, <3>1 DEF Resolved
    <3>4. GraphShape'
      BY <1>1, <2>2, <3>1, <3>2, <3>3, EmptyRange DEF GraphShape, DescribedOnce, Closed
    <3>5. walk'.related = <<>>
      BY <1>1, <3>1
    <3>. QED
      BY <1>1, <2>2, <2>3, <3>1, <3>2, <3>3, <3>4, <3>5, EmptyRange
      DEF GraphInv, Exploring, TopicsHeard, TopicsAreReachable, GraphIsClosed
  <2>6. ASSUME ListResources(resources), type = "other"
        PROVE  GraphInv'
    <3>1. CASE NoId \in Range(resources)
      BY <2>4, <2>6, <3>1 DEF ListResources
    <3>2. CASE NoId \notin Range(resources)
      <4>. DEFINE listed == {Node("AppResource", id) : id \in Range(resources)}
                  edges == {Edge(Root, "contains", node) : node \in listed}
      <4>1. /\ walk' = [walk EXCEPT !.pc = "finish", !.type = "other"]
            /\ graph' = [NoGraph EXCEPT !.nodes = {Root} \cup listed, !.edges = edges]
        BY <2>6, <3>2 DEF ListResources
      <4>2. listed \subseteq Nodes
        BY <2>1, <3>2, RangeIn DEF Nodes
      <4>3. edges \subseteq Edges /\ \A e \in edges : e.from = Root /\ e.to \in listed
        BY <1>2, <4>2 DEF Edge, Edges
      <4>. HIDE DEF listed, edges
      <4>4. /\ walk' \in WalkSet /\ walk'.pc = "finish" /\ walk'.dry = walk.dry
            /\ walk'.result = walk.result /\ walk'.type = "other"
        BY <1>1, <4>1 DEF WalkSet
      <4>5. /\ graph'.nodes = {Root} \cup listed /\ graph'.edges = edges
            /\ graph'.topics = <<>> /\ graph' \in GraphSet
        BY <1>1, <1>2, <4>1, <4>2, <4>3 DEF GraphSet, NoGraph
      <4>6. ~Resolved'
        BY <1>1, <4>4 DEF Resolved
      <4>7. GraphShape'
        BY <1>1, <2>2, <4>3, <4>4, <4>5, <4>6, EmptyRange DEF GraphShape, DescribedOnce, Closed
      <4>. QED
        BY <1>1, <2>2, <4>4, <4>6, <4>7
        DEF GraphInv, Exploring, TopicsAreReachable, GraphIsClosed
    <3>. QED  BY <3>1, <3>2
  <2>. QED  BY <1>5, <2>4, <2>5, <2>6
<1>. QED  BY <1>4, <1>5 DEF DescribeApp

\* A log application's resources are added to those heard of.
LEMMA HeardOfMore ==
  ASSUME heard \in HeardSet, NEW s \in Seq(PlausibleRelated),
         heard'.related = Append(heard.related, s)
  PROVE  RelatedHeard' = RelatedHeard \cup Range(s)
<1>1. heard.related \in Seq(Seq(PlausibleRelated))
  BY DEF HeardSet
<1>2. /\ DOMAIN Append(heard.related, s) = 1..(Len(heard.related) + 1)
      /\ \A i \in 1..Len(heard.related) : Append(heard.related, s)[i] = heard.related[i]
      /\ Append(heard.related, s)[Len(heard.related) + 1] = s
  BY <1>1, AppendProperties
<1>3. Len(heard.related) \in Nat /\ DOMAIN heard.related = 1..Len(heard.related)
  BY <1>1, LenProperties
<1>4. RelatedHeard' =
        UNION {Range(Append(heard.related, s)[i]) : i \in 1..(Len(heard.related) + 1)}
  BY <1>2 DEF RelatedHeard
<1>5. RelatedHeard = UNION {Range(heard.related[i]) : i \in 1..Len(heard.related)}
  BY <1>3 DEF RelatedHeard
<1>6. RelatedHeard' \subseteq RelatedHeard \cup Range(s)
  BY <1>2, <1>3, <1>4, <1>5
<1>7. RelatedHeard \subseteq RelatedHeard'
  BY <1>2, <1>3, <1>4, <1>5
<1>8. Range(s) \subseteq RelatedHeard'
  BY <1>2, <1>3, <1>4
<1>. QED  BY <1>6, <1>7, <1>8

LEMMA RelatedIsPlausible == heard \in HeardSet => RelatedHeard \subseteq PlausibleRelated
<1>. SUFFICES ASSUME heard \in HeardSet, NEW i \in DOMAIN heard.related
              PROVE  Range(heard.related[i]) \subseteq PlausibleRelated
  BY DEF RelatedHeard
<1>1. heard.related \in Seq(Seq(PlausibleRelated))
  BY DEF HeardSet
<1>2. heard.related[i] \in Seq(PlausibleRelated)
  BY <1>1, ElementOfSeq, LenProperties
<1>. QED  BY <1>2, RangeIn

LEMMA NodesDiffer ==
  ASSUME NEW a, NEW b
  PROVE  /\ Root # Node("LogApp", a) /\ Root # Node("TraceInstance", a)
         /\ Node("LogApp", a) # Node("TraceInstance", b)
         /\ Node("LogApp", a) = Node("LogApp", b) => a = b
         /\ Node("TraceInstance", a) = Node("TraceInstance", b) => a = b
BY DEF Root, Node

\* A log application that is described.
LEMMA DescribeLogAppKeeps == GraphInv /\ DescribeLogApp => GraphInv'
<1>. SUFFICES ASSUME GraphInv, DescribeLogApp  PROVE GraphInv'
  OBVIOUS
<1>1. GraphShape /\ walk \in WalkSet /\ walk.pc = "logapp" /\ ~Resolved /\ ~walk.dry
      /\ heard \in HeardSet /\ graph \in GraphSet /\ Exploring
      /\ walk.related = <<>> /\ walk.apps # <<>> /\ walk.type = "LogApp"
  BY DEF GraphInv, GraphShape, Exploring, DescribeLogApp
<1>. DEFINE id == Head(walk.apps)
            next == [walk EXCEPT !.apps = Tail(@)]
            node == Node("LogApp", id)
            req == Ask(node)
            reached == Reached(graph, Root, "contains", node)
            g == [reached EXCEPT !.logApps = Joined(@, id)]
<1>2. /\ Tail(walk.apps) \in Seq(LogApps \cup {NoId}) /\ id \in LogApps \cup {NoId}
      /\ Range(walk.apps) = {id} \cup Range(Tail(walk.apps))
  BY <1>1, RangeOfTail DEF WalkSet
<1>3. /\ next \in WalkSet /\ next.pc = "logapp" /\ next.dry = walk.dry
      /\ next.result = walk.result /\ next.type = "LogApp"
      /\ next.apps = Tail(walk.apps) /\ next.related = <<>>
  BY <1>1, <1>2 DEF WalkSet
<1>4. CASE id = NoId
  BY <1>1, <1>4, GraphFailsOK DEF DescribeLogApp
<1>5. CASE id # NoId /\ Known(graph.logApps, id)
  <2>1. walk' = next /\ graph' = graph /\ heard' = heard
    BY <1>5 DEF DescribeLogApp
  <2>. HIDE DEF next, id
  <2>2. ~Resolved' /\ RelatedHeard' = RelatedHeard /\ TopicsHeard' = TopicsHeard
    BY <1>1, <1>3, <2>1 DEF Resolved, RelatedHeard, TopicsHeard
  <2>3. GraphShape'
    BY <1>1, <1>3, <2>1, <2>2 DEF GraphShape, DescribedOnce, Closed
  <2>4. Range(walk'.apps) \cup Range(graph.logApps) = Range(walk.apps) \cup Range(graph.logApps)
    BY <1>2, <1>3, <1>5, <2>1 DEF Known
  <2>5. walk'.type = "LogApp" /\ walk'.related = <<>> /\ walk'.pc = "logapp" /\ ~walk'.dry
    BY <1>1, <1>3, <2>1
  <2>6. Exploring'
    BY <1>1, <1>3, <2>1, <2>2, <2>4, <2>5, EmptyRange DEF Exploring, Heeded
  <2>. QED
    BY <2>2, <2>3, <2>5, <2>6 DEF GraphInv, TopicsAreReachable, GraphIsClosed
<1>6. CASE id # NoId /\ ~Known(graph.logApps, id)
  <2>1. /\ id \in LogApps /\ node \in Nodes /\ node \in Described /\ Root \in Nodes
    BY <1>2, <1>6 DEF Nodes, Described
  <2>2. id \notin Range(graph.logApps) /\ Root \in graph.nodes
    BY <1>1, <1>6 DEF Known, Exploring
  <2>3. node \notin Range(heard.asked)
    BY <1>1, <2>2, NodesDiffer DEF Exploring
  <2>4. /\ req \in HeardSet /\ req.app = heard.app /\ req.related = heard.related
        /\ req.trace = heard.trace /\ IsInjective(req.asked)
        /\ Range(req.asked) = Range(heard.asked) \cup {node}
    BY <1>1, <2>1, <2>3, GraphAskOK
  <2>5. /\ reached \in GraphSet /\ reached.nodes = graph.nodes \cup {node}
        /\ reached.logApps = graph.logApps /\ reached.traces = graph.traces
        /\ reached.topics = graph.topics /\ Closed(reached)
    BY <1>1, <2>1, <2>2, ReachedOK DEF GraphShape
  <2>6. /\ Joined(graph.logApps, id) \in Seq(LogApps)
        /\ Range(Joined(graph.logApps, id)) = Range(graph.logApps) \cup {id}
    BY <1>1, <2>1, JoinedOK DEF GraphSet
  <2>. HIDE DEF reached, req
  <2>7. /\ g \in GraphSet /\ g.nodes = reached.nodes /\ g.edges = reached.edges
        /\ g.logApps = Joined(graph.logApps, id) /\ g.traces = graph.traces
        /\ g.topics = graph.topics
    BY <2>5, <2>6 DEF GraphSet
  <2>8. graph' = g
    BY <1>6 DEF DescribeLogApp, reached
  <2>9. ASSUME walk' = [walk EXCEPT !.pc = "failed"], heard' = req
        PROVE  GraphInv'
    <3>1. graph' \in GraphSet /\ IsInjective(graph'.topics) /\ Closed(graph')
      BY <1>1, <2>5, <2>7, <2>8 DEF GraphShape, Closed
    <3>2. \E q \in Described : q \notin Range(heard.asked) /\ ~walk.dry /\ heard' = Ask(q)
      BY <1>1, <2>1, <2>3, <2>9 DEF req
    <3>. QED  BY <1>1, <2>9, <3>1, <3>2, FailOK
  <2>10. ASSUME NEW related \in SeqOf(PlausibleRelated, MaxRelated),
                walk' = [next EXCEPT !.from = id, !.related = related],
                heard' = [req EXCEPT !.related = Append(@, related)]
         PROVE  GraphInv'
    <3>1. related \in Seq(PlausibleRelated)
      BY SeqOfIsSeq, AppGraphAssumption
    <3>2. Append(heard.related, related) \in Seq(Seq(PlausibleRelated))
      BY <1>1, <3>1, RangeOfAppend DEF HeardSet
    <3>. HIDE DEF next, g, id
    <3>3. /\ heard' \in HeardSet /\ heard'.app = heard.app /\ heard'.trace = heard.trace
          /\ heard'.related = Append(heard.related, related)
          /\ heard'.asked = req.asked
      BY <2>4, <2>10, <3>2 DEF HeardSet
    <3>4. /\ walk' \in WalkSet /\ walk'.pc = "logapp" /\ ~walk'.dry
          /\ walk'.result = walk.result /\ walk'.type = "LogApp"
          /\ walk'.apps = Tail(walk.apps) /\ walk'.related = related /\ walk'.from = id
      BY <1>1, <1>3, <2>1, <2>10, <3>1 DEF WalkSet
    <3>5. RelatedHeard' = RelatedHeard \cup Range(related)
      BY <1>1, <3>1, <3>3, HeardOfMore
    <3>6. ~Resolved'
      BY <1>1, <3>4 DEF Resolved
    <3>7. DescribedOnce' /\ GraphShape'
      BY <1>1, <2>4, <2>5, <2>7, <2>8, <3>3, <3>4, <3>6 DEF GraphShape, DescribedOnce, Closed
    <3>8. Range(heard'.asked) \subseteq
            {Root} \cup {Node("LogApp", a) : a \in Range(graph'.logApps)}
                   \cup {Node("TraceInstance", t) : t \in Range(graph'.traces)}
      <4>1. Range(heard.asked) \subseteq
              {Root} \cup {Node("LogApp", a) : a \in Range(graph.logApps)}
                     \cup {Node("TraceInstance", t) : t \in Range(graph.traces)}
        BY <1>1 DEF Exploring
      <4>2. /\ Range(graph'.logApps) = Range(graph.logApps) \cup {id}
            /\ graph'.traces = graph.traces
        BY <2>6, <2>7, <2>8
      <4>. QED  BY <2>4, <3>3, <4>1, <4>2
    <3>9. Range(heard'.app) = Range(graph'.logApps) \cup Range(walk'.apps)
      BY <1>1, <1>2, <2>6, <2>7, <2>8, <3>3, <3>4 DEF Exploring
    <3>10. Node("LogApp", walk'.from) \in graph'.nodes /\ Root \in graph'.nodes
      BY <2>2, <2>5, <2>7, <2>8, <3>4
    <3>11. \A r \in RelatedHeard' : r \in Range(walk'.related) \/ Heeded(r)'
      <4>1. \A r \in RelatedHeard : Heeded(r)
        BY <1>1, EmptyRange DEF Exploring
      <4>2. graph'.topics = graph.topics
        BY <2>7, <2>8
      <4>. QED  BY <3>4, <3>5, <4>1, <4>2 DEF Heeded
    <3>12. TopicsHeard \subseteq TopicsHeard'
      BY <3>3, <3>5 DEF TopicsHeard
    <3>13. graph'.topics = graph.topics /\ heard'.trace = heard.trace
      BY <2>7, <2>8, <3>3
    <3>14. Exploring'
      BY <1>1, <3>4, <3>5, <3>8, <3>9, <3>10, <3>11, <3>12, <3>13 DEF Exploring
    <3>. QED
      BY <3>4, <3>6, <3>7, <3>14 DEF GraphInv, TopicsAreReachable, GraphIsClosed
  <2>. QED  BY <1>6, <2>9, <2>10 DEF DescribeLogApp, req
<1>. QED  BY <1>4, <1>5, <1>6

\* What of the exploration a step at a related resource has to show.
LEMMA VisitedOK ==
  ASSUME GraphInv, walk.pc = "logapp", walk.related # <<>>, ~Unresolvable(Head(walk.related)),
         walk' = [walk EXCEPT !.related = Tail(@)],
         graph' \in GraphSet, Closed(graph'), IsInjective(graph'.topics),
         graph.nodes \subseteq graph'.nodes, graph'.logApps = graph.logApps,
         Range(graph.traces) \subseteq Range(graph'.traces),
         heard' \in HeardSet, heard'.app = heard.app, heard'.related = heard.related,
         IsInjective(heard'.asked),
         NEW more,
         Range(graph'.topics) = Range(graph.topics) \cup more,
         Range(heard'.asked) \subseteq
           Range(heard.asked) \cup {Node("TraceInstance", t) : t \in Range(graph'.traces)},
         \/ /\ heard'.trace = heard.trace
            /\ Head(walk.related).type = "trace" /\ more = {}
         \/ /\ heard'.trace = heard.trace
            /\ Head(walk.related).type # "trace" /\ more = {Head(walk.related).id}
         \/ /\ Head(walk.related).type = "trace"
            /\ \E own : /\ Range(heard'.trace) = Range(heard.trace) \cup {own}
                        /\ more = own \ {NoId}
  PROVE  GraphInv'
<1>0. PICK r : r = Head(walk.related)
  OBVIOUS
<1>1. GraphShape /\ walk \in WalkSet /\ ~Resolved /\ ~walk.dry /\ walk.type = "LogApp"
      /\ heard \in HeardSet /\ graph \in GraphSet /\ Exploring /\ Root \in graph.nodes
  BY DEF GraphInv, GraphShape, Exploring
<1>2. /\ Tail(walk.related) \in Seq(PlausibleRelated) /\ r \in PlausibleRelated
      /\ Range(walk.related) = {r} \cup Range(Tail(walk.related))
  BY <1>0, <1>1, RangeOfTail DEF WalkSet
<1>3. /\ walk' \in WalkSet /\ walk'.pc = "logapp" /\ ~walk'.dry /\ walk'.from = walk.from
      /\ walk'.result = walk.result /\ walk'.type = "LogApp"
      /\ walk'.apps = walk.apps /\ walk'.related = Tail(walk.related)
  BY <1>1, <1>2 DEF WalkSet
<1>4. ~Resolved'
  BY <1>1, <1>3 DEF Resolved
<1>5. GraphShape'
  BY <1>1, <1>3, <1>4 DEF GraphShape, DescribedOnce
<1>6. RelatedHeard' = RelatedHeard
  BY DEF RelatedHeard
<1>7. Heeded(r)'
  <2>1. ~Unresolvable(r) /\ (r.type # "trace" => r.id \in Range(graph'.topics))
    BY <1>0
  <2>. QED  BY <2>1 DEF Heeded, Unresolvable
<1>8. \A q \in RelatedHeard : q \in Range(walk'.related) \/ Heeded(q)'
  <2>. SUFFICES ASSUME NEW q \in RelatedHeard, q \notin Range(walk'.related), q # r
                PROVE  Heeded(q)'
    BY <1>7
  <2>1. Heeded(q)
    BY <1>1, <1>2, <1>3 DEF Exploring
  <2>. QED  BY <2>1 DEF Heeded
<1>9. r \in RelatedHeard /\ Range(walk'.related) \subseteq RelatedHeard
  BY <1>1, <1>2, <1>3 DEF Exploring
<1>10. Range(graph'.topics) \subseteq TopicsHeard'
  <2>1. Range(graph.topics) \subseteq TopicsHeard /\ TopicsHeard \subseteq TopicsHeard'
    BY <1>1, <1>6 DEF Exploring, TopicsHeard
  <2>2. more \subseteq TopicsHeard'
    BY <1>0, <1>6, <1>9 DEF TopicsHeard
  <2>. QED  BY <2>1, <2>2
<1>11. \A own \in Range(heard'.trace) : own \ {NoId} \subseteq Range(graph'.topics)
  BY <1>1 DEF Exploring
<1>12. Range(heard'.asked) \subseteq
         {Root} \cup {Node("LogApp", a) : a \in Range(graph'.logApps)}
                \cup {Node("TraceInstance", t) : t \in Range(graph'.traces)}
  <2>1. Range(heard.asked) \subseteq
          {Root} \cup {Node("LogApp", a) : a \in Range(graph.logApps)}
                 \cup {Node("TraceInstance", t) : t \in Range(graph.traces)}
    BY <1>1 DEF Exploring
  <2>. QED  BY <2>1
<1>13. Exploring'
  BY <1>1, <1>3, <1>6, <1>8, <1>9, <1>10, <1>11, <1>12 DEF Exploring
<1>. QED
  BY <1>3, <1>4, <1>5, <1>13 DEF GraphInv, TopicsAreReachable, GraphIsClosed

\* A related resource that is visited.
LEMMA VisitRelatedKeeps == GraphInv /\ VisitRelated => GraphInv'
<1>. SUFFICES ASSUME GraphInv, VisitRelated  PROVE GraphInv'
  OBVIOUS
<1>. DEFINE r == Head(walk.related)
            next == [walk EXCEPT !.related = Tail(@)]
            from == Node("LogApp", walk.from)
            trace == Node("TraceInstance", r.id)
            seen == Reached(graph, from, "trace", trace)
<1>1. GraphShape /\ walk \in WalkSet /\ walk.pc = "logapp" /\ ~Resolved /\ ~walk.dry
      /\ heard \in HeardSet /\ graph \in GraphSet /\ Exploring
      /\ walk.related # <<>> /\ walk.type = "LogApp"
  BY DEF GraphInv, GraphShape, Exploring, VisitRelated
<1>2. r \in PlausibleRelated /\ from \in graph.nodes /\ from \in Nodes
  BY <1>1, RangeOfTail DEF WalkSet, Exploring, GraphSet
<1>3. /\ Closed(graph) /\ IsInjective(graph.topics) /\ IsInjective(heard.asked)
  BY <1>1 DEF GraphShape, DescribedOnce
<1>4. CASE Unresolvable(r)
  BY <1>1, <1>4, GraphFailsOK DEF VisitRelated
<1>5. CASE ~Unresolvable(r) /\ r.type # "trace"
  <2>1. walk' = next /\ heard' = heard /\ graph' = AddTopic(graph, from, r.type, r.id)
    BY <1>5 DEF VisitRelated
  <2>2. r.id \in Topics /\ r.type \in {"log", "metric"}
    BY <1>2, <1>5 DEF PlausibleRelated, Related, Unresolvable
  <2>. HIDE DEF r, from
  <2>3. /\ graph' \in GraphSet /\ graph.nodes \subseteq graph'.nodes
        /\ graph'.logApps = graph.logApps /\ graph'.traces = graph.traces
        /\ Range(graph'.topics) = Range(graph.topics) \cup ({r.id} \ {NoId})
        /\ IsInjective(graph'.topics) /\ Closed(graph')
    <3>1. TopicAdded(graph', graph, from, r.id)
      BY <1>1, <1>2, <2>1, <2>2, AddTopicOK
    <3>. QED  BY <1>2, <1>3, <3>1 DEF TopicAdded
  <2>4. {r.id} \ {NoId} = {r.id}
    BY <2>2, AppGraphAssumption
  <2>. QED
    BY <1>1, <1>3, <1>5, <2>1, <2>3, <2>4, VisitedOK DEF r
<1>6. CASE ~Unresolvable(r) /\ r.type = "trace"
  <2>1. r.id \in Traces /\ trace \in Described /\ trace \in Nodes
    BY <1>2, <1>6 DEF PlausibleRelated, Described, Nodes
  <2>2. /\ seen \in GraphSet /\ seen.nodes = graph.nodes \cup {trace}
        /\ seen.logApps = graph.logApps /\ seen.traces = graph.traces
        /\ seen.topics = graph.topics /\ Closed(seen)
    BY <1>1, <1>2, <1>3, <2>1, ReachedOK
  <2>3. CASE Known(graph.traces, r.id)
    <3>1. walk' = next /\ heard' = heard /\ graph' = seen
      BY <1>6, <2>3 DEF VisitRelated
    <3>. HIDE DEF seen
    <3>2. Range(graph'.topics) = Range(graph.topics) \cup {}
      BY <2>2, <3>1
    <3>. QED
      BY <1>1, <1>3, <1>6, <2>2, <3>1, <3>2, VisitedOK
  <2>4. CASE ~Known(graph.traces, r.id)
    <3>1. trace \notin Range(heard.asked)
      BY <1>1, <2>4, NodesDiffer DEF Exploring, Known
    <3>2. /\ Ask(trace) \in HeardSet /\ Ask(trace).app = heard.app
          /\ Ask(trace).related = heard.related
          /\ Ask(trace).trace = heard.trace /\ IsInjective(Ask(trace).asked)
          /\ Range(Ask(trace).asked) = Range(heard.asked) \cup {trace}
      BY <1>1, <2>1, <3>1, GraphAskOK
    <3>3. ASSUME walk' = [walk EXCEPT !.pc = "failed"], heard' = Ask(trace), UNCHANGED graph
          PROVE  GraphInv'
      BY <1>1, <1>3, <2>1, <3>1, <3>3, FailOK
    <3>4. ASSUME NEW own \in Topics \cup {NoId}, NEW dependency \in Topics \cup {NoId},
                 walk' = next,
                 graph' = AddTopic(AddTopic([seen EXCEPT !.traces = Joined(@, r.id)],
                                            trace, "own", own),
                                   trace, "dependency", dependency),
                 heard' = [Ask(trace) EXCEPT !.trace = Append(@, {own, dependency})]
          PROVE  GraphInv'
      <4>. DEFINE known == [seen EXCEPT !.traces = Joined(@, r.id)]
                  first == AddTopic(known, trace, "own", own)
      <4>1. /\ Joined(graph.traces, r.id) \in Seq(Traces)
            /\ Range(Joined(graph.traces, r.id)) = Range(graph.traces) \cup {r.id}
        <5>1. graph.traces \in Seq(Traces)
          BY <1>1 DEF GraphSet
        <5>. HIDE DEF r
        <5>. QED  BY <2>1, <5>1, JoinedOK
      <4>. HIDE DEF seen, trace
      <4>2. /\ known \in GraphSet /\ known.nodes = graph.nodes \cup {trace}
            /\ known.edges = seen.edges /\ known.logApps = graph.logApps
            /\ known.traces = Joined(graph.traces, r.id) /\ known.topics = graph.topics
        BY <2>2, <4>1 DEF GraphSet
      <4>3. Closed(known) /\ trace \in known.nodes /\ IsInjective(known.topics)
        BY <1>3, <2>2, <4>2 DEF Closed
      <4>. HIDE DEF known, first
      <4>4. /\ first \in GraphSet /\ known.nodes \subseteq first.nodes
            /\ first.logApps = known.logApps /\ first.traces = known.traces
            /\ Range(first.topics) = Range(known.topics) \cup ({own} \ {NoId})
            /\ IsInjective(first.topics) /\ Closed(first)
        <5>1. TopicAdded(first, known, trace, own)
          BY <2>1, <3>4, <4>2, AddTopicOK DEF first
        <5>. QED  BY <4>3, <5>1 DEF TopicAdded
      <4>5. graph' = AddTopic(first, trace, "dependency", dependency)
        BY <3>4 DEF known, first
      <4>6. /\ graph' \in GraphSet /\ first.nodes \subseteq graph'.nodes
            /\ graph'.logApps = first.logApps /\ graph'.traces = first.traces
            /\ Range(graph'.topics) = Range(first.topics) \cup ({dependency} \ {NoId})
            /\ IsInjective(graph'.topics) /\ Closed(graph')
        <5>1. TopicAdded(graph', first, trace, dependency)
          BY <2>1, <3>4, <4>4, <4>5, AddTopicOK
        <5>. QED  BY <4>3, <4>2, <4>4, <5>1 DEF TopicAdded
      <4>7. /\ Append(heard.trace, {own, dependency}) \in Seq(SUBSET (Topics \cup {NoId}))
            /\ Range(Append(heard.trace, {own, dependency})) =
                 Range(heard.trace) \cup {{own, dependency}}
        <5>. DEFINE Answers == SUBSET (Topics \cup {NoId})
                    pair == {own, dependency}
        <5>1. heard.trace \in Seq(Answers)
          BY <1>1 DEF HeardSet
        <5>2. pair \in Answers
          BY <3>4
        <5>. HIDE DEF Answers, pair
        <5>3. /\ Append(heard.trace, pair) \in Seq(Answers)
              /\ Range(Append(heard.trace, pair)) = Range(heard.trace) \cup {pair}
          BY <5>1, <5>2, RangeOfAppend
        <5>. QED  BY <5>3 DEF Answers, pair
      <4>8. /\ heard' \in HeardSet /\ heard'.app = heard.app
            /\ heard'.related = heard.related /\ heard'.asked = Ask(trace).asked
            /\ heard'.trace = Append(heard.trace, {own, dependency})
        BY <3>2, <3>4, <4>7 DEF HeardSet
      <4>9. /\ graph.nodes \subseteq graph'.nodes /\ graph'.logApps = graph.logApps
            /\ Range(graph'.traces) = Range(graph.traces) \cup {r.id}
            /\ Range(graph'.topics) = Range(graph.topics) \cup ({own, dependency} \ {NoId})
        BY <4>1, <4>2, <4>4, <4>6
      <4>10. trace \in {Node("TraceInstance", t) : t \in Range(graph'.traces)}
        BY <4>9 DEF trace
      <4>11. Range(heard'.asked) \subseteq
               Range(heard.asked) \cup {Node("TraceInstance", t) : t \in Range(graph'.traces)}
        BY <3>2, <4>8, <4>10
      <4>12. /\ Range(heard'.trace) = Range(heard.trace) \cup {{own, dependency}}
             /\ IsInjective(heard'.asked) /\ Range(graph.traces) \subseteq Range(graph'.traces)
        BY <3>2, <4>7, <4>8, <4>9
      <4>. QED
        BY <1>1, <1>6, <3>4, <4>6, <4>8, <4>9, <4>11, <4>12, VisitedOK
    <3>. QED  BY <1>6, <2>4, <3>3, <3>4 DEF VisitRelated
  <2>. QED  BY <2>3, <2>4
<1>. QED  BY <1>4, <1>5, <1>6

\* The end of a resolution: nothing is left to look at.
LEMMA FinishWalkKeeps == GraphInv /\ FinishWalk => GraphInv'
<1>. SUFFICES ASSUME GraphInv, FinishWalk  PROVE GraphInv'
  OBVIOUS
<1>1. GraphShape /\ walk \in WalkSet /\ ~Resolved /\ ~walk.dry /\ heard \in HeardSet
      /\ walk.pc \in {"finish", "logapp"} /\ Closed(graph)
  BY DEF GraphInv, GraphShape, Exploring, FinishWalk
<1>2. CASE walk.topicsOnly /\ walk.type # "LogApp"
  BY <1>1, <1>2, GraphFailsOK DEF FinishWalk
<1>3. CASE ~(walk.topicsOnly /\ walk.type # "LogApp")
  <2>1. /\ walk' = [walk EXCEPT !.pc = "done", !.result =
                       IF walk.topicsOnly THEN "topics" ELSE "graph"]
        /\ graph' = graph /\ heard' = heard
    BY <1>3 DEF FinishWalk
  <2>2. /\ walk' \in WalkSet /\ walk'.pc = "done" /\ walk'.dry = walk.dry
        /\ walk'.type = walk.type /\ walk'.related = walk.related /\ walk'.apps = walk.apps
    BY <1>1, <2>1 DEF WalkSet
  <2>3. GraphShape'
    BY <1>1, <2>1, <2>2 DEF GraphShape, DescribedOnce, Closed
  <2>4. RelatedHeard' = RelatedHeard /\ TopicsHeard' = TopicsHeard
    BY <2>1 DEF RelatedHeard, TopicsHeard
  <2>5. CASE walk.pc = "finish"
    <3>1. walk.type = "other" /\ heard.related = <<>>
      BY <2>5 DEF GraphInv
    <3>2. RelatedHeard = {}
      BY <3>1 DEF RelatedHeard
    <3>3. TopicsAreReachable' /\ GraphIsClosed'
      BY <1>1, <2>1, <2>2, <2>4, <3>1, <3>2 DEF TopicsAreReachable, GraphIsClosed, Closed
    <3>. QED  BY <2>2, <2>3, <3>3 DEF GraphInv, Exploring
  <2>6. CASE walk.pc = "logapp" /\ walk.related = <<>> /\ walk.apps = <<>>
    <3>1. /\ Range(heard.app) = Range(graph.logApps)
          /\ \A r \in RelatedHeard : Heeded(r)
          /\ Range(graph.topics) \subseteq TopicsHeard
          /\ \A own \in Range(heard.trace) : own \ {NoId} \subseteq Range(graph.topics)
      BY <2>6, EmptyRange DEF GraphInv, Exploring
    <3>2. GraphIsClosed'
      BY <1>1, <2>1, <2>4, <3>1 DEF GraphIsClosed, Closed, Heeded, Unresolvable
    <3>3. NoId \notin Range(graph.topics)
      BY <1>1, RangeIn, AppGraphAssumption DEF GraphShape, GraphSet
    <3>4. TopicsHeard \ {NoId} \subseteq Range(graph.topics)
      BY <3>1 DEF TopicsHeard, Heeded
    <3>5. TopicsAreReachable'
      BY <2>1, <2>4, <3>1, <3>3, <3>4 DEF TopicsAreReachable, TopicsHeard
    <3>. QED  BY <2>2, <2>3, <3>2, <3>5 DEF GraphInv, Exploring
  <2>. QED  BY <1>1, <2>5, <2>6 DEF FinishWalk
<1>. QED  BY <1>2, <1>3

LEMMA GraphKeeps == GraphInv /\ [GraphNext]_graphVars => GraphInv'
<1>. SUFFICES ASSUME GraphInv, [GraphNext]_graphVars  PROVE GraphInv'
  OBVIOUS
<1>1. CASE UNCHANGED graphVars
  <2>1. UNCHANGED <<walk, graph, heard>> /\ RelatedHeard' = RelatedHeard /\ TopicsHeard' = TopicsHeard
        /\ Resolved' = Resolved
    BY <1>1 DEF graphVars, RelatedHeard, TopicsHeard, Resolved
  <2>. QED
    BY <2>1 DEF GraphInv, GraphShape, Exploring, Closed, DescribedOnce, Heeded,
                TopicsAreReachable, GraphIsClosed
<1>. QED
  BY <1>1, StartWalkKeeps, DescribeAppKeeps, DescribeLogAppKeeps, VisitRelatedKeeps,
     FinishWalkKeeps DEF GraphNext

LEMMA GraphInvGives == GraphInv => GraphIsExact
<1>. SUFFICES ASSUME GraphInv  PROVE GraphIsExact
  OBVIOUS
<1>1. walk \in WalkSet /\ Range(graph.topics) \subseteq Topics
  BY RangeIn DEF GraphInv, GraphShape, GraphSet
<1>. QED
  BY <1>1 DEF GraphInv, GraphShape, WalkSet, GraphIsExact, GraphTypeOK

-----------------------------------------------------------------------------
(* All of them                                                              *)

IInv == SkillInv /\ UpInv /\ ExportInv /\ ExecInv /\ CommandInv /\ SourceInv
        /\ InputInv /\ SizeInv /\ GraphInv /\ ListInv

LEMMA Starts == Init => IInv
<1>. SUFFICES ASSUME Init  PROVE IInv
  OBVIOUS
<1>1. SkillInv
  BY SkillStarts DEF Init
<1>2. UpInv
  BY UpgradeStarts DEF Init
<1>3. ExportInv
  BY ExportStarts DEF Init
<1>4. ExecInv
  BY ExecStarts DEF Init
<1>5. CommandInv
  BY CommandStarts DEF Init
<1>6. SourceInv
  BY SourceStarts DEF Init
<1>7. InputInv
  BY InputStarts DEF Init
<1>8. SizeInv
  BY SizeStarts DEF Init
<1>9. GraphInv
  BY GraphStarts DEF Init
<1>10. ListInv
  BY ListStarts DEF Init
<1>. QED
  BY <1>1, <1>2, <1>3, <1>4, <1>5, <1>6, <1>7, <1>8, <1>9, <1>10 DEF IInv

LEMMA Parted ==
  [Next]_vars => /\ [SkillNext]_skillVars /\ [UpgradeNext]_upgradeVars
                 /\ [ExportNext]_exportVars /\ [ExecNext]_execVars
                 /\ [CommandNext]_commandVars /\ [SourceNext]_sourceVars
                 /\ [InputNext]_input /\ [SizeNext]_sizing
                 /\ [GraphNext]_graphVars
BY DEF Next, vars, FileCommands, RequestCommands, OutputAndSettings

LEMMA Keeps == IInv /\ [Next]_vars => IInv'
BY Parted, SkillKeeps, UpgradeKeeps, ExportKeeps, ExecKeeps, CommandKeeps,
   SourceKeeps, InputKeeps, SizeKeeps, GraphKeeps,
   ListKeeps DEF IInv

LEMMA InductiveInvariant == Spec => []IInv
BY Starts, Keeps, PTL DEF Spec

\* What a user wrote in a skill before any command at work on it had looked is at its
\* path or in a backup, as long as no command for it has --force, with any number of
\* processes that die anywhere; and a replacement that fails does not leave the path
\* empty beside a backup, short of a death, a failed rollback or an uninstall
\* (skill_lifecycle.go:294, :588).
THEOREM SkillsOutlive == Spec => []SkillsSurvive
<1>1. IInv => SkillsSurvive
  BY SkillInvGives DEF IInv
<1>. QED  BY <1>1, InductiveInvariant, PTL

\* No step of an install or update leaves a skill without a whole tree, old or new,
\* at its path or in a backup, that had one, and an install without --force
\* replaces nothing (skill_lifecycle.go:563, :588).
THEOREM SwapsStayWhole == Spec => SwapsAreWhole
<1>1. IInv /\ [Next]_vars =>
        /\ [\A p \in Invokers, n \in Names :
              /\ proc[p].cmd.op = "install" /\ ~proc[p].cmd.force
              /\ proc'[p] # proc[p]
              => tree'[n] = tree[n] \/ Vacant(tree[n])]_skillVars
        /\ [\A n \in Names :
              Kept(n) /\ (\E t \in Copies(n) : t \in Whole)
              => (\E t \in Copies(n) : t \in Whole)']_skillVars
  BY Parted, SkillInvMeans DEF IInv
<1>. QED
  BY <1>1, InductiveInvariant, PTL DEF Spec, SwapsAreWhole, InstallOnlyFills, OldOrNew

\* compareVersions orders every two versions that parseVersion takes as Semantic
\* Versioning does, by the values of their numbers (upgrade.go:493), although it
\* compares the digits of numbers as text.
THEOREM ComparisonIsPrecedence ==
  ASSUME NEW l \in Version, NEW r \in Version
  PROVE  CompareVersions(l, r) < 0 <=> Precedes(l, r)
BY VersionOrder

\* An upgrade only goes forward, and the executable is at any time a complete
\* build that was verified, whichever releases there are, however often they are
\* published again and wherever the process is killed (upgrade.go:368, :493).
THEOREM UpgradesAreSafe == Spec => []UpgradeIsSafe
<1>1. IInv => UpgradeIsSafe
  BY UpInvGives DEF IInv
<1>. QED  BY <1>1, InductiveInvariant, PTL

\* The output of an export is the old file, no file, or a finished document, which has
\* every log once and in order unless --max-pages ended the search, as a search that
\* reports success does; no failure leaves a part file behind (log.go:62,
\* log_file_output.go:106), with any limits, pages and number of logs.
THEOREM ExportsAreHonest == Spec => []ExportIsHonest
<1>1. IInv => ExportIsHonest
  BY ExportInvGives DEF IInv
<1>. QED  BY <1>1, InductiveInvariant, PTL

\* A dynamic client signs each request with the key and the token of one
\* credential, never with a token left over or given by the caller, however
\* often the credentials rotate (tlsapi/client.go:151).
THEOREM OneIdentity == Spec => []SignedAsOneIdentity
<1>1. IInv => SignedAsOneIdentity
  BY DEF IInv, ExecInv
<1>. QED  BY <1>1, InductiveInvariant, PTL

\* A listing that ended before max_pages has every row of an unchanged table once and
\* in order, if its cursors end or its numbered pages are no smaller than asked for,
\* for any tables and sizes; no more requests are sent than max_pages allows, and none
\* by a dry run (pagination.go:93, :108, executor.go:61).
THEOREM ListingsAreSound == Spec => []ListingIsSound
<1>1. IInv => ListingIsSound
  BY ListInvGives DEF IInv, ExecInv
<1>. QED  BY <1>1, InductiveInvariant, PTL

\* Nothing is sent by a dry run, by a run that the checks listed at RefusedIsLocal
\* refuse, or for a file in a directory that is not given or cannot be made
\* (run_preflight.go:27, :47, tool_exec.go:104), with any number of flags.
THEOREM NoVainRequest == Spec => []NothingSentInVain
<1>1. IInv => NothingSentInVain
  BY CommandInvGives DEF IInv
<1>. QED  BY <1>1, InductiveInvariant, PTL

\* Exit code 0 says that the result, not only its preview, is where the user was
\* told, and a failure exits with its own code (run_render.go:11, :29).
THEOREM ExitCodeHolds == Spec => []ExitCodeIsTrue
<1>1. IInv => ExitCodeIsTrue
  BY CommandInvGives DEF IInv
<1>. QED  BY <1>1, InductiveInvariant, PTL

\* A secrets file goes with no other selector and with a static signature, keys in
\* the environment do not change who a dynamic profile signs as, and a token is from
\* the side of the keys if both keys are from one (selectors.go:34, :205;
\* client.go:284), for any profiles and whatever of the environment, the flags and
\* the profile is set.
THEOREM AskedIdentity == Spec => []IdentityIsAsAsked
<1>1. IInv => IdentityIsAsAsked
  BY SourceInvGives DEF IInv
<1>. QED  BY <1>1, InductiveInvariant, PTL

\* A request has each given field in the section that the schema names, whatever
\* the order in which a Go map gives them, and every field that the operation
\* requires (input.go:82, validate.go:11), for any fields and schema.
THEOREM RequestsAreAsGiven == Spec => []RequestIsAsGiven
<1>1. IInv => RequestIsAsGiven
  BY InputInvGives DEF IInv
<1>. QED  BY <1>1, InductiveInvariant, PTL

\* The result of a resolution is the closed graph of everything the answers reach,
\* found with one request per resource, and its topics are those the answers name,
\* no less and no more (workflow_app.go:117, :166, :309), for any number of
\* applications, traces and topics and whatever they are related to.
THEOREM GraphsAreExact == Spec => []GraphIsExact
<1>1. IInv => GraphIsExact
  BY GraphInvGives DEF IInv
<1>. QED  BY <1>1, InductiveInvariant, PTL

\* The sizes an envelope announces are its length, and they are always found: three
\* passes settle the total, and five of the eight rounds the size of the file,
\* whatever the length of the envelope (artifacts.go:195, envelope.go:90).
THEOREM AnnouncedSizesAreTrue == Spec => []SizesAreTrue
<1>1. IInv => SizesAreTrue
  BY SizeInvGives DEF IInv
<1>. QED  BY <1>1, InductiveInvariant, PTL
=============================================================================
