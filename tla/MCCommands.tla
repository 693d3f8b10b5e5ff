---------------------------- MODULE MCCommands ----------------------------
(***************************************************************************)
(* What commands do between their arguments and their exit code, one part   *)
(* per behavior: the parts share no variable, so that a behavior takes the  *)
(* steps of the part that its initial state starts and leaves the others    *)
(* idle.                                                                    *)
(***************************************************************************)
EXTENDS SkillLifecycle, Upgrade, LogExport, Execution, CommandRun,
        CredentialSources, RequestInput, AppGraph, EnvelopeSize, ProfileStore,
        TLC

vars ==
  <<skillVars, upgradeVars, exportVars, execVars, commandVars, sourceVars,
    input, graphVars, sizing, confVars>>

Init ==
  \/ /\ SkillInit /\ UpgradeIdle /\ ExportIdle /\ ExecIdle /\ CommandIdle
     /\ SourceIdle /\ InputIdle /\ GraphIdle /\ SizeIdle /\ ConfIdle
  \/ /\ UpgradeInit /\ SkillIdle /\ ExportIdle /\ ExecIdle /\ CommandIdle
     /\ SourceIdle /\ InputIdle /\ GraphIdle /\ SizeIdle /\ ConfIdle
  \/ /\ ExportInit /\ SkillIdle /\ UpgradeIdle /\ ExecIdle /\ CommandIdle
     /\ SourceIdle /\ InputIdle /\ GraphIdle /\ SizeIdle /\ ConfIdle
  \/ /\ ExecInit /\ SkillIdle /\ UpgradeIdle /\ ExportIdle /\ CommandIdle
     /\ SourceIdle /\ InputIdle /\ GraphIdle /\ SizeIdle /\ ConfIdle
  \/ /\ CommandInit /\ SkillIdle /\ UpgradeIdle /\ ExportIdle /\ ExecIdle
     /\ SourceIdle /\ InputIdle /\ GraphIdle /\ SizeIdle /\ ConfIdle
  \/ /\ SourceInit /\ SkillIdle /\ UpgradeIdle /\ ExportIdle /\ ExecIdle
     /\ CommandIdle /\ InputIdle /\ GraphIdle /\ SizeIdle /\ ConfIdle
  \/ /\ InputInit /\ SkillIdle /\ UpgradeIdle /\ ExportIdle /\ ExecIdle
     /\ CommandIdle /\ SourceIdle /\ GraphIdle /\ SizeIdle /\ ConfIdle
  \/ /\ GraphInit /\ SkillIdle /\ UpgradeIdle /\ ExportIdle /\ ExecIdle
     /\ CommandIdle /\ SourceIdle /\ InputIdle /\ SizeIdle /\ ConfIdle
  \/ /\ SizeInit /\ SkillIdle /\ UpgradeIdle /\ ExportIdle /\ ExecIdle
     /\ CommandIdle /\ SourceIdle /\ InputIdle /\ GraphIdle /\ ConfIdle
  \/ /\ ConfInit /\ SkillIdle /\ UpgradeIdle /\ ExportIdle /\ ExecIdle
     /\ CommandIdle /\ SourceIdle /\ InputIdle /\ GraphIdle /\ SizeIdle

FileCommands ==
  /\ UNCHANGED <<execVars, commandVars, sourceVars, input, graphVars, sizing,
                 confVars>>
  /\ \/ SkillNext /\ UNCHANGED <<upgradeVars, exportVars>>
     \/ UpgradeNext /\ UNCHANGED <<skillVars, exportVars>>
     \/ ExportNext /\ UNCHANGED <<skillVars, upgradeVars>>
RequestCommands ==
  /\ UNCHANGED <<skillVars, upgradeVars, exportVars, commandVars, sizing,
                 confVars>>
  /\ \/ ExecNext /\ UNCHANGED <<sourceVars, input, graphVars>>
     \/ SourceNext /\ UNCHANGED <<execVars, input, graphVars>>
     \/ InputNext /\ UNCHANGED <<execVars, sourceVars, graphVars>>
     \/ GraphNext /\ UNCHANGED <<execVars, sourceVars, input>>
OutputAndSettings ==
  /\ UNCHANGED <<skillVars, upgradeVars, exportVars, execVars, sourceVars,
                 input, graphVars>>
  /\ \/ CommandNext /\ UNCHANGED <<sizing, confVars>>
     \/ SizeNext /\ UNCHANGED <<commandVars, confVars>>
     \/ ConfNext /\ UNCHANGED <<commandVars, sizing>>

Next == FileCommands \/ RequestCommands \/ OutputAndSettings
Spec == Init /\ [][Next]_vars

\* One part alone, for the runs about what the documentation says of it.
RunsOnly ==
  /\ CommandInit /\ SkillIdle /\ UpgradeIdle /\ ExportIdle /\ ExecIdle
  /\ SourceIdle /\ InputIdle /\ GraphIdle /\ SizeIdle /\ ConfIdle
  /\ [][Next]_vars
SourcesOnly ==
  /\ SourceInit /\ SkillIdle /\ UpgradeIdle /\ ExportIdle /\ ExecIdle
  /\ CommandIdle /\ InputIdle /\ GraphIdle /\ SizeIdle /\ ConfIdle
  /\ [][Next]_vars

-----------------------------------------------------------------------------
(* Values of the constants                                                  *)

Run(op, force, version, names) ==
  [op |-> op, force |-> force, version |-> version, names |-> names]
MCCommandsOfSkills ==
  {Run("install", FALSE, 1, {1, 2}), Run("update", FALSE, 2, {1, 2}),
   Run("update", TRUE, 2, {1}), Run("uninstall", FALSE, 1, {1})}
MCFound ==
  {NoTree, Installed(1), [Installed(1) EXCEPT !.content = Mine], File}
MCSource == [v \in Versions |-> v]
InvokerSymmetry == Permutations(Invokers)

\* Version numbers as the codes of their characters: 0, 1, 9, 10, a, aa, B.
Release(major, minor, pre) == [core |-> <<major, minor, <<48>>>>, pre |-> pre]
One == <<49>>
Nine == <<57>>
Ten == <<49, 48>>
MCReleases ==
  {Release(One, <<48>>, <<>>), Release(One, Nine, <<>>),
   Release(One, Ten, <<>>), Release(Nine, <<48>>, <<>>),
   Release(Ten, <<48>>, <<>>)} \cup
  {Release(One, Ten, pre) :
     pre \in {<< <<97>> >>, << <<97>>, Nine >>, << <<97>>, Ten >>,
              << <<97, 97>> >>, << <<66>> >>, <<Nine>>}}

\* Every defect, dry or not; without one the pagination in all combinations,
\* and the page sizes where there are pages.
MCInvocations ==
  [defect : Defects \ {"none"}, dryRun : BOOLEAN, pageAll : {TRUE},
   mode : {"cursor"}, maxPages : {2}, defaultSize : {0}, size : {0},
   page : {FALSE}, cursor : {FALSE}, auth : {"static"}] \cup
  [defect : {"none"}, dryRun : BOOLEAN, pageAll : BOOLEAN, mode : Modes,
   maxPages : {0, 2}, defaultSize : {0}, size : {0}, page : {FALSE},
   cursor : BOOLEAN, auth : {"static"}] \cup
  [defect : {"none"}, dryRun : {FALSE}, pageAll : {TRUE},
   mode : {"page_number", "cursor"}, maxPages : {1, 3}, defaultSize : {0, 1},
   size : {0, 2}, page : {FALSE}, cursor : {FALSE},
   auth : {"static", "dynamic", "nil"}]
MCTables == {{}, {1, 3}, {1, 2, 3, 4}}
MCCredentials ==
  {[ak |-> "a", token |-> NoToken], [ak |-> "b", token |-> "tb"]}

MCAssigned ==
  {{}, {"ak"}, {"ak", "sk"}, {"ak", "sk", "token"}, {"sk"}, {"sk", "token"},
   {"token"}, {"region"}, {"ak", "sk", "region"}}
MCInline == {{}, {"ak"}, {"ak", "sk"}, {"ak", "sk", "token"}, {"token"}}

\* No key, a pair, and an empty access key; no field, those of a RAM
\* role, and those of OIDC with the role cleared.
Fielded(set) == [i \in Ids |-> IF i \in set THEN TRUE ELSE Omitted]
MCKeyFlags ==
  {[ak |-> Omitted, sk |-> Omitted], [ak |-> "k", sk |-> "k"],
   [ak |-> NoKey, sk |-> Omitted]}
MCIdFlags ==
  {Fielded({}), Fielded({"account", "role"}),
   [Fielded({"oidc"}) EXCEPT !["role"] = FALSE]}

\* Where the total of an envelope passes 100, 1000 and 10000 bytes.
MCBodies == 60..110 \cup 920..1010 \cup 9960..10010
=============================================================================
