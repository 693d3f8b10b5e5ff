--------------------------- MODULE MCConsoleLogin ---------------------------
(* Constants of ConsoleLogin for TLC.  Processes run the same commands and   *)
(* no property names a profile, so both are symmetric where only safety is   *)
(* checked.                                                                  *)
EXTENDS ConsoleLogin, TLC

AnyCommand == [p \in Procs |-> Commands]
Symmetry == Permutations(Procs) \cup Permutations(Profiles)
=============================================================================
