------------------------------- MODULE MCShell -------------------------------
(* Instances of Shell for TLC.                                               *)
EXTENDS Shell, TLC

ASSUME InstanceAssumption == ShellAssumption

Alike == Permutations(Callers) \cup Permutations(Dirs) \cup Permutations(Origins)
=============================================================================
