------------------------------- MODULE MCBrowse ------------------------------
(* Instances of Browse for TLC.                                              *)
EXTENDS Browse, TLC

Alike == Permutations(Threads)
=============================================================================
