------------------------------ MODULE MCLoopback ------------------------------
EXTENDS Loopback
CONSTANTS r1, r2
(* The gate and the shell do not look at each other: the window lands with    *)
(* its first link before the shell moves, or the shell stays where it is.     *)
OneAtATime == \/ hosts = 0 /\ folders = 0
              \/ minted = 1 /\ cookie = 1
=============================================================================
