--------------------------- MODULE MCPreviewQueue ---------------------------
(* Small instances of PreviewQueue for TLC.                                  *)
EXTENDS PreviewQueue, TLC

CONSTANTS f1, f2, r1, r2, s1, s2, A, B, C, step, model, other

(* A file an older classifier took for something else: touched, then saved   *)
(* with bytes that have nothing to render, then with new ones.               *)
FreshContent ==
  [f \in Files |-> [v \in Versions |-> CASE v <= 1 -> step [] v = 2 -> B [] OTHER -> C]]

KindTable ==
  [b \in Classifiers |->
    [c \in Contents |-> IF c = step /\ b < 1 THEN other ELSE model]]

UnopenedOther == [f \in Files |-> {other}]

AllReady == [c \in Contents |-> "ready"]
BUnsupported == [c \in Contents |-> IF c = B THEN "unsupported" ELSE "ready"]
Symmetry == Permutations(Runs)

(* Without two claims in one millisecond: what a lapsed lease alone can do.  *)
RaceSpec == Init /\ [][Next /\ TokensApart']_vars
=============================================================================
