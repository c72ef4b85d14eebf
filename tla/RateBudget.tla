------------------------------ MODULE RateBudget ------------------------------
(* What the rate limiter promises: an attempt of a key opens a window or is   *)
(* counted in the one that is open; a window grants a number of attempts and  *)
(* refuses the rest, with the time at which it ends.  A window that is over   *)
(* may be forgotten at any time, one that is not only when there are many.    *)
EXTENDS Integers, FiniteSets

CONSTANTS
  Keys,
  Limit,    \* Limit[k]: how many attempts a window of k grants
  Window,   \* Window[k]: how long it is
  Many,     \* the keys that are always remembered at once
  Times, None

VARIABLES
  window,   \* window[k]: when k's window opened and what it has granted, or None
  answer    \* the last answer: its key, when it was asked, and the end of a window that refused

vars == <<window, answer>>

Open(k, t) == window[k] # None /\ t - window[k].start < Window[k]

(* What is remembered of the other keys when k asks at t.                     *)
Forgets(k, t) ==
  {F \in SUBSET {j \in Keys \ {k} : window[j] # None} :
     \/ \A j \in F : ~Open(j, t)
     \/ Cardinality({j \in Keys : j = k \/ window[j] # None}) > Many}

Grant(k, t) ==
  LET w == IF Open(k, t) THEN window[k] ELSE [start |-> t, granted |-> 0]
  IN  /\ w.granted < Limit[k]
      /\ answer' = [key |-> k, at |-> t, until |-> None]
      /\ \E F \in Forgets(k, t) :
           window' = [j \in Keys |-> IF j = k THEN [w EXCEPT !.granted = @ + 1]
                                     ELSE IF j \in F THEN None ELSE window[j]]

Refuse(k, t) ==
  /\ Open(k, t) /\ window[k].granted = Limit[k]
  /\ answer' = [key |-> k, at |-> t, until |-> window[k].start + Window[k]]
  /\ \E F \in Forgets(k, t) : window' = [j \in Keys |-> IF j \in F THEN None ELSE window[j]]

Init == window = [k \in Keys |-> None] /\ answer = None
Next == \E k \in Keys, t \in Times : Grant(k, t) \/ Refuse(k, t)
Spec == Init /\ [][Next]_vars
=============================================================================
