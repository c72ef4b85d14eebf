---------------------------- MODULE MCRateLimiter ----------------------------
EXTENDS RateLimiter, TLC
CONSTANTS k1, k2, k3
MCLimit == k1 :> 1 @@ k2 :> 2 @@ k3 :> 1
MCWindow == [k \in Keys |-> 2]
Sym == Permutations(Requests) \cup Permutations({k1, k3})
=============================================================================
