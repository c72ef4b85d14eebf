----------------------------- MODULE MCAccounts -----------------------------
(* Small instances of Accounts for TLC.                                      *)
EXTENDS Accounts, TLC

CONSTANTS anna, bob, cleo, l1, l2, l3, c1, c2, c3, p1, p2, old, new

(* Every id and password is interchangeable with another of its set: Init    *)
(* and Next mention none of them.                                            *)
Symmetry == Permutations(Users) \cup Permutations(Tokens) \cup Permutations(Sessions)
              \cup Permutations(Requests) \cup Permutations(Passwords)
=============================================================================
