---------------------------- MODULE MCLibraryIndex ----------------------------
(* Instances of LibraryIndex for TLC.  Files and rows are interchangeable,   *)
(* and so are the requests.                                                  *)
EXTENDS LibraryIndex, TLC

Alike == Permutations(Blobs) \cup Permutations(Ids) \cup Permutations(Uploads)
           \cup Permutations(Names)
=============================================================================
