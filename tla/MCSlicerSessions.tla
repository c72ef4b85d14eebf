--------------------------- MODULE MCSlicerSessions ---------------------------
(* Instances of SlicerSessions for TLC: every save the slicer makes is an    *)
(* edit.                                                                     *)
EXTENDS SlicerSessions

MCContents == {"as launched", "edited"}
MCContent == [v \in Saves |-> IF v = 0 THEN "as launched" ELSE "edited"]
=============================================================================
