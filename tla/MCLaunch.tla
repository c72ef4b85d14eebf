------------------------------ MODULE MCLaunch ------------------------------
(* Two products, one of them twice on the machine, and the files a launch     *)
(* tells apart.                                                               *)
EXTENDS Launch, TLC

MCSlicers == {"cura", "anycubic"}
MCKeyed == {"cura1", "any1"}
MCManual == {"hand", "handA"}
MCSlicerOf == [i \in MCKeyed \cup MCManual |-> IF i \in {"any1", "handA"} THEN "anycubic" ELSE "cura"]
MCPaths == {"C:cura.exe", "D:cura.exe", "C:any.exe", "tool.exe"}
MCExeOf == [p \in MCPaths |-> IF p = "C:any.exe" THEN "anycubic"
                              ELSE IF p = "tool.exe" THEN None ELSE "cura"]

File(ext, kind, author, holds) ==
  [ext |-> ext, kind |-> kind, author |-> author, holds |-> holds,
   refuses |-> FALSE, hashes |-> TRUE, record |-> FALSE]

(* A mesh, a project of the product, one of another's, one that was replaced  *)
(* since it was indexed, a 3mf without a configuration that cannot be         *)
(* stripped, and a STEP.                                                      *)
MCFiles ==
  {File("stl", "model", None, None),
   File("3mf", "project", "bambu", "bambu"),
   File("3mf", "project", "anycubic", "orca"),
   [File("3mf", "model", None, None) EXCEPT !.refuses = TRUE],
   File("step", "model", None, None)}

MCLibraries == {"folder", "server"}
MCIsServer == {"server"}

Row(i, p) == [id |-> i, path |-> p]
MCMachines ==
  {[rows |-> <<Row("cura1", "C:cura.exe"), Row("any1", "C:any.exe")>>,
    present |-> {"C:cura.exe", "C:any.exe", "tool.exe"}]}

Saved(rs, bind, default) == [state |-> "v1", rows |-> rs, bind |-> bind, default |-> default]
At1(p) == [hint |-> p, missing |-> FALSE]
Nothing == [i \in {} |-> None]

(* A first run, a file of a newer build, a configured machine, and one that   *)
(* was edited: a hint that is another program, a binding to another product.  *)
MCStored ==
  {[state |-> "absent", rows |-> Nothing, bind |-> Nothing, default |-> None],
   [state |-> "newer", rows |-> Nothing, bind |-> Nothing, default |-> None],
   Saved("cura1" :> At1("C:cura.exe") @@ "any1" :> At1("C:any.exe"),
         "cura" :> "cura1" @@ "anycubic" :> "any1", "anycubic"),
   Saved("cura1" :> At1("tool.exe") @@ "any1" :> At1("C:any.exe"),
         "cura" :> "cura1" @@ "anycubic" :> "cura1", None)}

Symmetric == Permutations(Workers)
=============================================================================
