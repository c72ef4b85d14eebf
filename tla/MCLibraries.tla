------------------------------ MODULE MCLibraries -----------------------------
(* The shell, which opens libraries, and the projects of one library.  They    *)
(* keep no state in common and both have two threads at work, so a behaviour   *)
(* is one of either part, with the same two, while the other part rests in its *)
(* initial state.                                                              *)
EXTENDS MCShell

CONSTANTS Ids, Bases, Suffix, Tags, Archives, Flat, Starts, MaxOps, MaxEvents, p1, p2, p3, t1, t2
VARIABLES part, projects, used, tags, folders, flat, work, ops, events

P == INSTANCE MCProjects WITH Workers <- Callers

ASSUME ProjectsAssumption == P!ProjectsAssumption

\* The values of the constants, as MCProjects has them.
LibrariesBases == {10, 20}
Values == INSTANCE MCProjects WITH
  Workers <- {}, Bases <- LibrariesBases, Archives <- {}, Flat <- {}, Starts <- {}
LibrariesArchives == Values!MCArchives
LibrariesFlat == Values!MCFlat
LibrariesStarts == Values!MCStarts

projectsVars == <<projects, used, tags, folders, flat, work, ops, events>>

(* The part that rests does so in one of its initial states.                   *)
LibrariesInit ==
  /\ part \in {"shell", "projects"} /\ Init /\ P!Init
  /\ part = "shell" => projects = P!NoRows
  /\ part = "projects" => file = NoDoc
(* A release may find no thread before the restart and while another one is at *)
(* work, which whoever waits for the last release is then not told of.         *)
Missed == {i \in Folders : folder[i].stage # "dropped" /\ folder'[i].stage = "dropped"}
ShellPart ==
  /\ part = "shell" /\ Next
  /\ Missed # {} => starts = 1 /\ \E i \in Folders : folder[i].stage = "released"
  /\ UNCHANGED <<part, projectsVars>>
ProjectsPart == part = "projects" /\ P!Next /\ UNCHANGED <<part, vars>>
LibrariesSpec == LibrariesInit /\ [][ShellPart \/ ProjectsPart]_<<part, vars, projectsVars>>

(* What each part promises, looked at while it is the one at work.             *)
CallsAreSound == part = "shell" => ShellIsSound
ChoicesAreFollowed == part = "shell" => ChoiceIsFollowed
ProjectsAreShaped == part = "projects" => P!TypeOK
FoldersAndRowsAgree == P!FoldersAndRowsAgree
=============================================================================
