------------------------------- MODULE Projects -------------------------------
(* The projects of one user: rows, tags and folders, which no transaction     *)
(* spans.  Requests create, edit, delete and tag; a rescan adopts folders and  *)
(* marks rows missing; an archive is planned, extracted, indexed and its       *)
(* sidecars applied; a command moves a flat library in.                        *)
(*                                                                            *)
(* Folder names are numbers in their sorted order: b is a base name and b + k *)
(* the same with " (k + 1)".  What lies in a folder is who wrote it and the   *)
(* sidecar, if there is one; the files and their rows are LibraryIndex's.      *)
EXTENDS Integers, Sequences, FiniteSets, FiniteSetsExt, Functions

CONSTANTS
  Workers,   \* requests and commands that may run at once
  Ids,       \* project ids, each used once
  Bases,     \* the folder names that project names make
  Suffix,    \* bound: how many folders of one base
  Tags,      \* tag names, up to case
  Archives,  \* the archives that may be uploaded
  Flat,      \* the folders of a flat library, with their sidecars
  Starts,    \* the libraries to start from
  None,
  MaxOps,    \* bound: the requests begun
  MaxEvents  \* bound: what someone does to the folders without the app

Places == {b + k : b \in Bases, k \in 0 .. Suffix - 1}
User == "someone"

(* A sidecar, a row and a folder.                                             *)
Sides == [tags : SUBSET Tags, website : {"sidecar"}, archived : BOOLEAN]
Rows == [dir : Places, state : {"ok", "missing"}, website : {None, User, "sidecar"},
         archived : BOOLEAN, tags : SUBSET Tags]
Folders == [by : SUBSET (Workers \cup {User}), sidecar : Sides \cup {None}]

VARIABLES
  projects,  \* projects[i]: the row, or None
  used,      \* ids that were given out
  tags,      \* the tags table
  folders,   \* folders[d]: who wrote in the user's folder d and its sidecar, or None
  flat,      \* the project folders at the library's root
  work,      \* work[w]: what request w is doing
  ops, events

vars == <<projects, used, tags, folders, flat, work, ops, events>>

-----------------------------------------------------------------------------
(* Rows, folders, names.                                                      *)

Live == {i \in Ids : projects[i] # None}
Fresh == Ids \ used
RowOf(d) == {i \in Live : projects[i].dir = d}
OnDisk == {d \in Places : folders[d] # None}

NewRow(d, ts) == [dir |-> d, state |-> "ok", website |-> None, archived |-> FALSE, tags |-> ts]

(* unique_dir_name: the first of the base's names that no row has.            *)
AnyDirs(b) == b .. b + Suffix - 1
FreeDirs(b) == {d \in b .. b + Suffix - 1 : RowOf(d) = {}}

Empty == [by |-> {}, sidecar |-> None]
Written(f, who) == IF f = None THEN [by |-> {who}, sidecar |-> None]
                   ELSE [f EXCEPT !.by = @ \cup {who}]

(* What remove_dir_all may leave: nothing, or a part where it fails.          *)
Remains(f) == IF f = None THEN {None} ELSE {None, f, [f EXCEPT !.sidecar = None], Empty}

Idle == [op |-> "idle", at |-> "idle", id |-> None, dir |-> None, files |-> FALSE,
         plan |-> None, next |-> 0, seen |-> {}, todo |-> {}, sidecar |-> None,
         there |-> {}, kept |-> {}, touched |-> {}, answer |-> None]

Task(op, at) == [Idle EXCEPT !.op = op, !.at = at]
At(w, at) == work[w].at = at

(* The step leaves w at `task` and changes the folders or rows of ds, which   *)
(* the others that are running are recorded to have seen changed.             *)
Step(w, task, ds) ==
  work' = [v \in Workers |-> IF v = w THEN task
                             ELSE IF work[v].at = "idle" THEN work[v]
                             ELSE [work[v] EXCEPT !.touched = @ \cup ds]]
Go(w, at) == Step(w, [work[w] EXCEPT !.at = at], {})
(* What is to be done next, in order of the folder names.                     *)
First(todo) == CHOOSE p \in todo : \A q \in todo : p.dir <= q.dir
Rest(todo) == todo \ {First(todo)}
Ended(answer) == [Idle EXCEPT !.answer = answer]
End(w, answer) == Step(w, Ended(answer), {})

Begin(w, task) ==
  /\ At(w, "idle") /\ ops < MaxOps
  /\ ops' = ops + 1
  /\ Step(w, task, {})
  /\ UNCHANGED <<projects, used, tags, folders, flat, events>>

-----------------------------------------------------------------------------
(* create_project: one immediate transaction, with the folder made inside it, *)
(* there or not; a failure after that takes the row back and not the folder.  *)
Create(w) ==
  /\ At(w, "idle") /\ ops < MaxOps
  /\ ops' = ops + 1
  /\ \E b \in Bases, ts \in SUBSET Tags : \E i \in Fresh :
       /\ i = CHOOSE j \in Fresh : TRUE
       /\ FreeDirs(b) # {}
       /\ LET d == Min(FreeDirs(b))
          IN  /\ folders' = [folders EXCEPT ![d] = IF @ = None THEN Empty ELSE @]
              /\ \/ /\ projects' = [projects EXCEPT ![i] = NewRow(d, ts)]
                    /\ used' = used \cup {i} /\ tags' = tags \cup ts
                    /\ Step(w, Ended("done"), {d})
                 \/ /\ Step(w, Ended("failed"), {d})
                    /\ UNCHANGED <<projects, used, tags>>
  /\ UNCHANGED <<flat, events>>

Changes(w) ==
  /\ At(w, "idle") /\ ops < MaxOps
  /\ ops' = ops + 1
  /\ Step(w, Ended("done"), {})
  /\ UNCHANGED <<used, folders, flat, events>>

(* update_project: whatever it is called, a project keeps its folder.         *)
Update(w) ==
  /\ Changes(w)
  /\ \E i \in Live, archived \in BOOLEAN :
       projects' = [projects EXCEPT ![i].archived = archived, ![i].website = User]
  /\ UNCHANGED tags

(* add_tag and remove_tag, one transaction each.  Tags that label nothing go  *)
(* with a label that is taken off.                                            *)
Tag(w) ==
  /\ Changes(w)
  /\ \E i \in Live, t \in Tags :
       \/ projects' = [projects EXCEPT ![i].tags = @ \cup {t}] /\ tags' = tags \cup {t}
       \/ /\ projects' = [projects EXCEPT ![i].tags = @ \ {t}]
          /\ tags' = UNION {projects'[j].tags : j \in Live}

(* delete_project: the row is read, the folder removed, the row deleted.  A   *)
(* folder that cannot be removed keeps its row.                               *)
BeginDelete(w) ==
  \E i \in Live, files \in BOOLEAN :
    Begin(w, [Task("delete", IF files THEN "remove" ELSE "drop")
              EXCEPT !.id = i, !.dir = projects[i].dir, !.files = files])

DeleteFolder(w) ==
  LET d == work[w].dir
  IN  /\ At(w, "remove")
      /\ \E f \in Remains(folders[d]) :
           /\ folders' = [folders EXCEPT ![d] = f]
           /\ Step(w, IF f = None THEN [work[w] EXCEPT !.at = "drop"] ELSE Ended("failed"), {d})
  /\ UNCHANGED <<projects, used, tags, flat, ops, events>>

(* The tags it carried stay.                                                  *)
DeleteRow(w) ==
  /\ At(w, "drop")
  /\ projects' = [projects EXCEPT ![work[w].id] = None]
  /\ Step(w, Ended("done"), {work[w].dir})
  /\ UNCHANGED <<used, tags, folders, flat, ops, events>>

-----------------------------------------------------------------------------
(* rescan, on its own and as the second phase of both imports.                *)

BeginRescan(w) == Begin(w, Task("rescan", "list"))

ListFolders(w) ==
  /\ At(w, "list")
  /\ Step(w, [work[w] EXCEPT !.seen = OnDisk, !.touched = {}, !.at = "adopt"], {})
  /\ UNCHANGED <<projects, used, tags, folders, flat, ops, events>>

(* New ids, all different.  One choice stands for all: ids are only compared. *)
NewIds(ds) == LET choices == {f \in [ds -> Fresh] : IsInjective(f)}
              IN  IF choices = {} THEN {} ELSE {CHOOSE f \in choices : TRUE}

Unknown(seen) == {d \in seen : RowOf(d) = {}}

(* Every folder without a row gets one; the visit is in order of the names.   *)
(* The transaction reads before it writes: another process that wrote between *)
(* the two fails it.                                                          *)
Adopt(w) ==
  LET new == Unknown(work[w].seen)
      row(d, ids) == [id |-> ids[d], dir |-> d, state |-> "ok"]
      known(i) == [id |-> i, dir |-> projects[i].dir, state |-> projects[i].state]
  IN  /\ At(w, "adopt")
      /\ \/ new # {} /\ End(w, "failed") /\ UNCHANGED <<projects, used>>
         \/ \E ids \in NewIds(new) :
              /\ projects' = [i \in Ids |-> IF i \in Range(ids)
                                THEN NewRow(Inverse(ids, new, Fresh)[i], {}) ELSE projects[i]]
              /\ used' = used \cup Range(ids)
              /\ Step(w, [work[w] EXCEPT !.at = "visit",
                            !.todo = {row(d, ids) : d \in new} \cup {known(i) : i \in Live}], new)
      /\ UNCHANGED <<tags, folders, flat, ops, events>>

Marked(i, state) == [projects EXCEPT ![i] = IF @ = None THEN None ELSE [@ EXCEPT !.state = state]]

(* Where a rescan goes on once every project was visited.                     *)
After(task) == IF task.op = "rescan" THEN Ended("done") ELSE [task EXCEPT !.at = "rows"]
Visited(task) == IF Rest(task.todo) = {} THEN After([task EXCEPT !.todo = {}])
                 ELSE [task EXCEPT !.todo = Rest(task.todo), !.at = "visit"]

(* A folder that was not listed: its row is missing, never deleted.  One that *)
(* was is there again.                                                        *)
VisitMissingOnly(w) ==
  LET p == First(work[w].todo)
  IN  /\ At(w, "visit") /\ work[w].todo # {}
      /\ IF p.dir \in work[w].seen
         THEN Step(w, [work[w] EXCEPT !.at = "walk"], {}) /\ UNCHANGED projects
         ELSE projects' = Marked(p.id, "missing") /\ Step(w, Visited(work[w]), {p.dir})
      /\ UNCHANGED <<used, tags, folders, flat, ops, events>>
Visit(w) ==
  LET p == First(work[w].todo)
  IN  /\ At(w, "visit") /\ work[w].todo # {}
      /\ IF p.dir \in work[w].seen
         THEN /\ projects' = IF p.state # "ok" THEN Marked(p.id, "ok") ELSE projects
              /\ Step(w, [work[w] EXCEPT !.at = "walk"], IF p.state # "ok" THEN {p.dir} ELSE {})
         ELSE /\ projects' = IF p.state # "missing" THEN Marked(p.id, "missing") ELSE projects
              /\ Step(w, Visited(work[w]), IF p.state # "missing" THEN {p.dir} ELSE {})
      /\ UNCHANGED <<used, tags, folders, flat, ops, events>>

VisitNothing(w) ==
  /\ At(w, "visit") /\ work[w].todo = {}
  /\ Step(w, After(work[w]), {})
  /\ UNCHANGED <<projects, used, tags, folders, flat, ops, events>>

(* A folder that is gone by the time it is walked fails the whole rescan.     *)
Walk(w) ==
  /\ At(w, "walk")
  /\ Step(w, IF folders[First(work[w].todo).dir] = None THEN Ended("failed")
             ELSE Visited(work[w]), {})
  /\ UNCHANGED <<projects, used, tags, folders, flat, ops, events>>

-----------------------------------------------------------------------------
(* plan_zip_import.  An entry's path is a sequence of names; the ones below   *)
(* every folder name are the parts an importer must not take literally.       *)

DotDot == 0
Hidden == 1
MacOsx == 2
Drive  == 3

Usable(entry) ==
  /\ ~entry.folder /\ entry.parts # <<>>
  /\ entry.parts[1] # MacOsx
  /\ \A k \in DOMAIN entry.parts : entry.parts[k] \notin {DotDot, Hidden}

(* One wrapping folder is stripped, if it holds folders.                      *)
PlanZip(entries) ==
  LET usable == SelectSeq(entries, Usable)
      top    == {usable[k].parts[1] : k \in DOMAIN usable}
      strip  == Cardinality(top) = 1 /\ \E k \in DOMAIN usable : Len(usable[k].parts) > 2
      landed(e) == IF strip THEN Tail(e.parts) ELSE e.parts
      within(e) == Len(landed(e)) >= 2
      files  == SelectSeq(usable, within)
  IN  [files |-> [k \in DOMAIN files |-> [parts |-> landed(files[k]), corrupt |-> files[k].corrupt,
                                          sidecar |-> files[k].sidecar]],
       dirs  |-> {landed(files[k])[1] : k \in DOMAIN files}]

(* safe_join: a part that names a drive or climbs is refused wherever it is.  *)
Joins(parts) == \A k \in DOMAIN parts : parts[k] \notin {DotDot, Drive}

(* The upload is staged under a name of its own, and the staged file goes     *)
(* however the import ends.  An upload that breaks off refuses.               *)
BeginZip(w) ==
  \E a \in Archives : Begin(w, [Task("zip", "check") EXCEPT !.plan = PlanZip(a)])

(* Everything that can refuse does so before the first byte: no project, a    *)
(* folder that is there already, a path that escapes, the quota.              *)
CheckZip(w) ==
  LET plan == work[w].plan
  IN  /\ At(w, "check")
      /\ \/ End(w, "refused")
         \/ /\ plan.files # <<>> /\ plan.dirs \cap OnDisk = {}
            /\ \A k \in DOMAIN plan.files : Joins(plan.files[k].parts)
            /\ Step(w, [work[w] EXCEPT !.at = "extract", !.next = 1, !.there = OnDisk,
                                       !.touched = {}], {})
      /\ UNCHANGED <<projects, used, tags, folders, flat, ops, events>>

(* A damaged entry fails and any other may, before, while or after it writes. *)
Extract(w) ==
  LET task == work[w]
      file == task.plan.files[task.next]
      d    == file.parts[1]
      into == Written(folders[d], w)
      whole == IF file.sidecar # None /\ Len(file.parts) = 2
               THEN [into EXCEPT !.sidecar = file.sidecar] ELSE into
  IN  /\ At(w, "extract") /\ task.next \in DOMAIN task.plan.files
      /\ \/ /\ ~file.corrupt
            /\ folders' = [folders EXCEPT ![d] = whole]
            /\ Step(w, [task EXCEPT !.next = @ + 1], {d})
         \/ /\ \E f \in {folders[d], into, whole} : folders' = [folders EXCEPT ![d] = f]
            /\ Step(w, [task EXCEPT !.at = "clean"], {d})
      /\ UNCHANGED <<projects, used, tags, flat, ops, events>>

Extracted(w) ==
  /\ At(w, "extract") /\ work[w].next \notin DOMAIN work[w].plan.files
  /\ Go(w, "list")
  /\ UNCHANGED <<projects, used, tags, folders, flat, ops, events>>

(* An entry that fails takes every folder of the plan with it, one by one.  A *)
(* folder that cannot be removed stays, and the others go all the same.       *)
Removal(w, d, f, task) ==
  /\ folders' = [folders EXCEPT ![d] = f]
  /\ Step(w, [task EXCEPT !.seen = @ \cup {d}, !.kept = IF f = None THEN @ ELSE @ \cup {d}], {d})
CleanUntilFailure(w) ==
  /\ At(w, "clean")
  /\ LET left == work[w].plan.dirs \ work[w].seen
         d == Min(left)
     IN  IF left = {} THEN End(w, "failed") /\ UNCHANGED folders
         ELSE \E f \in Remains(folders[d]) :
                Removal(w, d, f, IF f = None THEN work[w] ELSE Ended("failed"))
  /\ UNCHANGED <<projects, used, tags, flat, ops, events>>
Clean(w) ==
  /\ At(w, "clean")
  /\ LET left == work[w].plan.dirs \ work[w].seen
         d == Min(left)
     IN  IF left = {} THEN End(w, "failed") /\ UNCHANGED folders
         ELSE \E f \in Remains(folders[d]) : Removal(w, d, f, work[w])
  /\ UNCHANGED <<projects, used, tags, flat, ops, events>>

-----------------------------------------------------------------------------
(* move_flat_library_into_user_folder, a command of its own process.          *)

(* In place there is nothing to move.                                         *)
BeginMove(w) == \E at \in {"collide", "list"} : Begin(w, Task("move", at))

Collide(w) ==
  LET names == {d \in Places : flat[d] # None}
  IN  /\ At(w, "collide")
      /\ IF names \cap OnDisk # {} THEN End(w, "refused")
         ELSE Step(w, [work[w] EXCEPT !.seen = names, !.there = OnDisk \cup names, !.touched = {},
                                      !.at = "move"], {})
      /\ UNCHANGED <<projects, used, tags, folders, flat, ops, events>>

(* One rename.  Onto an empty folder it replaces it, onto another it fails;   *)
(* and it may fail whatever is there (a file that is open, another volume).   *)
(* What was moved before stays where it is.                                   *)
Move(w) ==
  LET d == Min(work[w].seen)
  IN  /\ At(w, "move") /\ work[w].seen # {}
      /\ \/ /\ flat[d] # None /\ folders[d] \in {None, Empty}
            /\ folders' = [folders EXCEPT ![d] = flat[d]]
            /\ flat' = [flat EXCEPT ![d] = None]
            /\ Step(w, [work[w] EXCEPT !.seen = @ \ {d}], {d})
         \/ End(w, "failed") /\ UNCHANGED <<folders, flat>>
      /\ UNCHANGED <<projects, used, tags, ops, events>>

Moved(w) ==
  /\ At(w, "move") /\ work[w].seen = {}
  /\ Go(w, "list")
  /\ UNCHANGED <<projects, used, tags, folders, flat, ops, events>>

-----------------------------------------------------------------------------
(* apply_curamanager_sidecars: of an archive, to the folders it brought in.   *)

InLibrary(task, i) == TRUE
InScope(task, i) == task.op = "zip" => projects[i].dir \in task.plan.dirs

ReadRows(w) ==
  LET scope == {i \in Live : projects[i].state = "ok" /\ InScope(work[w], i)}
  IN  /\ At(w, "rows")
      /\ Step(w, [work[w] EXCEPT !.at = "sidecar",
                    !.todo = {[id |-> i, dir |-> projects[i].dir] : i \in scope}], {})
      /\ UNCHANGED <<projects, used, tags, folders, flat, ops, events>>

(* A folder without a readable sidecar is skipped.                            *)
ReadSidecar(w) ==
  /\ At(w, "sidecar")
  /\ IF work[w].todo = {} THEN End(w, "done")
     ELSE LET f == folders[First(work[w].todo).dir]
          IN  IF f = None \/ f.sidecar = None
              THEN Step(w, [work[w] EXCEPT !.todo = Rest(work[w].todo)], {})
              ELSE Step(w, [work[w] EXCEPT !.sidecar = f.sidecar, !.at = "tag"], {})
  /\ UNCHANGED <<projects, used, tags, folders, flat, ops, events>>

(* add_tag and update_project_unchecked: a project deleted since fails it.    *)
TagSidecar(w) ==
  LET i == First(work[w].todo).id
  IN  /\ At(w, "tag")
      /\ IF projects[i] = None THEN End(w, "failed") /\ UNCHANGED <<projects, tags>>
         ELSE /\ projects' = [projects EXCEPT ![i].tags = @ \cup work[w].sidecar.tags]
              /\ tags' = tags \cup work[w].sidecar.tags
              /\ Go(w, "patch")
      /\ UNCHANGED <<used, folders, flat, ops, events>>

PatchSidecar(w) ==
  LET i == First(work[w].todo).id
  IN  /\ At(w, "patch")
      /\ IF projects[i] = None THEN End(w, "failed") /\ UNCHANGED projects
         ELSE /\ projects' = [projects EXCEPT ![i].website = work[w].sidecar.website,
                                              ![i].archived = work[w].sidecar.archived]
              /\ Step(w, [work[w] EXCEPT !.at = "sidecar", !.todo = Rest(work[w].todo)], {})
      /\ UNCHANGED <<used, tags, folders, flat, ops, events>>

-----------------------------------------------------------------------------
(* What is asked of the database or of the disk may fail: the request ends    *)
(* there, and what it did before stays.                                       *)
Fails(w) ==
  /\ work[w].at \in {"remove", "drop", "list", "visit", "walk", "collide", "rows", "tag", "patch"}
  /\ End(w, "failed")
  /\ UNCHANGED <<projects, used, tags, folders, flat, ops, events>>

(* Someone puts a folder there, writes in one, or takes one away.             *)
Outside ==
  /\ events < MaxEvents /\ events' = events + 1
  /\ \E d \in Places : \E f \in {None, Written(folders[d], User)} :
       /\ folders[d] # f
       /\ folders' = [folders EXCEPT ![d] = f]
       /\ work' = [w \in Workers |-> IF At(w, "idle") THEN work[w]
                                     ELSE [work[w] EXCEPT !.touched = @ \cup {d}]]
  /\ UNCHANGED <<projects, used, tags, flat, ops>>

(* What the constants are: MCLibraries assumes it of its instance.            *)
ProjectsAssumption ==
  /\ Bases \subseteq Nat \ 0..3 /\ Suffix \in Nat \ {0}
  /\ \A b, c \in Bases : b < c => b + Suffix <= c
  /\ MaxOps \in Nat /\ MaxEvents \in Nat
  /\ None \notin Rows \cup Folders
  /\ DOMAIN Flat \subseteq Places /\ Flat \in [DOMAIN Flat -> Sides \cup {None}]
  /\ \A a \in Archives : LET plan == PlanZip(a) IN
       /\ plan.dirs \subseteq Places
       /\ \A k \in DOMAIN plan.files : plan.files[k].sidecar \in Sides \cup {None}
  /\ \A s \in Starts :
       /\ s.projects \in [Ids -> Rows \cup {None}] /\ s.folders \in [Places -> Folders \cup {None}]
       /\ s.tags \subseteq Tags
       /\ \A i, j \in Ids : s.projects[i] # None /\ s.projects[j] # None
                             /\ s.projects[i].dir = s.projects[j].dir => i = j

Init ==
  /\ \E s \in Starts : projects = s.projects /\ folders = s.folders /\ tags = s.tags
  /\ used = Live
  /\ flat = [d \in Places |-> IF d \in DOMAIN Flat THEN [by |-> {User}, sidecar |-> Flat[d]] ELSE None]
  /\ work = [w \in Workers |-> Idle]
  /\ ops = 0 /\ events = 0

Requests(w) == Create(w) \/ Update(w) \/ Tag(w) \/ BeginDelete(w) \/ DeleteFolder(w) \/ DeleteRow(w)
Rescan(w)   == BeginRescan(w) \/ ListFolders(w) \/ Adopt(w) \/ Visit(w) \/ VisitNothing(w) \/ Walk(w)
Archived(w) == BeginZip(w) \/ CheckZip(w) \/ Extract(w) \/ Extracted(w) \/ Clean(w)
MoveIn(w)   == BeginMove(w) \/ Collide(w) \/ Move(w) \/ Moved(w)
Sidecars(w) == ReadRows(w) \/ ReadSidecar(w) \/ TagSidecar(w) \/ PatchSidecar(w)

Next == \/ \E w \in Workers : Requests(w) \/ Rescan(w) \/ Archived(w) \/ MoveIn(w) \/ Sidecars(w) \/ Fails(w)
        \/ Outside

Spec == Init /\ [][Next]_vars

-----------------------------------------------------------------------------
(* Properties.                                                                *)

(* The variables have their types, an id is given once, and a folder name is  *)
(* the row's of one project at most.                                          *)
TypeOK ==
  /\ Live \subseteq used /\ used \subseteq Ids /\ tags \subseteq Tags
  /\ \A i \in Live : projects[i].dir \in Places /\ projects[i].state \in {"ok", "missing"}
  /\ \A i, j \in Live : projects[i].dir = projects[j].dir => i = j
  /\ \A w \in Workers : work[w].touched \subseteq Places /\ work[w].seen \subseteq Places
  /\ ops \in 0..MaxOps /\ events \in 0..MaxEvents

(* rescan: once it has answered, the folders and rows nobody else changed      *)
(* since it listed them agree: a folder has a row and it is ok, a row without *)
(* a folder is missing and still there.                                       *)
RescanAgrees ==
  \A w \in Workers : work[w].op \in {"rescan", "zip", "move"} /\ work[w].at \in {"visit", "walk"}
       /\ work'[w].at \in {"idle", "rows"} /\ work'[w].answer # "failed"
     => \A d \in Places \ work[w].touched :
          LET rows == {i \in Ids : projects'[i] # None /\ projects'[i].dir = d}
          IN  /\ folders'[d] # None => \E i \in rows : projects'[i].state = "ok"
              /\ folders'[d] = None => \A i \in rows : projects'[i].state = "missing"

(* import_curamanager_zip: an archive that fails, wherever it does, has left   *)
(* the folders that nobody else changed as it found them, those aside that    *)
(* could not be removed: one that could not keeps no other from going.        *)
CleanupIsThorough ==
  \A w \in Workers : work[w].at = "clean" /\ work'[w].at = "idle" =>
    \A d \in Places \ work[w].touched :
      folders'[d] # None <=> d \in work[w].there \cup work[w].kept

(* move_flat_library_into_user_folder: a move that goes on has moved every    *)
(* folder, and one that stops, wherever it does, has lost and doubled none:   *)
(* each is where it was or where it goes, so that it can be run again.        *)
MoveLosesNothing ==
  \A w \in Workers : work[w].at = "move" /\ work'[w].at # "move" =>
    \A d \in Places \ work[w].touched :
      /\ d \in work[w].there <=> (folders'[d] # None) # (flat'[d] # None)
      /\ work'[w].at = "list" => flat'[d] = None

(* import_curamanager_zip: the sidecars applied are those of the folders it   *)
(* brought in; what a user edited of a project that was in the library stays. *)
ImportKeepsEdits ==
  \A w \in Workers, i \in Live :
       /\ work[w].op = "zip" /\ work[w].at \in {"tag", "patch"} /\ work'[w].at # work[w].at
       /\ projects[i].dir \in work[w].there
       => projects'[i] = projects[i]

(* So no step of a rescan or an import leaves the index or a folder wrong.    *)
FoldersAndRowsAgree ==
  [][RescanAgrees /\ CleanupIsThorough /\ MoveLosesNothing /\ ImportKeepsEdits]_vars

(* list_tags: a tag is in the table only while a project carries it.          *)
TagsAreCarried == tags \subseteq UNION {projects[i].tags : i \in Live}

(* import_curamanager_zip: the clean-up removes folders that this call made.  *)
CleanupTakesOwn ==
  [][\A w \in Workers : work[w].at = "clean" /\ work'[w].seen # work[w].seen =>
       \A d \in Places : folders[d] # None /\ folders'[d] = None => folders[d].by \subseteq {w}]_vars
=============================================================================
