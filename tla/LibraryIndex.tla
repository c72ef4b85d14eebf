----------------------------- MODULE LibraryIndex -----------------------------
(* One project's folder and its `files` rows: uploads, renames, deletes and  *)
(* the rescan, which keep two stores in step that have no transaction in     *)
(* common, beside whoever changes the folder without the program.            *)
(*                                                                           *)
(* A file on disk is an element of Blobs; bytes[b] counts the saves it has   *)
(* had, so <<b, bytes[b]>> names its bytes.  The code compares size and      *)
(* modification time, which tell any two saves apart here.  Nothing below    *)
(* holds the database lock across file I/O: each action is what happens      *)
(* under one lock, or one call of the file system.                           *)
EXTENDS Naturals, FiniteSets

CONSTANTS
  Names,         \* relative paths in the project's folder
  Blobs,         \* files, each created once
  Ids,           \* ids of rows, each used once
  Uploads,       \* requests that upload, at once
  Editors,       \* requests that rename and delete, at once
  Outside,       \* TRUE: others change the folder, and the drive comes and goes
  None,
  MaxVersion     \* bound: the saves of one file

Versions == 0 .. MaxVersion
Stats == Blobs \X Versions
Listings == [id : Ids, stat : Stats]

ASSUME NoneAssumption ==
  None \notin Names \cup Blobs \cup Ids \cup Nat \cup Stats \cup Listings
ASSUME BoundsAssumption == MaxVersion \in Nat \ {0} /\ Outside \in BOOLEAN

VARIABLES
  folder,    \* whether the project's folder is there (the drive is mounted)
  disk,      \* disk[n]: the file at n, mounted or not
  bytes,     \* bytes[b]: None before b is created, then its version
  project,   \* projects.state
  rows,      \* rows[i]: the `files` row
  up,        \* up[p]: how far upload p is
  ed,        \* ed[p]: how far rename or delete p is
  scan       \* the rescan; scan.touched is a history variable

fileVars == <<folder, disk, bytes>>
dbVars == <<project, rows>>
vars == <<fileVars, dbVars, up, ed, scan>>

NoRow == [state |-> "unused", name |-> None, stat |-> None, hash |-> None]
IdleUpload == [at |-> "idle", name |-> None, blob |-> None, stat |-> None]
IdleEdit == [at |-> "idle", id |-> None, name |-> None, to |-> None]
IdleScan == [at |-> "idle", seen |-> [n \in Names |-> None],
             known |-> [n \in Names |-> None], todo |-> {}, touched |-> {}]

Exists(n) == folder /\ disk[n] # None
StatOf(n) == <<disk[n], bytes[disk[n]]>>
Live(i) == rows[i].state = "live"
RowsOf(n) == {i \in Ids : Live(i) /\ rows[i].name = n}
FreshIds == {i \in Ids : rows[i].state = "unused"}
FreshBlobs == {b \in Blobs : bytes[b] = None}
NewRow(n, stat, hash) == [state |-> "live", name |-> n, stat |-> stat, hash |-> hash]

(* A folder an earlier rescan has seen, with files that are new since.       *)
Init ==
  /\ folder = TRUE /\ project = "ok"
  /\ disk \in [Names -> Blobs \cup {None}]
  /\ \A n, m \in Names : disk[n] = disk[m] /\ disk[n] # None => n = m
  /\ bytes = [b \in Blobs |-> IF \E n \in Names : disk[n] = b THEN 0 ELSE None]
  /\ \E indexed \in SUBSET {n \in Names : disk[n] # None} : \E id \in [indexed -> Ids] :
       /\ \A n, m \in indexed : id[n] = id[m] => n = m
       /\ rows = [i \in Ids |->
                    IF \E n \in indexed : id[n] = i
                    THEN LET n == CHOOSE n \in indexed : id[n] = i
                         IN NewRow(n, <<disk[n], 0>>, <<disk[n], 0>>)
                    ELSE NoRow]
  /\ up = [p \in Uploads |-> IdleUpload]
  /\ ed = [p \in Editors |-> IdleEdit]
  /\ scan = IdleScan

(* Someone other than the rescan changes a file or a row of these names      *)
(* after the rescan has walked the folder.                                   *)
Touch(ns) ==
  scan' = IF scan.at \in {"walked", "files"}
          THEN [scan EXCEPT !.touched = @ \cup ns] ELSE scan

Unlinked(n) == IF folder THEN [disk EXCEPT ![n] = None] ELSE disk

-----------------------------------------------------------------------------
(* upload_file.                                                              *)

(* No row and no file has the name; the declared size fits the quota.        *)
UploadCheck(p, n) ==
  /\ up[p].at = "idle"
  /\ project = "ok" /\ RowsOf(n) = {} /\ ~Exists(n)
  /\ up' = [up EXCEPT ![p] = [IdleUpload EXCEPT !.at = "create", !.name = n]]
  /\ UNCHANGED <<fileVars, dbVars, ed, scan>>

(* OpenOptions::create_new: of several uploads of one name one gets past.    *)
TruncatingCreate(p, b) ==
  LET n == up[p].name IN
  /\ up[p].at = "create" /\ folder /\ b \in FreshBlobs
  /\ disk' = [disk EXCEPT ![n] = b]
  /\ bytes' = [bytes EXCEPT ![b] = 0]
  /\ up' = [up EXCEPT ![p].at = "body", ![p].blob = b]
  /\ Touch({n})
  /\ UNCHANGED <<folder, dbVars, ed>>
UploadCreate(p, b) ==
  LET n == up[p].name IN
  /\ up[p].at = "create" /\ folder /\ disk[n] = None /\ b \in FreshBlobs
  /\ disk' = [disk EXCEPT ![n] = b]
  /\ bytes' = [bytes EXCEPT ![b] = 0]
  /\ up' = [up EXCEPT ![p].at = "body", ![p].blob = b]
  /\ Touch({n})
  /\ UNCHANGED <<folder, dbVars, ed>>

(* The body, written to the file that was opened, wherever its name is now.  *)
UploadBody(p) ==
  LET b == up[p].blob IN
  /\ up[p].at = "body"
  /\ bytes' = [bytes EXCEPT ![b] = 1]
  /\ up' = [up EXCEPT ![p].at = "written"]
  /\ Touch({n \in Names : disk[n] = b})
  /\ UNCHANGED <<folder, disk, dbVars, ed>>

(* fs::metadata of the path.                                                 *)
UploadStat(p) ==
  /\ up[p].at = "written" /\ Exists(up[p].name)
  /\ up' = [up EXCEPT ![p].at = "index", ![p].stat = StatOf(up[p].name)]
  /\ UNCHANGED <<fileVars, dbVars, ed, scan>>

(* The row, unless the UNIQUE constraint finds another for that path, and    *)
(* the answer, which is Ok.                                                  *)
DuplicateInsert(p, i) ==
  LET n == up[p].name IN
  /\ up[p].at = "index" /\ i \in FreshIds
  /\ rows' = [rows EXCEPT ![i] = NewRow(n, up[p].stat, <<up[p].blob, 1>>)]
  /\ up' = [up EXCEPT ![p] = [IdleUpload EXCEPT !.at = "ok", !.blob = up[p].blob]]
  /\ Touch({n})
  /\ UNCHANGED <<fileVars, project, ed>>
UploadInsert(p, i) ==
  LET n == up[p].name IN
  /\ up[p].at = "index" /\ i \in FreshIds /\ RowsOf(n) = {}
  /\ rows' = [rows EXCEPT ![i] = NewRow(n, up[p].stat, <<up[p].blob, 1>>)]
  /\ up' = [up EXCEPT ![p] = [IdleUpload EXCEPT !.at = "ok", !.blob = up[p].blob]]
  /\ Touch({n})
  /\ UNCHANGED <<fileVars, project, ed>>

(* A body that cannot be read to the end, metadata that cannot be read, an   *)
(* insert that fails: what is at the path is removed.                        *)
UploadCleanup(p) ==
  /\ up[p].at \in {"body", "written", "index"}
  /\ disk' = Unlinked(up[p].name)
  /\ up' = [up EXCEPT ![p] = IdleUpload]
  /\ Touch({up[p].name})
  /\ UNCHANGED <<folder, bytes, dbVars, ed>>

(* Refused before anything is written, or the process dies.                  *)
UploadEnds(p) ==
  /\ up[p].at \notin {"idle", "ok"}
  /\ up' = [up EXCEPT ![p] = IdleUpload]
  /\ UNCHANGED <<fileVars, dbVars, ed, scan>>

-----------------------------------------------------------------------------
(* rename_file.                                                              *)

SetEdit(p, e) == ed' = [ed EXCEPT ![p] = e]

RenameCheck(p, i, to) ==
  /\ ed[p].at = "idle" /\ Live(i)
  /\ RowsOf(to) \subseteq {i} /\ ~Exists(to)
  /\ SetEdit(p, [at |-> "move", id |-> i, name |-> rows[i].name, to |-> to])
  /\ UNCHANGED <<fileVars, dbVars, up, scan>>

(* fs::rename takes whatever is at the new path away.                        *)
RenameMove(p) ==
  LET from == ed[p].name
      to == ed[p].to
  IN
  /\ ed[p].at = "move" /\ Exists(from)
  /\ disk' = [disk EXCEPT ![from] = None, ![to] = disk[from]]
  /\ SetEdit(p, [ed[p] EXCEPT !.at = "record", !.name = None])
  /\ Touch({from, to})
  /\ UNCHANGED <<folder, bytes, dbVars, up>>

(* A row that is gone is left alone; a row that has the path by now makes    *)
(* the UNIQUE constraint fail, and the file stays where it was moved to.     *)
RenameRecord(p) ==
  LET i == ed[p].id
      to == ed[p].to
  IN
  /\ ed[p].at = "record"
  /\ rows' = IF Live(i) /\ RowsOf(to) \subseteq {i} THEN [rows EXCEPT ![i].name = to] ELSE rows
  /\ SetEdit(p, IdleEdit)
  /\ Touch({rows[i].name, to} \ {None})
  /\ UNCHANGED <<fileVars, project, up>>

-----------------------------------------------------------------------------
(* delete_file: whether the drive is mounted is not asked.                   *)

DeleteResolve(p, i) ==
  /\ ed[p].at = "idle" /\ Live(i)
  /\ SetEdit(p, [at |-> "unlink", id |-> i, name |-> rows[i].name, to |-> None])
  /\ UNCHANGED <<fileVars, dbVars, up, scan>>

DeleteUnlink(p) ==
  /\ ed[p].at = "unlink"
  /\ disk' = Unlinked(ed[p].name)
  /\ SetEdit(p, [ed[p] EXCEPT !.at = "unrow", !.name = None])
  /\ Touch({ed[p].name})
  /\ UNCHANGED <<folder, bytes, dbVars, up>>

Dropped(i) == IF Live(i) THEN [rows EXCEPT ![i] = [NoRow EXCEPT !.state = "gone"]] ELSE rows

DeleteRow(p) ==
  /\ ed[p].at = "unrow"
  /\ rows' = Dropped(ed[p].id)
  /\ SetEdit(p, IdleEdit)
  /\ Touch({rows[ed[p].id].name} \ {None})
  /\ UNCHANGED <<fileVars, project, up>>

(* Refused, failed or dead between two steps.                                *)
EditEnds(p) ==
  /\ ed[p].at # "idle"
  /\ SetEdit(p, IdleEdit)
  /\ UNCHANGED <<fileVars, dbVars, up, scan>>

-----------------------------------------------------------------------------
(* rescan, for this project.                                                 *)

ScanSteps == <<fileVars, up, ed>>

(* A folder that is not there only marks the project: "Never delete metadata *)
(* implicitly; the drive may just be unmounted".                             *)
ScanStart ==
  /\ scan.at = "idle"
  /\ project' = IF folder THEN "ok" ELSE "missing"
  /\ scan' = IF folder THEN [scan EXCEPT !.at = "listed"] ELSE scan
  /\ UNCHANGED <<rows, ScanSteps>>

(* A folder that is gone by now fails the walk, and the rescan with it.      *)
Walked(n) == IF Exists(n) THEN StatOf(n) ELSE None
LenientWalk ==
  /\ scan.at = "listed"
  /\ scan' = [scan EXCEPT !.at = "walked", !.seen = [n \in Names |-> Walked(n)]]
  /\ UNCHANGED <<dbVars, ScanSteps>>
ScanWalk ==
  /\ scan.at = "listed" /\ folder
  /\ scan' = [scan EXCEPT !.at = "walked", !.seen = [n \in Names |-> Walked(n)]]
  /\ UNCHANGED <<dbVars, ScanSteps>>

ScanRows ==
  /\ scan.at = "walked"
  /\ scan' = [scan EXCEPT !.at = "files", !.todo = Names,
                !.known = [n \in Names |->
                  IF RowsOf(n) = {} THEN None
                  ELSE LET i == CHOOSE i \in RowsOf(n) : TRUE
                       IN [id |-> i, stat |-> rows[i].stat]]]
  /\ UNCHANGED <<dbVars, ScanSteps>>

Done(n) == scan' = [scan EXCEPT !.todo = @ \ {n}, !.seen[n] = None, !.known[n] = None]
Unseen(n) == scan.seen[n] = None
New(n) == ~Unseen(n) /\ scan.known[n] = None
SameFile(n) == scan.known[n].stat[1] = scan.seen[n][1]
SameStat(n) == scan.known[n].stat = scan.seen[n]
Pending(n) == scan.at = "files" /\ n \in scan.todo

(* The file is hashed as it is now, and the row inserted with the stat of    *)
(* the walk, unless a row has the path by now.                               *)
ScanInsert(n, i) ==
  /\ Pending(n) /\ New(n)
  /\ Exists(n) /\ i \in FreshIds /\ RowsOf(n) = {}
  /\ rows' = [rows EXCEPT ![i] = NewRow(n, scan.seen[n], StatOf(n))]
  /\ Done(n)
  /\ UNCHANGED <<project, ScanSteps>>

ScanKeep(n) ==
  /\ Pending(n) /\ ~Unseen(n) /\ ~New(n) /\ SameStat(n)
  /\ Done(n)
  /\ UNCHANGED <<dbVars, ScanSteps>>

StatOnlyUpdate(n) ==
  LET i == scan.known[n].id IN
  /\ Pending(n) /\ ~Unseen(n) /\ ~New(n) /\ ~SameStat(n)
  /\ Exists(n)
  /\ rows' = IF Live(i) THEN [rows EXCEPT ![i].stat = scan.seen[n]] ELSE rows
  /\ Done(n)
  /\ UNCHANGED <<project, ScanSteps>>
ScanUpdate(n) ==
  LET i == scan.known[n].id IN
  /\ Pending(n) /\ ~Unseen(n) /\ ~New(n) /\ ~SameStat(n)
  /\ Exists(n)
  /\ rows' = IF Live(i) THEN [rows EXCEPT ![i].stat = scan.seen[n], ![i].hash = StatOf(n)]
                        ELSE rows
  /\ Done(n)
  /\ UNCHANGED <<project, ScanSteps>>

(* After the last file: the rows of the paths the walk did not see.          *)
ScanDrop(n) ==
  /\ Pending(n) /\ \A m \in scan.todo : Unseen(m)
  /\ rows' = IF scan.known[n] = None THEN rows ELSE Dropped(scan.known[n].id)
  /\ Done(n)
  /\ UNCHANGED <<project, ScanSteps>>

(* Every path is done, or the rescan failed or died: a file that vanished,   *)
(* a path that has a row, a folder that is gone.                             *)
ScanEnds ==
  /\ scan.at # "idle"
  /\ scan' = IdleScan
  /\ UNCHANGED <<dbVars, ScanSteps>>

-----------------------------------------------------------------------------
(* Others: the drive, the file manager, a slicer that saves.                 *)

Mount ==
  /\ Outside
  /\ folder' = ~folder
  /\ UNCHANGED <<disk, bytes, dbVars, up, ed, scan>>

SaveOutside(n) ==
  /\ Outside /\ Exists(n) /\ bytes[disk[n]] < MaxVersion
  /\ \A p \in Uploads : up[p].at = "body" => up[p].blob # disk[n]
  /\ bytes' = [bytes EXCEPT ![disk[n]] = @ + 1]
  /\ Touch({n})
  /\ UNCHANGED <<folder, disk, dbVars, up, ed>>

CreateOutside(n, b) ==
  /\ Outside /\ folder /\ disk[n] = None /\ b \in FreshBlobs
  /\ disk' = [disk EXCEPT ![n] = b]
  /\ bytes' = [bytes EXCEPT ![b] = 0]
  /\ Touch({n})
  /\ UNCHANGED <<folder, dbVars, up, ed>>

RemoveOutside(n) ==
  /\ Outside /\ Exists(n)
  /\ disk' = [disk EXCEPT ![n] = None]
  /\ Touch({n})
  /\ UNCHANGED <<folder, bytes, dbVars, up, ed>>

-----------------------------------------------------------------------------
Upload(p) ==
  \/ \E n \in Names : UploadCheck(p, n)
  \/ \E b \in Blobs : UploadCreate(p, b)
  \/ UploadBody(p) \/ UploadStat(p)
  \/ \E i \in Ids : UploadInsert(p, i)
  \/ UploadCleanup(p) \/ UploadEnds(p)

Edit(p) ==
  \/ \E i \in Ids, to \in Names : RenameCheck(p, i, to)
  \/ RenameMove(p) \/ RenameRecord(p)
  \/ \E i \in Ids : DeleteResolve(p, i)
  \/ DeleteUnlink(p) \/ DeleteRow(p)
  \/ EditEnds(p)

Rescan ==
  \/ ScanStart \/ ScanWalk \/ ScanRows
  \/ \E n \in Names, i \in Ids : ScanInsert(n, i)
  \/ \E n \in Names : ScanKeep(n) \/ ScanUpdate(n) \/ ScanDrop(n)
  \/ ScanEnds

Others ==
  \/ Mount
  \/ \E n \in Names : SaveOutside(n) \/ RemoveOutside(n)
  \/ \E n \in Names, b \in Blobs : CreateOutside(n, b)

Next ==
  \/ \E p \in Uploads : Upload(p)
  \/ \E p \in Editors : Edit(p)
  \/ Rescan \/ Others

Spec == Init /\ [][Next]_vars

-----------------------------------------------------------------------------
RowSet ==
  [state : {"unused", "gone"}, name : {None}, stat : {None}, hash : {None}]
  \cup [state : {"live"}, name : Names, stat : Stats, hash : Stats]
UploadSet ==
  [at : {"idle"}, name : {None}, blob : {None}, stat : {None}]
  \cup [at : {"ok"}, name : {None}, blob : Blobs, stat : {None}]
  \cup [at : {"create"}, name : Names, blob : {None}, stat : {None}]
  \cup [at : {"body", "written"}, name : Names, blob : Blobs, stat : {None}]
  \cup [at : {"index"}, name : Names, blob : Blobs, stat : Stats]
EditSet ==
  [at : {"idle"}, id : {None}, name : {None}, to : {None}]
  \cup [at : {"move"}, id : Ids, name : Names, to : Names]
  \cup [at : {"record"}, id : Ids, name : {None}, to : Names]
  \cup [at : {"unlink"}, id : Ids, name : Names, to : {None}]
  \cup [at : {"unrow"}, id : Ids, name : {None}, to : {None}]
ScanSet ==
  [at : {"idle", "listed", "walked", "files"},
   seen : [Names -> Stats \cup {None}],
   known : [Names -> Listings \cup {None}],
   todo : SUBSET Names, touched : SUBSET Names]

(* TypeOK: the shape of the folder, the rows and whoever is at work; one row *)
(* for a path and one path for a file.                                       *)
Shape ==
  /\ folder \in BOOLEAN /\ project \in {"ok", "missing"}
  /\ disk \in [Names -> Blobs \cup {None}]
  /\ bytes \in [Blobs -> Versions \cup {None}]
  /\ \A n \in Names : disk[n] # None => bytes[disk[n]] # None
  /\ rows \in [Ids -> RowSet]
  /\ up \in [Uploads -> UploadSet]
  /\ ed \in [Editors -> EditSet]
  /\ scan \in ScanSet
OneRowPerPath == \A i, j \in Ids : Live(i) /\ Live(j) /\ rows[i].name = rows[j].name => i = j
OnePathPerFile == \A n, m \in Names : disk[n] = disk[m] /\ disk[n] # None => n = m
TypeOK == Shape /\ OneRowPerPath /\ OnePathPerFile

(* When a rescan has come to its end, the index agrees with the folder about *)
(* every path nobody else touched since the walk: a row with the file's stat *)
(* where there is a file, and no row where there is none.  What happened to  *)
(* other paths meanwhile, and how far some upload or rename had come, makes  *)
(* no difference.                                                            *)
Reconciled(n) ==
  IF disk[n] = None THEN RowsOf(n) = {}
                    ELSE \E i \in RowsOf(n) : rows[i].stat = StatOf(n)
RescanReconciles ==
  scan.at = "files" /\ scan.todo = {} => \A n \in Names \ scan.touched : Reconciled(n)

(* "Never delete metadata implicitly; the drive may just be unmounted": a    *)
(* rescan that removes a row has found its path empty, on the drive and not  *)
(* in its absence, unless somebody changed the path since.                   *)
RowOutlivesDrive(i) ==
  Live(i) /\ rows'[i].state = "gone" /\ ed' = ed =>
    disk[rows[i].name] = None \/ rows[i].name \in scan.touched
RowsOutliveDrive == [][\A i \in Ids : RowOutlivesDrive(i)]_vars

(* Where nobody renames, deletes or meddles, an upload that was answered     *)
(* with Ok has its whole body on disk for good: no other upload of the name, *)
(* whatever step it fails or dies at, and no rescan takes it away.           *)
UploadsAreKept ==
  ~Outside /\ Editors = {} =>
    \A p \in Uploads : up[p].at = "ok" =>
      bytes[up[p].blob] = 1 /\ \E n \in Names : disk[n] = up[p].blob

(* There too, a row whose stat is the file's, which the rescan will believe  *)
(* without reading the file, has the hash of the very bytes it was taken of, *)
(* although an upload is indexed while it is still being written.            *)
HashIsBelievable ==
  ~Outside /\ Editors = {} =>
    \A i \in Ids :
      Live(i) /\ disk[rows[i].name] # None /\ rows[i].stat = StatOf(rows[i].name)
        => rows[i].hash = rows[i].stat

(* usecases.rs: "No row means no owner for these bytes: leave nothing        *)
(* behind": a failing upload that removes a file does not remove one the     *)
(* index lists.                                                              *)
CleanupOwnsItsBytes ==
  [][\A p \in Uploads, n \in Names :
       up[p].at = "index" /\ up'[p].at = "idle" /\ disk[n] # None /\ disk'[n] = None =>
         RowsOf(n) = {}]_vars

(* The index has its shape, and agrees with the folder after a rescan.       *)
IndexIsSound == TypeOK /\ RescanReconciles

(* What was uploaded stays, and what a row says of its bytes is believable.  *)
UploadsAreSound == UploadsAreKept /\ HashIsBelievable
=============================================================================
