---------------------------- MODULE Library_proofs ----------------------------
(* Proofs about the two halves of a library.                                 *)
(*                                                                           *)
(* LibraryIndex, for any number of paths, files, rows and requests: the      *)
(* index keeps its shape, a rescan that ends leaves every path nobody        *)
(* touched with the row its file calls for, no rescan drops a row for want   *)
(* of a drive, and an upload answered with Ok is kept.                       *)
(*                                                                           *)
(* Projects, for any number of requests, projects, folder names, archives    *)
(* and flat libraries (ProjectsAssumption): folders and rows agree where a   *)
(* rescan ends, and an import is all or nothing and writes over no edit.     *)
EXTENDS LibraryIndex, NaturalsInduction, WellFoundedInduction, TLAPS

-----------------------------------------------------------------------------
(* The inductive invariant.                                                  *)

(* What a walk of the folder would see at a path by now.                     *)
Walk(n) == IF disk[n] = None THEN None ELSE StatOf(n)

(* What the rescan noted of a path is still so.                              *)
SeenIsThere(n) == scan.seen[n] = Walk(n)
KnownIsThere(n) ==
  IF scan.known[n] = None
  THEN RowsOf(n) = {}
  ELSE scan.known[n].id \in RowsOf(n) /\ rows[scan.known[n].id].stat = scan.known[n].stat

(* A row the rescan noted at a path is there, or at a path that was touched. *)
KnownStays(n) ==
  scan.known[n] # None =>
    /\ rows[scan.known[n].id].state # "unused"
    /\ Live(scan.known[n].id) => rows[scan.known[n].id].name \in {n} \cup scan.touched

(* The rescan: its notes hold of the paths it has still to do and nobody     *)
(* touched, and the ones it has done are reconciled.                         *)
ToDo(n) == scan.at = "walked" \/ n \in scan.todo
ScanInv ==
  /\ scan.at \in {"walked", "files"} =>
       \A n \in Names \ scan.touched : ToDo(n) => SeenIsThere(n)
  /\ scan.at = "files" =>
       /\ \A n \in Names \ scan.touched :
            IF n \in scan.todo THEN KnownIsThere(n) ELSE Reconciled(n)
       /\ \A n \in Names : KnownStays(n)

(* Where nobody renames, deletes or meddles.                                 *)
Quiet == ~Outside /\ Editors = {}
OnDisk(b) == \E n \in Names : disk[n] = b

(* An upload's file is where it was created, and is its own.                 *)
Mine(p) ==
  /\ up[p].at \in {"body", "written", "index"} => disk[up[p].name] = up[p].blob
  /\ up[p].at = "body" => bytes[up[p].blob] = 0
  /\ up[p].at \in {"written", "index", "ok"} => bytes[up[p].blob] = 1
  /\ up[p].at = "index" => up[p].stat = <<up[p].blob, 1>>
  /\ up[p].at = "ok" => OnDisk(up[p].blob)
UpInv ==
  /\ \A p \in Uploads : Mine(p)
  /\ \A p, q \in Uploads : up[p].blob = up[q].blob /\ up[p].blob # None => p = q

(* Bytes no file has any more, and none will have again.                     *)
Past(s) == bytes[s[1]] # None /\ (bytes[s[1]] > s[2] \/ ~OnDisk(s[1]))

(* A stat the walk took at n: of the file there, as it was or as it is, or   *)
(* of one that is gone.                                                      *)
TakenAt(n, s) ==
  /\ bytes[s[1]] # None /\ bytes[s[1]] >= s[2]
  /\ disk[n] = s[1] \/ ~OnDisk(s[1])
HashInv ==
  /\ \A i \in Ids : Live(i) => rows[i].hash = rows[i].stat \/ Past(rows[i].stat)
  /\ \A n \in Names : scan.seen[n] # None => TakenAt(n, scan.seen[n])

Inv == TypeOK /\ ScanInv /\ (Quiet => UpInv /\ HashInv)

-----------------------------------------------------------------------------
(* What the shapes say.                                                      *)

USE NoneAssumption, BoundsAssumption

LEMMA NoneIsNothing ==
  /\ None \notin Names /\ None \notin Blobs /\ None \notin Ids /\ None \notin Nat
  /\ None \notin Versions /\ None \notin Stats /\ None \notin Listings
  /\ 0 \in Versions /\ 1 \in Versions
BY DEF Versions

LEMMA RowShape ==
  ASSUME Shape, NEW i \in Ids
  PROVE  /\ rows[i].state \in {"unused", "gone", "live"}
         /\ Live(i) => /\ rows[i].name \in Names
                       /\ rows[i].stat \in Stats /\ rows[i].hash \in Stats
         /\ ~Live(i) => rows[i].name = None
         /\ rows[i] = [state |-> rows[i].state, name |-> rows[i].name,
                       stat |-> rows[i].stat, hash |-> rows[i].hash]
<1>1. rows[i] \in RowSet BY DEF Shape
<1> QED BY <1>1 DEF RowSet, Live

LEMMA UpShape ==
  ASSUME Shape, NEW p \in Uploads
  PROVE  /\ up[p].at \in {"idle", "ok", "create", "body", "written", "index"}
         /\ up[p].at \in {"create", "body", "written", "index"} => up[p].name \in Names
         /\ up[p].at \in {"ok", "body", "written", "index"} => up[p].blob \in Blobs
         /\ up[p].at \in {"idle", "create"} => up[p].blob = None
         /\ up[p].at = "index" => up[p].stat \in Stats
<1>1. up[p] \in UploadSet BY DEF Shape
<1> QED BY <1>1 DEF UploadSet

LEMMA EdShape ==
  ASSUME Shape, NEW p \in Editors
  PROVE  /\ ed[p].at \in {"idle", "move", "record", "unlink", "unrow"}
         /\ ed[p].at # "idle" => ed[p].id \in Ids
         /\ ed[p].at \in {"move", "unlink"} => ed[p].name \in Names
         /\ ed[p].at \in {"move", "record"} => ed[p].to \in Names
<1>1. ed[p] \in EditSet BY DEF Shape
<1> QED BY <1>1 DEF EditSet

LEMMA ScanShape ==
  ASSUME Shape
  PROVE  /\ scan.at \in {"idle", "listed", "walked", "files"}
         /\ scan.seen \in [Names -> Stats \cup {None}]
         /\ scan.known \in [Names -> Listings \cup {None}]
         /\ scan.todo \subseteq Names /\ scan.touched \subseteq Names
         /\ scan = [at |-> scan.at, seen |-> scan.seen, known |-> scan.known,
                    todo |-> scan.todo, touched |-> scan.touched]
BY DEF Shape, ScanSet

LEMMA ListingShape ==
  ASSUME Shape, NEW n \in Names, scan.known[n] # None
  PROVE  scan.known[n].id \in Ids /\ scan.known[n].stat \in Stats
<1>1. scan.known[n] \in Listings BY ScanShape
<1> QED BY <1>1 DEF Listings

LEMMA FileShape ==
  ASSUME Shape, NEW n \in Names
  PROVE  /\ disk[n] \in Blobs \cup {None}
         /\ disk[n] # None => disk[n] \in Blobs /\ StatOf(n) \in Stats
         /\ Walk(n) = None <=> disk[n] = None
<1>1. disk[n] \in Blobs \cup {None} BY DEF Shape
<1>2. ASSUME disk[n] # None PROVE disk[n] \in Blobs /\ StatOf(n) \in Stats
  <2>1. disk[n] \in Blobs BY <1>1, <1>2
  <2>2. bytes[disk[n]] \in Versions BY <2>1, <1>2 DEF Shape
  <2> QED BY <2>1, <2>2 DEF Stats, StatOf
<1> QED BY <1>1, <1>2, NoneIsNothing DEF Walk

(* Touch marks the paths and keeps the rescan's notes.                       *)
LEMMA TouchKeeps ==
  ASSUME Shape, NEW ns \in SUBSET Names, Touch(ns)
  PROVE  /\ scan' \in ScanSet
         /\ scan'.at = scan.at /\ scan'.seen = scan.seen /\ scan'.known = scan.known
         /\ scan'.todo = scan.todo /\ scan.touched \subseteq scan'.touched
         /\ scan.at \in {"walked", "files"} => ns \subseteq scan'.touched
<1>1. scan \in ScanSet BY DEF Shape
<1>2. scan.touched \subseteq Names BY ScanShape
<1>3. CASE scan.at \in {"walked", "files"}
  <2>1. scan' = [scan EXCEPT !.touched = @ \cup ns] BY <1>3 DEF Touch
  <2> QED BY <2>1, <1>1, <1>2, <1>3 DEF ScanSet
<1>4. CASE scan.at \notin {"walked", "files"}
  <2>1. scan' = scan BY <1>4 DEF Touch
  <2> QED BY <2>1, <1>1, <1>4
<1> QED BY <1>3, <1>4

-----------------------------------------------------------------------------
(* The shape, action by action.                                              *)

Files(d, b) ==
  /\ d \in [Names -> Blobs \cup {None}]
  /\ b \in [Blobs -> Versions \cup {None}]
  /\ \A n \in Names : d[n] # None => b[d[n]] # None

LEMMA ShapeIs ==
  Shape <=> /\ folder \in BOOLEAN /\ project \in {"ok", "missing"}
            /\ Files(disk, bytes)
            /\ rows \in [Ids -> RowSet] /\ up \in [Uploads -> UploadSet]
            /\ ed \in [Editors -> EditSet] /\ scan \in ScanSet
BY DEF Shape, Files

LEMMA NewFile ==
  ASSUME Shape, NEW n \in Names, NEW b \in Blobs
  PROVE  Files([disk EXCEPT ![n] = b], [bytes EXCEPT ![b] = 0])
BY NoneIsNothing DEF Shape, Files

LEMMA FileGone ==
  ASSUME Shape, NEW n \in Names
  PROVE  /\ Files(Unlinked(n), bytes) /\ Files([disk EXCEPT ![n] = None], bytes)
BY NoneIsNothing DEF Shape, Files, Unlinked

LEMMA FileMoved ==
  ASSUME Shape, NEW n \in Names, NEW m \in Names
  PROVE  Files([disk EXCEPT ![n] = None, ![m] = disk[n]], bytes)
BY NoneIsNothing DEF Shape, Files

LEMMA FileSaved ==
  ASSUME Shape, NEW b \in Blobs, NEW v \in Versions
  PROVE  Files(disk, [bytes EXCEPT ![b] = v])
BY NoneIsNothing DEF Shape, Files

LEMMA NewRowShape ==
  ASSUME NEW n \in Names, NEW s \in Stats, NEW h \in Stats
  PROVE  NewRow(n, s, h) \in RowSet
BY DEF NewRow, RowSet

LEMMA RowPut ==
  ASSUME Shape, NEW i \in Ids, NEW r \in RowSet
  PROVE  [rows EXCEPT ![i] = r] \in [Ids -> RowSet]
BY DEF Shape

LEMMA DroppedShape ==
  ASSUME Shape, NEW i \in Ids
  PROVE  Dropped(i) \in [Ids -> RowSet]
<1>1. [NoRow EXCEPT !.state = "gone"] \in RowSet BY DEF NoRow, RowSet
<1> QED BY <1>1, RowPut DEF Dropped, Shape

LEMMA UpPut ==
  ASSUME Shape, NEW p \in Uploads, NEW u \in UploadSet
  PROVE  [up EXCEPT ![p] = u] \in [Uploads -> UploadSet]
BY DEF Shape

LEMMA EdPut ==
  ASSUME Shape, NEW p \in Editors, NEW e \in EditSet, SetEdit(p, e)
  PROVE  ed' \in [Editors -> EditSet]
BY DEF Shape, SetEdit

LEMMA Idle ==
  /\ IdleUpload \in UploadSet /\ IdleEdit \in EditSet /\ IdleScan \in ScanSet
  /\ NoRow \in RowSet
BY DEF IdleUpload, IdleEdit, IdleScan, NoRow, UploadSet, EditSet, ScanSet, RowSet

LEMMA UploadShape ==
  ASSUME Shape, NEW p \in Uploads, Upload(p)
  PROVE  Shape'
<1>0. up[p] \in UploadSet BY DEF Shape
<1>1. ASSUME NEW n \in Names, UploadCheck(p, n) PROVE Shape'
  <2>1. [IdleUpload EXCEPT !.at = "create", !.name = n] \in UploadSet
    BY DEF IdleUpload, UploadSet
  <2>2. up' \in [Uploads -> UploadSet] BY <1>1, <2>1, UpPut DEF UploadCheck
  <2> QED BY <1>1, <2>2, ShapeIs DEF UploadCheck, Shape, fileVars, dbVars
<1>2. ASSUME NEW b \in Blobs, UploadCreate(p, b) PROVE Shape'
  <2>1. up[p].at = "create" /\ up[p].name \in Names BY <1>2, UpShape DEF UploadCreate
  <2>2. [up[p] EXCEPT !.at = "body", !.blob = b] \in UploadSet BY <1>0, <2>1 DEF UploadSet
  <2>3. up' = [up EXCEPT ![p] = [up[p] EXCEPT !.at = "body", !.blob = b]]
    BY <1>2 DEF UploadCreate, Shape
  <2>4. up' \in [Uploads -> UploadSet] BY <2>2, <2>3, UpPut
  <2>5. Files(disk', bytes') BY <1>2, <2>1, NewFile DEF UploadCreate
  <2>6. scan' \in ScanSet BY <1>2, <2>1, TouchKeeps DEF UploadCreate
  <2> QED BY <1>2, <2>4, <2>5, <2>6 DEF UploadCreate, Shape, Files, dbVars
<1>3. ASSUME UploadBody(p) PROVE Shape'
  <2>1. up[p].at = "body" /\ up[p].blob \in Blobs BY <1>3, UpShape DEF UploadBody
  <2>2. [up[p] EXCEPT !.at = "written"] \in UploadSet BY <1>0, <2>1 DEF UploadSet
  <2>3. up' = [up EXCEPT ![p] = [up[p] EXCEPT !.at = "written"]]
    BY <1>3 DEF UploadBody, Shape
  <2>4. up' \in [Uploads -> UploadSet] BY <2>2, <2>3, UpPut
  <2>5. Files(disk', bytes') BY <1>3, <2>1, FileSaved, NoneIsNothing DEF UploadBody
  <2>6. scan' \in ScanSet BY <1>3, TouchKeeps DEF UploadBody
  <2> QED BY <1>3, <2>4, <2>5, <2>6 DEF UploadBody, Shape, Files, dbVars
<1>4. ASSUME UploadStat(p) PROVE Shape'
  <2>1. up[p].at = "written" /\ up[p].name \in Names /\ disk[up[p].name] # None
    BY <1>4, UpShape DEF UploadStat, Exists
  <2>2. StatOf(up[p].name) \in Stats BY <2>1, FileShape
  <2>3. [up[p] EXCEPT !.at = "index", !.stat = StatOf(up[p].name)] \in UploadSet
    BY <1>0, <2>1, <2>2 DEF UploadSet
  <2>4. up' = [up EXCEPT ![p] = [up[p] EXCEPT !.at = "index", !.stat = StatOf(up[p].name)]]
    BY <1>4 DEF UploadStat, Shape
  <2>5. up' \in [Uploads -> UploadSet] BY <2>3, <2>4, UpPut
  <2> QED BY <1>4, <2>5 DEF UploadStat, Shape, fileVars, dbVars
<1>5. ASSUME NEW i \in Ids, UploadInsert(p, i) PROVE Shape'
  <2>1. /\ up[p].at = "index" /\ up[p].name \in Names /\ up[p].blob \in Blobs
        /\ up[p].stat \in Stats
    BY <1>5, UpShape DEF UploadInsert
  <2>2. <<up[p].blob, 1>> \in Stats BY <2>1, NoneIsNothing DEF Stats
  <2>3. NewRow(up[p].name, up[p].stat, <<up[p].blob, 1>>) \in RowSet
    BY <2>1, <2>2, NewRowShape
  <2>4. rows' \in [Ids -> RowSet] BY <1>5, <2>3, RowPut DEF UploadInsert
  <2>5. [IdleUpload EXCEPT !.at = "ok", !.blob = up[p].blob] \in UploadSet
    BY <2>1 DEF IdleUpload, UploadSet
  <2>6. up' \in [Uploads -> UploadSet] BY <1>5, <2>5, UpPut DEF UploadInsert
  <2>7. scan' \in ScanSet BY <1>5, <2>1, TouchKeeps DEF UploadInsert
  <2> QED BY <1>5, <2>4, <2>6, <2>7 DEF UploadInsert, Shape, fileVars
<1>6. ASSUME UploadCleanup(p) PROVE Shape'
  <2>1. up[p].name \in Names BY <1>6, UpShape DEF UploadCleanup
  <2>2. Files(disk', bytes') BY <1>6, <2>1, FileGone DEF UploadCleanup
  <2>3. up' \in [Uploads -> UploadSet] BY <1>6, Idle, UpPut DEF UploadCleanup
  <2>4. scan' \in ScanSet BY <1>6, <2>1, TouchKeeps DEF UploadCleanup
  <2> QED BY <1>6, <2>2, <2>3, <2>4 DEF UploadCleanup, Shape, Files, dbVars
<1>7. ASSUME UploadEnds(p) PROVE Shape'
  <2>1. up' \in [Uploads -> UploadSet] BY <1>7, Idle, UpPut DEF UploadEnds
  <2> QED BY <1>7, <2>1 DEF UploadEnds, Shape, fileVars, dbVars
<1> QED BY <1>1, <1>2, <1>3, <1>4, <1>5, <1>6, <1>7 DEF Upload

LEMMA EditShape ==
  ASSUME Shape, NEW p \in Editors, Edit(p)
  PROVE  Shape'
<1>0. ed[p] \in EditSet BY DEF Shape
<1>1. ASSUME NEW i \in Ids, NEW to \in Names, RenameCheck(p, i, to) PROVE Shape'
  <2>1. rows[i].name \in Names BY <1>1, RowShape DEF RenameCheck
  <2>2. [at |-> "move", id |-> i, name |-> rows[i].name, to |-> to] \in EditSet
    BY <2>1 DEF EditSet
  <2>3. ed' \in [Editors -> EditSet] BY <1>1, <2>2, EdPut DEF RenameCheck
  <2> QED BY <1>1, <2>3 DEF RenameCheck, Shape, fileVars, dbVars
<1>2. ASSUME RenameMove(p) PROVE Shape'
  <2>1. ed[p].at = "move" /\ ed[p].name \in Names /\ ed[p].to \in Names
    BY <1>2, EdShape DEF RenameMove
  <2>2. Files(disk', bytes') BY <1>2, <2>1, FileMoved DEF RenameMove
  <2>3. [ed[p] EXCEPT !.at = "record", !.name = None] \in EditSet BY <1>0, <2>1 DEF EditSet
  <2>4. ed' \in [Editors -> EditSet] BY <1>2, <2>3, EdPut DEF RenameMove
  <2>5. scan' \in ScanSet BY <1>2, <2>1, TouchKeeps DEF RenameMove
  <2> QED BY <1>2, <2>2, <2>4, <2>5 DEF RenameMove, Shape, Files, dbVars
<1>3. ASSUME RenameRecord(p) PROVE Shape'
  <2>1. ed[p].id \in Ids /\ ed[p].to \in Names BY <1>3, EdShape DEF RenameRecord
  <2>2. ed' \in [Editors -> EditSet] BY <1>3, Idle, EdPut DEF RenameRecord
  <2>3. {rows[ed[p].id].name, ed[p].to} \ {None} \subseteq Names BY <2>1, RowShape
  <2>4. scan' \in ScanSet BY <1>3, <2>3, TouchKeeps DEF RenameRecord
  <2>5. rows' \in [Ids -> RowSet]
    <3>1. CASE ~Live(ed[p].id) BY <1>3, <3>1 DEF RenameRecord, Shape
    <3>2. CASE Live(ed[p].id)
      <4>1. rows[ed[p].id] \in RowSet /\ rows[ed[p].id].state = "live"
        BY <2>1, <3>2 DEF Shape, Live
      <4>2. [rows[ed[p].id] EXCEPT !.name = ed[p].to] \in RowSet
        BY <4>1, <2>1 DEF RowSet
      <4>3. [rows EXCEPT ![ed[p].id].name = ed[p].to]
              = [rows EXCEPT ![ed[p].id] = [rows[ed[p].id] EXCEPT !.name = ed[p].to]]
        BY DEF Shape
      <4>4. [rows EXCEPT ![ed[p].id].name = ed[p].to] \in [Ids -> RowSet]
        BY <2>1, <4>2, <4>3, RowPut
      <4> QED BY <1>3, <4>4 DEF RenameRecord, Shape
    <3> QED BY <3>1, <3>2
  <2> QED BY <1>3, <2>2, <2>4, <2>5 DEF RenameRecord, Shape, fileVars
<1>4. ASSUME NEW i \in Ids, DeleteResolve(p, i) PROVE Shape'
  <2>1. rows[i].name \in Names BY <1>4, RowShape DEF DeleteResolve
  <2>2. [at |-> "unlink", id |-> i, name |-> rows[i].name, to |-> None] \in EditSet
    BY <2>1 DEF EditSet
  <2>3. ed' \in [Editors -> EditSet] BY <1>4, <2>2, EdPut DEF DeleteResolve
  <2> QED BY <1>4, <2>3 DEF DeleteResolve, Shape, fileVars, dbVars
<1>5. ASSUME DeleteUnlink(p) PROVE Shape'
  <2>1. ed[p].at = "unlink" /\ ed[p].name \in Names BY <1>5, EdShape DEF DeleteUnlink
  <2>2. Files(disk', bytes') BY <1>5, <2>1, FileGone DEF DeleteUnlink
  <2>3. [ed[p] EXCEPT !.at = "unrow", !.name = None] \in EditSet BY <1>0, <2>1 DEF EditSet
  <2>4. ed' \in [Editors -> EditSet] BY <1>5, <2>3, EdPut DEF DeleteUnlink
  <2>5. scan' \in ScanSet BY <1>5, <2>1, TouchKeeps DEF DeleteUnlink
  <2> QED BY <1>5, <2>2, <2>4, <2>5 DEF DeleteUnlink, Shape, Files, dbVars
<1>6. ASSUME DeleteRow(p) PROVE Shape'
  <2>1. ed[p].id \in Ids BY <1>6, EdShape DEF DeleteRow
  <2>2. rows' \in [Ids -> RowSet] BY <1>6, <2>1, DroppedShape DEF DeleteRow
  <2>3. ed' \in [Editors -> EditSet] BY <1>6, Idle, EdPut DEF DeleteRow
  <2>4. {rows[ed[p].id].name} \ {None} \subseteq Names BY <2>1, RowShape
  <2>5. scan' \in ScanSet BY <1>6, <2>4, TouchKeeps DEF DeleteRow
  <2> QED BY <1>6, <2>2, <2>3, <2>5 DEF DeleteRow, Shape, fileVars
<1>7. ASSUME EditEnds(p) PROVE Shape'
  <2>1. ed' \in [Editors -> EditSet] BY <1>7, Idle, EdPut DEF EditEnds
  <2> QED BY <1>7, <2>1 DEF EditEnds, Shape, fileVars, dbVars
<1> QED BY <1>1, <1>2, <1>3, <1>4, <1>5, <1>6, <1>7 DEF Edit

LEMMA DoneShape ==
  ASSUME Shape, NEW n \in Names, Done(n)
  PROVE  /\ scan' \in ScanSet
         /\ scan'.at = scan.at /\ scan'.todo = scan.todo \ {n}
         /\ scan'.touched = scan.touched
         /\ scan'.seen = [scan.seen EXCEPT ![n] = None]
         /\ scan'.known = [scan.known EXCEPT ![n] = None]
BY ScanShape DEF Done, ScanSet, Shape

LEMMA ScanStep ==
  ASSUME Shape, NEW n \in Names, ScanKeep(n) \/ ScanUpdate(n) \/ ScanDrop(n)
  PROVE  Shape'
<1>1. CASE ScanKeep(n)
  BY <1>1, DoneShape DEF ScanKeep, Shape, ScanSteps, fileVars, dbVars
<1>2. CASE ScanUpdate(n)
  <2>1. scan.seen[n] \in Stats /\ scan.known[n] # None
    BY <1>2, ScanShape DEF ScanUpdate, Unseen, New
  <2>2. scan.known[n].id \in Ids BY <2>1, ListingShape
  <2>3. StatOf(n) \in Stats BY <1>2, FileShape DEF ScanUpdate, Exists
  <2>4. rows' \in [Ids -> RowSet]
    <3> DEFINE i == scan.known[n].id
               r == [rows[i] EXCEPT !.stat = scan.seen[n], !.hash = StatOf(n)]
    <3>1. CASE Live(i)
      <4>1. rows[i] \in RowSet /\ rows[i].state = "live" BY <2>2, <3>1 DEF Shape, Live
      <4>2. r \in RowSet BY <4>1, <2>1, <2>3 DEF RowSet
      <4>3. rows' = [rows EXCEPT ![i] = r] BY <1>2, <3>1 DEF ScanUpdate, Shape
      <4> HIDE DEF i, r
      <4> QED BY <4>2, <4>3 DEF Shape
    <3>2. CASE ~Live(i) BY <1>2, <3>2 DEF ScanUpdate, Shape
    <3> QED BY <3>1, <3>2
  <2> QED BY <1>2, <2>4, DoneShape DEF ScanUpdate, Shape, ScanSteps, fileVars
<1>3. CASE ScanDrop(n)
  <2>1. rows' \in [Ids -> RowSet]
    BY <1>3, ListingShape, DroppedShape DEF ScanDrop, Shape
  <2> QED BY <1>3, <2>1, DoneShape DEF ScanDrop, Shape, ScanSteps, fileVars
<1> QED BY <1>1, <1>2, <1>3

LEMMA RescanShape ==
  ASSUME Shape, Rescan
  PROVE  Shape'
<1>0. scan \in ScanSet BY DEF Shape
<1>1. ASSUME ScanStart PROVE Shape'
  <2>1. [scan EXCEPT !.at = "listed"] \in ScanSet BY <1>0 DEF ScanSet
  <2> QED BY <1>1, <2>1 DEF ScanStart, Shape, ScanSteps, fileVars
<1>2. ASSUME ScanWalk PROVE Shape'
  <2>1. [n \in Names |-> Walked(n)] \in [Names -> Stats \cup {None}]
    BY FileShape DEF Walked, Exists
  <2>2. scan' \in ScanSet BY <1>0, <1>2, <2>1 DEF ScanWalk, ScanSet
  <2> QED BY <1>2, <2>2 DEF ScanWalk, Shape, ScanSteps, fileVars, dbVars
<1>3. ASSUME ScanRows PROVE Shape'
  <2> DEFINE at(n) == IF RowsOf(n) = {} THEN None
                      ELSE LET i == CHOOSE i \in RowsOf(n) : TRUE
                           IN [id |-> i, stat |-> rows[i].stat]
  <2>1. ASSUME NEW n \in Names PROVE at(n) \in Listings \cup {None}
    <3>1. CASE RowsOf(n) # {}
      <4> DEFINE i == CHOOSE i \in RowsOf(n) : TRUE
      <4>1. i \in RowsOf(n) BY <3>1
      <4>2. i \in Ids /\ rows[i].stat \in Stats BY <4>1, RowShape DEF RowsOf
      <4>3. at(n) = [id |-> i, stat |-> rows[i].stat] BY <3>1
      <4> QED BY <4>2, <4>3 DEF Listings
    <3> QED BY <3>1
  <2>2. [n \in Names |-> at(n)] \in [Names -> Listings \cup {None}] BY <2>1
  <2>3. scan' = [scan EXCEPT !.at = "files", !.todo = Names, !.known = [n \in Names |-> at(n)]]
    BY <1>3 DEF ScanRows
  <2> HIDE DEF at
  <2>4. scan' \in ScanSet BY <1>0, <2>2, <2>3 DEF ScanSet
  <2> QED BY <1>3, <2>4 DEF ScanRows, Shape, ScanSteps, fileVars, dbVars
<1>4. ASSUME NEW n \in Names, NEW i \in Ids, ScanInsert(n, i) PROVE Shape'
  <2>1. scan.seen[n] \in Stats BY <1>4, ScanShape DEF ScanInsert, New, Unseen
  <2>2. StatOf(n) \in Stats BY <1>4, FileShape DEF ScanInsert, Exists
  <2>3. NewRow(n, scan.seen[n], StatOf(n)) \in RowSet BY <2>1, <2>2, NewRowShape
  <2>4. rows' \in [Ids -> RowSet] BY <1>4, <2>3, RowPut DEF ScanInsert
  <2> QED BY <1>4, <2>4, DoneShape DEF ScanInsert, Shape, ScanSteps, fileVars
<1>5. ASSUME ScanEnds PROVE Shape'
  BY <1>5, Idle DEF ScanEnds, Shape, ScanSteps, fileVars, dbVars
<1> QED BY <1>1, <1>2, <1>3, <1>4, <1>5, ScanStep DEF Rescan

LEMMA OthersShape ==
  ASSUME Shape, Others
  PROVE  Shape'
<1>1. ASSUME Mount PROVE Shape' BY <1>1 DEF Mount, Shape, dbVars
<1>2. ASSUME NEW n \in Names, SaveOutside(n) PROVE Shape'
  <2>1. disk[n] \in Blobs /\ disk[n] # None BY <1>2, FileShape DEF SaveOutside, Exists
  <2>2. bytes[disk[n]] \in Versions BY <2>1 DEF Shape
  <2>3. bytes[disk[n]] + 1 \in Versions BY <1>2, <2>2 DEF SaveOutside, Versions
  <2>4. Files(disk, [bytes EXCEPT ![disk[n]] = bytes[disk[n]] + 1])
    BY <2>1, <2>3, FileSaved
  <2>5. Files(disk', bytes') BY <1>2, <2>4 DEF SaveOutside
  <2>6. scan' \in ScanSet BY <1>2, TouchKeeps DEF SaveOutside
  <2> QED BY <1>2, <2>5, <2>6 DEF SaveOutside, Shape, Files, dbVars
<1>3. ASSUME NEW n \in Names, RemoveOutside(n) PROVE Shape'
  <2>1. Files(disk', bytes') BY <1>3, FileGone DEF RemoveOutside
  <2>2. scan' \in ScanSet BY <1>3, TouchKeeps DEF RemoveOutside
  <2> QED BY <1>3, <2>1, <2>2 DEF RemoveOutside, Shape, Files, dbVars
<1>4. ASSUME NEW n \in Names, NEW b \in Blobs, CreateOutside(n, b) PROVE Shape'
  <2>1. Files(disk', bytes') BY <1>4, NewFile DEF CreateOutside
  <2>2. scan' \in ScanSet BY <1>4, TouchKeeps DEF CreateOutside
  <2> QED BY <1>4, <2>1, <2>2 DEF CreateOutside, Shape, Files, dbVars
<1> QED BY <1>1, <1>2, <1>3, <1>4 DEF Others

LEMMA ShapeStays ==
  ASSUME Shape, [Next]_vars
  PROVE  Shape'
<1>1. CASE UNCHANGED vars BY <1>1 DEF vars, fileVars, dbVars, Shape
<1> QED BY <1>1, UploadShape, EditShape, RescanShape, OthersShape DEF Next

-----------------------------------------------------------------------------
(* What a step may change: the files and the rows of some paths.             *)

SameFiles(ns) ==
  \A n \in Names \ ns :
    disk'[n] = disk[n] /\ (disk[n] # None => bytes'[disk[n]] = bytes[disk[n]])
SameRows(ns) ==
  \A i \in Ids : \/ rows'[i] = rows[i]
                 \/ /\ Live(i) => rows[i].name \in ns
                    /\ Live(i)' => rows'[i].name \in ns
OldRows(ns) ==
  \A i \in Ids : rows[i].state # "unused" =>
    /\ rows'[i].state # "unused"
    /\ Live(i)' => Live(i) /\ (rows'[i].name = rows[i].name \/ rows'[i].name \in ns)

LEMMA SameWalk ==
  ASSUME Shape, NEW ns, SameFiles(ns), NEW n \in Names \ ns
  PROVE  Walk(n)' = Walk(n)
<1>1. disk'[n] = disk[n] /\ (disk[n] # None => bytes'[disk[n]] = bytes[disk[n]])
  BY DEF SameFiles
<1> QED BY <1>1 DEF Walk, StatOf

LEMMA SameRowsOf ==
  ASSUME NEW ns, SameRows(ns), NEW n \in Names \ ns
  PROVE  RowsOf(n)' = RowsOf(n) /\ \A i \in RowsOf(n) : rows'[i] = rows[i]
BY DEF SameRows, RowsOf, Live

LEMMA SameReconciled ==
  ASSUME Shape, NEW ns, SameFiles(ns), SameRows(ns), NEW n \in Names \ ns, Reconciled(n)
  PROVE  Reconciled(n)'
<1>1. disk'[n] = disk[n] /\ (disk[n] # None => StatOf(n)' = StatOf(n))
  BY DEF SameFiles, StatOf
<1>2. RowsOf(n)' = RowsOf(n) /\ \A i \in RowsOf(n) : rows'[i] = rows[i] BY SameRowsOf
<1>3. CASE disk[n] = None BY <1>1, <1>2, <1>3 DEF Reconciled
<1>4. CASE disk[n] # None
  <2>1. PICK i \in RowsOf(n) : rows[i].stat = StatOf(n) BY <1>4 DEF Reconciled
  <2>2. i \in RowsOf(n)' /\ rows'[i].stat = StatOf(n)' BY <2>1, <1>1, <1>2, <1>4
  <2> QED BY <2>2, <1>1, <1>4 DEF Reconciled
<1> QED BY <1>3, <1>4

LEMMA SameKnown ==
  ASSUME NEW ns, SameRows(ns), NEW n \in Names \ ns, KnownIsThere(n),
         scan'.known[n] = scan.known[n]
  PROVE  KnownIsThere(n)'
<1>1. RowsOf(n)' = RowsOf(n) /\ \A i \in RowsOf(n) : rows'[i] = rows[i] BY SameRowsOf
<1> QED BY <1>1 DEF KnownIsThere

LEMMA StaysKnown ==
  ASSUME Shape, NEW ns, OldRows(ns), ns \subseteq scan'.touched,
         scan.touched \subseteq scan'.touched,
         NEW n \in Names, KnownStays(n), scan'.known[n] = scan.known[n]
  PROVE  KnownStays(n)'
<1>1. CASE scan.known[n] = None BY <1>1 DEF KnownStays
<1>2. CASE scan.known[n] # None
  <2>1. PICK i \in Ids : i = scan.known[n].id BY <1>2, ListingShape
  <2>2. scan'.known[n].id = i BY <2>1
  <2>3. rows[i].state # "unused" /\ (Live(i) => rows[i].name \in {n} \cup scan.touched)
    BY <1>2, <2>1 DEF KnownStays
  <2>4. /\ rows'[i].state # "unused"
        /\ Live(i)' => Live(i) /\ (rows'[i].name = rows[i].name \/ rows'[i].name \in ns)
    BY <2>1, <2>3 DEF OldRows
  <2>5. Live(i)' => rows'[i].name \in {n} \cup scan'.touched BY <2>3, <2>4
  <2> QED BY <2>2, <2>4, <2>5 DEF KnownStays, Live
<1> QED BY <1>1, <1>2

(* A step of anyone but the rescan that touches what it changes.             *)
LEMMA TouchedStep ==
  ASSUME Shape, ScanInv, NEW ns \in SUBSET Names, Touch(ns),
         SameFiles(ns), SameRows(ns), OldRows(ns)
  PROVE  ScanInv'
<1>1. /\ scan'.at = scan.at /\ scan'.seen = scan.seen /\ scan'.known = scan.known
      /\ scan'.todo = scan.todo /\ scan.touched \subseteq scan'.touched
      /\ scan.at \in {"walked", "files"} => ns \subseteq scan'.touched
  BY TouchKeeps
<1>2. ASSUME scan'.at \in {"walked", "files"}, NEW n \in Names \ scan'.touched, ToDo(n)'
      PROVE  SeenIsThere(n)'
  <2>1. n \in Names \ ns /\ SeenIsThere(n) BY <1>1, <1>2 DEF ScanInv, ToDo
  <2> QED BY <2>1, <1>1, SameWalk DEF SeenIsThere
<1>3. ASSUME scan'.at = "files", NEW n \in Names \ scan'.touched
      PROVE  IF n \in scan'.todo THEN KnownIsThere(n)' ELSE Reconciled(n)'
  <2>1. n \in Names \ ns /\ n \in Names \ scan.touched BY <1>1, <1>3
  <2>2. CASE n \in scan.todo
    BY <1>1, <1>3, <2>1, <2>2, SameKnown DEF ScanInv
  <2>3. CASE n \notin scan.todo
    BY <1>1, <1>3, <2>1, <2>3, SameReconciled DEF ScanInv
  <2> QED BY <1>1, <2>2, <2>3
<1>4. ASSUME scan'.at = "files", NEW n \in Names PROVE KnownStays(n)'
  <2>1. KnownStays(n) BY <1>1, <1>4 DEF ScanInv
  <2> QED BY <2>1, <1>1, <1>4, StaysKnown
<1> QED BY <1>2, <1>3, <1>4 DEF ScanInv

(* A step of the rescan that has done with one path.                         *)
LEMMA DoneStep ==
  ASSUME Shape, ScanInv, scan.at = "files", NEW n \in Names, Done(n), n \in scan.todo,
         UNCHANGED <<disk, bytes>>,
         SameRows({n} \cup scan.touched), OldRows(scan.touched),
         n \notin scan.touched => Reconciled(n)'
  PROVE  ScanInv'
<1>1. /\ scan'.at = scan.at /\ scan'.todo = scan.todo \ {n}
      /\ scan'.touched = scan.touched
      /\ scan'.seen = [scan.seen EXCEPT ![n] = None]
      /\ scan'.known = [scan.known EXCEPT ![n] = None]
      /\ \A m \in Names \ {n} : scan'.seen[m] = scan.seen[m] /\ scan'.known[m] = scan.known[m]
      /\ scan'.known[n] = None
  BY DoneShape, ScanShape
<1>2. SameFiles({n} \cup scan.touched) BY DEF SameFiles
<1>3. ASSUME NEW m \in Names \ scan'.touched, ToDo(m)'
      PROVE  SeenIsThere(m)'
  <2>1. m \in Names \ ({n} \cup scan.touched) /\ m \in scan.todo BY <1>1, <1>3 DEF ToDo
  <2>2. SeenIsThere(m) BY <2>1 DEF ScanInv, ToDo
  <2> QED BY <2>1, <2>2, <1>1, <1>2, SameWalk DEF SeenIsThere
<1>4. ASSUME NEW m \in Names \ scan'.touched
      PROVE  IF m \in scan'.todo THEN KnownIsThere(m)' ELSE Reconciled(m)'
  <2>1. CASE m = n BY <2>1, <1>1, <1>4
  <2>2. CASE m # n
    <3>1. m \in Names \ ({n} \cup scan.touched) BY <1>1, <1>4, <2>2
    <3>2. CASE m \in scan.todo BY <3>1, <3>2, <1>1, SameKnown DEF ScanInv
    <3>3. CASE m \notin scan.todo BY <3>1, <3>3, <1>1, <1>2, SameReconciled DEF ScanInv
    <3> QED BY <3>2, <3>3, <1>1, <2>2
  <2> QED BY <2>1, <2>2
<1>5. ASSUME NEW m \in Names PROVE KnownStays(m)'
  <2>1. CASE m = n BY <2>1, <1>1 DEF KnownStays
  <2>2. CASE m # n
    <3>1. KnownStays(m) BY DEF ScanInv
    <3> QED BY <3>1, <2>2, <1>1, StaysKnown
  <2> QED BY <2>1, <2>2
<1> QED BY <1>1, <1>3, <1>4, <1>5 DEF ScanInv

LEMMA NoneTouched ==
  ASSUME UNCHANGED <<disk, bytes, rows, scan>>, ScanInv
  PROVE  ScanInv'
<1>1. \A n \in Names : (ToDo(n)' <=> ToDo(n)) /\ (SeenIsThere(n)' <=> SeenIsThere(n))
  BY DEF ToDo, SeenIsThere, Walk, StatOf
<1>2. \A n \in Names : KnownIsThere(n)' <=> KnownIsThere(n)
  BY DEF KnownIsThere, RowsOf, Live
<1>3. \A n \in Names : KnownStays(n)' <=> KnownStays(n)
  BY DEF KnownStays, Live
<1>4. \A n \in Names : Reconciled(n)' <=> Reconciled(n)
  BY DEF Reconciled, RowsOf, Live, Walk, StatOf
<1> QED BY <1>1, <1>2, <1>3, <1>4 DEF ScanInv

-----------------------------------------------------------------------------
(* What the steps change.                                                    *)

LEMMA NoRowChange ==
  ASSUME UNCHANGED rows, NEW ns
  PROVE  SameRows(ns) /\ OldRows(ns) /\ (OneRowPerPath => OneRowPerPath')
BY DEF SameRows, OldRows, OneRowPerPath, Live

LEMMA NoFileChange ==
  ASSUME UNCHANGED <<disk, bytes>>, NEW ns
  PROVE  SameFiles(ns) /\ (OnePathPerFile => OnePathPerFile')
BY DEF SameFiles, OnePathPerFile

LEMMA FileMade ==
  ASSUME Shape, OnePathPerFile, NEW n \in Names, NEW b \in FreshBlobs,
         disk' = [disk EXCEPT ![n] = b], bytes' = [bytes EXCEPT ![b] = 0]
  PROVE  SameFiles({n}) /\ OnePathPerFile'
<1>1. b \in Blobs /\ bytes[b] = None BY DEF FreshBlobs
<1>2. \A m \in Names : disk[m] # b BY <1>1, NoneIsNothing DEF Shape
<1> QED BY <1>1, <1>2 DEF SameFiles, OnePathPerFile, Shape

LEMMA FileTaken ==
  ASSUME Shape, OnePathPerFile, NEW n \in Names,
         disk' = Unlinked(n) \/ disk' = [disk EXCEPT ![n] = None], UNCHANGED bytes
  PROVE  SameFiles({n}) /\ OnePathPerFile'
BY DEF SameFiles, OnePathPerFile, Shape, Unlinked

LEMMA FileRenamed ==
  ASSUME Shape, OnePathPerFile, NEW n \in Names, NEW m \in Names,
         disk' = [disk EXCEPT ![n] = None, ![m] = disk[n]], UNCHANGED bytes
  PROVE  SameFiles({n, m}) /\ OnePathPerFile'
BY DEF SameFiles, OnePathPerFile, Shape

LEMMA BytesSaved ==
  ASSUME Shape, OnePathPerFile, NEW b \in Blobs, UNCHANGED disk, NEW v,
         bytes' = [bytes EXCEPT ![b] = v]
  PROVE  SameFiles({n \in Names : disk[n] = b}) /\ OnePathPerFile'
BY DEF SameFiles, OnePathPerFile, Shape

LEMMA RowMade ==
  ASSUME Shape, OneRowPerPath, NEW n \in Names, NEW i \in FreshIds, RowsOf(n) = {},
         NEW s, NEW h, rows' = [rows EXCEPT ![i] = NewRow(n, s, h)]
  PROVE  SameRows({n}) /\ OldRows({}) /\ OneRowPerPath' /\ RowsOf(n)' = {i}
<1>1. i \in Ids /\ rows[i].state = "unused" BY DEF FreshIds
<1>2. /\ rows'[i].state = "live" /\ rows'[i].name = n
      /\ \A j \in Ids \ {i} : rows'[j] = rows[j]
  BY <1>1 DEF NewRow, Shape
<1>3. SameRows({n}) BY <1>1, <1>2 DEF SameRows, Live
<1>4. OldRows({}) BY <1>1, <1>2 DEF OldRows, Live
<1>5. \A j \in Ids : Live(j) => rows[j].name # n BY DEF RowsOf
<1>6. OneRowPerPath' BY <1>1, <1>2, <1>5 DEF OneRowPerPath, Live
<1>7. RowsOf(n)' = {i} BY <1>1, <1>2, <1>5 DEF RowsOf, Live
<1> QED BY <1>3, <1>4, <1>6, <1>7

LEMMA RowDropped ==
  ASSUME Shape, OneRowPerPath, NEW i \in Ids, rows' = Dropped(i)
  PROVE  /\ SameRows({rows[i].name} \ {None}) /\ OldRows({}) /\ OneRowPerPath'
         /\ ~Live(i)' /\ \A j \in Ids \ {i} : rows'[j] = rows[j]
<1>1. CASE ~Live(i) BY <1>1 DEF Dropped, SameRows, OldRows, OneRowPerPath, Live
<1>2. CASE Live(i)
  <2>1. rows[i].name \in {rows[i].name} \ {None} BY <1>2, RowShape, NoneIsNothing
  <2>2. /\ rows'[i].state = "gone"
        /\ \A j \in Ids \ {i} : rows'[j] = rows[j]
    BY <1>2 DEF Dropped, Shape, NoRow
  <2> QED BY <1>2, <2>1, <2>2 DEF SameRows, OldRows, OneRowPerPath, Live
<1> QED BY <1>1, <1>2

(* The stat and the hash of a row, and nothing else of it.                   *)
LEMMA RowUpdated ==
  ASSUME Shape, OneRowPerPath, NEW i \in Ids, NEW r, rows' = [rows EXCEPT ![i] = r],
         r.state = rows[i].state, r.name = rows[i].name
  PROVE  /\ OldRows({}) /\ OneRowPerPath' /\ \A j \in Ids \ {i} : rows'[j] = rows[j]
         /\ rows'[i] = r
<1>1. rows'[i] = r /\ \A j \in Ids \ {i} : rows'[j] = rows[j] BY DEF Shape
<1>2. \A j \in Ids : rows'[j].state = rows[j].state /\ rows'[j].name = rows[j].name
  BY <1>1
<1>3. OldRows({}) BY <1>2 DEF OldRows, Live
<1>4. OneRowPerPath'
  <2>1. \A j, k \in Ids : rows[j].state = "live" /\ rows[k].state = "live"
                            /\ rows[j].name = rows[k].name => j = k
    BY DEF OneRowPerPath, Live
  <2>2. SUFFICES ASSUME NEW j \in Ids, NEW k \in Ids, rows'[j].state = "live",
                        rows'[k].state = "live", rows'[j].name = rows'[k].name
                 PROVE  j = k
    BY DEF OneRowPerPath, Live
  <2> QED BY <1>2, <2>1, <2>2
<1> QED BY <1>1, <1>3, <1>4

LEMMA RowRenamed ==
  ASSUME Shape, OneRowPerPath, NEW i \in Ids, NEW to \in Names,
         rows' = IF Live(i) /\ RowsOf(to) \subseteq {i}
                 THEN [rows EXCEPT ![i].name = to] ELSE rows
  PROVE  LET ns == {rows[i].name, to} \ {None} IN
           SameRows(ns) /\ OldRows(ns) /\ OneRowPerPath'
<1> DEFINE ns == {rows[i].name, to} \ {None}
<1>1. CASE ~(Live(i) /\ RowsOf(to) \subseteq {i}) BY <1>1, NoRowChange
<1>2. CASE Live(i) /\ RowsOf(to) \subseteq {i}
  <2>1. rows[i].name \in ns /\ to \in ns BY <1>2, RowShape, NoneIsNothing
  <2>2. rows \in [Ids -> RowSet] BY DEF Shape
  <2>3. rows[i] = [state |-> rows[i].state, name |-> rows[i].name,
                   stat |-> rows[i].stat, hash |-> rows[i].hash]
    BY RowShape
  <2>4. /\ \A j \in Ids \ {i} : rows'[j] = rows[j]
        /\ rows'[i].state = rows[i].state /\ rows'[i].name = to
    BY <1>2, <2>2, <2>3
  <2> HIDE DEF ns
  <2>5. SameRows(ns) BY <2>1, <2>4 DEF SameRows, Live
  <2>6. OldRows(ns) BY <2>1, <2>4 DEF OldRows, Live
  <2>7. \A j \in Ids \ {i} : Live(j) => rows[j].name # to BY <1>2 DEF RowsOf
  <2>8. OneRowPerPath' BY <1>2, <2>4, <2>7 DEF OneRowPerPath, Live
  <2> QED BY <2>5, <2>6, <2>8 DEF ns
<1> QED BY <1>1, <1>2

-----------------------------------------------------------------------------
(* The index keeps its shape and the rescan its notes, action by action.     *)

Sound == TypeOK /\ ScanInv
Stays == OneRowPerPath' /\ OnePathPerFile' /\ ScanInv'

LEMMA OldRowsGrow ==
  ASSUME OldRows({}), NEW ns
  PROVE  OldRows(ns)
BY DEF OldRows

LEMMA UploadSound ==
  ASSUME Sound, NEW p \in Uploads, Upload(p)
  PROVE  Stays
<1> USE DEF Sound, TypeOK, Stays
<1>1. ASSUME NEW n \in Names, UploadCheck(p, n) PROVE Stays
  BY <1>1, NoneTouched, NoRowChange, NoFileChange DEF UploadCheck, fileVars, dbVars
<1>2. ASSUME NEW b \in Blobs, UploadCreate(p, b) PROVE Stays
  <2>1. PICK n \in Names : n = up[p].name BY <1>2, UpShape DEF UploadCreate
  <2>2. /\ disk' = [disk EXCEPT ![n] = b] /\ bytes' = [bytes EXCEPT ![b] = 0]
        /\ b \in FreshBlobs /\ Touch({n}) /\ UNCHANGED rows
    BY <1>2, <2>1 DEF UploadCreate, dbVars
  <2>3. SameFiles({n}) /\ OnePathPerFile' BY <2>2, FileMade
  <2>4. SameRows({n}) /\ OldRows({n}) /\ OneRowPerPath' BY <2>2, NoRowChange
  <2> QED BY <2>2, <2>3, <2>4, TouchedStep
<1>3. ASSUME UploadBody(p) PROVE Stays
  <2>1. PICK b \in Blobs : b = up[p].blob BY <1>3, UpShape DEF UploadBody
  <2>2. PICK ns \in SUBSET Names : ns = {n \in Names : disk[n] = b} OBVIOUS
  <2>3. bytes' = [bytes EXCEPT ![b] = 1] /\ UNCHANGED <<disk, rows>> /\ Touch(ns)
    BY <1>3, <2>1, <2>2 DEF UploadBody, dbVars
  <2>4. SameFiles(ns) /\ OnePathPerFile' BY <2>2, <2>3, BytesSaved
  <2>5. SameRows(ns) /\ OldRows(ns) /\ OneRowPerPath' BY <2>3, NoRowChange
  <2> QED BY <2>3, <2>4, <2>5, TouchedStep
<1>4. ASSUME UploadStat(p) PROVE Stays
  BY <1>4, NoneTouched, NoRowChange, NoFileChange DEF UploadStat, fileVars, dbVars
<1>5. ASSUME NEW i \in Ids, UploadInsert(p, i) PROVE Stays
  <2>1. PICK n \in Names : n = up[p].name BY <1>5, UpShape DEF UploadInsert
  <2>2. /\ i \in FreshIds /\ RowsOf(n) = {} /\ Touch({n}) /\ UNCHANGED <<disk, bytes>>
        /\ rows' = [rows EXCEPT ![i] = NewRow(n, up[p].stat, <<up[p].blob, 1>>)]
    BY <1>5, <2>1 DEF UploadInsert, fileVars
  <2>3. SameRows({n}) /\ OldRows({n}) /\ OneRowPerPath' BY <2>2, RowMade, OldRowsGrow
  <2>4. SameFiles({n}) /\ OnePathPerFile' BY <2>2, NoFileChange
  <2> QED BY <2>2, <2>3, <2>4, TouchedStep
<1>6. ASSUME UploadCleanup(p) PROVE Stays
  <2>1. PICK n \in Names : n = up[p].name BY <1>6, UpShape DEF UploadCleanup
  <2>2. disk' = Unlinked(n) /\ Touch({n}) /\ UNCHANGED <<bytes, rows>>
    BY <1>6, <2>1 DEF UploadCleanup, dbVars
  <2>3. SameFiles({n}) /\ OnePathPerFile' BY <2>2, FileTaken
  <2>4. SameRows({n}) /\ OldRows({n}) /\ OneRowPerPath' BY <2>2, NoRowChange
  <2> QED BY <2>2, <2>3, <2>4, TouchedStep
<1>7. ASSUME UploadEnds(p) PROVE Stays
  BY <1>7, NoneTouched, NoRowChange, NoFileChange DEF UploadEnds, fileVars, dbVars
<1> QED BY <1>1, <1>2, <1>3, <1>4, <1>5, <1>6, <1>7 DEF Upload

LEMMA EditSound ==
  ASSUME Sound, NEW p \in Editors, Edit(p)
  PROVE  Stays
<1> USE DEF Sound, TypeOK, Stays
<1>1. ASSUME NEW i \in Ids, NEW to \in Names, RenameCheck(p, i, to) PROVE Stays
  BY <1>1, NoneTouched, NoRowChange, NoFileChange DEF RenameCheck, fileVars, dbVars
<1>2. ASSUME RenameMove(p) PROVE Stays
  <2>1. PICK n \in Names, m \in Names : n = ed[p].name /\ m = ed[p].to
    BY <1>2, EdShape DEF RenameMove
  <2>2. /\ disk' = [disk EXCEPT ![n] = None, ![m] = disk[n]]
        /\ Touch({n, m}) /\ UNCHANGED <<bytes, rows>>
    BY <1>2, <2>1 DEF RenameMove, dbVars
  <2>3. SameFiles({n, m}) /\ OnePathPerFile' BY <2>2, FileRenamed
  <2>4. SameRows({n, m}) /\ OldRows({n, m}) /\ OneRowPerPath' BY <2>2, NoRowChange
  <2> QED BY <2>2, <2>3, <2>4, TouchedStep
<1>3. ASSUME RenameRecord(p) PROVE Stays
  <2>1. PICK i \in Ids, to \in Names : i = ed[p].id /\ to = ed[p].to
    BY <1>3, EdShape DEF RenameRecord
  <2>2. PICK ns \in SUBSET Names : ns = {rows[i].name, to} \ {None} BY RowShape
  <2>3. /\ rows' = IF Live(i) /\ RowsOf(to) \subseteq {i}
                   THEN [rows EXCEPT ![i].name = to] ELSE rows
        /\ Touch(ns) /\ UNCHANGED <<disk, bytes>>
    BY <1>3, <2>1, <2>2 DEF RenameRecord, fileVars
  <2>4. SameRows(ns) /\ OldRows(ns) /\ OneRowPerPath' BY <2>2, <2>3, RowRenamed
  <2>5. SameFiles(ns) /\ OnePathPerFile' BY <2>3, NoFileChange
  <2> QED BY <2>3, <2>4, <2>5, TouchedStep
<1>4. ASSUME NEW i \in Ids, DeleteResolve(p, i) PROVE Stays
  BY <1>4, NoneTouched, NoRowChange, NoFileChange DEF DeleteResolve, fileVars, dbVars
<1>5. ASSUME DeleteUnlink(p) PROVE Stays
  <2>1. PICK n \in Names : n = ed[p].name BY <1>5, EdShape DEF DeleteUnlink
  <2>2. disk' = Unlinked(n) /\ Touch({n}) /\ UNCHANGED <<bytes, rows>>
    BY <1>5, <2>1 DEF DeleteUnlink, dbVars
  <2>3. SameFiles({n}) /\ OnePathPerFile' BY <2>2, FileTaken
  <2>4. SameRows({n}) /\ OldRows({n}) /\ OneRowPerPath' BY <2>2, NoRowChange
  <2> QED BY <2>2, <2>3, <2>4, TouchedStep
<1>6. ASSUME DeleteRow(p) PROVE Stays
  <2>1. PICK i \in Ids : i = ed[p].id BY <1>6, EdShape DEF DeleteRow
  <2>2. PICK ns \in SUBSET Names : ns = {rows[i].name} \ {None} BY RowShape
  <2>3. rows' = Dropped(i) /\ Touch(ns) /\ UNCHANGED <<disk, bytes>>
    BY <1>6, <2>1, <2>2 DEF DeleteRow, fileVars
  <2>4. SameRows(ns) /\ OldRows(ns) /\ OneRowPerPath' BY <2>2, <2>3, RowDropped, OldRowsGrow
  <2>5. SameFiles(ns) /\ OnePathPerFile' BY <2>3, NoFileChange
  <2> QED BY <2>3, <2>4, <2>5, TouchedStep
<1>7. ASSUME EditEnds(p) PROVE Stays
  BY <1>7, NoneTouched, NoRowChange, NoFileChange DEF EditEnds, fileVars, dbVars
<1> QED BY <1>1, <1>2, <1>3, <1>4, <1>5, <1>6, <1>7 DEF Edit

LEMMA OthersSound ==
  ASSUME Sound, Others
  PROVE  Stays
<1> USE DEF Sound, TypeOK, Stays
<1>1. ASSUME Mount PROVE Stays
  BY <1>1, NoneTouched, NoRowChange, NoFileChange DEF Mount, dbVars
<1>2. ASSUME NEW n \in Names, SaveOutside(n) PROVE Stays
  <2>1. PICK b \in Blobs : b = disk[n] BY <1>2, FileShape DEF SaveOutside, Exists
  <2>2. {m \in Names : disk[m] = b} = {n} BY <2>1, NoneIsNothing DEF OnePathPerFile
  <2>3. /\ bytes' = [bytes EXCEPT ![b] = bytes[b] + 1] /\ UNCHANGED <<disk, rows>>
        /\ Touch({n})
    BY <1>2, <2>1 DEF SaveOutside, dbVars
  <2>4. SameFiles({n}) /\ OnePathPerFile' BY <2>2, <2>3, BytesSaved
  <2>5. SameRows({n}) /\ OldRows({n}) /\ OneRowPerPath' BY <2>3, NoRowChange
  <2> QED BY <2>3, <2>4, <2>5, TouchedStep
<1>3. ASSUME NEW n \in Names, RemoveOutside(n) PROVE Stays
  <2>1. disk' = [disk EXCEPT ![n] = None] /\ Touch({n}) /\ UNCHANGED <<bytes, rows>>
    BY <1>3 DEF RemoveOutside, dbVars
  <2>2. SameFiles({n}) /\ OnePathPerFile' BY <2>1, FileTaken
  <2>3. SameRows({n}) /\ OldRows({n}) /\ OneRowPerPath' BY <2>1, NoRowChange
  <2> QED BY <2>1, <2>2, <2>3, TouchedStep
<1>4. ASSUME NEW n \in Names, NEW b \in Blobs, CreateOutside(n, b) PROVE Stays
  <2>1. /\ disk' = [disk EXCEPT ![n] = b] /\ bytes' = [bytes EXCEPT ![b] = 0]
        /\ b \in FreshBlobs /\ Touch({n}) /\ UNCHANGED rows
    BY <1>4 DEF CreateOutside, dbVars
  <2>2. SameFiles({n}) /\ OnePathPerFile' BY <2>1, FileMade
  <2>3. SameRows({n}) /\ OldRows({n}) /\ OneRowPerPath' BY <2>1, NoRowChange
  <2> QED BY <2>1, <2>2, <2>3, TouchedStep
<1> QED BY <1>1, <1>2, <1>3, <1>4 DEF Others

(* What the rescan notes of a path is what is there.                         *)
LEMMA WalkSees ==
  ASSUME Sound, ScanWalk
  PROVE  Stays
<1> USE DEF Sound, TypeOK, Stays
<1>1. UNCHANGED <<disk, bytes, rows>> BY DEF ScanWalk, ScanSteps, fileVars, dbVars
<1>2. folder /\ scan' = [scan EXCEPT !.at = "walked", !.seen = [n \in Names |-> Walked(n)]]
  BY DEF ScanWalk
<1>3. scan'.at = "walked" /\ scan'.seen = [n \in Names |-> Walked(n)] BY <1>2, ScanShape
<1>4. \A n \in Names : Walked(n) = Walk(n) BY <1>2 DEF Walked, Walk, Exists
<1>5. \A n \in Names : Walk(n)' = Walk(n) BY <1>1 DEF Walk, StatOf
<1>6. \A n \in Names : SeenIsThere(n)' BY <1>3, <1>4, <1>5 DEF SeenIsThere
<1>7. ScanInv' BY <1>3, <1>6 DEF ScanInv
<1> QED BY <1>1, <1>7, NoRowChange, NoFileChange

LEMMA RowsAreNoted ==
  ASSUME Sound, ScanRows
  PROVE  Stays
<1> USE DEF Sound, TypeOK, Stays
<1> DEFINE at(n) == IF RowsOf(n) = {} THEN None
                    ELSE LET i == CHOOSE i \in RowsOf(n) : TRUE
                         IN [id |-> i, stat |-> rows[i].stat]
<1>1. UNCHANGED <<disk, bytes, rows>> BY DEF ScanRows, ScanSteps, fileVars, dbVars
<1>2. /\ scan.at = "walked"
      /\ scan' = [scan EXCEPT !.at = "files", !.todo = Names,
                              !.known = [n \in Names |-> at(n)]]
  BY DEF ScanRows
<1>3. /\ scan'.at = "files" /\ scan'.todo = Names /\ scan'.seen = scan.seen
      /\ scan'.known = [n \in Names |-> at(n)] /\ scan'.touched = scan.touched
  <2> HIDE DEF at
  <2> QED BY <1>2, ScanShape
<1>4. ASSUME NEW n \in Names
      PROVE  KnownIsThere(n)' /\ KnownStays(n)'
  <2>1. RowsOf(n)' = RowsOf(n) BY <1>1 DEF RowsOf, Live
  <2>2. scan'.known[n] = at(n) BY <1>3
  <2>3. CASE RowsOf(n) = {}
    <3>1. at(n) = None BY <2>3
    <3> HIDE DEF at
    <3> QED BY <2>1, <2>2, <2>3, <3>1 DEF KnownIsThere, KnownStays
  <2>4. CASE RowsOf(n) # {}
    <3>1. PICK i : i = CHOOSE h \in RowsOf(n) : TRUE OBVIOUS
    <3>2. i \in RowsOf(n) BY <2>4, <3>1
    <3>3. i \in Ids /\ Live(i) /\ rows[i].name = n /\ rows[i].stat \in Stats
      BY <3>2, RowShape DEF RowsOf
    <3>4. at(n) = [id |-> i, stat |-> rows[i].stat] BY <2>4, <3>1
    <3> HIDE DEF at
    <3>5. at(n) \in Listings BY <3>3, <3>4 DEF Listings
    <3>6. /\ scan'.known[n] # None /\ scan'.known[n].id = i
          /\ scan'.known[n].stat = rows[i].stat
      BY <2>2, <3>4, <3>5, NoneIsNothing
    <3>7. KnownIsThere(n)' BY <1>1, <2>1, <3>2, <3>6 DEF KnownIsThere
    <3>8. KnownStays(n)' BY <1>1, <3>3, <3>6 DEF KnownStays, Live
    <3> QED BY <3>7, <3>8
  <2> QED BY <2>3, <2>4
<1> HIDE DEF at
<1>5. \A n \in Names : Walk(n)' = Walk(n) BY <1>1 DEF Walk, StatOf
<1>6. \A n \in Names \ scan.touched : SeenIsThere(n)'
  BY <1>2, <1>3, <1>5 DEF ScanInv, ToDo, SeenIsThere
<1>7. ScanInv' BY <1>3, <1>4, <1>6 DEF ScanInv
<1> QED BY <1>1, <1>7, NoRowChange, NoFileChange

LEMMA SameRowsGrow ==
  ASSUME NEW ns, SameRows(ns), NEW ms, ns \subseteq ms
  PROVE  SameRows(ms)
BY DEF SameRows

LEMMA PendingFacts ==
  ASSUME Sound, NEW n \in Names, Pending(n)
  PROVE  /\ Shape /\ ScanInv /\ OneRowPerPath /\ scan.at = "files" /\ n \in scan.todo
         /\ n \notin scan.touched => SeenIsThere(n) /\ KnownIsThere(n)
         /\ KnownStays(n)
BY DEF Sound, TypeOK, Pending, ScanInv, ToDo

LEMMA InsertSound ==
  ASSUME Sound, NEW n \in Names, NEW i \in Ids, ScanInsert(n, i)
  PROVE  Stays
<1>1. /\ Shape /\ ScanInv /\ OneRowPerPath /\ scan.at = "files" /\ n \in scan.todo
      /\ n \notin scan.touched => SeenIsThere(n)
  BY PendingFacts DEF ScanInsert
<1>2. /\ rows' = [rows EXCEPT ![i] = NewRow(n, scan.seen[n], StatOf(n))]
      /\ i \in FreshIds /\ RowsOf(n) = {} /\ disk[n] # None
      /\ Done(n) /\ UNCHANGED <<disk, bytes>>
  BY DEF ScanInsert, ScanSteps, fileVars, Exists
<1>3. SameRows({n}) /\ OldRows({}) /\ OneRowPerPath' /\ RowsOf(n)' = {i} BY <1>1, <1>2, RowMade
<1>4. SameRows({n} \cup scan.touched) /\ OldRows(scan.touched)
  BY <1>3, SameRowsGrow, OldRowsGrow
<1>5. rows'[i].stat = scan.seen[n] BY <1>1, <1>2 DEF NewRow, Shape
<1>6. ASSUME n \notin scan.touched PROVE Reconciled(n)'
  <2>1. scan.seen[n] = StatOf(n) BY <1>1, <1>2, <1>6 DEF SeenIsThere, Walk
  <2>2. disk'[n] # None /\ StatOf(n)' = StatOf(n) BY <1>2 DEF StatOf
  <2>3. i \in RowsOf(n)' /\ rows'[i].stat = StatOf(n)' BY <1>3, <1>5, <2>1, <2>2
  <2> QED BY <2>2, <2>3 DEF Reconciled
<1>7. ScanInv' BY <1>1, <1>2, <1>4, <1>6, DoneStep
<1> QED BY <1>2, <1>3, <1>7, NoFileChange DEF Sound, TypeOK, Stays

LEMMA KeepSound ==
  ASSUME Sound, NEW n \in Names, ScanKeep(n)
  PROVE  Stays
<1>1. /\ Shape /\ ScanInv /\ OneRowPerPath /\ scan.at = "files" /\ n \in scan.todo
      /\ n \notin scan.touched => SeenIsThere(n) /\ KnownIsThere(n)
  BY PendingFacts DEF ScanKeep
<1>2. /\ UNCHANGED <<disk, bytes, rows>> /\ Done(n)
      /\ scan.seen[n] # None /\ scan.known[n] # None /\ scan.known[n].stat = scan.seen[n]
  BY DEF ScanKeep, ScanSteps, fileVars, dbVars, Unseen, New, SameStat
<1>3. SameRows({n} \cup scan.touched) /\ OldRows(scan.touched) /\ OneRowPerPath'
  BY <1>1, <1>2, NoRowChange
<1>4. ASSUME n \notin scan.touched PROVE Reconciled(n)'
  <2>1. PICK i : i = scan.known[n].id OBVIOUS
  <2>2. i \in RowsOf(n) /\ rows[i].stat = scan.seen[n]
    BY <1>1, <1>2, <1>4, <2>1 DEF KnownIsThere
  <2>3. disk[n] # None /\ scan.seen[n] = StatOf(n)
    BY <1>1, <1>2, <1>4 DEF SeenIsThere, Walk
  <2>4. disk'[n] # None /\ StatOf(n)' = StatOf(n) BY <1>2, <2>3 DEF StatOf
  <2>5. i \in RowsOf(n)' /\ rows'[i].stat = StatOf(n)'
    BY <1>2, <2>2, <2>3, <2>4 DEF RowsOf, Live
  <2> QED BY <2>4, <2>5 DEF Reconciled
<1>5. ScanInv' BY <1>1, <1>2, <1>3, <1>4, DoneStep
<1> QED BY <1>2, <1>3, <1>5, NoFileChange DEF Sound, TypeOK, Stays

LEMMA UpdateSound ==
  ASSUME Sound, NEW n \in Names, ScanUpdate(n)
  PROVE  Stays
<1>1. /\ Shape /\ ScanInv /\ OneRowPerPath /\ scan.at = "files" /\ n \in scan.todo
      /\ n \notin scan.touched => SeenIsThere(n) /\ KnownIsThere(n)
      /\ KnownStays(n)
  BY PendingFacts DEF ScanUpdate
<1>2. /\ UNCHANGED <<disk, bytes>> /\ Done(n)
      /\ scan.seen[n] # None /\ scan.known[n] # None /\ disk[n] # None
  BY DEF ScanUpdate, ScanSteps, fileVars, Unseen, New, Exists
<1>3. PICK i \in Ids : i = scan.known[n].id BY <1>1, <1>2, ListingShape
<1>4. \E r : /\ rows' = [rows EXCEPT ![i] = r]
             /\ r.state = rows[i].state /\ r.name = rows[i].name
             /\ Live(i) => r.stat = scan.seen[n]
  <2>1. rows \in [Ids -> RowSet] BY <1>1 DEF Shape
  <2>2. CASE ~Live(i)
    <3>1. rows' = [rows EXCEPT ![i] = rows[i]] BY <1>3, <2>1, <2>2 DEF ScanUpdate
    <3> QED BY <2>2, <3>1
  <2>3. CASE Live(i)
    <3> DEFINE r == [rows[i] EXCEPT !.stat = scan.seen[n], !.hash = StatOf(n)]
    <3>1. rows' = [rows EXCEPT ![i] = r] BY <1>3, <2>1, <2>3 DEF ScanUpdate
    <3>2. r.state = rows[i].state /\ r.name = rows[i].name /\ r.stat = scan.seen[n]
      BY <1>1, RowShape
    <3> HIDE DEF r
    <3> QED BY <3>1, <3>2
  <2> QED BY <2>2, <2>3
<1>5. /\ OldRows({}) /\ OneRowPerPath' /\ \A j \in Ids \ {i} : rows'[j] = rows[j]
      /\ rows'[i].state = rows[i].state /\ rows'[i].name = rows[i].name
      /\ Live(i) => rows'[i].stat = scan.seen[n]
  <2>1. PICK r : /\ rows' = [rows EXCEPT ![i] = r]
                 /\ r.state = rows[i].state /\ r.name = rows[i].name
                 /\ Live(i) => r.stat = scan.seen[n]
    BY <1>4
  <2> QED BY <1>1, <2>1, RowUpdated
<1>6. Live(i) => rows[i].name \in {n} \cup scan.touched
  BY <1>1, <1>2, <1>3 DEF KnownStays
<1>7. SameRows({n} \cup scan.touched) BY <1>5, <1>6 DEF SameRows, Live
<1>8. OldRows(scan.touched) BY <1>5, OldRowsGrow
<1>9. ASSUME n \notin scan.touched PROVE Reconciled(n)'
  <2>1. i \in RowsOf(n) BY <1>1, <1>2, <1>3, <1>9 DEF KnownIsThere
  <2>2. scan.seen[n] = StatOf(n) BY <1>1, <1>2, <1>9 DEF SeenIsThere, Walk
  <2>3. disk'[n] # None /\ StatOf(n)' = StatOf(n) BY <1>2 DEF StatOf
  <2>4. i \in RowsOf(n)' /\ rows'[i].stat = StatOf(n)'
    BY <1>5, <2>1, <2>2, <2>3 DEF RowsOf, Live
  <2> QED BY <2>3, <2>4 DEF Reconciled
<1>10. ScanInv' BY <1>1, <1>2, <1>7, <1>8, <1>9, DoneStep
<1> QED BY <1>2, <1>5, <1>10, NoFileChange DEF Sound, TypeOK, Stays

LEMMA DropSound ==
  ASSUME Sound, NEW n \in Names, ScanDrop(n)
  PROVE  Stays
<1>1. /\ Shape /\ ScanInv /\ OneRowPerPath /\ scan.at = "files" /\ n \in scan.todo
      /\ n \notin scan.touched => SeenIsThere(n) /\ KnownIsThere(n)
      /\ KnownStays(n)
  BY PendingFacts DEF ScanDrop
<1>2. /\ UNCHANGED <<disk, bytes>> /\ Done(n) /\ scan.seen[n] = None
  BY <1>1 DEF ScanDrop, ScanSteps, fileVars, Unseen
<1>3. n \notin scan.touched => disk[n] = None /\ disk'[n] = None
  BY <1>1, <1>2, FileShape DEF SeenIsThere
<1>4. CASE scan.known[n] = None
  <2>1. UNCHANGED rows BY <1>4 DEF ScanDrop
  <2>2. SameRows({n} \cup scan.touched) /\ OldRows(scan.touched) /\ OneRowPerPath'
    BY <1>1, <2>1, NoRowChange
  <2>3. n \notin scan.touched => Reconciled(n)'
    BY <1>1, <1>3, <1>4, <2>1 DEF Reconciled, KnownIsThere, RowsOf, Live
  <2>4. ScanInv' BY <1>1, <1>2, <2>2, <2>3, DoneStep
  <2> QED BY <1>2, <2>2, <2>4, NoFileChange DEF Sound, TypeOK, Stays
<1>5. CASE scan.known[n] # None
  <2>1. PICK i \in Ids : i = scan.known[n].id BY <1>1, <1>5, ListingShape
  <2>2. rows' = Dropped(i) BY <1>5, <2>1 DEF ScanDrop
  <2>3. /\ SameRows({rows[i].name} \ {None}) /\ OldRows({}) /\ OneRowPerPath'
        /\ ~Live(i)' /\ \A j \in Ids \ {i} : rows'[j] = rows[j]
    BY <1>1, <2>2, RowDropped
  <2>4. {rows[i].name} \ {None} \subseteq {n} \cup scan.touched
    BY <1>1, <1>5, <2>1, RowShape DEF KnownStays
  <2>5. SameRows({n} \cup scan.touched) BY <2>3, <2>4, SameRowsGrow
  <2>6. OldRows(scan.touched) BY <2>3, OldRowsGrow
  <2>7. ASSUME n \notin scan.touched PROVE Reconciled(n)'
    <3>1. i \in RowsOf(n) BY <1>1, <1>5, <2>1, <2>7 DEF KnownIsThere
    <3>2. \A j \in RowsOf(n) : j = i BY <1>1, <3>1 DEF RowsOf, OneRowPerPath
    <3>3. RowsOf(n)' = {} BY <2>3, <3>2 DEF RowsOf, Live
    <3> QED BY <1>3, <2>7, <3>3 DEF Reconciled
  <2>8. ScanInv' BY <1>1, <1>2, <2>5, <2>6, <2>7, DoneStep
  <2> QED BY <1>2, <2>3, <2>8, NoFileChange DEF Sound, TypeOK, Stays
<1> QED BY <1>4, <1>5

LEMMA RescanSound ==
  ASSUME Sound, Rescan
  PROVE  Stays
<1>1. ASSUME ScanStart PROVE Stays
  <2>1. UNCHANGED <<disk, bytes, rows>> BY <1>1 DEF ScanStart, ScanSteps, fileVars
  <2>2. scan'.at \in {"idle", "listed"}
    BY <1>1, ScanShape DEF ScanStart, Sound, TypeOK
  <2>3. ScanInv' BY <2>2 DEF ScanInv
  <2> QED BY <2>1, <2>3, NoRowChange, NoFileChange DEF Sound, TypeOK, Stays
<1>2. ASSUME ScanEnds PROVE Stays
  <2>1. UNCHANGED <<disk, bytes, rows>> BY <1>2 DEF ScanEnds, ScanSteps, fileVars, dbVars
  <2>2. scan'.at = "idle" BY <1>2 DEF ScanEnds, IdleScan
  <2>3. ScanInv' BY <2>2 DEF ScanInv
  <2> QED BY <2>1, <2>3, NoRowChange, NoFileChange DEF Sound, TypeOK, Stays
<1> QED BY <1>1, <1>2, WalkSees, RowsAreNoted, InsertSound, KeepSound, UpdateSound, DropSound
        DEF Rescan

LEMMA SoundStays ==
  ASSUME Sound, [Next]_vars
  PROVE  Sound'
<1>0. Shape /\ OneRowPerPath /\ OnePathPerFile /\ ScanInv BY DEF Sound, TypeOK
<1>1. Shape' BY <1>0, ShapeStays
<1>2. ASSUME UNCHANGED vars PROVE Stays
  <2>1. UNCHANGED <<disk, bytes, rows, scan>> BY <1>2 DEF vars, fileVars, dbVars
  <2>2. OneRowPerPath' /\ OnePathPerFile' BY <2>1, <1>0, NoRowChange, NoFileChange
  <2>3. ScanInv' BY <2>1, <1>0, NoneTouched
  <2> QED BY <2>2, <2>3 DEF Stays
<1>3. ASSUME Next PROVE Stays
  BY <1>3, UploadSound, EditSound, RescanSound, OthersSound DEF Next
<1>4. Stays BY <1>2, <1>3 DEF Stays, Sound, TypeOK
<1> QED BY <1>1, <1>4 DEF Sound, TypeOK, Stays

LEMMA SoundAtFirst ==
  ASSUME Init
  PROVE  Sound
<1>1. bytes \in [Blobs -> Versions \cup {None}]
      /\ \A n \in Names : disk[n] # None => bytes[disk[n]] = 0
  BY NoneIsNothing DEF Init
<1>2. PICK indexed \in SUBSET {n \in Names : disk[n] # None} :
        \E id \in [indexed -> Ids] :
          /\ \A n, m \in indexed : id[n] = id[m] => n = m
          /\ rows = [i \in Ids |->
                       IF \E n \in indexed : id[n] = i
                       THEN LET n == CHOOSE n \in indexed : id[n] = i
                            IN NewRow(n, <<disk[n], 0>>, <<disk[n], 0>>)
                       ELSE NoRow]
  BY DEF Init
<1>3. PICK id \in [indexed -> Ids] :
        /\ \A n, m \in indexed : id[n] = id[m] => n = m
        /\ rows = [i \in Ids |->
                     IF \E n \in indexed : id[n] = i
                     THEN LET n == CHOOSE n \in indexed : id[n] = i
                          IN NewRow(n, <<disk[n], 0>>, <<disk[n], 0>>)
                     ELSE NoRow]
  BY <1>2
<1>4. ASSUME NEW i \in Ids
      PROVE  \/ rows[i] = NoRow
             \/ \E n \in indexed : id[n] = i /\ rows[i] = NewRow(n, <<disk[n], 0>>, <<disk[n], 0>>)
  <2>1. CASE \E n \in indexed : id[n] = i
    <3>1. PICK n : n = CHOOSE m \in indexed : id[m] = i OBVIOUS
    <3>2. n \in indexed /\ id[n] = i BY <2>1, <3>1
    <3> QED BY <1>3, <2>1, <3>1, <3>2
  <2>2. CASE ~\E n \in indexed : id[n] = i BY <1>3, <2>2
  <2> QED BY <2>1, <2>2
<1>5. ASSUME NEW n \in indexed
      PROVE  NewRow(n, <<disk[n], 0>>, <<disk[n], 0>>) \in RowSet
  <2>1. n \in Names /\ disk[n] \in Blobs BY <1>2 DEF Init
  <2>2. <<disk[n], 0>> \in Stats BY <2>1, NoneIsNothing DEF Stats
  <2> QED BY <2>1, <2>2, NewRowShape
<1>6. rows \in [Ids -> RowSet] BY <1>3, <1>4, <1>5, Idle
<1>7. ASSUME NEW i \in Ids, Live(i)
      PROVE  \E n \in indexed : id[n] = i /\ rows[i].name = n
  <2>1. rows[i].state = "live" BY <1>7 DEF Live
  <2>2. rows[i] # NoRow BY <2>1 DEF NoRow
  <2>3. PICK n \in indexed : id[n] = i /\ rows[i] = NewRow(n, <<disk[n], 0>>, <<disk[n], 0>>)
    BY <1>4, <2>2
  <2>4. rows[i].name = n BY <2>3 DEF NewRow
  <2> QED BY <2>3, <2>4
<1>8. OneRowPerPath BY <1>7 DEF OneRowPerPath
<1>9. OnePathPerFile BY DEF Init, OnePathPerFile
<1>10. scan.at = "idle" /\ ScanInv BY DEF Init, IdleScan, ScanInv
<1>11. Shape
  BY <1>1, <1>6, Idle, NoneIsNothing DEF Init, Shape
<1> QED BY <1>8, <1>9, <1>10, <1>11 DEF Sound, TypeOK

-----------------------------------------------------------------------------
(* No rescan drops a row for want of a drive.                                *)

LEMMA UploadLosesNoRow ==
  ASSUME Sound, NEW p \in Uploads, Upload(p), NEW i \in Ids, Live(i)
  PROVE  rows'[i].state = "live"
<1>1. CASE UNCHANGED rows BY <1>1 DEF Live
<1>2. ASSUME NEW j \in Ids, UploadInsert(p, j) PROVE rows'[i].state = "live"
  <2>1. i # j BY <1>2 DEF UploadInsert, FreshIds, Live
  <2> QED BY <1>2, <2>1 DEF UploadInsert, Live, Sound, TypeOK, Shape
<1> QED BY <1>1, <1>2
        DEF Upload, UploadCheck, UploadCreate, UploadBody, UploadStat, UploadCleanup,
            UploadEnds, dbVars

LEMMA EditOutlives ==
  ASSUME Sound, NEW p \in Editors, Edit(p), NEW i \in Ids, Live(i), ed' = ed
  PROVE  rows'[i].state = "live"
<1>1. CASE UNCHANGED rows BY <1>1 DEF Live
<1>2. ASSUME RenameRecord(p) PROVE rows'[i].state = "live"
  <2>1. rows'[i].state = rows[i].state BY <1>2 DEF RenameRecord, Sound, TypeOK, Shape
  <2> QED BY <2>1 DEF Live
<1>3. ASSUME DeleteRow(p) PROVE FALSE
  <2>1. ed[p].at = "unrow" /\ ed' = [ed EXCEPT ![p] = IdleEdit] BY <1>3 DEF DeleteRow, SetEdit
  <2>2. ed'[p].at = "idle" BY <2>1 DEF IdleEdit, Sound, TypeOK, Shape
  <2> QED BY <2>1, <2>2
<1> QED BY <1>1, <1>2, <1>3
        DEF Edit, RenameCheck, RenameMove, DeleteResolve, DeleteUnlink, EditEnds, dbVars

LEMMA DropOutlives ==
  ASSUME Sound, NEW n \in Names, ScanDrop(n), NEW i \in Ids, Live(i),
         rows'[i].state = "gone"
  PROVE  disk[rows[i].name] = None \/ rows[i].name \in scan.touched
<1>1. /\ Shape /\ (n \notin scan.touched => SeenIsThere(n)) /\ KnownStays(n)
  BY PendingFacts DEF ScanDrop
<1>2. scan.seen[n] = None BY DEF ScanDrop, Unseen, Pending
<1>3. rows' # rows BY DEF Live
<1>4. scan.known[n] # None BY <1>3 DEF ScanDrop
<1>5. PICK j \in Ids : j = scan.known[n].id BY <1>1, <1>4, ListingShape
<1>6. rows' = Dropped(j) BY <1>4, <1>5 DEF ScanDrop
<1>7. i = j
  <2>1. ASSUME i # j PROVE FALSE
    <3>1. rows'[i] = rows[i] BY <1>6, <2>1, <1>1 DEF Dropped, Shape
    <3> QED BY <3>1 DEF Live
  <2> QED BY <2>1
<1>8. rows[i].name \in {n} \cup scan.touched BY <1>1, <1>4, <1>5, <1>7 DEF KnownStays
<1>9. n \notin scan.touched => disk[n] = None BY <1>1, <1>2, FileShape DEF SeenIsThere
<1> QED BY <1>8, <1>9

LEMMA RescanOutlives ==
  ASSUME Sound, Rescan, NEW i \in Ids, Live(i), rows'[i].state = "gone"
  PROVE  disk[rows[i].name] = None \/ rows[i].name \in scan.touched
<1>0. rows \in [Ids -> RowSet] /\ rows[i].state = "live" BY DEF Sound, TypeOK, Shape, Live
<1>1. ~UNCHANGED rows BY <1>0
<1>2. ASSUME NEW n \in Names, NEW j \in Ids, ScanInsert(n, j) PROVE FALSE
  <2>1. i # j BY <1>2 DEF ScanInsert, FreshIds, Live
  <2> QED BY <1>0, <1>2, <2>1 DEF ScanInsert
<1>3. ASSUME NEW n \in Names, ScanUpdate(n) PROVE FALSE
  <2> DEFINE j == scan.known[n].id
             t == [rows[j] EXCEPT !.stat = scan.seen[n], !.hash = StatOf(n)]
  <2>2. rows' = rows \/ rows' = [rows EXCEPT ![j] = t] BY <1>3 DEF ScanUpdate
  <2>3. i = j => t.state = rows[i].state BY <1>0 DEF RowSet
  <2> HIDE DEF j, t
  <2>1. rows'[i].state = rows[i].state BY <1>0, <2>2, <2>3
  <2> QED BY <1>0, <2>1
<1> QED BY <1>1, <1>2, <1>3, DropOutlives
        DEF Rescan, ScanStart, ScanWalk, ScanRows, ScanKeep, ScanEnds, dbVars

LEMMA StepOutlives ==
  ASSUME Sound, [Next]_vars, NEW i \in Ids
  PROVE  RowOutlivesDrive(i)
<1> SUFFICES ASSUME Live(i), rows'[i].state = "gone", ed' = ed
             PROVE  disk[rows[i].name] = None \/ rows[i].name \in scan.touched
  BY DEF RowOutlivesDrive
<1>1. ~UNCHANGED rows BY DEF Live
<1>2. ~UNCHANGED vars BY <1>1 DEF vars, dbVars
<1>3. ~Others BY <1>1 DEF Others, Mount, SaveOutside, RemoveOutside, CreateOutside, dbVars
<1> QED BY <1>2, <1>3, UploadLosesNoRow, EditOutlives, RescanOutlives DEF Next

-----------------------------------------------------------------------------
(* Uploads where nobody renames, deletes or meddles.                         *)

(* Bytes grow, no file comes back, and a path keeps its file or loses it.    *)
Ageing ==
  /\ \A b \in Blobs : bytes[b] # None =>
       /\ bytes'[b] # None /\ bytes'[b] >= bytes[b]
       /\ OnDisk(b)' => OnDisk(b)
  /\ \A n \in Names, b \in Blobs : disk[n] = b => disk'[n] = b \/ ~OnDisk(b)'

LEMMA PastStays ==
  ASSUME Shape, Shape', Ageing, NEW s \in Stats, Past(s)
  PROVE  Past(s)'
<1>1. s[1] \in Blobs /\ s[2] \in Nat BY DEF Stats, Versions
<1>2. bytes[s[1]] \in Nat /\ bytes'[s[1]] \in Nat /\ bytes'[s[1]] >= bytes[s[1]]
  BY <1>1 DEF Past, Ageing, Shape, Versions
<1>3. OnDisk(s[1])' => OnDisk(s[1]) BY <1>1 DEF Past, Ageing
<1>4. bytes'[s[1]] # None BY <1>1 DEF Past, Ageing
<1> QED BY <1>1, <1>2, <1>3, <1>4 DEF Past

LEMMA TakenStays ==
  ASSUME Shape, Shape', Ageing, NEW n \in Names, NEW s \in Stats, TakenAt(n, s)
  PROVE  TakenAt(n, s)'
<1>1. s[1] \in Blobs /\ s[2] \in Nat /\ s[1] # None BY NoneIsNothing DEF Stats, Versions
<1>2. bytes[s[1]] \in Nat /\ bytes'[s[1]] \in Nat /\ bytes'[s[1]] >= bytes[s[1]]
  BY <1>1 DEF TakenAt, Ageing, Shape, Versions
<1>3. bytes'[s[1]] # None /\ (OnDisk(s[1])' => OnDisk(s[1])) BY <1>1 DEF TakenAt, Ageing
<1>4. CASE disk[n] = s[1]
  <2>2. disk'[n] = s[1] \/ ~OnDisk(s[1])' BY <1>1, <1>4 DEF Ageing
  <2>3. bytes'[s[1]] >= s[2] BY <1>1, <1>2 DEF TakenAt
  <2> QED BY <1>3, <2>2, <2>3 DEF TakenAt
<1>5. CASE ~OnDisk(s[1])
  <2>1. bytes'[s[1]] >= s[2] BY <1>1, <1>2 DEF TakenAt
  <2> QED BY <1>3, <1>5, <2>1 DEF TakenAt
<1> QED BY <1>4, <1>5 DEF TakenAt

(* What is hashed now for a stat taken earlier has that stat, or the stat is *)
(* past.                                                                     *)
LEMMA TakenOrPast ==
  ASSUME Shape, NEW n \in Names, NEW s \in Stats, TakenAt(n, s), disk[n] # None
  PROVE  StatOf(n) = s \/ Past(s)
<1>1. s[1] \in Blobs /\ s[2] \in Nat /\ s = <<s[1], s[2]>> BY DEF Stats, Versions
<1>2. bytes[s[1]] # None /\ bytes[s[1]] >= s[2] /\ bytes[s[1]] \in Nat
  BY <1>1 DEF TakenAt, Shape, Versions
<1>3. CASE ~OnDisk(s[1]) BY <1>2, <1>3 DEF Past
<1>4. CASE disk[n] = s[1] /\ bytes[s[1]] > s[2] BY <1>2, <1>4 DEF Past
<1>5. CASE disk[n] = s[1] /\ bytes[s[1]] = s[2]
  <2>1. StatOf(n) = <<s[1], s[2]>> BY <1>5 DEF StatOf
  <2> QED BY <1>1, <2>1
<1> QED BY <1>1, <1>2, <1>3, <1>4, <1>5 DEF TakenAt

(* Rows that are believable stay so while the files age.                     *)
Believable(i) == Live(i) => rows[i].hash = rows[i].stat \/ Past(rows[i].stat)

LEMMA RowStaysBelievable ==
  ASSUME Shape, Shape', Ageing, NEW i \in Ids, Believable(i), rows'[i] = rows[i]
  PROVE  Believable(i)'
<1>1. CASE Live(i)
  <2>1. PICK s \in Stats : s = rows[i].stat BY <1>1, RowShape
  <2>2. rows[i].hash = s \/ Past(s) BY <1>1, <2>1 DEF Believable
  <2>3. rows[i].hash = s \/ Past(s)' BY <2>2, PastStays
  <2>4. rows'[i].stat = s /\ rows'[i].hash = rows[i].hash BY <2>1
  <2> QED BY <2>3, <2>4 DEF Believable, Past, OnDisk
<1>2. CASE ~Live(i) BY <1>2 DEF Believable, Live
<1> QED BY <1>1, <1>2

LEMMA SameFilesAge ==
  ASSUME Shape, UNCHANGED <<disk, bytes>>
  PROVE  Ageing
BY DEF Ageing, OnDisk, Shape, Versions

(* Of two uploads one has a file at most, and fresh files are nobody's.      *)
LEMMA NobodysFile ==
  ASSUME Shape, UpInv, NEW b \in FreshBlobs, NEW q \in Uploads
  PROVE  up[q].blob # b
<1>1. b \in Blobs /\ bytes[b] = None BY DEF FreshBlobs
<1>2. Mine(q) BY DEF UpInv
<1> QED BY <1>1, <1>2, UpShape, NoneIsNothing DEF Mine

(* What does not concern an upload leaves it as it is.                       *)
LEMMA OtherMine ==
  ASSUME Shape, NEW q \in Uploads, Mine(q), up'[q] = up[q],
         up[q].blob # None => bytes'[up[q].blob] = bytes[up[q].blob],
         \A n \in Names : disk[n] = up[q].blob /\ disk[n] # None => disk'[n] = disk[n]
  PROVE  Mine(q)'
<1>1. CASE up[q].at \in {"idle", "create"} BY <1>1 DEF Mine
<1>2. CASE up[q].at \in {"ok", "body", "written", "index"}
  <2>1. up[q].blob \in Blobs /\ up[q].blob # None BY <1>2, UpShape, NoneIsNothing
  <2>2. CASE up[q].at = "ok"
    <3>1. PICK n \in Names : disk[n] = up[q].blob BY <2>2 DEF Mine, OnDisk
    <3>2. disk'[n] = up[q].blob BY <2>1, <3>1
    <3>3. OnDisk(up[q].blob)' BY <3>2 DEF OnDisk
    <3> QED BY <2>1, <2>2, <3>3 DEF Mine
  <2>3. CASE up[q].at \in {"body", "written", "index"}
    <3>1. up[q].name \in Names /\ disk[up[q].name] = up[q].blob BY <2>3, UpShape DEF Mine
    <3>2. disk'[up[q].name] = up[q].blob BY <2>1, <3>1
    <3> QED BY <2>1, <2>3, <3>2 DEF Mine
  <2> QED BY <1>2, <2>2, <2>3
<1> QED BY <1>1, <1>2, UpShape

LEMMA OneUpStep ==
  ASSUME Shape, UpInv, NEW p \in Uploads, NEW u, up' = [up EXCEPT ![p] = u],
         Mine(p)', u.blob # None => \A q \in Uploads \ {p} : up[q].blob # u.blob,
         \A q \in Uploads \ {p} : Mine(q)'
  PROVE  UpInv'
<1>1. up'[p] = u /\ \A q \in Uploads \ {p} : up'[q] = up[q] BY DEF Shape
<1>2. \A q \in Uploads : Mine(q)' OBVIOUS
<1>3. \A q, r \in Uploads : up'[q].blob = up'[r].blob /\ up'[q].blob # None => q = r
  BY <1>1 DEF UpInv
<1> QED BY <1>2, <1>3 DEF UpInv

Kept == UpInv' /\ Ageing /\ (UNCHANGED rows \/ \E i \in Ids :
          /\ \A j \in Ids \ {i} : rows'[j] = rows[j]
          /\ rows'[i].hash = rows'[i].stat)

LEMMA UploadKept ==
  ASSUME Sound, UpInv, NEW p \in Uploads, Upload(p)
  PROVE  Kept
<1>0. Shape /\ OnePathPerFile /\ (\A q \in Uploads : Mine(q)) BY DEF Sound, TypeOK, UpInv
<1>9. up \in [Uploads -> UploadSet] BY <1>0 DEF Shape
<1>1. ASSUME NEW n \in Names, UploadCheck(p, n) PROVE Kept
  <2> DEFINE u == [IdleUpload EXCEPT !.at = "create", !.name = n]
  <2>1. up' = [up EXCEPT ![p] = u] /\ UNCHANGED <<disk, bytes, rows>>
    BY <1>1 DEF UploadCheck, fileVars, dbVars
  <2>2. u.blob = None /\ u.at = "create" BY DEF IdleUpload
  <2> HIDE DEF u
  <2>3. up'[p] = u /\ \A q \in Uploads \ {p} : up'[q] = up[q] BY <2>1, <1>9
  <2>4. Mine(p)' BY <2>2, <2>3 DEF Mine
  <2>5. \A q \in Uploads \ {p} : Mine(q)' BY <1>0, <2>1, <2>3, OtherMine
  <2>6. UpInv' BY <1>0, <2>1, <2>2, <2>4, <2>5, OneUpStep
  <2> QED BY <1>0, <2>1, <2>6, SameFilesAge DEF Kept
<1>2. ASSUME NEW b \in Blobs, UploadCreate(p, b) PROVE Kept
  <2>1. PICK n \in Names : n = up[p].name BY <1>0, <1>2, UpShape DEF UploadCreate
  <2> DEFINE u == [up[p] EXCEPT !.at = "body", !.blob = b]
  <2>2. /\ disk' = [disk EXCEPT ![n] = b] /\ bytes' = [bytes EXCEPT ![b] = 0]
        /\ b \in FreshBlobs /\ bytes[b] = None /\ disk[n] = None /\ UNCHANGED rows
        /\ up' = [up EXCEPT ![p] = u]
    BY <1>2, <2>1, <1>9 DEF UploadCreate, dbVars, FreshBlobs
  <2>3. u.blob = b /\ u.at = "body" /\ u.name = n BY <1>9, <2>1 DEF UploadSet
  <2> HIDE DEF u
  <2>4. up'[p] = u /\ \A q \in Uploads \ {p} : up'[q] = up[q] BY <2>2, <1>9
  <2>5. disk'[n] = b /\ bytes'[b] = 0 BY <1>0, <2>2 DEF Shape
  <2>6. Mine(p)' BY <2>3, <2>4, <2>5 DEF Mine
  <2>7. ASSUME NEW q \in Uploads \ {p} PROVE Mine(q)' /\ up[q].blob # b
    <3>1. up[q].blob # b BY <1>0, <2>2, NobodysFile
    <3>2. up[q].blob # None => bytes'[up[q].blob] = bytes[up[q].blob]
      BY <1>0, <2>2, <3>1 DEF Shape
    <3>3. \A m \in Names : disk[m] = up[q].blob /\ disk[m] # None => disk'[m] = disk[m]
      BY <1>0, <2>2 DEF Shape
    <3> QED BY <1>0, <2>4, <3>1, <3>2, <3>3, OtherMine
  <2>8. UpInv' BY <1>0, <2>2, <2>3, <2>6, <2>7, OneUpStep
  <2>9. Ageing
    <3>1. \A c \in Blobs : bytes[c] # None => c # b /\ bytes'[c] = bytes[c] /\ bytes[c] \in Nat
      BY <1>0, <2>2 DEF Shape, Versions
    <3>2. \A m \in Names : disk'[m] = disk[m] \/ (m = n /\ disk'[m] = b)
      BY <1>0, <2>2 DEF Shape
    <3> QED BY <3>1, <3>2, <2>2 DEF Ageing, OnDisk
  <2> QED BY <2>2, <2>8, <2>9 DEF Kept
<1>3. ASSUME UploadBody(p) PROVE Kept
  <2>1. PICK b \in Blobs : b = up[p].blob BY <1>0, <1>3, UpShape DEF UploadBody
  <2> DEFINE u == [up[p] EXCEPT !.at = "written"]
  <2>2. /\ bytes' = [bytes EXCEPT ![b] = 1] /\ UNCHANGED <<disk, rows>>
        /\ up' = [up EXCEPT ![p] = u] /\ up[p].at = "body"
    BY <1>3, <2>1, <1>9 DEF UploadBody, dbVars
  <2>3. u.blob = b /\ u.at = "written" /\ u.name = up[p].name BY <1>9, <2>1 DEF UploadSet
  <2> HIDE DEF u
  <2>4. up'[p] = u /\ \A q \in Uploads \ {p} : up'[q] = up[q] BY <2>2, <1>9
  <2>5. disk[up[p].name] = b /\ bytes[b] = 0 /\ bytes'[b] = 1
    BY <1>0, <2>1, <2>2 DEF Mine, Shape
  <2>6. Mine(p)' BY <2>2, <2>3, <2>4, <2>5 DEF Mine
  <2>7. ASSUME NEW q \in Uploads \ {p} PROVE Mine(q)' /\ up[q].blob # b
    <3>1. up[q].blob # b BY <2>1, NoneIsNothing DEF UpInv
    <3>2. up[q].blob # None => bytes'[up[q].blob] = bytes[up[q].blob]
      BY <1>0, <2>2, <3>1 DEF Shape
    <3> QED BY <1>0, <2>2, <2>4, <3>1, <3>2, OtherMine
  <2>8. UpInv' BY <1>0, <2>2, <2>3, <2>6, <2>7, OneUpStep
  <2>9. Ageing
    <3>1. \A c \in Blobs : bytes[c] # None => bytes'[c] # None /\ bytes'[c] >= bytes[c]
      BY <1>0, <2>2, <2>5, NoneIsNothing DEF Shape, Versions
    <3> QED BY <3>1, <2>2 DEF Ageing, OnDisk
  <2> QED BY <2>2, <2>8, <2>9 DEF Kept
<1>4. ASSUME UploadStat(p) PROVE Kept
  <2> DEFINE u == [up[p] EXCEPT !.at = "index", !.stat = StatOf(up[p].name)]
  <2>1. /\ up' = [up EXCEPT ![p] = u] /\ UNCHANGED <<disk, bytes, rows>>
        /\ up[p].at = "written"
    BY <1>4, <1>9 DEF UploadStat, fileVars, dbVars
  <2>2. /\ u.blob = up[p].blob /\ u.at = "index" /\ u.name = up[p].name
        /\ u.stat = StatOf(up[p].name)
    BY <1>9 DEF UploadSet
  <2> HIDE DEF u
  <2>3. up'[p] = u /\ \A q \in Uploads \ {p} : up'[q] = up[q] BY <2>1, <1>9
  <2>4. disk[up[p].name] = up[p].blob /\ bytes[up[p].blob] = 1 BY <1>0, <2>1 DEF Mine
  <2>5. StatOf(up[p].name) = <<up[p].blob, 1>> BY <2>4 DEF StatOf
  <2>6. Mine(p)' BY <2>1, <2>2, <2>3, <2>4, <2>5 DEF Mine
  <2>7. \A q \in Uploads \ {p} : Mine(q)' BY <1>0, <2>1, <2>3, OtherMine
  <2>8. u.blob # None => \A q \in Uploads \ {p} : up[q].blob # u.blob BY <2>2 DEF UpInv
  <2>10. UpInv' BY <1>0, <2>1, <2>6, <2>7, <2>8, OneUpStep
  <2> QED BY <1>0, <2>1, <2>10, SameFilesAge DEF Kept
<1>5. ASSUME NEW i \in Ids, UploadInsert(p, i) PROVE Kept
  <2> DEFINE u == [IdleUpload EXCEPT !.at = "ok", !.blob = up[p].blob]
  <2>1. /\ up' = [up EXCEPT ![p] = u] /\ UNCHANGED <<disk, bytes>>
        /\ up[p].at = "index"
        /\ rows' = [rows EXCEPT ![i] = NewRow(up[p].name, up[p].stat, <<up[p].blob, 1>>)]
    BY <1>5 DEF UploadInsert, fileVars
  <2>2. u.blob = up[p].blob /\ u.at = "ok" BY DEF IdleUpload
  <2> HIDE DEF u
  <2>3. up'[p] = u /\ \A q \in Uploads \ {p} : up'[q] = up[q] BY <2>1, <1>9
  <2>4. /\ disk[up[p].name] = up[p].blob /\ bytes[up[p].blob] = 1
        /\ up[p].name \in Names /\ up[p].stat = <<up[p].blob, 1>>
    BY <1>0, <2>1, UpShape DEF Mine
  <2>5. Mine(p)' BY <2>1, <2>2, <2>3, <2>4 DEF Mine, OnDisk
  <2>6. \A q \in Uploads \ {p} : Mine(q)' BY <1>0, <2>1, <2>3, OtherMine
  <2>7. u.blob # None => \A q \in Uploads \ {p} : up[q].blob # u.blob BY <2>2 DEF UpInv
  <2>8. UpInv' BY <1>0, <2>1, <2>5, <2>6, <2>7, OneUpStep
  <2>10. rows'[i].hash = rows'[i].stat /\ \A j \in Ids \ {i} : rows'[j] = rows[j]
    BY <1>0, <2>1, <2>4 DEF NewRow, Shape
  <2> QED BY <1>0, <2>1, <2>8, <2>10, SameFilesAge DEF Kept
<1>6. ASSUME UploadCleanup(p) PROVE Kept
  <2>1. PICK n \in Names, b \in Blobs : n = up[p].name /\ b = up[p].blob
    BY <1>0, <1>6, UpShape DEF UploadCleanup
  <2>2. /\ up' = [up EXCEPT ![p] = IdleUpload] /\ UNCHANGED <<bytes, rows>>
        /\ disk' = Unlinked(n) /\ disk[n] = b
    BY <1>0, <1>6, <2>1 DEF UploadCleanup, Mine, dbVars
  <2>3. up'[p] = IdleUpload /\ \A q \in Uploads \ {p} : up'[q] = up[q] BY <2>2, <1>9
  <2>4. IdleUpload.at = "idle" /\ IdleUpload.blob = None BY DEF IdleUpload
  <2>5. Mine(p)' BY <2>3, <2>4 DEF Mine
  <2>6. \A m \in Names : disk'[m] = disk[m] \/ (m = n /\ disk'[m] = None)
    BY <1>0, <2>2 DEF Unlinked, Shape
  <2>7. ASSUME NEW q \in Uploads \ {p} PROVE Mine(q)'
    <3>1. up[q].blob # b BY <2>1, NoneIsNothing DEF UpInv
    <3>2. \A m \in Names : disk[m] = up[q].blob /\ disk[m] # None => disk'[m] = disk[m]
      BY <2>2, <2>6, <3>1
    <3> QED BY <1>0, <2>2, <2>3, <3>2, OtherMine
  <2>8. UpInv' BY <1>0, <2>2, <2>4, <2>5, <2>7, OneUpStep
  <2>9. Ageing
    <3>1. \A c \in Blobs : bytes[c] # None => bytes[c] \in Nat
      BY <1>0 DEF Shape, Versions
    <3>2. \A c \in Blobs : OnDisk(c)' => OnDisk(c) BY <2>6, NoneIsNothing DEF OnDisk
    <3>3. \A m \in Names, c \in Blobs : disk[m] = c => disk'[m] = c \/ ~OnDisk(c)'
      <4>1. SUFFICES ASSUME NEW m \in Names, NEW c \in Blobs, disk[m] = c, disk'[m] # c,
                            NEW k \in Names, disk'[k] = c
                     PROVE  FALSE
        BY DEF OnDisk
      <4>2. m = n /\ disk'[m] = None BY <2>6, <4>1
      <4>3. disk'[k] = disk[k] BY <2>6, <4>1, NoneIsNothing
      <4>4. k = m BY <1>0, <4>1, <4>3, NoneIsNothing DEF OnePathPerFile
      <4> QED BY <4>1, <4>2, <4>4
    <3> QED BY <3>1, <3>2, <3>3, <2>2 DEF Ageing
  <2> QED BY <2>2, <2>8, <2>9 DEF Kept
<1>7. ASSUME UploadEnds(p) PROVE Kept
  <2>1. up' = [up EXCEPT ![p] = IdleUpload] /\ UNCHANGED <<disk, bytes, rows>>
    BY <1>7 DEF UploadEnds, fileVars, dbVars
  <2>2. IdleUpload.at = "idle" /\ IdleUpload.blob = None BY DEF IdleUpload
  <2>3. up'[p] = IdleUpload /\ \A q \in Uploads \ {p} : up'[q] = up[q] BY <2>1, <1>9
  <2>4. Mine(p)' BY <2>2, <2>3 DEF Mine
  <2>5. \A q \in Uploads \ {p} : Mine(q)' BY <1>0, <2>1, <2>3, OtherMine
  <2>6. UpInv' BY <1>0, <2>1, <2>2, <2>4, <2>5, OneUpStep
  <2> QED BY <1>0, <2>1, <2>6, SameFilesAge DEF Kept
<1> QED BY <1>1, <1>2, <1>3, <1>4, <1>5, <1>6, <1>7 DEF Upload

(* The hashes: an upload's row is of its own bytes, and the rescan's of bytes *)
(* as old as the stat at least.                                              *)
Believed ==
  /\ \A i \in Ids : Believable(i)
  /\ \A n \in Names : scan.seen[n] # None => TakenAt(n, scan.seen[n])

LEMMA HashInvIs == HashInv <=> Believed
BY DEF HashInv, Believed, Believable

LEMMA SeenStays ==
  ASSUME Shape, Shape', Ageing, Believed, NEW n \in Names,
         scan'.seen[n] = scan.seen[n] \/ scan'.seen[n] = None, scan'.seen[n] # None
  PROVE  TakenAt(n, scan.seen[n])'
<1>1. PICK s \in Stats : s = scan.seen[n] BY ScanShape
<1>2. TakenAt(n, s) BY <1>1, NoneIsNothing DEF Believed
<1>3. TakenAt(n, s)' BY <1>2, TakenStays
<1>4. scan'.seen[n] = s BY <1>1
<1> QED BY <1>3, <1>4 DEF TakenAt, OnDisk

LEMMA UploadBelieved ==
  ASSUME Sound, Shape', Believed, UpInv, NEW p \in Uploads, Upload(p)
  PROVE  UpInv' /\ Believed'
<1>0. Shape BY DEF Sound, TypeOK
<1>1. Kept BY UploadKept
<1>2. scan'.seen = scan.seen
  BY <1>0, ScanShape
  DEF Upload, UploadCheck, UploadCreate, UploadBody, UploadStat, UploadInsert, UploadCleanup,
      UploadEnds, Touch
<1>3. ASSUME NEW i \in Ids PROVE Believable(i)'
  <2>1. CASE rows'[i] = rows[i] BY <1>0, <1>1, <2>1, RowStaysBelievable DEF Believed, Kept
  <2>2. CASE rows'[i].hash = rows'[i].stat BY <2>2 DEF Believable
  <2> QED BY <1>1, <2>1, <2>2 DEF Kept
<1>4. \A n \in Names : scan'.seen[n] # None => TakenAt(n, scan.seen[n])'
  BY <1>0, <1>1, <1>2, SeenStays DEF Kept
<1> QED BY <1>1, <1>3, <1>4 DEF Kept, Believed

(* A row the rescan writes is believable.                                    *)
LEMMA WrittenBelievable ==
  ASSUME Shape, Believed, UNCHANGED <<disk, bytes>>, NEW n \in Names, scan.seen[n] # None,
         disk[n] # None, NEW i \in Ids,
         rows'[i].stat = scan.seen[n], rows'[i].hash = StatOf(n)
  PROVE  Believable(i)'
<1>1. PICK s \in Stats : s = scan.seen[n] BY ScanShape
<1>2. TakenAt(n, s) BY <1>1 DEF Believed
<1>3. StatOf(n) = s \/ Past(s) BY <1>2, TakenOrPast
<1>4. Past(s) => Past(s)' BY DEF Past, OnDisk
<1>5. rows'[i].hash = s \/ Past(s)' BY <1>1, <1>3, <1>4
<1>6. rows'[i].stat = s BY <1>1
<1> QED BY <1>5, <1>6 DEF Believable, Past, OnDisk

LEMMA RescanRows ==
  ASSUME Sound, Shape', Believed, Rescan, NEW i \in Ids, UNCHANGED <<disk, bytes>>
  PROVE  Believable(i)'
<1>0. Shape /\ rows \in [Ids -> RowSet] BY DEF Sound, TypeOK, Shape
<1>1. CASE rows'[i] = rows[i]
  BY <1>0, <1>1, SameFilesAge, RowStaysBelievable DEF Believed
<1>2. ASSUME NEW n \in Names, NEW j \in Ids, ScanInsert(n, j), rows'[i] # rows[i]
      PROVE  Believable(i)'
  <2>1. rows' = [rows EXCEPT ![j] = NewRow(n, scan.seen[n], StatOf(n))] /\ i = j
    BY <1>0, <1>2 DEF ScanInsert
  <2>2. rows'[i].stat = scan.seen[n] /\ rows'[i].hash = StatOf(n)
    BY <1>0, <2>1 DEF NewRow
  <2>3. scan.seen[n] # None /\ disk[n] # None BY <1>2 DEF ScanInsert, New, Unseen, Exists
  <2> QED BY <1>0, <2>2, <2>3, WrittenBelievable
<1>3. ASSUME NEW n \in Names, ScanUpdate(n), rows'[i] # rows[i]
      PROVE  Believable(i)'
  <2>1. scan.seen[n] # None /\ disk[n] # None BY <1>3 DEF ScanUpdate, Unseen, Exists
  <2> DEFINE r == [rows[i] EXCEPT !.stat = scan.seen[n], !.hash = StatOf(n)]
  <2>2. rows' = [rows EXCEPT ![i] = r]
    BY <1>0, <1>3 DEF ScanUpdate
  <2>3. r.stat = scan.seen[n] /\ r.hash = StatOf(n) BY <1>0, RowShape
  <2> HIDE DEF r
  <2>4. rows'[i].stat = scan.seen[n] /\ rows'[i].hash = StatOf(n) BY <1>0, <2>2, <2>3
  <2> QED BY <1>0, <2>1, <2>4, WrittenBelievable
<1>4. ASSUME NEW n \in Names, ScanDrop(n), rows'[i] # rows[i]
      PROVE  Believable(i)'
  <2>1. rows'[i].state = "gone" BY <1>0, <1>4 DEF ScanDrop, Dropped, NoRow
  <2> QED BY <2>1 DEF Believable, Live
<1> QED BY <1>1, <1>2, <1>3, <1>4
        DEF Rescan, ScanStart, ScanWalk, ScanRows, ScanKeep, ScanEnds, dbVars

LEMMA WalkBelieved ==
  ASSUME Shape, UNCHANGED <<disk, bytes>>, ScanWalk, NEW n \in Names, scan'.seen[n] # None
  PROVE  TakenAt(n, scan.seen[n])'
<1>1. scan'.seen = [m \in Names |-> Walked(m)] BY ScanShape DEF ScanWalk
<1>2. disk[n] # None /\ scan'.seen[n] = StatOf(n) BY <1>1 DEF Walked, Exists
<1>3. PICK s \in Stats : s = StatOf(n) BY <1>2, FileShape
<1>4. s[1] = disk[n] /\ s[2] = bytes[disk[n]] BY <1>3 DEF StatOf
<1>5. bytes[disk[n]] # None /\ bytes[disk[n]] \in Nat
  BY <1>2, FileShape DEF Shape, Versions
<1>6. TakenAt(n, s)' BY <1>4, <1>5 DEF TakenAt
<1>7. scan'.seen[n] = s BY <1>2, <1>3
<1> QED BY <1>6, <1>7 DEF TakenAt, OnDisk

LEMMA RescanBelieved ==
  ASSUME Sound, Shape', Believed, UpInv, Rescan
  PROVE  UpInv' /\ Believed'
<1>0. Shape BY DEF Sound, TypeOK
<1>1. UNCHANGED <<disk, bytes, up>>
  BY DEF Rescan, ScanStart, ScanWalk, ScanRows, ScanInsert, ScanKeep, ScanUpdate, ScanDrop,
         ScanEnds, ScanSteps, fileVars
<1>2. UpInv' BY <1>1 DEF UpInv, Mine, OnDisk
<1>3. ASSUME NEW i \in Ids PROVE Believable(i)' BY <1>0, <1>1, RescanRows
<1>4. ASSUME NEW n \in Names, scan'.seen[n] # None, ~ScanWalk
      PROVE  scan'.seen[n] = scan.seen[n] \/ scan'.seen[n] = None
  <2>1. CASE ScanStart \/ ScanRows BY <1>0, <2>1, ScanShape DEF ScanStart, ScanRows
  <2>2. CASE ScanEnds BY <2>2 DEF ScanEnds, IdleScan
  <2>3. ASSUME NEW m \in Names, Done(m) PROVE scan'.seen[n] = scan.seen[n] \/ scan'.seen[n] = None
    BY <1>0, <2>3, DoneShape, ScanShape
  <2> QED BY <1>4, <2>1, <2>2, <2>3 DEF Rescan, ScanInsert, ScanKeep, ScanUpdate, ScanDrop
<1>5. ASSUME NEW n \in Names, scan'.seen[n] # None PROVE TakenAt(n, scan.seen[n])'
  BY <1>0, <1>1, <1>4, <1>5, SameFilesAge, SeenStays, WalkBelieved
<1> QED BY <1>2, <1>3, <1>5 DEF Believed

LEMMA QuietStep ==
  ASSUME Quiet, [Next]_vars
  PROVE  UNCHANGED vars \/ (\E p \in Uploads : Upload(p)) \/ Rescan
BY DEF Quiet, Next, Others, Mount, SaveOutside, RemoveOutside, CreateOutside

LEMMA QuietStays ==
  ASSUME Inv, Quiet, [Next]_vars
  PROVE  UpInv' /\ HashInv'
<1>1. Sound /\ UpInv /\ Believed BY HashInvIs DEF Inv, Sound
<1>2. Shape' BY <1>1, ShapeStays DEF Sound, TypeOK
<1>3. CASE UNCHANGED vars
  BY <1>1, <1>3
  DEF vars, fileVars, dbVars, UpInv, Mine, OnDisk, Believed, Believable, HashInv, TakenAt,
      Past, Live
<1>4. ASSUME Rescan PROVE UpInv' /\ Believed' BY <1>1, <1>2, <1>4, RescanBelieved
<1>5. ASSUME NEW p \in Uploads, Upload(p) PROVE UpInv' /\ Believed'
  BY <1>1, <1>2, <1>5, UploadBelieved
<1>6. Believed' => HashInv' BY DEF HashInv, Believed, Believable
<1> QED BY <1>3, <1>4, <1>5, <1>6, QuietStep

-----------------------------------------------------------------------------
(* The theorems.                                                             *)

LEMMA InvAtFirst == Init => Inv
<1> SUFFICES ASSUME Init PROVE Inv OBVIOUS
<1>1. Sound BY SoundAtFirst
<1>2. UpInv
  <2>1. \A p \in Uploads : up[p] = IdleUpload BY DEF Init
  <2> QED BY <2>1 DEF UpInv, Mine, IdleUpload
<1>3. HashInv
  <2>1. \A n \in Names : scan.seen[n] = None BY DEF Init, IdleScan
  <2>2. ASSUME NEW i \in Ids, Live(i) PROVE rows[i].hash = rows[i].stat
    <3>1. rows[i].state # "unused" BY <2>2 DEF Live
    <3>2. \E n, s : rows[i] = NoRow \/ rows[i] = NewRow(n, s, s) BY DEF Init
    <3> QED BY <3>1, <3>2 DEF NewRow, NoRow
  <2> QED BY <2>1, <2>2 DEF HashInv
<1> QED BY <1>1, <1>2, <1>3 DEF Inv, Sound

LEMMA InvStays == Inv /\ [Next]_vars => Inv'
<1> SUFFICES ASSUME Inv, [Next]_vars PROVE Inv' OBVIOUS
<1>1. Sound' BY SoundStays DEF Inv, Sound
<1>2. Quiet => UpInv' /\ HashInv' BY QuietStays
<1>3. Quiet' <=> Quiet BY DEF Quiet
<1> QED BY <1>1, <1>2, <1>3 DEF Inv, Sound

(* What each stage of the rescan and of the uploads has established by then   *)
(* holds in every state, whoever else changes the folder.                     *)
THEOREM InvAlways == Spec => []Inv
BY InvAtFirst, InvStays, PTL DEF Spec

(* The folder, the rows and whoever is at work keep their shape; a path has  *)
(* one row at most and a file one path.                                      *)
THEOREM TypeCorrect == Spec => []TypeOK
<1>1. Inv => TypeOK BY DEF Inv
<1> QED BY <1>1, InvAlways, PTL

(* The index keeps its shape, and a rescan that has come to its end leaves   *)
(* every path nobody touched since its walk with the row its file calls for. *)
THEOREM IndexIsSoundAlways == Spec => []IndexIsSound
<1>1. Inv => IndexIsSound
  BY DEF Inv, ScanInv, IndexIsSound, RescanReconciles
<1> QED BY <1>1, InvAlways, PTL

(* A rescan that removes a row has found its path empty, not the drive gone. *)
THEOREM RowsOutliveDriveAlways == Spec => RowsOutliveDrive
<1>1. Inv /\ [Next]_vars => \A i \in Ids : RowOutlivesDrive(i)
  BY StepOutlives DEF Inv, Sound
<1> QED BY <1>1, InvAlways, PTL DEF Spec, RowsOutliveDrive

(* Where nobody renames, deletes or meddles, what was uploaded is kept, and  *)
(* a row whose stat is the file's has the hash of the file's bytes.          *)
THEOREM UploadsAreSoundAlways == Spec => []UploadsAreSound
<1>1. ASSUME Inv, Quiet PROVE UploadsAreSound
  <2>1. Shape /\ UpInv /\ HashInv BY <1>1 DEF Inv, TypeOK
  <2>2. UploadsAreKept BY <2>1 DEF UpInv, Mine, OnDisk, UploadsAreKept
  <2>3. ASSUME NEW i \in Ids, Live(i), disk[rows[i].name] # None,
               rows[i].stat = StatOf(rows[i].name)
        PROVE  rows[i].hash = rows[i].stat
    <3>1. PICK n \in Names : n = rows[i].name BY <2>1, <2>3, RowShape
    <3>2. disk[n] \in Blobs /\ disk[n] # None BY <2>1, <2>3, <3>1, FileShape
    <3>3. bytes[disk[n]] \in Nat BY <2>1, <3>2 DEF Shape, Versions
    <3>4. rows[i].stat[1] = disk[n] /\ rows[i].stat[2] = bytes[disk[n]]
      BY <2>3, <3>1 DEF StatOf
    <3>5. ~Past(rows[i].stat) BY <3>2, <3>3, <3>4 DEF Past, OnDisk
    <3> QED BY <2>1, <2>3, <3>5 DEF HashInv
  <2>4. HashIsBelievable BY <2>3 DEF HashIsBelievable
  <2> QED BY <2>2, <2>4 DEF UploadsAreSound
<1>2. Inv => UploadsAreSound
  BY <1>1 DEF Quiet, UploadsAreSound, UploadsAreKept, HashIsBelievable
<1> QED BY <1>2, InvAlways, PTL

-----------------------------------------------------------------------------
(* Projects (Ids are its own: the ids of projects).                          *)
CONSTANTS Workers, Bases, Suffix, Tags, Archives, Flat, Starts, MaxOps, MaxEvents
VARIABLES projects, used, tags, folders, flat, work, ops, events

P == INSTANCE Projects

(* What a request is doing.                                                  *)
TaskOps == {"idle", "delete", "rescan", "zip", "move"}
TaskStages ==
  {"idle", "remove", "drop", "list", "adopt", "visit", "walk", "rows", "sidecar", "tag", "patch",
   "check", "extract", "clean", "collide", "move"}
Visits == [id : Ids, dir : P!Places, state : {"ok", "missing"}]
Applies == [id : Ids, dir : P!Places]
Plans == {P!PlanZip(a) : a \in Archives}
Tasks == [op : TaskOps, at : TaskStages, id : Ids \cup {None}, dir : P!Places \cup {None},
          files : BOOLEAN, plan : Plans \cup {None}, next : Nat, seen : SUBSET P!Places,
          todo : SUBSET (Visits \cup Applies), sidecar : P!Sides \cup {None},
          there : SUBSET P!Places, kept : SUBSET P!Places, touched : SUBSET P!Places,
          answer : {"done", "failed", "refused", None}]

(* Rows and folders.                                                         *)
FolderMaps == [P!Places -> P!Folders \cup {None}]
RowsTyped(pr, us) ==
  /\ pr \in [Ids -> P!Rows \cup {None}] /\ us \subseteq Ids
  /\ \A i \in Ids : pr[i] # None => i \in us
  /\ \A i, j \in Ids : pr[i] # None /\ pr[j] # None /\ pr[i].dir = pr[j].dir => i = j
RestTyped == tags \subseteq Tags /\ ops \in 0 .. MaxOps /\ events \in 0 .. MaxEvents

(* A row that a request has read: its id is taken, and it keeps its folder.  *)
Noted(i, d, pr, us) == i \in us /\ d \in P!Places /\ (pr[i] # None => pr[i].dir = d)

(* The folders nobody else changed since the request looked.                 *)
Untouched(t) == P!Places \ t.touched

(* A folder has a row that is ok; a row without a folder is missing.         *)
Agreed(d, pr, fo) ==
  /\ fo[d] # None => \E i \in Ids : pr[i] # None /\ pr[i].dir = d /\ pr[i].state = "ok"
  /\ fo[d] = None => \A i \in Ids : pr[i] # None /\ pr[i].dir = d => pr[i].state = "missing"

(* A rescan: what it listed is still so, what it has still to visit is as it *)
(* noted, and the rest agrees.                                               *)
ToVisit(t) == IF t.at = "walk" THEN P!Rest(t.todo) ELSE t.todo
Listed(t, fo) == \A d \in Untouched(t) : fo[d] # None <=> d \in t.seen
Distinct(t) == t.todo \subseteq Visits /\ \A p, q \in t.todo : p.dir = q.dir => p = q
AsNoted(t, pr) ==
  \A p \in ToVisit(t) : p.dir \in Untouched(t) => pr[p.id] # None /\ pr[p.id].state = p.state
RestAgrees(t, pr, fo) ==
  \A d \in Untouched(t) : (\A p \in ToVisit(t) : p.dir # d) => Agreed(d, pr, fo)

(* An archive: the folders that are none of its own are as they were, and of *)
(* its own those are left that could not be removed.                         *)
Apart(t) == t.op = "zip" /\ t.at \notin {"idle", "check"} => t.plan \in Plans /\ t.plan.dirs \cap t.there = {}
Unpacked(t, fo) ==
  \A d \in Untouched(t) : d \notin t.plan.dirs \ t.seen => (fo[d] # None <=> d \in t.there \cup t.kept)

(* A move: each folder is in one of the two places, what is still to be      *)
(* moved where it was.                                                       *)
Movable(t, fo, fl) ==
  \A d \in Untouched(t) :
    \/ d \in t.there /\ fo[d] # None /\ fl[d] = None
    \/ d \in t.there /\ d \in t.seen /\ fo[d] = None /\ fl[d] # None
    \/ d \notin t.there /\ fo[d] = None /\ fl[d] = None

(* What a request takes for granted where it is.                             *)
KnowsRows(t, pr, us) ==
  /\ t.at \in {"remove", "drop"} => Noted(t.id, t.dir, pr, us)
  /\ t.at \in {"visit", "walk", "sidecar", "tag", "patch"} => \A p \in t.todo : Noted(p.id, p.dir, pr, us)
  /\ t.at \in {"visit", "walk"} => Distinct(t) /\ AsNoted(t, pr)
KnowsFolders(t, pr, fo, fl) ==
  /\ t.at \in {"adopt", "visit", "walk"} => Listed(t, fo)
  /\ t.at \in {"visit", "walk"} => RestAgrees(t, pr, fo)
  /\ t.at \in {"extract", "clean"} => Unpacked(t, fo)
  /\ t.at = "move" => Movable(t, fo, fl)
KnowsItself(t) ==
  /\ t.at \in {"walk", "tag", "patch"} => t.todo # {}
  /\ Apart(t)
  /\ t.at \in {"check", "extract", "clean"} => t.op = "zip" /\ t.plan \in Plans
  /\ t.at \in {"collide", "move"} => t.op = "move"
  /\ t.at \in {"check", "extract"} => t.seen = {} /\ t.kept = {}
  /\ t.at = "clean" => t.kept \subseteq t.seen
  /\ t.at \in {"sidecar", "tag", "patch"} /\ t.op = "zip" => \A p \in t.todo : p.dir \in t.plan.dirs
  /\ t.at \in {"tag", "patch"} => t.sidecar \in P!Sides
Knows(t, pr, us, fo, fl) == KnowsRows(t, pr, us) /\ KnowsFolders(t, pr, fo, fl) /\ KnowsItself(t)

ProjectsInv ==
  /\ RowsTyped(projects, used) /\ folders \in FolderMaps /\ flat \in FolderMaps /\ RestTyped
  /\ work \in [Workers -> Tasks]
  /\ \A w \in Workers : Knows(work[w], projects, used, folders, flat)

-----------------------------------------------------------------------------
(* Numbers and names.                                                        *)

(* A set of numbers that is not empty has a least one.                       *)
LEMMA LeastOf ==
  ASSUME NEW S \in SUBSET Nat, S # {}
  PROVE  \E m \in S : \A n \in S : m <= n
<1>1. PICK m \in S : \A n \in S : ~(<<n, m>> \in OpToRel(<, Nat))
  BY NatLessThanWellFounded, WFMin
<1>2. \A n \in S : ~(n < m)
  BY <1>1 DEF OpToRel
<1>3. QED BY <1>2

LEMMA MinIsOne ==
  ASSUME NEW S \in SUBSET Nat, S # {}
  PROVE  P!Min(S) \in S
BY LeastOf DEF P!Min

LEMMA PlacesAreNumbers ==
  ASSUME P!ProjectsAssumption
  PROVE  P!Places \subseteq Nat
BY DEF P!ProjectsAssumption, P!Places

LEMMA NoneIsNone ==
  ASSUME P!ProjectsAssumption
  PROVE  None \notin P!Rows /\ None \notin P!Folders
BY DEF P!ProjectsAssumption

(* What is to be done next is one of what is to be done.                     *)
LEMMA FirstIsOne ==
  ASSUME NEW S, S # {}, \A p \in S : p.dir \in Nat
  PROVE  P!First(S) \in S
<1> DEFINE D == {p.dir : p \in S}
<1>1. D \in SUBSET Nat /\ D # {} OBVIOUS
<1>2. PICK m \in D : \A n \in D : m <= n
  <2> HIDE DEF D
  <2> QED BY <1>1, LeastOf
<1>3. PICK p \in S : p.dir = m OBVIOUS
<1>4. \A q \in S : p.dir <= q.dir BY <1>2, <1>3
<1>5. QED BY <1>4 DEF P!First

(* The folders of a plan are those its files go to.                          *)
LEMMA PlanFacts ==
  ASSUME P!ProjectsAssumption, NEW plan \in Plans
  PROVE  /\ plan.dirs \subseteq P!Places
         /\ \A k \in DOMAIN plan.files :
              plan.files[k].parts[1] \in plan.dirs /\ plan.files[k].sidecar \in P!Sides \cup {None}
<1>1. PICK a \in Archives : plan = P!PlanZip(a) BY DEF Plans
<1>2. /\ plan.dirs \subseteq P!Places
      /\ \A k \in DOMAIN plan.files : plan.files[k].sidecar \in P!Sides \cup {None}
  BY <1>1 DEF P!ProjectsAssumption
<1>3. \A k \in DOMAIN plan.files : plan.files[k].parts[1] \in plan.dirs
  BY <1>1 DEF P!PlanZip
<1>4. QED BY <1>2, <1>3

-----------------------------------------------------------------------------
(* Tasks.                                                                    *)

(* The fields of a task, but the answer and what a deletion removes.         *)
Fields(r, op, at, id, dir, plan, next, seen, todo, sidecar, there, kept, touched) ==
  /\ r.op = op /\ r.at = at /\ r.id = id /\ r.dir = dir /\ r.plan = plan /\ r.next = next
  /\ r.seen = seen /\ r.todo = todo /\ r.sidecar = sidecar /\ r.there = there /\ r.kept = kept
  /\ r.touched = touched

LEMMA IdleIsATask == P!Idle \in Tasks /\ P!Idle.at = "idle"
BY DEF Tasks, TaskOps, TaskStages, P!Idle
LEMMA GoTo ==
  ASSUME NEW t \in Tasks, NEW at \in TaskStages,
         NEW r, r = [t EXCEPT !.at = at]
  PROVE  /\ r \in Tasks
         /\ Fields(r, t.op, at, t.id, t.dir, t.plan, t.next, t.seen, t.todo, t.sidecar, t.there, t.kept, t.touched)
BY DEF Tasks, TaskStages, Fields

LEMMA TodoOnly ==
  ASSUME NEW t \in Tasks, NEW todo \in SUBSET (Visits \cup Applies),
         NEW r, r = [t EXCEPT !.todo = todo]
  PROVE  /\ r \in Tasks
         /\ Fields(r, t.op, t.at, t.id, t.dir, t.plan, t.next, t.seen, todo, t.sidecar, t.there, t.kept, t.touched)
BY DEF Tasks, TaskStages, Fields

LEMMA SeenEdit ==
  ASSUME NEW t \in Tasks, NEW seen \in SUBSET P!Places,
         NEW r, r = [t EXCEPT !.seen = seen]
  PROVE  /\ r \in Tasks
         /\ Fields(r, t.op, t.at, t.id, t.dir, t.plan, t.next, seen, t.todo, t.sidecar, t.there, t.kept, t.touched)
BY DEF Tasks, TaskStages, Fields

LEMMA TouchedEdit ==
  ASSUME NEW t \in Tasks, NEW touched \in SUBSET P!Places,
         NEW r, r = [t EXCEPT !.touched = touched]
  PROVE  /\ r \in Tasks
         /\ Fields(r, t.op, t.at, t.id, t.dir, t.plan, t.next, t.seen, t.todo, t.sidecar, t.there, t.kept, touched)
BY DEF Tasks, TaskStages, Fields

LEMMA EndedIsATask ==
  ASSUME NEW answer \in {"done", "failed", "refused"}
  PROVE  P!Ended(answer) \in Tasks /\ P!Ended(answer).at = "idle" /\ P!Ended(answer).answer = answer
BY DEF Tasks, TaskOps, TaskStages, P!Ended, P!Idle

-----------------------------------------------------------------------------
(* What the step of one request leaves of what the others know.              *)

(* A step that changes the folders or rows of ds, and no others: ids are not *)
(* given again, and a row keeps its folder for as long as it is there.       *)
FoldersKept(ds, fo, fl, fo2, fl2) == \A d \in P!Places \ ds : fo2[d] = fo[d] /\ fl2[d] = fl[d]
RowsKept(ds, pr, us, pr2, us2) ==
  /\ us \subseteq us2
  /\ \A i \in Ids :
       /\ pr[i] # None /\ pr2[i] # None => pr2[i].dir = pr[i].dir
       /\ pr[i] = None /\ i \in us => pr2[i] = None
       /\ pr[i] # None /\ pr[i].dir \notin ds => pr2[i] # None /\ pr2[i].state = pr[i].state
       /\ pr2[i] # None /\ pr2[i].dir \notin ds => pr[i] # None

(* t, but for the folders it has seen changed.                               *)
Disturbed(r, t, ds) ==
  Fields(r, t.op, t.at, t.id, t.dir, t.plan, t.next, t.seen, t.todo, t.sidecar, t.there, t.kept, t.touched \cup ds)

LEMMA NotedStays ==
  ASSUME NEW us, us \subseteq Ids, NEW us2, NEW pr, NEW pr2, NEW ds, RowsKept(ds, pr, us, pr2, us2),
         NEW i, NEW d, Noted(i, d, pr, us)
  PROVE  Noted(i, d, pr2, us2)
BY DEF Noted, RowsKept

LEMMA AgreedStays ==
  ASSUME NEW us, NEW us2, NEW pr, NEW pr2, NEW fo, NEW fo2, NEW fl, NEW fl2, NEW ds,
         RowsKept(ds, pr, us, pr2, us2), FoldersKept(ds, fo, fl, fo2, fl2),
         NEW d \in P!Places \ ds, Agreed(d, pr, fo)
  PROVE  Agreed(d, pr2, fo2)
<1>1. fo2[d] = fo[d] BY DEF FoldersKept
<1>2. ASSUME fo[d] # None
      PROVE  \E i \in Ids : pr2[i] # None /\ pr2[i].dir = d /\ pr2[i].state = "ok"
  BY <1>2 DEF Agreed, RowsKept
<1>3. ASSUME fo[d] = None, NEW i \in Ids, pr2[i] # None, pr2[i].dir = d
      PROVE  pr2[i].state = "missing"
  <2>1. pr[i] # None /\ pr[i].dir = d BY <1>3 DEF RowsKept
  <2>2. QED BY <1>3, <2>1 DEF Agreed, RowsKept
<1>4. QED BY <1>1, <1>2, <1>3 DEF Agreed

LEMMA RowsStayKnown ==
  ASSUME NEW us, us \subseteq Ids, NEW us2, NEW pr, NEW pr2, NEW ds, RowsKept(ds, pr, us, pr2, us2),
         NEW t, NEW r, Disturbed(r, t, ds), KnowsRows(t, pr, us)
  PROVE  KnowsRows(r, pr2, us2)
<1>1. /\ r.at = t.at /\ r.id = t.id /\ r.dir = t.dir /\ r.todo = t.todo /\ r.touched = t.touched \cup ds
      /\ ToVisit(r) = ToVisit(t)
  BY DEF Disturbed, Fields, ToVisit
<1>2. r.at \in {"remove", "drop"} => Noted(r.id, r.dir, pr2, us2)
  BY <1>1, NotedStays DEF KnowsRows
<1>3. r.at \in {"visit", "walk", "sidecar", "tag", "patch"} => \A p \in r.todo : Noted(p.id, p.dir, pr2, us2)
  BY <1>1, NotedStays DEF KnowsRows
<1>4. ASSUME r.at \in {"visit", "walk"}, NEW p \in ToVisit(r), p.dir \in Untouched(r)
      PROVE  pr2[p.id] # None /\ pr2[p.id].state = p.state
  <2>1. p \in t.todo /\ p.dir \in Untouched(t) /\ p.dir \notin ds
    BY <1>1, <1>4 DEF ToVisit, Untouched, P!Rest
  <2>2. pr[p.id] # None /\ pr[p.id].state = p.state /\ Noted(p.id, p.dir, pr, us)
    BY <1>1, <1>4, <2>1 DEF KnowsRows, AsNoted
  <2>3. QED BY <2>1, <2>2 DEF Noted, RowsKept
<1>5. r.at \in {"visit", "walk"} => Distinct(r) /\ AsNoted(r, pr2)
  BY <1>1, <1>4 DEF KnowsRows, Distinct, AsNoted
<1>6. QED BY <1>2, <1>3, <1>5 DEF KnowsRows

LEMMA FoldersStayKnown ==
  ASSUME NEW us, NEW us2, NEW pr, NEW pr2, NEW fo, NEW fo2, NEW fl, NEW fl2, NEW ds,
         RowsKept(ds, pr, us, pr2, us2), FoldersKept(ds, fo, fl, fo2, fl2),
         NEW t \in Tasks, NEW r, Disturbed(r, t, ds), KnowsFolders(t, pr, fo, fl)
  PROVE  KnowsFolders(r, pr2, fo2, fl2)
<1>1. /\ r.at = t.at /\ r.seen = t.seen /\ r.todo = t.todo /\ r.plan = t.plan /\ r.there = t.there
      /\ r.kept = t.kept /\ r.touched = t.touched \cup ds /\ ToVisit(r) = ToVisit(t)
  BY DEF Disturbed, Fields, ToVisit
<1>2. \A d \in Untouched(r) : d \in Untouched(t) /\ d \in P!Places \ ds /\ fo2[d] = fo[d] /\ fl2[d] = fl[d]
  BY <1>1 DEF Untouched, FoldersKept
<1>3. r.at \in {"adopt", "visit", "walk"} => Listed(r, fo2)
  BY <1>1, <1>2 DEF KnowsFolders, Listed
<1>4. r.at \in {"visit", "walk"} => RestAgrees(r, pr2, fo2)
  BY <1>1, <1>2, AgreedStays DEF KnowsFolders, RestAgrees
<1>5. r.at \in {"extract", "clean"} => Unpacked(r, fo2)
  BY <1>1, <1>2 DEF KnowsFolders, Unpacked
<1>6. r.seen \subseteq P!Places BY <1>1 DEF Tasks
<1>7. r.at = "move" => Movable(r, fo2, fl2)
  BY <1>1, <1>2, <1>6 DEF KnowsFolders, Movable, Untouched
<1>8. QED BY <1>3, <1>4, <1>5, <1>7 DEF KnowsFolders

LEMMA ItselfStaysKnown ==
  ASSUME NEW t, NEW r, NEW ds, Disturbed(r, t, ds), KnowsItself(t)
  PROVE  KnowsItself(r)
BY DEF Disturbed, Fields, KnowsItself, Apart

(* A request at rest knows nothing.                                          *)
LEMMA RestKnowsNothing ==
  ASSUME NEW t, t.at = "idle", NEW us, NEW pr, NEW fo, NEW fl
  PROVE  Knows(t, pr, us, fo, fl)
BY DEF Knows, KnowsRows, KnowsFolders, KnowsItself, Apart

LEMMA OthersStay ==
  ASSUME ProjectsInv, NEW v \in Workers, NEW ds \in SUBSET P!Places,
         RowsKept(ds, projects, used, projects', used'), FoldersKept(ds, folders, flat, folders', flat'),
         work'[v] = IF work[v].at = "idle" THEN work[v] ELSE [work[v] EXCEPT !.touched = @ \cup ds]
  PROVE  work'[v] \in Tasks /\ Knows(work'[v], projects', used', folders', flat')
<1>1. /\ work[v] \in Tasks /\ Knows(work[v], projects, used, folders, flat) /\ used \subseteq Ids
  BY DEF ProjectsInv, RowsTyped
<1>2. CASE work[v].at = "idle"
  BY <1>1, <1>2, RestKnowsNothing
<1>3. CASE work[v].at # "idle"
  <2>1. PICK t \in Tasks : t = work[v] BY <1>1
  <2>2. PICK r : r = [t EXCEPT !.touched = t.touched \cup ds] OBVIOUS
  <2>3. t.touched \cup ds \in SUBSET P!Places BY DEF Tasks
  <2>4. r \in Tasks /\ Disturbed(r, t, ds) BY <2>2, <2>3, TouchedEdit DEF Disturbed
  <2>5. work'[v] = r BY <1>3, <2>1, <2>2
  <2>6. Knows(t, projects, used, folders, flat) BY <1>1, <2>1
  <2>7. KnowsRows(r, projects', used') BY <1>1, <2>4, <2>6, RowsStayKnown DEF Knows
  <2>8. KnowsFolders(r, projects', folders', flat') BY <2>4, <2>6, FoldersStayKnown DEF Knows
  <2>9. KnowsItself(r) BY <2>4, <2>6, ItselfStaysKnown DEF Knows
  <2>10. QED BY <2>4, <2>5, <2>7, <2>8, <2>9 DEF Knows
<1>4. QED BY <1>2, <1>3

(* So a step has to show what it does to the library, and what its own       *)
(* request knows after it.                                                   *)
LEMMA StepKeeps ==
  ASSUME ProjectsInv, NEW w \in Workers, NEW task \in Tasks, NEW ds \in SUBSET P!Places,
         P!Step(w, task, ds),
         RowsKept(ds, projects, used, projects', used'), FoldersKept(ds, folders, flat, folders', flat'),
         RowsTyped(projects', used'), folders' \in FolderMaps, flat' \in FolderMaps, RestTyped',
         Knows(task, projects', used', folders', flat')
  PROVE  ProjectsInv'
<1>1. ASSUME NEW v \in Workers
      PROVE  work'[v] \in Tasks /\ Knows(work'[v], projects', used', folders', flat')
  <2>1. CASE v = w
    BY <2>1 DEF P!Step
  <2>2. CASE v # w
    BY <2>2, OthersStay DEF P!Step
  <2>3. QED BY <2>1, <2>2
<1>2. work' \in [Workers -> Tasks]
  <2>1. \E f : work' = [v \in Workers |-> f[v]]
    <3>1. work' = [v \in Workers |-> work'[v]] BY DEF P!Step
    <3>2. QED BY <3>1
  <2>2. QED BY <1>1, <2>1
<1>3. QED BY <1>1, <1>2 DEF ProjectsInv

(* A step that reads.                                                        *)
LEMMA NothingChanges ==
  ASSUME NEW us, NEW pr, NEW fo, NEW fl
  PROVE  RowsKept({}, pr, us, pr, us) /\ FoldersKept({}, fo, fl, fo, fl)
BY DEF RowsKept, FoldersKept

LEMMA ReadKeeps ==
  ASSUME ProjectsInv, NEW w \in Workers, NEW task \in Tasks, P!Step(w, task, {}),
         UNCHANGED <<projects, used, folders, flat>>, RestTyped',
         Knows(task, projects, used, folders, flat)
  PROVE  ProjectsInv'
<1>1. /\ RowsTyped(projects', used') /\ folders' \in FolderMaps /\ flat' \in FolderMaps
      /\ Knows(task, projects', used', folders', flat')
  BY DEF ProjectsInv
<1>2. RowsKept({}, projects, used, projects', used') /\ FoldersKept({}, folders, flat, folders', flat')
  BY NothingChanges
<1>3. QED BY <1>1, <1>2, StepKeeps

LEMMA RestStays ==
  ASSUME ProjectsInv, UNCHANGED <<tags, ops, events>>
  PROVE  RestTyped'
BY DEF ProjectsInv, RestTyped

LEMMA EndKeeps ==
  ASSUME ProjectsInv, NEW w \in Workers, NEW answer \in {"done", "failed", "refused"}, P!End(w, answer),
         UNCHANGED <<projects, used, tags, folders, flat, ops, events>>
  PROVE  ProjectsInv'
<1>1. PICK r : r = P!Ended(answer) OBVIOUS
<1>2. r \in Tasks /\ r.at = "idle" BY <1>1, EndedIsATask
<1>3. P!Step(w, r, {}) BY <1>1 DEF P!End
<1>4. QED BY <1>2, <1>3, RestStays, RestKnowsNothing, ReadKeeps

-----------------------------------------------------------------------------
(* What steps do to the folders and to the rows.                             *)

LEMMA FolderIsSet ==
  ASSUME NEW fo \in FolderMaps, NEW fl, NEW d \in P!Places, NEW f \in P!Folders \cup {None}
  PROVE  /\ [fo EXCEPT ![d] = f] \in FolderMaps
         /\ FoldersKept({d}, fo, fl, [fo EXCEPT ![d] = f], fl)
BY DEF FolderMaps, FoldersKept

(* What is left of a folder is one, if anything is.                          *)
LEMMA RemainsOfAFolder ==
  ASSUME NEW f0 \in P!Folders \cup {None}, NEW f \in P!Remains(f0)
  PROVE  /\ f \in P!Folders \cup {None}
         /\ f0 = None => f = None
BY DEF P!Remains, P!Folders, P!Empty

LEMMA RowIsNew ==
  ASSUME P!ProjectsAssumption, NEW us, NEW pr, RowsTyped(pr, us), NEW i \in Ids \ us, NEW row \in P!Rows,
         \A j \in Ids : pr[j] # None => pr[j].dir # row.dir
  PROVE  /\ RowsTyped([pr EXCEPT ![i] = row], us \cup {i})
         /\ RowsKept({row.dir}, pr, us, [pr EXCEPT ![i] = row], us \cup {i})
<1>1. PICK pr2 : pr2 = [pr EXCEPT ![i] = row] OBVIOUS
<1>2. pr2 \in [Ids -> P!Rows \cup {None}] /\ pr2[i] = row /\ \A j \in Ids \ {i} : pr2[j] = pr[j]
  BY <1>1 DEF RowsTyped
<1>3. RowsTyped(pr2, us \cup {i})
  BY <1>2 DEF RowsTyped
<1>4. pr[i] = None BY DEF RowsTyped
<1>5. RowsKept({row.dir}, pr, us, pr2, us \cup {i})
  BY <1>2, <1>4 DEF RowsKept
<1>6. QED BY <1>1, <1>3, <1>5

(* A row is written, or marked: it keeps its folder.                         *)
LEMMA RowIsWritten ==
  ASSUME P!ProjectsAssumption, NEW us, NEW pr, RowsTyped(pr, us), NEW i \in Ids, pr[i] # None,
         NEW row \in P!Rows, row.dir = pr[i].dir,
         NEW ds, row.state = pr[i].state \/ row.dir \in ds
  PROVE  /\ RowsTyped([pr EXCEPT ![i] = row], us)
         /\ RowsKept(ds, pr, us, [pr EXCEPT ![i] = row], us)
<1>1. PICK pr2 : pr2 = [pr EXCEPT ![i] = row] OBVIOUS
<1>2. pr2 \in [Ids -> P!Rows \cup {None}] /\ pr2[i] = row /\ \A j \in Ids \ {i} : pr2[j] = pr[j]
  BY <1>1 DEF RowsTyped
<1>3. row # None BY NoneIsNone
<1>4. RowsTyped(pr2, us)
  BY <1>2, <1>3 DEF RowsTyped
<1>5. RowsKept(ds, pr, us, pr2, us)
  BY <1>2, <1>3 DEF RowsKept
<1>6. QED BY <1>1, <1>4, <1>5

LEMMA RowIsDropped ==
  ASSUME NEW us, NEW pr, RowsTyped(pr, us), NEW i \in Ids, NEW d, pr[i] # None => pr[i].dir = d
  PROVE  /\ RowsTyped([pr EXCEPT ![i] = None], us)
         /\ RowsKept({d}, pr, us, [pr EXCEPT ![i] = None], us)
<1>1. PICK pr2 : pr2 = [pr EXCEPT ![i] = None] OBVIOUS
<1>2. pr2 \in [Ids -> P!Rows \cup {None}] /\ pr2[i] = None /\ \A j \in Ids \ {i} : pr2[j] = pr[j]
  BY <1>1 DEF RowsTyped
<1>3. RowsTyped(pr2, us) BY <1>2 DEF RowsTyped
<1>4. RowsKept({d}, pr, us, pr2, us) BY <1>2 DEF RowsKept
<1>5. QED BY <1>1, <1>3, <1>4

LEMMA AnOperationMore ==
  ASSUME P!ProjectsAssumption, ProjectsInv, ops < MaxOps, ops' = ops + 1, events' = events, tags' \subseteq Tags
  PROVE  RestTyped'
BY DEF P!ProjectsAssumption, ProjectsInv, RestTyped

LEMMA BeginKeeps ==
  ASSUME P!ProjectsAssumption, ProjectsInv, NEW w \in Workers, NEW task \in Tasks, P!Begin(w, task),
         Knows(task, projects, used, folders, flat)
  PROVE  ProjectsInv'
<1>1. RestTyped' BY AnOperationMore DEF P!Begin, ProjectsInv, RestTyped
<1>2. QED BY <1>1, ReadKeeps DEF P!Begin

-----------------------------------------------------------------------------
(* Requests.                                                                 *)

LEMMA FreeDirsArePlaces ==
  ASSUME P!ProjectsAssumption, NEW b \in Bases
  PROVE  P!FreeDirs(b) \subseteq P!Places /\ P!FreeDirs(b) \in SUBSET Nat
<1>1. b \in Nat /\ Suffix \in Nat \ {0} BY DEF P!ProjectsAssumption
<1>2. ASSUME NEW d \in P!FreeDirs(b)
      PROVE  d \in P!Places /\ d \in Nat
  <2>1. d \in b .. b + Suffix - 1 BY <1>2 DEF P!FreeDirs
  <2>2. d - b \in 0 .. Suffix - 1 /\ b + (d - b) = d /\ d \in Nat BY <1>1, <2>1
  <2>3. QED BY <2>2 DEF P!Places
<1>3. QED BY <1>2

LEMMA NewRowIsARow ==
  ASSUME NEW d \in P!Places, NEW ts \in SUBSET Tags
  PROVE  P!NewRow(d, ts) \in P!Rows /\ P!NewRow(d, ts).dir = d /\ P!NewRow(d, ts).state = "ok"
BY DEF P!NewRow, P!Rows

LEMMA CreateKeeps ==
  ASSUME P!ProjectsAssumption, ProjectsInv, NEW w \in Workers, P!Create(w)
  PROVE  ProjectsInv'
<1>1. PICK b, ts, i, d :
        /\ b \in Bases /\ ts \in SUBSET Tags /\ i \in P!Fresh
        /\ P!FreeDirs(b) # {} /\ d = P!Min(P!FreeDirs(b))
        /\ folders' = [folders EXCEPT ![d] = IF @ = None THEN P!Empty ELSE @]
        /\ \/ /\ projects' = [projects EXCEPT ![i] = P!NewRow(d, ts)]
              /\ used' = used \cup {i} /\ tags' = tags \cup ts
              /\ P!Step(w, P!Ended("done"), {d})
           \/ /\ P!Step(w, P!Ended("failed"), {d})
              /\ UNCHANGED <<projects, used, tags>>
  BY DEF P!Create
<1>2. ops < MaxOps /\ ops' = ops + 1 /\ UNCHANGED <<flat, events>> BY DEF P!Create
<1>3. /\ RowsTyped(projects, used) /\ folders \in FolderMaps /\ flat \in FolderMaps /\ tags \subseteq Tags
  BY DEF ProjectsInv, RestTyped
<1>4. d \in P!FreeDirs(b) /\ d \in P!Places BY <1>1, MinIsOne, FreeDirsArePlaces
<1>5. \A j \in Ids : projects[j] # None => projects[j].dir # d
  BY <1>4 DEF P!FreeDirs, P!RowOf, P!Live
<1>6. PICK f : f = IF folders[d] = None THEN P!Empty ELSE folders[d] OBVIOUS
<1>7. f \in P!Folders \cup {None} BY <1>3, <1>4, <1>6 DEF FolderMaps, P!Folders, P!Empty
<1>8. folders' = [folders EXCEPT ![d] = f] BY <1>1, <1>6
<1>9. folders' \in FolderMaps /\ FoldersKept({d}, folders, flat, folders', flat')
  BY <1>2, <1>3, <1>4, <1>7, <1>8, FolderIsSet
<1>10. RestTyped' BY <1>1, <1>2, <1>3, AnOperationMore
<1>11. {d} \in SUBSET P!Places BY <1>4
<1>12. i \in Ids \ used BY <1>1 DEF P!Fresh
<1>13. CASE /\ projects' = [projects EXCEPT ![i] = P!NewRow(d, ts)] /\ used' = used \cup {i}
            /\ P!Step(w, P!Ended("done"), {d})
  <2>1. PICK task : task = P!Ended("done") OBVIOUS
  <2>2. task \in Tasks /\ task.at = "idle" BY <2>1, EndedIsATask
  <2>3. RowsTyped(projects', used') /\ RowsKept({d}, projects, used, projects', used')
    <3>1. PICK row : row = P!NewRow(d, ts) OBVIOUS
    <3>2. row \in P!Rows /\ row.dir = d BY <1>1, <1>4, <3>1, NewRowIsARow
    <3>3. projects' = [projects EXCEPT ![i] = row] /\ used' = used \cup {i} BY <1>13, <3>1
    <3>4. QED BY <1>3, <1>5, <1>12, <3>2, <3>3, RowIsNew
  <2>4. Knows(task, projects', used', folders', flat') BY <2>2, RestKnowsNothing
  <2>5. P!Step(w, task, {d}) BY <1>13, <2>1
  <2>6. QED BY <1>2, <1>3, <1>9, <1>10, <1>11, <2>2, <2>3, <2>4, <2>5, StepKeeps
<1>14. CASE /\ P!Step(w, P!Ended("failed"), {d})
            /\ UNCHANGED <<projects, used, tags>>
  <2>1. PICK task : task = P!Ended("failed") OBVIOUS
  <2>2. task \in Tasks /\ task.at = "idle" BY <2>1, EndedIsATask
  <2>3. RowsTyped(projects', used') /\ RowsKept({d}, projects, used, projects', used')
    BY <1>3, <1>14 DEF RowsKept
  <2>4. Knows(task, projects', used', folders', flat') BY <2>2, RestKnowsNothing
  <2>5. P!Step(w, task, {d}) BY <1>14, <2>1
  <2>6. QED BY <1>2, <1>3, <1>9, <1>10, <1>11, <2>2, <2>3, <2>4, <2>5, StepKeeps
<1>15. QED BY <1>1, <1>13, <1>14

(* Edits and labels: one row is written, and keeps its folder and state.     *)
LEMMA ChangesKeep ==
  ASSUME P!ProjectsAssumption, ProjectsInv, NEW w \in Workers, P!Changes(w), tags' \subseteq Tags,
         NEW i \in P!Live, NEW row \in P!Rows, row.dir = projects[i].dir, row.state = projects[i].state,
         projects' = [projects EXCEPT ![i] = row]
  PROVE  ProjectsInv'
<1>1. /\ ops < MaxOps /\ ops' = ops + 1 /\ UNCHANGED <<used, folders, flat, events>>
      /\ P!Step(w, P!Ended("done"), {})
  BY DEF P!Changes
<1>2. RowsTyped(projects, used) /\ folders \in FolderMaps /\ flat \in FolderMaps BY DEF ProjectsInv
<1>3. PICK task : task = P!Ended("done") OBVIOUS
<1>4. task \in Tasks /\ task.at = "idle" BY <1>3, EndedIsATask
<1>5. i \in Ids /\ projects[i] # None BY DEF P!Live
<1>6. RowsTyped(projects', used') /\ RowsKept({}, projects, used, projects', used')
  BY <1>1, <1>2, <1>5, RowIsWritten
<1>7. FoldersKept({}, folders, flat, folders', flat') BY <1>1, NothingChanges
<1>8. RestTyped' BY <1>1, AnOperationMore
<1>9. Knows(task, projects', used', folders', flat') BY <1>4, RestKnowsNothing
<1>10. P!Step(w, task, {}) BY <1>1, <1>3
<1>11. QED BY <1>1, <1>2, <1>4, <1>6, <1>7, <1>8, <1>9, <1>10, StepKeeps

LEMMA LiveRow ==
  ASSUME ProjectsInv, NEW i \in P!Live
  PROVE  projects[i] \in P!Rows
BY DEF ProjectsInv, RowsTyped, P!Live

LEMMA DetailsEdit ==
  ASSUME NEW row \in P!Rows, NEW a \in BOOLEAN, NEW u \in {P!User, "sidecar"},
         NEW r, r = [row EXCEPT !.archived = a, !.website = u]
  PROVE  r \in P!Rows /\ r.dir = row.dir /\ r.state = row.state
BY DEF P!Rows, P!User

LEMMA TagsEdit ==
  ASSUME NEW row \in P!Rows, NEW ts \in SUBSET Tags, NEW r, r = [row EXCEPT !.tags = ts]
  PROVE  r \in P!Rows /\ r.dir = row.dir /\ r.state = row.state
BY DEF P!Rows

LEMMA StateEdit ==
  ASSUME NEW row \in P!Rows, NEW s \in {"ok", "missing"}, NEW r, r = [row EXCEPT !.state = s]
  PROVE  r \in P!Rows /\ r.dir = row.dir /\ r.state = s
BY DEF P!Rows

LEMMA UpdateKeeps ==
  ASSUME P!ProjectsAssumption, ProjectsInv, NEW w \in Workers, P!Update(w)
  PROVE  ProjectsInv'
<1>1. PICK i \in P!Live, a \in BOOLEAN :
        projects' = [projects EXCEPT ![i].archived = a, ![i].website = P!User]
  BY DEF P!Update
<1>2. projects[i] \in P!Rows BY LiveRow
<1>3. PICK row : row = [projects[i] EXCEPT !.archived = a, !.website = P!User] OBVIOUS
<1>4. row \in P!Rows /\ row.dir = projects[i].dir /\ row.state = projects[i].state
  BY <1>2, <1>3, DetailsEdit
<1>5. projects' = [projects EXCEPT ![i] = row]
  <2>1. projects \in [Ids -> P!Rows \cup {None}] /\ i \in Ids BY DEF ProjectsInv, RowsTyped, P!Live
  <2>2. QED BY <1>1, <1>3, <2>1
<1>6. P!Changes(w) /\ tags' \subseteq Tags BY DEF P!Update, ProjectsInv, RestTyped
<1>7. QED BY <1>4, <1>5, <1>6, ChangesKeep

LEMMA TagKeeps ==
  ASSUME P!ProjectsAssumption, ProjectsInv, NEW w \in Workers, P!Tag(w)
  PROVE  ProjectsInv'
<1>1. PICK i \in P!Live, t \in Tags :
       \/ projects' = [projects EXCEPT ![i].tags = @ \cup {t}] /\ tags' = tags \cup {t}
       \/ /\ projects' = [projects EXCEPT ![i].tags = @ \ {t}]
          /\ tags' = UNION {projects'[j].tags : j \in P!Live}
  BY DEF P!Tag
<1>2. PICK ts : \/ ts = (projects[i].tags \cup {t}) /\ projects' = [projects EXCEPT ![i].tags = ts]
                \/ ts = (projects[i].tags \ {t}) /\ projects' = [projects EXCEPT ![i].tags = ts]
  BY <1>1
<1>3. projects[i] \in P!Rows BY LiveRow
<1>4. ts \in SUBSET Tags BY <1>2, <1>3 DEF P!Rows
<1>5. PICK row : row = [projects[i] EXCEPT !.tags = ts] OBVIOUS
<1>6. row \in P!Rows /\ row.dir = projects[i].dir /\ row.state = projects[i].state
  BY <1>3, <1>4, <1>5, TagsEdit
<1>7. projects \in [Ids -> P!Rows \cup {None}] /\ i \in Ids BY DEF ProjectsInv, RowsTyped, P!Live
<1>8. projects' = [projects EXCEPT ![i] = row] BY <1>2, <1>5, <1>7
<1>9. \A j \in P!Live : projects'[j] \in P!Rows
  BY <1>6, <1>7, <1>8, LiveRow DEF P!Live
<1>10. tags' \subseteq Tags
  BY <1>1, <1>9 DEF P!Rows, ProjectsInv, RestTyped
<1>11. P!Changes(w) BY DEF P!Tag
<1>12. QED BY <1>6, <1>8, <1>10, <1>11, ChangesKeep

LEMMA BeginDeleteKeeps ==
  ASSUME P!ProjectsAssumption, ProjectsInv, NEW w \in Workers, P!BeginDelete(w)
  PROVE  ProjectsInv'
<1>1. PICK i \in P!Live, files \in BOOLEAN :
        P!Begin(w, [P!Task("delete", IF files THEN "remove" ELSE "drop")
                    EXCEPT !.id = i, !.dir = projects[i].dir, !.files = files])
  BY DEF P!BeginDelete
<1>2. PICK task : task = [P!Task("delete", IF files THEN "remove" ELSE "drop")
                          EXCEPT !.id = i, !.dir = projects[i].dir, !.files = files]
  OBVIOUS
<1>3. /\ projects[i] \in P!Rows /\ i \in Ids /\ i \in used BY LiveRow DEF P!Live, ProjectsInv, RowsTyped
<1>4. projects[i].dir \in P!Places BY <1>3 DEF P!Rows
<1>5. /\ task \in Tasks /\ task.at \in {"remove", "drop"} /\ task.id = i /\ task.dir = projects[i].dir
      /\ task.op = "delete"
  BY <1>2, <1>3, <1>4 DEF Tasks, TaskOps, TaskStages, P!Idle, P!Task
<1>6. Knows(task, projects, used, folders, flat)
  BY <1>3, <1>4, <1>5 DEF Knows, KnowsRows, KnowsFolders, KnowsItself, Apart, Noted
<1>7. QED BY <1>1, <1>2, <1>5, <1>6, BeginKeeps

LEMMA DeleteFolderKeeps ==
  ASSUME P!ProjectsAssumption, ProjectsInv, NEW w \in Workers, P!DeleteFolder(w)
  PROVE  ProjectsInv'
<1>1. PICK t \in Tasks : t = work[w] /\ Knows(t, projects, used, folders, flat) BY DEF ProjectsInv
<1>2. t.at = "remove" /\ UNCHANGED <<projects, used, tags, flat, ops, events>>
  BY <1>1 DEF P!DeleteFolder, P!At
<1>3. Noted(t.id, t.dir, projects, used) /\ t.dir \in P!Places BY <1>1, <1>2 DEF Knows, KnowsRows, Noted
<1>4. RestTyped' BY <1>2, RestStays
<1>5. PICK f \in P!Remains(folders[t.dir]) :
        /\ folders' = [folders EXCEPT ![t.dir] = f]
        /\ P!Step(w, IF f = None THEN [t EXCEPT !.at = "drop"] ELSE P!Ended("failed"), {t.dir})
  BY <1>1 DEF P!DeleteFolder
<1>6. f \in P!Folders \cup {None} BY <1>3, <1>5, RemainsOfAFolder DEF ProjectsInv, FolderMaps
<1>7. folders' \in FolderMaps /\ FoldersKept({t.dir}, folders, flat, folders', flat')
  BY <1>2, <1>3, <1>5, <1>6, FolderIsSet DEF ProjectsInv
<1>8. RowsTyped(projects', used') /\ RowsKept({t.dir}, projects, used, projects', used') /\ flat' \in FolderMaps
  BY <1>2 DEF RowsKept, ProjectsInv
<1>9. {t.dir} \in SUBSET P!Places BY <1>3
<1>10. CASE f = None
  <2>1. PICK task : task = [t EXCEPT !.at = "drop"] OBVIOUS
  <2>2. "drop" \in TaskStages BY DEF TaskStages
  <2>3. /\ task \in Tasks /\ task.at = "drop" /\ task.id = t.id /\ task.dir = t.dir
        /\ task.op = t.op /\ task.plan = t.plan /\ task.there = t.there
    BY <2>1, <2>2, GoTo DEF Fields
  <2>4. Knows(task, projects', used', folders', flat')
    BY <1>1, <1>2, <1>3, <2>3 DEF Knows, KnowsRows, KnowsFolders, KnowsItself, Apart
  <2>5. P!Step(w, task, {t.dir}) BY <1>5, <1>10, <2>1
  <2>6. QED BY <1>4, <1>7, <1>8, <1>9, <2>3, <2>4, <2>5, StepKeeps
<1>11. CASE f # None
  <2>1. PICK task : task = P!Ended("failed") OBVIOUS
  <2>2. task \in Tasks /\ task.at = "idle" BY <2>1, EndedIsATask
  <2>3. Knows(task, projects', used', folders', flat') BY <2>2, RestKnowsNothing
  <2>4. P!Step(w, task, {t.dir}) BY <1>5, <1>11, <2>1
  <2>5. QED BY <1>4, <1>7, <1>8, <1>9, <2>2, <2>3, <2>4, StepKeeps
<1>12. QED BY <1>10, <1>11

LEMMA DeleteRowKeeps ==
  ASSUME P!ProjectsAssumption, ProjectsInv, NEW w \in Workers, P!DeleteRow(w)
  PROVE  ProjectsInv'
<1>1. PICK t \in Tasks : t = work[w] /\ Knows(t, projects, used, folders, flat) BY DEF ProjectsInv
<1>2. /\ t.at = "drop" /\ UNCHANGED <<used, tags, folders, flat, ops, events>>
      /\ projects' = [projects EXCEPT ![t.id] = None] /\ P!Step(w, P!Ended("done"), {t.dir})
  BY <1>1 DEF P!DeleteRow, P!At
<1>3. Noted(t.id, t.dir, projects, used) /\ t.dir \in P!Places BY <1>1, <1>2 DEF Knows, KnowsRows, Noted
<1>4. RestTyped' BY <1>2, RestStays
<1>5. PICK task : task = P!Ended("done") OBVIOUS
<1>6. task \in Tasks /\ task.at = "idle" BY <1>5, EndedIsATask
<1>7. RowsTyped(projects, used) /\ t.id \in Ids BY <1>3 DEF ProjectsInv, RowsTyped, Noted
<1>8. RowsTyped(projects', used') /\ RowsKept({t.dir}, projects, used, projects', used')
  BY <1>2, <1>3, <1>7, RowIsDropped DEF Noted
<1>9. /\ FoldersKept({t.dir}, folders, flat, folders', flat') /\ folders' \in FolderMaps /\ flat' \in FolderMaps
  BY <1>2 DEF FoldersKept, ProjectsInv
<1>10. Knows(task, projects', used', folders', flat') BY <1>6, RestKnowsNothing
<1>11. P!Step(w, task, {t.dir}) /\ {t.dir} \in SUBSET P!Places BY <1>2, <1>3, <1>5
<1>12. QED BY <1>4, <1>6, <1>8, <1>9, <1>10, <1>11, StepKeeps

-----------------------------------------------------------------------------
(* The rescan.                                                               *)

LEMMA BeginRescanKeeps ==
  ASSUME P!ProjectsAssumption, ProjectsInv, NEW w \in Workers, P!BeginRescan(w)
  PROVE  ProjectsInv'
<1>1. PICK task : task = P!Task("rescan", "list") OBVIOUS
<1>2. task \in Tasks /\ task.at = "list" /\ task.op = "rescan"
  BY <1>1 DEF Tasks, TaskOps, TaskStages, P!Idle, P!Task
<1>3. Knows(task, projects, used, folders, flat)
  BY <1>2 DEF Knows, KnowsRows, KnowsFolders, KnowsItself, Apart
<1>4. QED BY <1>1, <1>2, <1>3, BeginKeeps DEF P!BeginRescan

LEMMA ListFoldersKeeps ==
  ASSUME P!ProjectsAssumption, ProjectsInv, NEW w \in Workers, P!ListFolders(w)
  PROVE  ProjectsInv'
<1>1. PICK t \in Tasks : t = work[w] /\ Knows(t, projects, used, folders, flat) BY DEF ProjectsInv
<1>2. t.at = "list" /\ UNCHANGED <<projects, used, tags, folders, flat, ops, events>>
  BY <1>1 DEF P!ListFolders, P!At
<1>3. P!OnDisk \in SUBSET P!Places BY DEF P!OnDisk
<1>4. PICK task : task = [t EXCEPT !.seen = P!OnDisk, !.touched = {}, !.at = "adopt"] OBVIOUS
<1>5. /\ task \in Tasks /\ task.at = "adopt" /\ task.op = t.op /\ task.plan = t.plan
      /\ task.there = t.there /\ task.seen = P!OnDisk
  BY <1>3, <1>4 DEF Tasks, TaskStages
<1>6. Listed(task, folders) BY <1>5 DEF Listed, Untouched, P!OnDisk
<1>7. Knows(task, projects, used, folders, flat)
  BY <1>1, <1>2, <1>5, <1>6 DEF Knows, KnowsRows, KnowsFolders, KnowsItself, Apart
<1>8. P!Step(w, task, {}) BY <1>1, <1>4 DEF P!ListFolders
<1>9. QED BY <1>2, <1>5, <1>7, <1>8, RestStays, ReadKeeps

(* The ids given to folders without a row are new, and all different.        *)
LEMMA NewIdsAreNew ==
  ASSUME NEW ds, NEW ids \in P!NewIds(ds)
  PROVE  ids \in [ds -> P!Fresh] /\ \A a, b \in ds : ids[a] = ids[b] => a = b
<1>1. PICK choices : choices = {f \in [ds -> P!Fresh] : P!IsInjective(f)} OBVIOUS
<1>2. choices # {} /\ ids = CHOOSE f \in choices : TRUE BY <1>1 DEF P!NewIds
<1>3. ids \in choices BY <1>2
<1>4. QED BY <1>1, <1>3 DEF P!IsInjective

(* What adopting gives: the rows there were, and one for each new folder.    *)
LEMMA Adopted ==
  ASSUME P!ProjectsAssumption, NEW us, NEW pr, RowsTyped(pr, us),
         NEW new \in SUBSET P!Places, \A d \in new : \A i \in Ids : pr[i] # None => pr[i].dir # d,
         NEW ids \in [new -> Ids \ us], \A a, b \in new : ids[a] = ids[b] => a = b,
         NEW pr2 \in [Ids -> P!Rows \cup {None}], NEW us2, us2 = us \cup {ids[d] : d \in new},
         \A d \in new : pr2[ids[d]] = P!NewRow(d, {}),
         \A i \in Ids : (\A d \in new : ids[d] # i) => pr2[i] = pr[i]
  PROVE  RowsTyped(pr2, us2) /\ RowsKept(new, pr, us, pr2, us2)
<1>1. \A d \in new : P!NewRow(d, {}) \in P!Rows /\ P!NewRow(d, {}).dir = d BY NewRowIsARow
<1>2. \A d \in new : ids[d] \in Ids \ us /\ pr[ids[d]] = None BY DEF RowsTyped
<1>3. ASSUME NEW i \in Ids, pr2[i] # None
      PROVE  (pr2[i] = pr[i] /\ i \in us /\ pr2[i].dir \notin new) \/ \E d \in new : i = ids[d] /\ pr2[i].dir = d
  BY <1>1, <1>3 DEF RowsTyped
<1>4. \A i \in Ids : pr2[i] # None => i \in us2 BY <1>3
<1>5. ASSUME NEW i \in Ids, NEW j \in Ids, pr2[i] # None, pr2[j] # None, pr2[i].dir = pr2[j].dir
      PROVE  i = j
  BY <1>3, <1>5 DEF RowsTyped
<1>6. us2 \subseteq Ids BY <1>2 DEF RowsTyped
<1>7. RowsTyped(pr2, us2) BY <1>4, <1>5, <1>6 DEF RowsTyped
<1>8. ASSUME NEW i \in Ids
      PROVE  /\ pr[i] # None => pr2[i] = pr[i]
             /\ pr[i] = None /\ i \in us => pr2[i] = None
             /\ pr2[i] # None /\ pr2[i].dir \notin new => pr[i] # None
  <2>1. i \in us => pr2[i] = pr[i] BY <1>2
  <2>2. QED BY <1>3, <2>1 DEF RowsTyped
<1>9. RowsKept(new, pr, us, pr2, us2) BY <1>8 DEF RowsKept
<1>10. QED BY <1>7, <1>9

LEMMA AdoptKeeps ==
  ASSUME P!ProjectsAssumption, ProjectsInv, NEW w \in Workers, P!Adopt(w)
  PROVE  ProjectsInv'
<1>1. PICK t \in Tasks : t = work[w] /\ Knows(t, projects, used, folders, flat) BY DEF ProjectsInv
<1>2. t.at = "adopt" /\ UNCHANGED <<tags, folders, flat, ops, events>>
  BY <1>1 DEF P!Adopt, P!At
<1>3. PICK new : new = P!Unknown(t.seen) OBVIOUS
<1>4. new \in SUBSET P!Places /\ new \subseteq t.seen BY <1>3 DEF Tasks, P!Unknown
<1>5. CASE P!End(w, "failed") /\ UNCHANGED <<projects, used>>
  BY <1>2, <1>5, EndKeeps
<1>6. CASE \E ids \in P!NewIds(new) :
         /\ projects' = [i \in Ids |-> IF i \in P!Range(ids)
                           THEN P!NewRow(P!Inverse(ids, new, P!Fresh)[i], {}) ELSE projects[i]]
         /\ used' = used \cup P!Range(ids)
         /\ P!Step(w, [t EXCEPT !.at = "visit",
              !.todo = {[id |-> ids[d], dir |-> d, state |-> "ok"] : d \in new}
                       \cup {[id |-> i, dir |-> projects[i].dir, state |-> projects[i].state] : i \in P!Live}], new)
  <2>1. PICK ids, todo, task :
         /\ ids \in P!NewIds(new)
         /\ projects' = [i \in Ids |-> IF i \in P!Range(ids)
                           THEN P!NewRow(P!Inverse(ids, new, P!Fresh)[i], {}) ELSE projects[i]]
         /\ used' = used \cup P!Range(ids)
         /\ todo = {[id |-> ids[d], dir |-> d, state |-> "ok"] : d \in new}
                   \cup {[id |-> i, dir |-> projects[i].dir, state |-> projects[i].state] : i \in P!Live}
         /\ task = [t EXCEPT !.at = "visit", !.todo = todo]
         /\ P!Step(w, task, new)
    BY <1>6
  <2>2. ids \in [new -> Ids \ used] /\ \A a, b \in new : ids[a] = ids[b] => a = b
    BY <2>1, NewIdsAreNew DEF P!Fresh
  <2>3. P!Range(ids) = {ids[d] : d \in new} BY <2>2 DEF P!Range
  <2>4. \A d \in new : projects'[ids[d]] = P!NewRow(d, {})
    <3>1. ASSUME NEW d \in new PROVE P!Inverse(ids, new, P!Fresh)[ids[d]] = d
      <4>1. ids[d] \in P!Fresh /\ ids[d] \in P!Range(ids) BY <2>2, <2>3 DEF P!Fresh
      <4>2. P!Inverse(ids, new, P!Fresh)[ids[d]] = CHOOSE s \in new : ids[d] \in P!Range(ids) => ids[s] = ids[d]
        BY <4>1 DEF P!Inverse
      <4>3. QED BY <2>2, <4>1, <4>2
    <3>2. QED BY <2>1, <2>2, <2>3, <3>1
  <2>5. \A i \in Ids : (\A d \in new : ids[d] # i) => projects'[i] = projects[i]
    BY <2>1, <2>3
  <2>6. RowsTyped(projects, used) /\ Listed(t, folders)
    BY <1>1, <1>2 DEF ProjectsInv, Knows, KnowsFolders
  <2>7. \A d \in new : \A i \in Ids : projects[i] # None => projects[i].dir # d
    BY <1>3 DEF P!Unknown, P!RowOf, P!Live
  <2>8. \A d \in t.seen \ new : \E i \in Ids : projects[i] # None /\ projects[i].dir = d
    BY <1>3 DEF P!Unknown, P!RowOf, P!Live
  <2>9. projects' \in [Ids -> P!Rows \cup {None}]
    <3>1. \A i \in Ids : projects'[i] \in P!Rows \cup {None}
      BY <1>4, <2>4, <2>5, <2>6, NewRowIsARow DEF RowsTyped
    <3>2. QED BY <2>1, <3>1
  <2>10. used' = used \cup {ids[d] : d \in new} BY <2>1, <2>3
  <2>11. RowsTyped(projects', used') /\ RowsKept(new, projects, used, projects', used')
    BY <1>4, <2>2, <2>4, <2>5, <2>6, <2>7, <2>9, <2>10, Adopted
  <2>12. ASSUME NEW p \in todo
         PROVE  /\ p \in Visits /\ Noted(p.id, p.dir, projects', used')
                /\ projects'[p.id] # None /\ projects'[p.id].dir = p.dir /\ projects'[p.id].state = p.state
    <3>1. CASE \E d \in new : p = [id |-> ids[d], dir |-> d, state |-> "ok"]
      <4>1. PICK d \in new : p = [id |-> ids[d], dir |-> d, state |-> "ok"] BY <3>1
      <4>2. ids[d] \in Ids /\ d \in P!Places /\ ids[d] \in used' BY <1>4, <2>2, <2>10
      <4>3. projects'[ids[d]] \in P!Rows /\ projects'[ids[d]].dir = d /\ projects'[ids[d]].state = "ok"
        BY <2>4, <4>2, NewRowIsARow
      <4>4. QED BY <4>1, <4>2, <4>3, NoneIsNone DEF Visits, Noted
    <3>2. CASE \E i \in P!Live : p = [id |-> i, dir |-> projects[i].dir, state |-> projects[i].state]
      <4>1. PICK i \in P!Live : p = [id |-> i, dir |-> projects[i].dir, state |-> projects[i].state] BY <3>2
      <4>2. projects[i] \in P!Rows /\ i \in Ids /\ i \in used /\ projects[i] # None
        BY <2>6, LiveRow DEF P!Live, RowsTyped
      <4>3. projects'[i] = projects[i] /\ i \in used' BY <2>2, <2>5, <2>10, <4>2
      <4>4. QED BY <4>1, <4>2, <4>3 DEF Visits, Noted, P!Rows
    <3>3. QED BY <2>1, <3>1, <3>2
  <2>13. \A p, q \in todo : p.dir = q.dir => p = q
    <3>1. ASSUME NEW p \in todo, NEW q \in todo, p.dir = q.dir PROVE p = q
      <4>1. p \in Visits /\ q \in Visits BY <2>12
      <4>2. p.id \in Ids /\ q.id \in Ids BY <4>1 DEF Visits
      <4>3. p.id = q.id BY <2>11, <2>12, <3>1, <4>2 DEF RowsTyped
      <4>4. p.state = q.state BY <2>12, <4>3
      <4>5. QED BY <3>1, <4>1, <4>3, <4>4 DEF Visits
    <3>2. QED BY <3>1
  <2>14. todo \in SUBSET (Visits \cup Applies) /\ "visit" \in TaskStages BY <2>12 DEF TaskStages
  <2>15. /\ task \in Tasks /\ task.at = "visit" /\ task.op = t.op /\ task.plan = t.plan /\ task.there = t.there
         /\ task.seen = t.seen /\ task.touched = t.touched /\ task.todo = todo
    <3>1. task = [t EXCEPT !.at = "visit", !.todo = todo] BY <2>1
    <3>2. QED BY <2>14, <3>1 DEF Tasks
  <2>16. ToVisit(task) = todo /\ Untouched(task) = Untouched(t) BY <2>15 DEF ToVisit, Untouched
  <2>17. Listed(task, folders) BY <2>6, <2>15, <2>16 DEF Listed
  <2>18. \A i \in Ids : projects'[i] # None => \E p \in todo : p.dir = projects'[i].dir
    <3>1. ASSUME NEW i \in Ids, projects'[i] # None PROVE \E p \in todo : p.dir = projects'[i].dir
      <4>1. CASE \E d \in new : ids[d] = i
        <5>1. PICK d \in new : ids[d] = i BY <4>1
        <5>2. projects'[i].dir = d BY <1>4, <2>4, <5>1, NewRowIsARow
        <5>3. [id |-> ids[d], dir |-> d, state |-> "ok"] \in todo BY <2>1, <5>1
        <5>4. QED BY <5>2, <5>3
      <4>2. CASE \A d \in new : ids[d] # i
        <5>1. projects'[i] = projects[i] BY <2>5, <4>2
        <5>2. i \in P!Live BY <3>1, <5>1 DEF P!Live
        <5>3. [id |-> i, dir |-> projects[i].dir, state |-> projects[i].state] \in todo BY <2>1, <5>2
        <5>4. QED BY <5>1, <5>3
      <4>3. QED BY <4>1, <4>2
    <3>2. QED BY <3>1
  <2>19. ASSUME NEW d \in t.seen PROVE \E p \in todo : p.dir = d
    <3>1. CASE d \in new
      <4>1. [id |-> ids[d], dir |-> d, state |-> "ok"] \in todo BY <2>1, <3>1
      <4>2. QED BY <4>1
    <3>2. CASE d \notin new
      <4>1. PICK i \in Ids : projects[i] # None /\ projects[i].dir = d BY <2>8, <3>2
      <4>2. [id |-> i, dir |-> projects[i].dir, state |-> projects[i].state] \in todo BY <2>1, <4>1 DEF P!Live
      <4>3. QED BY <4>1, <4>2
    <3>3. QED BY <3>1, <3>2
  <2>20. RestAgrees(task, projects', folders)
    <3>1. ASSUME NEW d \in Untouched(t), \A p \in todo : p.dir # d
          PROVE  Agreed(d, projects', folders)
      <4>1. folders[d] = None BY <2>6, <2>19, <3>1 DEF Listed
      <4>2. \A i \in Ids : projects'[i] # None => projects'[i].dir # d BY <2>18, <3>1
      <4>3. QED BY <4>1, <4>2 DEF Agreed
    <3>2. QED BY <2>16, <3>1 DEF RestAgrees
  <2>21. KnowsRows(task, projects', used')
    BY <2>12, <2>13, <2>15, <2>16 DEF KnowsRows, Distinct, AsNoted
  <2>22. KnowsFolders(task, projects', folders, flat) BY <2>15, <2>17, <2>20 DEF KnowsFolders
  <2>23. KnowsItself(task) BY <1>1, <1>2, <2>15 DEF Knows, KnowsItself, Apart
  <2>24. Knows(task, projects', used', folders', flat') BY <1>2, <2>21, <2>22, <2>23 DEF Knows
  <2>25. FoldersKept(new, folders, flat, folders', flat') /\ folders' \in FolderMaps /\ flat' \in FolderMaps
    BY <1>2 DEF FoldersKept, ProjectsInv
  <2>26. QED BY <1>2, <1>4, <2>1, <2>11, <2>15, <2>24, <2>25, RestStays, StepKeeps
<1>7. QED BY <1>1, <1>3, <1>5, <1>6 DEF P!Adopt


(* A project is marked, or is marked already.                                *)
Marks(p, s, ds) ==
  \/ p.state # s /\ projects' = P!Marked(p.id, s) /\ ds = {p.dir}
  \/ p.state = s /\ projects' = projects /\ ds = {}

LEMMA MarkKeeps ==
  ASSUME P!ProjectsAssumption, ProjectsInv, NEW t \in Tasks, KnowsRows(t, projects, used), t.at = "visit",
         NEW p \in t.todo, NEW s \in {"ok", "missing"}, NEW ds,
         Marks(p, s, ds)
  PROVE  /\ ds \in SUBSET P!Places
         /\ RowsTyped(projects', used) /\ RowsKept(ds, projects, used, projects', used)
         /\ \A q \in t.todo : Noted(q.id, q.dir, projects', used)
         /\ p.dir \in Untouched(t) =>
              projects'[p.id] # None /\ projects'[p.id].dir = p.dir /\ projects'[p.id].state = s
         /\ \A q \in t.todo \ {p} : q.dir \in Untouched(t) =>
              projects'[q.id] # None /\ projects'[q.id].state = q.state
<1>1. /\ Noted(p.id, p.dir, projects, used) /\ Distinct(t) /\ AsNoted(t, projects) /\ ToVisit(t) = t.todo
      /\ \A q \in t.todo : Noted(q.id, q.dir, projects, used)
  BY DEF KnowsRows, ToVisit
<1>2. RowsTyped(projects, used) /\ used \subseteq Ids BY DEF ProjectsInv, RowsTyped
<1>3. p.id \in Ids /\ p.dir \in P!Places /\ (projects[p.id] # None => projects[p.id].dir = p.dir)
  BY <1>1, <1>2 DEF Noted
<1>4. /\ ds \in SUBSET P!Places
      /\ RowsTyped(projects', used) /\ RowsKept(ds, projects, used, projects', used)
      /\ projects'[p.id] # None <=> projects[p.id] # None
      /\ projects[p.id] # None => projects'[p.id].dir = p.dir /\ (p.state # s => projects'[p.id].state = s)
      /\ \A i \in Ids \ {p.id} : projects'[i] = projects[i]
  <2> USE DEF Marks
  <2>1. CASE p.state = s /\ projects' = projects /\ ds = {}
    <3>1. RowsKept({}, projects, used, projects, used) BY NothingChanges
    <3>2. QED BY <1>2, <1>3, <2>1, <3>1
  <2>2. CASE p.state # s /\ projects' = P!Marked(p.id, s) /\ ds = {p.dir}
    <3>1. CASE projects[p.id] = None
      <4>1. projects' = projects BY <1>2, <2>2, <3>1 DEF P!Marked, RowsTyped
      <4>2. RowsKept(ds, projects, used, projects, used) BY DEF RowsKept
      <4>3. QED BY <1>2, <1>3, <2>2, <3>1, <4>1, <4>2
    <3>2. CASE projects[p.id] # None
      <4>1. projects[p.id] \in P!Rows BY <1>2, <1>3, <3>2 DEF RowsTyped
      <4>2. PICK row : row = [projects[p.id] EXCEPT !.state = s] OBVIOUS
      <4>3. row \in P!Rows /\ row.dir = projects[p.id].dir /\ row.state = s BY <4>1, <4>2, StateEdit
      <4>4. projects' = [projects EXCEPT ![p.id] = row] BY <2>2, <3>2, <4>2 DEF P!Marked
      <4>5. RowsTyped(projects', used) /\ RowsKept(ds, projects, used, projects', used)
        <5>1. row.dir = projects[p.id].dir /\ row.dir \in ds BY <1>3, <2>2, <3>2, <4>3
        <5>2. QED BY <1>2, <1>3, <3>2, <4>3, <4>4, <5>1, RowIsWritten
      <4>6. projects'[p.id] = row /\ \A i \in Ids \ {p.id} : projects'[i] = projects[i]
        BY <1>2, <1>3, <4>4 DEF RowsTyped
      <4>7. QED BY <1>3, <2>2, <3>2, <4>3, <4>5, <4>6, NoneIsNone
    <3>3. QED BY <3>1, <3>2
  <2>3. QED BY <2>1, <2>2
<1>5. \A q \in t.todo : Noted(q.id, q.dir, projects', used)
  BY <1>1, <1>2, <1>4, NotedStays
<1>6. ASSUME p.dir \in Untouched(t)
      PROVE  projects'[p.id] # None /\ projects'[p.id].dir = p.dir /\ projects'[p.id].state = s
  <2>1. projects[p.id] # None /\ projects[p.id].state = p.state BY <1>1, <1>6 DEF AsNoted
  <2>2. CASE p.state = s
    <3>1. projects' = projects BY <2>2 DEF Marks
    <3>2. QED BY <1>3, <2>1, <2>2, <3>1
  <2>3. CASE p.state # s BY <1>4, <2>1, <2>3
  <2>4. QED BY <2>2, <2>3
<1>7. ASSUME NEW q \in t.todo \ {p}, q.dir \in Untouched(t)
      PROVE  projects'[q.id] # None /\ projects'[q.id].state = q.state
  <2>1. projects[q.id] # None /\ projects[q.id].state = q.state BY <1>1, <1>7 DEF AsNoted
  <2>2. q.id \in Ids /\ projects[q.id].dir = q.dir BY <1>1, <1>2, <2>1 DEF Noted
  <2>3. q.dir # p.dir BY <1>1 DEF Distinct
  <2>4. q.id # p.id BY <1>3, <2>1, <2>2, <2>3
  <2>5. QED BY <1>4, <2>1, <2>2, <2>4
<1>8. QED BY <1>4, <1>5, <1>6, <1>7

(* Once it is marked by what was listed, its folder and its row agree, and   *)
(* those that agreed still do.                                               *)
LEMMA MarkedAgrees ==
  ASSUME P!ProjectsAssumption, ProjectsInv, NEW t \in Tasks, t.at = "visit",
         KnowsRows(t, projects, used), KnowsFolders(t, projects, folders, flat),
         NEW p \in t.todo, NEW s, s = IF p.dir \in t.seen THEN "ok" ELSE "missing", NEW ds,
         Marks(p, s, ds)
  PROVE  \A d \in Untouched(t) : (\A q \in t.todo \ {p} : q.dir # d) => Agreed(d, projects', folders)
<1>1. s \in {"ok", "missing"} OBVIOUS
<1>2. /\ RowsTyped(projects', used) /\ RowsKept(ds, projects, used, projects', used)
      /\ p.dir \in Untouched(t) =>
              projects'[p.id] # None /\ projects'[p.id].dir = p.dir /\ projects'[p.id].state = s
      /\ Noted(p.id, p.dir, projects', used)
  BY <1>1, MarkKeeps
<1>3. Listed(t, folders) /\ RestAgrees(t, projects, folders) /\ ToVisit(t) = t.todo
  BY DEF KnowsFolders, ToVisit
<1>4. p.id \in Ids BY <1>2 DEF Noted, RowsTyped
<1>5. SUFFICES ASSUME NEW d \in Untouched(t), \A q \in t.todo \ {p} : q.dir # d
               PROVE  Agreed(d, projects', folders)
  OBVIOUS
<1>6. CASE d = p.dir
  <2>1. \A i \in Ids : projects'[i] # None /\ projects'[i].dir = d => i = p.id
    BY <1>2, <1>4, <1>5, <1>6 DEF RowsTyped
  <2>2. folders[d] # None <=> d \in t.seen BY <1>3, <1>5 DEF Listed
  <2>3. QED BY <1>2, <1>4, <1>5, <1>6, <2>1, <2>2 DEF Agreed
<1>7. CASE d # p.dir
  <2>1. Agreed(d, projects, folders) BY <1>3, <1>5, <1>7 DEF RestAgrees
  <2>2. d \in P!Places \ ds BY <1>5, <1>7 DEF Untouched, Marks
  <2>3. FoldersKept(ds, folders, flat, folders, flat) BY DEF FoldersKept
  <2>4. QED BY <1>2, <2>1, <2>2, <2>3, AgreedStays
<1>8. QED BY <1>6, <1>7

(* A visited project leaves the next one to visit, or the rescan is over.    *)
LEMMA VisitedIsATask ==
  ASSUME NEW t \in Tasks, t.at \in {"visit", "walk"}, NEW r, r = P!Visited(t)
  PROVE  /\ r \in Tasks
         /\ \/ P!Rest(t.todo) # {}
               /\ Fields(r, t.op, "visit", t.id, t.dir, t.plan, t.next, t.seen, P!Rest(t.todo), t.sidecar,
                         t.there, t.kept, t.touched)
            \/ P!Rest(t.todo) = {} /\ r.at = "idle"
            \/ P!Rest(t.todo) = {} /\ r.at = "rows" /\ r.op = t.op /\ r.plan = t.plan /\ r.there = t.there
<1>1. P!Rest(t.todo) \in SUBSET (Visits \cup Applies) BY DEF Tasks, P!Rest
<1>2. CASE P!Rest(t.todo) # {}
  <2>1. r = [t EXCEPT !.at = "visit", !.todo = P!Rest(t.todo)] BY <1>2 DEF P!Visited
  <2>2. QED BY <1>1, <1>2, <2>1 DEF Tasks, TaskStages, Fields
<1>3. CASE P!Rest(t.todo) = {}
  <2>1. PICK u : u = [t EXCEPT !.todo = {}] OBVIOUS
  <2>2. u \in Tasks /\ u.op = t.op /\ u.plan = t.plan /\ u.there = t.there /\ u.touched = t.touched
    BY <2>1, TodoOnly DEF Fields
  <2>3. CASE u.op = "rescan"
    <3>1. r = P!Ended("done") BY <1>3, <2>1, <2>3 DEF P!Visited, P!After
    <3>2. QED BY <1>3, <2>2, <3>1, EndedIsATask
  <2>4. CASE u.op # "rescan"
    <3>1. r = [u EXCEPT !.at = "rows"] BY <1>3, <2>1, <2>4 DEF P!Visited, P!After
    <3>2. "rows" \in TaskStages BY DEF TaskStages
    <3>3. r \in Tasks /\ r.op = u.op /\ r.at = "rows" /\ r.plan = u.plan /\ r.there = u.there /\ r.touched = u.touched
      BY <2>2, <3>1, <3>2, GoTo DEF Fields
    <3>4. QED BY <1>3, <2>2, <3>3
  <2>5. QED BY <2>3, <2>4
<1>4. QED BY <1>2, <1>3

LEMMA VisitedKnows ==
  ASSUME NEW t \in Tasks, t.at \in {"visit", "walk"}, KnowsItself(t), NEW us, NEW pr, NEW fo, NEW fl,
         \A q \in P!Rest(t.todo) : Noted(q.id, q.dir, pr, us), Distinct(t), Listed(t, fo),
         \A q \in P!Rest(t.todo) : q.dir \in Untouched(t) => pr[q.id] # None /\ pr[q.id].state = q.state,
         \A d \in Untouched(t) : (\A q \in P!Rest(t.todo) : q.dir # d) => Agreed(d, pr, fo)
  PROVE  P!Visited(t) \in Tasks /\ Knows(P!Visited(t), pr, us, fo, fl)
<1>1. PICK r : r = P!Visited(t) OBVIOUS
<1>2. /\ r \in Tasks
      /\ \/ Fields(r, t.op, "visit", t.id, t.dir, t.plan, t.next, t.seen, P!Rest(t.todo), t.sidecar,
                   t.there, t.kept, t.touched)
         \/ r.at = "idle"
         \/ r.at = "rows" /\ r.op = t.op /\ r.plan = t.plan /\ r.there = t.there
  BY <1>1, VisitedIsATask
<1>3. CASE r.at = "idle" BY <1>1, <1>2, <1>3, RestKnowsNothing
<1>4. CASE r.at = "rows" /\ r.op = t.op /\ r.plan = t.plan /\ r.there = t.there
  BY <1>1, <1>2, <1>4 DEF Knows, KnowsRows, KnowsFolders, KnowsItself, Apart
<1>5. CASE Fields(r, t.op, "visit", t.id, t.dir, t.plan, t.next, t.seen, P!Rest(t.todo), t.sidecar,
                  t.there, t.kept, t.touched)
  <2>1. /\ r.at = "visit" /\ r.op = t.op /\ r.plan = t.plan /\ r.there = t.there /\ r.seen = t.seen
        /\ r.todo = P!Rest(t.todo) /\ r.touched = t.touched
    BY <1>5 DEF Fields
  <2>2. ToVisit(r) = P!Rest(t.todo) /\ Untouched(r) = Untouched(t) /\ P!Rest(t.todo) \subseteq t.todo
    BY <2>1 DEF ToVisit, Untouched, P!Rest
  <2>3. KnowsRows(r, pr, us) BY <2>1, <2>2 DEF KnowsRows, Distinct, AsNoted
  <2>4. KnowsFolders(r, pr, fo, fl) BY <2>1, <2>2 DEF KnowsFolders, Listed, RestAgrees
  <2>5. KnowsItself(r) BY <1>2, <2>1 DEF KnowsItself, Apart
  <2>6. QED BY <1>1, <1>2, <2>3, <2>4, <2>5 DEF Knows
<1>6. QED BY <1>2, <1>3, <1>4, <1>5

LEMMA NextProject ==
  ASSUME P!ProjectsAssumption, NEW t \in Tasks, t.at \in {"visit", "walk"}, t.todo # {},
         NEW us, NEW pr, KnowsRows(t, pr, us)
  PROVE  P!First(t.todo) \in t.todo
BY FirstIsOne, PlacesAreNumbers DEF KnowsRows, Noted

LEMMA VisitKeeps ==
  ASSUME P!ProjectsAssumption, ProjectsInv, NEW w \in Workers, P!Visit(w)
  PROVE  ProjectsInv'
<1>1. PICK t \in Tasks : t = work[w] /\ Knows(t, projects, used, folders, flat) BY DEF ProjectsInv
<1>2. t.at = "visit" /\ t.todo # {} /\ UNCHANGED <<used, tags, folders, flat, ops, events>>
  BY <1>1 DEF P!Visit, P!At
<1>3. PICK p : p = P!First(t.todo) OBVIOUS
<1>4. /\ p \in t.todo /\ P!Rest(t.todo) = t.todo \ {p}
      /\ KnowsRows(t, projects, used) /\ KnowsFolders(t, projects, folders, flat) /\ KnowsItself(t)
  BY <1>1, <1>2, <1>3, NextProject DEF P!Rest, Knows
<1>5. PICK s, task, ds :
        /\ s = IF p.dir \in t.seen THEN "ok" ELSE "missing"
        /\ task = IF p.dir \in t.seen THEN [t EXCEPT !.at = "walk"] ELSE P!Visited(t)
        /\ ds = IF p.state # s THEN {p.dir} ELSE {}
  OBVIOUS
<1>6. projects' = (IF p.state # s THEN P!Marked(p.id, s) ELSE projects) /\ P!Step(w, task, ds)
  <2>1. CASE p.dir \in t.seen BY <1>1, <1>3, <1>5, <2>1 DEF P!Visit
  <2>2. CASE p.dir \notin t.seen BY <1>1, <1>3, <1>5, <2>2 DEF P!Visit
  <2>3. QED BY <2>1, <2>2
<1>7. /\ s \in {"ok", "missing"}
      /\ Marks(p, s, ds)
  BY <1>5, <1>6 DEF Marks
<1>8. /\ ds \in SUBSET P!Places /\ RowsTyped(projects', used) /\ RowsKept(ds, projects, used, projects', used)
      /\ \A q \in t.todo : Noted(q.id, q.dir, projects', used)
      /\ \A q \in t.todo \ {p} : q.dir \in Untouched(t) =>
           projects'[q.id] # None /\ projects'[q.id].state = q.state
  BY <1>2, <1>4, <1>7, MarkKeeps
<1>9. \A d \in Untouched(t) : (\A q \in t.todo \ {p} : q.dir # d) => Agreed(d, projects', folders)
  BY <1>2, <1>4, <1>5, <1>7, MarkedAgrees
<1>10. Distinct(t) /\ Listed(t, folders) BY <1>2, <1>4 DEF KnowsRows, KnowsFolders
<1>11. task \in Tasks /\ Knows(task, projects', used, folders, flat)
  <2>1. CASE p.dir \notin t.seen
    <3>1. /\ \A q \in P!Rest(t.todo) : Noted(q.id, q.dir, projects', used)
          /\ \A q \in P!Rest(t.todo) : q.dir \in Untouched(t) =>
               projects'[q.id] # None /\ projects'[q.id].state = q.state
          /\ \A d \in Untouched(t) : (\A q \in P!Rest(t.todo) : q.dir # d) => Agreed(d, projects', folders)
      BY <1>4, <1>8, <1>9
    <3>2. task = P!Visited(t) BY <1>5, <2>1
    <3>3. QED BY <1>2, <1>4, <1>10, <3>1, <3>2, VisitedKnows
  <2>2. CASE p.dir \in t.seen
    <3>1. task = [t EXCEPT !.at = "walk"] /\ "walk" \in TaskStages BY <1>5, <2>2 DEF TaskStages
    <3>2. /\ task \in Tasks /\ task.at = "walk" /\ task.op = t.op /\ task.plan = t.plan /\ task.there = t.there
          /\ task.seen = t.seen /\ task.todo = t.todo /\ task.touched = t.touched
      BY <3>1, GoTo DEF Fields
    <3>3. ToVisit(task) = t.todo \ {p} /\ Untouched(task) = Untouched(t)
      BY <1>4, <3>2 DEF ToVisit, Untouched
    <3>4. KnowsRows(task, projects', used)
      BY <1>8, <1>10, <3>2, <3>3 DEF KnowsRows, Distinct, AsNoted
    <3>5. KnowsFolders(task, projects', folders, flat)
      BY <1>9, <1>10, <3>2, <3>3 DEF KnowsFolders, Listed, RestAgrees
    <3>6. KnowsItself(task) BY <1>2, <1>4, <3>2 DEF KnowsItself, Apart
    <3>7. QED BY <3>2, <3>4, <3>5, <3>6 DEF Knows
  <2>3. QED BY <2>1, <2>2
<1>12. FoldersKept(ds, folders, flat, folders', flat') /\ folders' \in FolderMaps /\ flat' \in FolderMaps
  BY <1>2 DEF FoldersKept, ProjectsInv
<1>13. RowsTyped(projects', used') /\ RowsKept(ds, projects, used, projects', used') BY <1>2, <1>8
<1>14. Knows(task, projects', used', folders', flat') BY <1>2, <1>11
<1>15. QED BY <1>2, <1>6, <1>8, <1>11, <1>12, <1>13, <1>14, RestStays, StepKeeps

LEMMA VisitNothingKeeps ==
  ASSUME P!ProjectsAssumption, ProjectsInv, NEW w \in Workers, P!VisitNothing(w)
  PROVE  ProjectsInv'
<1>1. PICK t \in Tasks : t = work[w] /\ Knows(t, projects, used, folders, flat) BY DEF ProjectsInv
<1>2. /\ t.at = "visit" /\ P!Step(w, P!After(t), {})
      /\ UNCHANGED <<projects, used, tags, folders, flat, ops, events>>
  BY <1>1 DEF P!VisitNothing, P!At
<1>3. CASE t.op = "rescan"
  BY <1>1, <1>2, <1>3, EndKeeps DEF P!After, P!End
<1>4. CASE t.op # "rescan"
  <2>1. PICK task : task = [t EXCEPT !.at = "rows"] OBVIOUS
  <2>2. "rows" \in TaskStages BY DEF TaskStages
  <2>3. /\ task \in Tasks /\ task.at = "rows" /\ task.op = t.op /\ task.plan = t.plan /\ task.there = t.there
    BY <2>1, <2>2, GoTo DEF Fields
  <2>4. Knows(task, projects, used, folders, flat)
    BY <1>1, <1>2, <2>3 DEF Knows, KnowsRows, KnowsFolders, KnowsItself, Apart
  <2>5. P!Step(w, task, {}) BY <1>2, <1>4, <2>1 DEF P!After
  <2>6. QED BY <1>2, <2>3, <2>4, <2>5, RestStays, ReadKeeps
<1>5. QED BY <1>3, <1>4

LEMMA WalkKeeps ==
  ASSUME P!ProjectsAssumption, ProjectsInv, NEW w \in Workers, P!Walk(w)
  PROVE  ProjectsInv'
<1>1. PICK t \in Tasks : t = work[w] /\ Knows(t, projects, used, folders, flat) BY DEF ProjectsInv
<1>2. t.at = "walk" /\ UNCHANGED <<projects, used, tags, folders, flat, ops, events>>
  BY <1>1 DEF P!Walk, P!At
<1>3. CASE P!Step(w, P!Ended("failed"), {})
  BY <1>1, <1>2, <1>3, EndKeeps DEF P!End
<1>4. CASE P!Step(w, P!Visited(t), {})
  <2>1. ToVisit(t) = P!Rest(t.todo) /\ P!Rest(t.todo) \subseteq t.todo BY <1>2 DEF ToVisit, P!Rest
  <2>2. KnowsRows(t, projects, used) /\ KnowsFolders(t, projects, folders, flat) /\ KnowsItself(t)
    BY <1>1 DEF Knows
  <2>3. /\ \A q \in P!Rest(t.todo) : Noted(q.id, q.dir, projects, used)
        /\ \A q \in P!Rest(t.todo) : q.dir \in Untouched(t) =>
             projects[q.id] # None /\ projects[q.id].state = q.state
        /\ \A d \in Untouched(t) : (\A q \in P!Rest(t.todo) : q.dir # d) => Agreed(d, projects, folders)
        /\ Distinct(t) /\ Listed(t, folders)
    BY <1>2, <2>1, <2>2 DEF KnowsRows, KnowsFolders, AsNoted, RestAgrees
  <2>4. P!Visited(t) \in Tasks /\ Knows(P!Visited(t), projects, used, folders, flat)
    BY <1>2, <2>2, <2>3, VisitedKnows
  <2>5. QED BY <1>2, <1>4, <2>4, RestStays, ReadKeeps
<1>5. QED BY <1>1, <1>3, <1>4 DEF P!Walk

-----------------------------------------------------------------------------
(* The import of an archive.                                                 *)

LEMMA BeginZipKeeps ==
  ASSUME P!ProjectsAssumption, ProjectsInv, NEW w \in Workers, P!BeginZip(w)
  PROVE  ProjectsInv'
<1>1. PICK a, plan, task :
        /\ a \in Archives /\ plan = P!PlanZip(a) /\ task = [P!Task("zip", "check") EXCEPT !.plan = plan] /\ P!Begin(w, task)
  BY DEF P!BeginZip
<1>2. plan \in Plans BY <1>1 DEF Plans
<1>3. task \in Tasks /\ task.at = "check" /\ task.op = "zip" /\ task.plan = plan
      /\ task.seen = {} /\ task.kept = {}
  BY <1>1, <1>2 DEF Tasks, TaskOps, TaskStages, P!Idle, P!Task
<1>4. Knows(task, projects, used, folders, flat)
  BY <1>2, <1>3 DEF Knows, KnowsRows, KnowsFolders, KnowsItself, Apart
<1>5. QED BY <1>1, <1>3, <1>4, BeginKeeps

LEMMA CheckZipKeeps ==
  ASSUME P!ProjectsAssumption, ProjectsInv, NEW w \in Workers, P!CheckZip(w)
  PROVE  ProjectsInv'
<1>1. PICK t \in Tasks : t = work[w] /\ Knows(t, projects, used, folders, flat) BY DEF ProjectsInv
<1>2. t.at = "check" /\ UNCHANGED <<projects, used, tags, folders, flat, ops, events>>
  BY <1>1 DEF P!CheckZip, P!At
<1>3. CASE P!End(w, "refused") BY <1>2, <1>3, EndKeeps
<1>4. CASE /\ t.plan.dirs \cap P!OnDisk = {}
           /\ P!Step(w, [t EXCEPT !.at = "extract", !.next = 1, !.there = P!OnDisk, !.touched = {}], {})
  <2>1. PICK task : task = [t EXCEPT !.at = "extract", !.next = 1, !.there = P!OnDisk, !.touched = {}] OBVIOUS
  <2>2. P!OnDisk \in SUBSET P!Places BY DEF P!OnDisk
  <2>3. /\ task \in Tasks /\ task.at = "extract" /\ task.op = t.op /\ task.plan = t.plan /\ task.seen = t.seen
        /\ task.there = P!OnDisk /\ task.kept = {}
    BY <1>1, <1>2, <2>1, <2>2 DEF Tasks, TaskStages, Knows, KnowsItself
  <2>4. Unpacked(task, folders) BY <2>3 DEF Unpacked, Untouched, P!OnDisk
  <2>5. Knows(task, projects, used, folders, flat)
    BY <1>1, <1>2, <1>4, <2>3, <2>4 DEF Knows, KnowsRows, KnowsFolders, KnowsItself, Apart
  <2>6. P!Step(w, task, {}) BY <1>4, <2>1
  <2>7. QED BY <1>2, <2>3, <2>5, <2>6, RestStays, ReadKeeps
<1>5. QED BY <1>1, <1>3, <1>4 DEF P!CheckZip

LEMMA ExtractKeeps ==
  ASSUME P!ProjectsAssumption, ProjectsInv, NEW w \in Workers, P!Extract(w)
  PROVE  ProjectsInv'
<1>1. PICK t \in Tasks : t = work[w] /\ Knows(t, projects, used, folders, flat) BY DEF ProjectsInv
<1>2. t.at = "extract" /\ t.next \in DOMAIN t.plan.files /\ UNCHANGED <<projects, used, tags, flat, ops, events>>
  BY <1>1 DEF P!Extract, P!At
<1>3. PICK file, d, into :
        file = t.plan.files[t.next] /\ d = file.parts[1] /\ into = P!Written(folders[d], w)
  OBVIOUS
<1>4. PICK f, task :
        /\ folders' = [folders EXCEPT ![d] = f] /\ P!Step(w, task, {d})
        /\ f \in {folders[d], into, [into EXCEPT !.sidecar = file.sidecar]}
        /\ task = [t EXCEPT !.at = "clean"] \/ task = [t EXCEPT !.next = t.next + 1]
  <2>1. PICK whole :
          /\ whole \in {into, [into EXCEPT !.sidecar = file.sidecar]}
          /\ \/ /\ folders' = [folders EXCEPT ![d] = whole]
                /\ P!Step(w, [t EXCEPT !.next = t.next + 1], {d})
             \/ /\ \E f \in {folders[d], into, whole} : folders' = [folders EXCEPT ![d] = f]
                /\ P!Step(w, [t EXCEPT !.at = "clean"], {d})
    BY <1>1, <1>3 DEF P!Extract
  <2>2. QED BY <2>1
<1>5. t.plan \in Plans /\ t.seen = {} /\ t.kept = {} /\ Unpacked(t, folders) /\ KnowsItself(t)
  BY <1>1, <1>2 DEF Knows, KnowsItself, KnowsFolders
<1>6. d \in t.plan.dirs /\ d \in P!Places /\ file.sidecar \in P!Sides \cup {None}
  BY <1>2, <1>3, <1>5, PlanFacts
<1>7. f \in P!Folders \cup {None}
  <2>1. folders[d] \in P!Folders \cup {None} BY <1>6 DEF ProjectsInv, FolderMaps
  <2>2. into \in P!Folders BY <1>3, <2>1 DEF P!Written, P!Folders
  <2>3. QED BY <1>4, <1>6, <2>1, <2>2 DEF P!Folders
<1>8. folders' \in FolderMaps /\ FoldersKept({d}, folders, flat, folders', flat') /\ flat' \in FolderMaps
  BY <1>2, <1>4, <1>6, <1>7, FolderIsSet DEF ProjectsInv
<1>9. RowsTyped(projects', used') /\ RowsKept({d}, projects, used, projects', used')
  BY <1>2 DEF RowsKept, ProjectsInv
<1>10. /\ task \in Tasks /\ task.at \in {"clean", "extract"} /\ task.op = t.op /\ task.plan = t.plan
       /\ task.seen = t.seen /\ task.there = t.there /\ task.kept = t.kept /\ task.touched = t.touched
  BY <1>2, <1>4 DEF Tasks, TaskStages
<1>11. Unpacked(task, folders')
  BY <1>5, <1>6, <1>8, <1>10 DEF Unpacked, FoldersKept, Untouched
<1>12. Knows(task, projects', used', folders', flat')
  BY <1>2, <1>5, <1>10, <1>11 DEF Knows, KnowsRows, KnowsFolders, KnowsItself, Apart
<1>13. {d} \in SUBSET P!Places BY <1>6
<1>14. QED BY <1>2, <1>4, <1>8, <1>9, <1>10, <1>12, <1>13, RestStays, StepKeeps

(* On to the rescan, with what an archive found there.                       *)
LEMMA GoListKeeps ==
  ASSUME P!ProjectsAssumption, ProjectsInv, NEW w \in Workers, work[w].at \notin {"idle", "check"},
         P!Go(w, "list"), UNCHANGED <<projects, used, tags, folders, flat, ops, events>>
  PROVE  ProjectsInv'
<1>1. PICK t \in Tasks : t = work[w] /\ Knows(t, projects, used, folders, flat) BY DEF ProjectsInv
<1>2. PICK task : task = [t EXCEPT !.at = "list"] OBVIOUS
<1>3. "list" \in TaskStages BY DEF TaskStages
<1>4. /\ task \in Tasks /\ task.at = "list" /\ task.op = t.op /\ task.plan = t.plan /\ task.there = t.there
  BY <1>2, <1>3, GoTo DEF Fields
<1>5. Knows(task, projects, used, folders, flat)
  BY <1>1, <1>4 DEF Knows, KnowsRows, KnowsFolders, KnowsItself, Apart
<1>6. P!Step(w, task, {}) BY <1>1, <1>2 DEF P!Go
<1>7. QED BY <1>4, <1>5, <1>6, RestStays, ReadKeeps

LEMMA CleanKeeps ==
  ASSUME P!ProjectsAssumption, ProjectsInv, NEW w \in Workers, P!Clean(w)
  PROVE  ProjectsInv'
<1>1. PICK t \in Tasks : t = work[w] /\ Knows(t, projects, used, folders, flat) BY DEF ProjectsInv
<1>2. t.at = "clean" /\ UNCHANGED <<projects, used, tags, flat, ops, events>>
  BY <1>1 DEF P!Clean, P!At
<1>3. PICK left, d : left = t.plan.dirs \ t.seen /\ d = P!Min(left) OBVIOUS
<1>4. CASE left = {}
  <2>1. P!End(w, "failed") /\ UNCHANGED folders BY <1>1, <1>3, <1>4 DEF P!Clean
  <2>2. QED BY <1>2, <2>1, EndKeeps
<1>5. CASE left # {}
  <2>1. PICK f, seen, kept, task :
          /\ f \in P!Remains(folders[d]) /\ folders' = [folders EXCEPT ![d] = f]
          /\ seen = t.seen \cup {d} /\ kept = IF f = None THEN t.kept ELSE t.kept \cup {d}
          /\ task = [t EXCEPT !.seen = seen, !.kept = kept]
          /\ P!Step(w, task, {d})
    BY <1>1, <1>3, <1>5 DEF P!Clean, P!Removal
  <2>2. task = [t EXCEPT !.seen = seen, !.kept = kept] BY <2>1
  <2>3. t.plan \in Plans /\ Unpacked(t, folders) /\ KnowsItself(t) /\ t.op = "zip"
    BY <1>1, <1>2 DEF Knows, KnowsItself, KnowsFolders
  <2>4. d \in t.plan.dirs /\ d \in P!Places /\ d \notin t.seen
    <3>1. left \in SUBSET Nat /\ t.plan.dirs \subseteq P!Places
      BY <1>3, <2>3, PlanFacts, PlacesAreNumbers
    <3>2. d \in left BY <1>3, <1>5, <3>1, MinIsOne
    <3>3. QED BY <1>3, <3>1, <3>2
  <2>5. /\ task \in Tasks /\ task.at = t.at /\ task.op = t.op /\ task.plan = t.plan
        /\ task.seen = seen /\ task.there = t.there /\ task.kept = kept /\ task.touched = t.touched
    <3>1. seen \in SUBSET P!Places /\ kept \in SUBSET P!Places BY <2>1, <2>4 DEF Tasks
    <3>2. QED BY <2>2, <3>1 DEF Tasks
  <2>6. folders' \in FolderMaps /\ FoldersKept({d}, folders, flat, folders', flat') /\ flat' \in FolderMaps
    <3>1. f \in P!Folders \cup {None} BY <2>1, <2>4, RemainsOfAFolder DEF ProjectsInv, FolderMaps
    <3>2. QED BY <1>2, <2>1, <2>4, <3>1, FolderIsSet DEF ProjectsInv
  <2>7. RowsTyped(projects', used') /\ RowsKept({d}, projects, used, projects', used')
    BY <1>2 DEF RowsKept, ProjectsInv
  <2>8. folders'[d] = f BY <2>1, <2>4 DEF ProjectsInv, FolderMaps
  <2>9. d \notin t.there BY <1>2, <2>3, <2>4 DEF KnowsItself, Apart
  <2>10. Unpacked(task, folders')
    <3>1. ASSUME NEW e \in Untouched(task), e \notin task.plan.dirs \ task.seen
          PROVE  folders'[e] # None <=> e \in task.there \cup task.kept
      <4>1. CASE e = d
        <5>1. d \notin t.kept BY <1>2, <2>3, <2>4 DEF KnowsItself
        <5>2. QED BY <2>1, <2>5, <2>8, <2>9, <4>1, <5>1
      <4>2. CASE e # d
        <5>1. e \in Untouched(t) /\ e \notin t.plan.dirs \ t.seen /\ e \in P!Places \ {d}
          BY <2>1, <2>5, <3>1, <4>2 DEF Untouched
        <5>2. folders'[e] = folders[e] BY <2>6, <5>1 DEF FoldersKept
        <5>3. QED BY <2>1, <2>3, <2>5, <4>2, <5>1, <5>2 DEF Unpacked
      <4>3. QED BY <4>1, <4>2
    <3>2. QED BY <3>1 DEF Unpacked
  <2>11. Knows(task, projects', used', folders', flat')
    BY <1>2, <2>1, <2>3, <2>5, <2>10 DEF Knows, KnowsRows, KnowsFolders, KnowsItself, Apart
  <2>12. {d} \in SUBSET P!Places BY <2>4
  <2>13. QED BY <1>2, <2>1, <2>5, <2>6, <2>7, <2>11, <2>12, RestStays, StepKeeps
<1>6. QED BY <1>4, <1>5

-----------------------------------------------------------------------------
(* The move of a flat library.                                               *)

LEMMA BeginMoveKeeps ==
  ASSUME P!ProjectsAssumption, ProjectsInv, NEW w \in Workers, P!BeginMove(w)
  PROVE  ProjectsInv'
<1>1. PICK at, task : at \in {"collide", "list"} /\ task = P!Task("move", at) /\ P!Begin(w, task)
  BY DEF P!BeginMove
<1>2. task \in Tasks /\ task.at = at /\ task.op = "move"
  BY <1>1 DEF Tasks, TaskOps, TaskStages, P!Idle, P!Task
<1>3. Knows(task, projects, used, folders, flat)
  BY <1>1, <1>2 DEF Knows, KnowsRows, KnowsFolders, KnowsItself, Apart
<1>4. QED BY <1>1, <1>2, <1>3, BeginKeeps

LEMMA CollideKeeps ==
  ASSUME P!ProjectsAssumption, ProjectsInv, NEW w \in Workers, P!Collide(w)
  PROVE  ProjectsInv'
<1>1. PICK t \in Tasks : t = work[w] /\ Knows(t, projects, used, folders, flat) BY DEF ProjectsInv
<1>2. t.at = "collide" /\ UNCHANGED <<projects, used, tags, folders, flat, ops, events>>
  BY <1>1 DEF P!Collide, P!At
<1>3. PICK names : names = {d \in P!Places : flat[d] # None} OBVIOUS
<1>4. CASE names \cap P!OnDisk # {}
  <2>1. P!End(w, "refused") BY <1>3, <1>4 DEF P!Collide
  <2>2. QED BY <1>2, <2>1, EndKeeps
<1>5. CASE names \cap P!OnDisk = {}
  <2>1. PICK task : task = [t EXCEPT !.seen = names, !.there = P!OnDisk \cup names, !.touched = {}, !.at = "move"] OBVIOUS
  <2>2. names \in SUBSET P!Places /\ P!OnDisk \in SUBSET P!Places BY <1>3 DEF P!OnDisk
  <2>3. /\ task \in Tasks /\ task.at = "move" /\ task.op = t.op /\ task.plan = t.plan /\ task.seen = names
        /\ task.there = P!OnDisk \cup names
    BY <2>1, <2>2 DEF Tasks, TaskStages
  <2>4. Movable(task, folders, flat) BY <1>3, <1>5, <2>3 DEF Movable, Untouched, P!OnDisk
  <2>5. t.op = "move"
    BY <1>1, <1>2 DEF Knows, KnowsItself
  <2>6. Knows(task, projects, used, folders, flat)
    BY <2>3, <2>4, <2>5 DEF Knows, KnowsRows, KnowsFolders, KnowsItself, Apart
  <2>7. P!Step(w, task, {}) BY <1>1, <1>3, <1>5, <2>1 DEF P!Collide
  <2>8. QED BY <1>2, <2>3, <2>6, <2>7, RestStays, ReadKeeps
<1>6. QED BY <1>4, <1>5

LEMMA MoveKeeps ==
  ASSUME P!ProjectsAssumption, ProjectsInv, NEW w \in Workers, P!Move(w)
  PROVE  ProjectsInv'
<1>1. PICK t \in Tasks : t = work[w] /\ Knows(t, projects, used, folders, flat) BY DEF ProjectsInv
<1>2. t.at = "move" /\ t.seen # {} /\ UNCHANGED <<projects, used, tags, ops, events>>
  BY <1>1 DEF P!Move, P!At
<1>3. PICK d : d = P!Min(t.seen) OBVIOUS
<1>4. d \in t.seen /\ d \in P!Places
  <2>1. t.seen \in SUBSET Nat /\ t.seen \subseteq P!Places BY PlacesAreNumbers DEF Tasks
  <2>2. QED BY <1>2, <1>3, <2>1, MinIsOne
<1>5. CASE P!End(w, "failed") /\ UNCHANGED <<folders, flat>> BY <1>2, <1>5, EndKeeps
<1>6. CASE /\ flat[d] # None
           /\ folders' = [folders EXCEPT ![d] = flat[d]] /\ flat' = [flat EXCEPT ![d] = None]
           /\ P!Step(w, [t EXCEPT !.seen = @ \ {d}], {d})
  <2>1. PICK seen, task : seen = t.seen \ {d} /\ task = [t EXCEPT !.seen = seen] OBVIOUS
  <2>2. task = [t EXCEPT !.seen = seen] /\ P!Step(w, task, {d}) BY <1>6, <2>1
  <2>3. seen \in SUBSET P!Places BY <2>1 DEF Tasks
  <2>4. /\ task \in Tasks /\ task.at = t.at /\ task.op = t.op /\ task.plan = t.plan
        /\ task.seen = seen /\ task.there = t.there /\ task.touched = t.touched
    <3>1. task \in Tasks
          /\ Fields(task, t.op, t.at, t.id, t.dir, t.plan, t.next, seen, t.todo, t.sidecar, t.there, t.kept, t.touched)
      BY <2>2, <2>3, SeenEdit
    <3>2. QED BY <3>1 DEF Fields
  <2>5. folders \in FolderMaps /\ flat \in FolderMaps BY DEF ProjectsInv
  <2>6. folders' \in FolderMaps /\ flat' \in FolderMaps /\ FoldersKept({d}, folders, flat, folders', flat')
    BY <1>4, <1>6, <2>5 DEF FolderMaps, FoldersKept
  <2>7. RowsTyped(projects', used') /\ RowsKept({d}, projects, used, projects', used')
    BY <1>2 DEF RowsKept, ProjectsInv
  <2>8. Movable(t, folders, flat) /\ KnowsItself(t) BY <1>1, <1>2 DEF Knows, KnowsFolders
  <2>9. /\ folders'[d] = flat[d] /\ flat'[d] = None /\ Untouched(task) = Untouched(t)
        /\ Untouched(t) \subseteq P!Places
    BY <1>4, <1>6, <2>4, <2>5 DEF FolderMaps, Untouched
  <2>10. Movable(task, folders', flat')
    <3>1. ASSUME NEW e \in Untouched(task), e # d
          PROVE  folders'[e] = folders[e] /\ flat'[e] = flat[e] /\ e \in Untouched(t)
                 /\ (e \in task.seen <=> e \in t.seen)
      BY <2>1, <2>4, <2>6, <2>9, <3>1 DEF FoldersKept
    <3>2. QED BY <1>6, <2>4, <2>8, <2>9, <3>1 DEF Movable
  <2>11. Knows(task, projects', used', folders', flat')
    BY <1>2, <2>4, <2>8, <2>10 DEF Knows, KnowsRows, KnowsFolders, KnowsItself, Apart
  <2>12. {d} \in SUBSET P!Places BY <1>4
  <2>13. QED BY <1>2, <2>2, <2>4, <2>6, <2>7, <2>11, <2>12, RestStays, StepKeeps
<1>7. QED BY <1>1, <1>3, <1>5, <1>6 DEF P!Move

-----------------------------------------------------------------------------
(* The sidecars.                                                             *)

LEMMA ReadRowsKeeps ==
  ASSUME P!ProjectsAssumption, ProjectsInv, NEW w \in Workers, P!ReadRows(w)
  PROVE  ProjectsInv'
<1>1. PICK t \in Tasks : t = work[w] /\ Knows(t, projects, used, folders, flat) BY DEF ProjectsInv
<1>2. t.at = "rows" /\ UNCHANGED <<projects, used, tags, folders, flat, ops, events>>
  BY <1>1 DEF P!ReadRows, P!At
<1>3. PICK scope, todo, task :
        /\ scope = {i \in P!Live : projects[i].state = "ok" /\ P!InScope(t, i)}
        /\ todo = {[id |-> i, dir |-> projects[i].dir] : i \in scope}
        /\ task = [t EXCEPT !.at = "sidecar", !.todo = todo] /\ P!Step(w, task, {})
  BY <1>1 DEF P!ReadRows
<1>4. ASSUME NEW p \in todo
      PROVE  /\ p \in Applies /\ Noted(p.id, p.dir, projects, used)
             /\ t.op = "zip" => p.dir \in t.plan.dirs
  <2>1. PICK i \in scope : p = [id |-> i, dir |-> projects[i].dir] BY <1>3
  <2>2. i \in P!Live /\ P!InScope(t, i) BY <1>3
  <2>3. projects[i] \in P!Rows /\ i \in Ids /\ i \in used BY <2>2, LiveRow DEF P!Live, ProjectsInv, RowsTyped
  <2>4. projects[i].dir \in P!Places BY <2>3 DEF P!Rows
  <2>5. QED BY <2>1, <2>2, <2>3, <2>4 DEF Applies, Noted, P!InScope
<1>5. todo \in SUBSET (Visits \cup Applies) BY <1>4
<1>6. /\ task \in Tasks /\ task.at = "sidecar" /\ task.op = t.op /\ task.plan = t.plan
      /\ task.there = t.there /\ task.todo = todo
  <2>1. task = [t EXCEPT !.at = "sidecar", !.todo = todo] BY <1>3
  <2>2. QED BY <1>5, <2>1 DEF Tasks, TaskStages
<1>7. Knows(task, projects, used, folders, flat)
  BY <1>1, <1>2, <1>4, <1>6 DEF Knows, KnowsRows, KnowsFolders, KnowsItself, Apart
<1>8. QED BY <1>2, <1>3, <1>6, <1>7, RestStays, ReadKeeps

(* On to the next row, with what is known of those that are left.            *)
LEMMA NextRow ==
  ASSUME NEW t \in Tasks, t.at \in {"sidecar", "patch"}, NEW us, NEW pr, NEW fo, NEW fl,
         KnowsItself(t), \A p \in t.todo : Noted(p.id, p.dir, pr, us),
         NEW rest \in SUBSET t.todo, NEW task, task = [t EXCEPT !.at = "sidecar", !.todo = rest]
  PROVE  task \in Tasks /\ Knows(task, pr, us, fo, fl)
<1>1. rest \in SUBSET (Visits \cup Applies) BY DEF Tasks
<1>2. /\ task \in Tasks /\ task.at = "sidecar" /\ task.op = t.op /\ task.plan = t.plan
      /\ task.there = t.there /\ task.todo = rest
  BY <1>1 DEF Tasks, TaskStages
<1>3. QED BY <1>2 DEF Knows, KnowsRows, KnowsFolders, KnowsItself, Apart

LEMMA NextNoted ==
  ASSUME P!ProjectsAssumption, NEW us, NEW pr, NEW todo, todo # {}, \A p \in todo : Noted(p.id, p.dir, pr, us)
  PROVE  P!First(todo) \in todo
BY FirstIsOne, PlacesAreNumbers DEF Noted

LEMMA ReadSidecarKeeps ==
  ASSUME P!ProjectsAssumption, ProjectsInv, NEW w \in Workers, P!ReadSidecar(w)
  PROVE  ProjectsInv'
<1>1. PICK t \in Tasks : t = work[w] /\ Knows(t, projects, used, folders, flat) BY DEF ProjectsInv
<1>2. t.at = "sidecar" /\ UNCHANGED <<projects, used, tags, folders, flat, ops, events>>
  BY <1>1 DEF P!ReadSidecar, P!At
<1>3. KnowsItself(t) /\ \A p \in t.todo : Noted(p.id, p.dir, projects, used)
  BY <1>1, <1>2 DEF Knows, KnowsRows
<1>4. CASE t.todo = {}
  <2>1. P!End(w, "done") BY <1>1, <1>4 DEF P!ReadSidecar
  <2>2. QED BY <1>2, <2>1, EndKeeps
<1>5. CASE t.todo # {}
  <2>1. PICK p, f : p = P!First(t.todo) /\ f = folders[p.dir] OBVIOUS
  <2>2. p \in t.todo BY <1>3, <1>5, <2>1, NextNoted
  <2>3. f \in P!Folders \cup {None} BY <1>3, <2>1, <2>2 DEF Noted, ProjectsInv, FolderMaps
  <2>4. CASE P!Step(w, [t EXCEPT !.todo = P!Rest(t.todo)], {})
    <3>1. PICK task : task = [t EXCEPT !.todo = P!Rest(t.todo)] OBVIOUS
    <3>2. task = [t EXCEPT !.at = "sidecar", !.todo = P!Rest(t.todo)]
      BY <1>2, <3>1 DEF Tasks
    <3>3. P!Rest(t.todo) \in SUBSET t.todo BY DEF P!Rest
    <3>4. task \in Tasks /\ Knows(task, projects, used, folders, flat)
      BY <1>2, <1>3, <3>2, <3>3, NextRow
    <3>5. P!Step(w, task, {}) BY <2>4, <3>1
    <3>6. QED BY <1>2, <3>4, <3>5, RestStays, ReadKeeps
  <2>5. CASE f # None /\ f.sidecar # None /\ P!Step(w, [t EXCEPT !.sidecar = f.sidecar, !.at = "tag"], {})
    <3>1. PICK side, task : side = f.sidecar /\ task = [t EXCEPT !.sidecar = side, !.at = "tag"] OBVIOUS
    <3>2. side \in P!Sides BY <2>3, <2>5, <3>1 DEF P!Folders
    <3>3. /\ task \in Tasks /\ task.at = "tag" /\ task.op = t.op /\ task.plan = t.plan
          /\ task.there = t.there /\ task.todo = t.todo /\ task.sidecar = side
      BY <3>1, <3>2 DEF Tasks, TaskStages
    <3>4. Knows(task, projects, used, folders, flat)
      BY <1>2, <1>3, <1>5, <3>2, <3>3 DEF Knows, KnowsRows, KnowsFolders, KnowsItself, Apart
    <3>5. P!Step(w, task, {}) BY <2>5, <3>1
    <3>6. QED BY <1>2, <3>3, <3>4, <3>5, RestStays, ReadKeeps
  <2>6. QED BY <1>1, <1>5, <2>1, <2>4, <2>5 DEF P!ReadSidecar
<1>6. QED BY <1>4, <1>5

LEMMA TagSidecarKeeps ==
  ASSUME P!ProjectsAssumption, ProjectsInv, NEW w \in Workers, P!TagSidecar(w)
  PROVE  ProjectsInv'
<1>1. PICK t \in Tasks : t = work[w] /\ Knows(t, projects, used, folders, flat) BY DEF ProjectsInv
<1>2. t.at = "tag" /\ UNCHANGED <<used, folders, flat, ops, events>>
  BY <1>1 DEF P!TagSidecar, P!At
<1>3. KnowsItself(t) /\ t.todo # {} /\ t.sidecar \in P!Sides /\ \A p \in t.todo : Noted(p.id, p.dir, projects, used)
  BY <1>1, <1>2 DEF Knows, KnowsRows, KnowsItself
<1>4. PICK i : i = P!First(t.todo).id OBVIOUS
<1>5. i \in Ids /\ RowsTyped(projects, used)
  <2>1. P!First(t.todo) \in t.todo BY <1>3, NextNoted
  <2>2. i \in used BY <1>3, <1>4, <2>1 DEF Noted
  <2>3. QED BY <2>2 DEF ProjectsInv, RowsTyped
<1>6. CASE projects[i] = None
  <2>1. P!End(w, "failed") /\ UNCHANGED <<projects, tags>> BY <1>1, <1>4, <1>6 DEF P!TagSidecar
  <2>2. QED BY <1>2, <2>1, EndKeeps
<1>7. CASE projects[i] # None
  <2>1. PICK ts, row, task :
          /\ ts = projects[i].tags \cup t.sidecar.tags /\ row = [projects[i] EXCEPT !.tags = ts]
          /\ task = [t EXCEPT !.at = "patch"]
    OBVIOUS
  <2>2. /\ projects' = [projects EXCEPT ![i] = row] /\ tags' = tags \cup t.sidecar.tags /\ P!Step(w, task, {})
    <3>1. /\ projects' = [projects EXCEPT ![i].tags = @ \cup t.sidecar.tags]
          /\ tags' = tags \cup t.sidecar.tags /\ P!Go(w, "patch")
      BY <1>1, <1>4, <1>7 DEF P!TagSidecar
    <3>2. projects' = [projects EXCEPT ![i] = row] BY <1>5, <2>1, <3>1 DEF RowsTyped
    <3>3. QED BY <1>1, <2>1, <3>1, <3>2 DEF P!Go
  <2>3. projects[i] \in P!Rows BY <1>5, <1>7 DEF RowsTyped
  <2>4. t.sidecar.tags \in SUBSET Tags BY <1>3 DEF P!Sides
  <2>5. ts \in SUBSET Tags BY <2>1, <2>3, <2>4 DEF P!Rows
  <2>6. row \in P!Rows /\ row.dir = projects[i].dir /\ row.state = projects[i].state
    BY <2>1, <2>3, <2>5, TagsEdit
  <2>7. RowsTyped(projects', used') /\ RowsKept({}, projects, used, projects', used')
    BY <1>2, <1>5, <1>7, <2>2, <2>6, RowIsWritten
  <2>8. RestTyped' BY <1>2, <2>2, <2>4 DEF ProjectsInv, RestTyped
  <2>9. FoldersKept({}, folders, flat, folders', flat') /\ folders' \in FolderMaps /\ flat' \in FolderMaps
    BY <1>2 DEF FoldersKept, ProjectsInv
  <2>10. "patch" \in TaskStages BY DEF TaskStages
  <2>11. /\ task \in Tasks /\ task.at = "patch" /\ task.op = t.op /\ task.plan = t.plan
         /\ task.there = t.there /\ task.todo = t.todo /\ task.sidecar = t.sidecar
    BY <2>1, <2>10, GoTo DEF Fields
  <2>12. \A p \in t.todo : Noted(p.id, p.dir, projects', used')
    BY <1>3, <1>5, <2>7, NotedStays DEF RowsTyped
  <2>13. Knows(task, projects', used', folders', flat')
    BY <1>2, <1>3, <2>11, <2>12 DEF Knows, KnowsRows, KnowsFolders, KnowsItself, Apart
  <2>14. QED BY <2>2, <2>7, <2>8, <2>9, <2>11, <2>13, StepKeeps
<1>8. QED BY <1>6, <1>7

LEMMA PatchSidecarKeeps ==
  ASSUME P!ProjectsAssumption, ProjectsInv, NEW w \in Workers, P!PatchSidecar(w)
  PROVE  ProjectsInv'
<1>1. PICK t \in Tasks : t = work[w] /\ Knows(t, projects, used, folders, flat) BY DEF ProjectsInv
<1>2. t.at = "patch" /\ UNCHANGED <<used, tags, folders, flat, ops, events>>
  BY <1>1 DEF P!PatchSidecar, P!At
<1>3. KnowsItself(t) /\ t.todo # {} /\ t.sidecar \in P!Sides /\ \A p \in t.todo : Noted(p.id, p.dir, projects, used)
  BY <1>1, <1>2 DEF Knows, KnowsRows, KnowsItself
<1>4. PICK i : i = P!First(t.todo).id OBVIOUS
<1>5. i \in Ids /\ RowsTyped(projects, used)
  <2>1. P!First(t.todo) \in t.todo BY <1>3, NextNoted
  <2>2. i \in used BY <1>3, <1>4, <2>1 DEF Noted
  <2>3. QED BY <2>2 DEF ProjectsInv, RowsTyped
<1>6. CASE projects[i] = None
  <2>1. P!End(w, "failed") /\ UNCHANGED projects BY <1>1, <1>4, <1>6 DEF P!PatchSidecar
  <2>2. QED BY <1>2, <2>1, EndKeeps
<1>7. CASE projects[i] # None
  <2>1. PICK a, u, row, task :
          /\ a = t.sidecar.archived /\ u = t.sidecar.website
          /\ row = [projects[i] EXCEPT !.archived = a, !.website = u]
          /\ task = [t EXCEPT !.at = "sidecar", !.todo = P!Rest(t.todo)]
    OBVIOUS
  <2>2. projects' = [projects EXCEPT ![i] = row] /\ P!Step(w, task, {})
    <3>1. /\ projects' = [projects EXCEPT ![i].website = t.sidecar.website,
                                          ![i].archived = t.sidecar.archived]
          /\ P!Step(w, [t EXCEPT !.at = "sidecar", !.todo = P!Rest(t.todo)], {})
      BY <1>1, <1>4, <1>7 DEF P!PatchSidecar
    <3>2. projects[i] \in P!Rows BY <1>5, <1>7 DEF RowsTyped
    <3>3. row = [projects[i] EXCEPT !.website = u, !.archived = a] BY <2>1, <3>2 DEF P!Rows
    <3>4. projects' = [projects EXCEPT ![i] = row] BY <1>5, <2>1, <3>1, <3>3 DEF RowsTyped
    <3>5. QED BY <2>1, <3>1, <3>4
  <2>3. projects[i] \in P!Rows BY <1>5, <1>7 DEF RowsTyped
  <2>4. a \in BOOLEAN /\ u \in {P!User, "sidecar"} BY <1>3, <2>1 DEF P!Sides
  <2>5. row \in P!Rows /\ row.dir = projects[i].dir /\ row.state = projects[i].state
    BY <2>1, <2>3, <2>4 DEF P!Rows
  <2>6. RowsTyped(projects', used') /\ RowsKept({}, projects, used, projects', used')
    BY <1>2, <1>5, <1>7, <2>2, <2>5, RowIsWritten
  <2>7. FoldersKept({}, folders, flat, folders', flat') /\ folders' \in FolderMaps /\ flat' \in FolderMaps
    BY <1>2 DEF FoldersKept, ProjectsInv
  <2>8. \A p \in t.todo : Noted(p.id, p.dir, projects', used')
    BY <1>3, <1>5, <2>6, NotedStays DEF RowsTyped
  <2>9. P!Rest(t.todo) \in SUBSET t.todo BY DEF P!Rest
  <2>10. task = [t EXCEPT !.at = "sidecar", !.todo = P!Rest(t.todo)] BY <2>1
  <2>11. task \in Tasks /\ Knows(task, projects', used', folders', flat')
    BY <1>2, <1>3, <2>8, <2>9, <2>10, NextRow
  <2>12. QED BY <1>2, <2>2, <2>6, <2>7, <2>11, RestStays, StepKeeps
<1>8. QED BY <1>6, <1>7

-----------------------------------------------------------------------------
(* Every step.                                                               *)

LEMMA OutsideKeeps ==
  ASSUME P!ProjectsAssumption, ProjectsInv, P!Outside
  PROVE  ProjectsInv'
<1>1. PICK d, f :
        /\ d \in P!Places
        /\ f \in {None, P!Written(folders[d], P!User)}
        /\ folders' = [folders EXCEPT ![d] = f]
        /\ work' = [w \in Workers |-> IF P!At(w, "idle") THEN work[w]
                                      ELSE [work[w] EXCEPT !.touched = @ \cup {d}]]
  BY DEF P!Outside
<1>2. /\ events < MaxEvents /\ events' = events + 1 /\ UNCHANGED <<projects, used, tags, flat, ops>>
  BY DEF P!Outside
<1>3. f \in P!Folders \cup {None}
  <2>1. folders[d] \in P!Folders \cup {None} BY <1>1 DEF ProjectsInv, FolderMaps
  <2>2. QED BY <1>1, <2>1 DEF P!Written, P!Folders
<1>4. folders' \in FolderMaps /\ FoldersKept({d}, folders, flat, folders', flat') /\ flat' \in FolderMaps
  BY <1>1, <1>2, <1>3, FolderIsSet DEF ProjectsInv
<1>5. RowsTyped(projects', used') /\ RowsKept({d}, projects, used, projects', used')
  BY <1>2 DEF RowsKept, ProjectsInv
<1>6. RestTyped' BY <1>2 DEF ProjectsInv, RestTyped, P!ProjectsAssumption
<1>7. ASSUME NEW v \in Workers
      PROVE  work'[v] \in Tasks /\ Knows(work'[v], projects', used', folders', flat')
  <2>1. work'[v] = IF work[v].at = "idle" THEN work[v] ELSE [work[v] EXCEPT !.touched = @ \cup {d}]
    BY <1>1 DEF P!At
  <2>2. {d} \in SUBSET P!Places BY <1>1
  <2>3. QED BY <1>4, <1>5, <2>1, <2>2, OthersStay
<1>8. work' \in [Workers -> Tasks] BY <1>1, <1>7
<1>9. QED BY <1>4, <1>5, <1>6, <1>7, <1>8 DEF ProjectsInv

LEMMA FailsKeeps ==
  ASSUME P!ProjectsAssumption, ProjectsInv, NEW w \in Workers, P!Fails(w)
  PROVE  ProjectsInv'
<1>1. P!End(w, "failed") /\ UNCHANGED <<projects, used, tags, folders, flat, ops, events>> BY DEF P!Fails
<1>2. QED BY <1>1, EndKeeps

LEMMA InitHolds ==
  ASSUME P!ProjectsAssumption, P!Init
  PROVE  ProjectsInv
<1>1. PICK s \in Starts : projects = s.projects /\ folders = s.folders /\ tags = s.tags BY DEF P!Init
<1>2. /\ projects \in [Ids -> P!Rows \cup {None}] /\ folders \in [P!Places -> P!Folders \cup {None}]
      /\ tags \subseteq Tags
      /\ \A i, j \in Ids : projects[i] # None /\ projects[j] # None /\ projects[i].dir = projects[j].dir => i = j
  BY <1>1 DEF P!ProjectsAssumption
<1>3. RowsTyped(projects, used) BY <1>2 DEF P!Init, P!Live, RowsTyped
<1>4. flat \in FolderMaps
  <2>1. Flat \in [DOMAIN Flat -> P!Sides \cup {None}] BY DEF P!ProjectsAssumption
  <2>2. \A d \in DOMAIN Flat : [by |-> {P!User}, sidecar |-> Flat[d]] \in P!Folders
    BY <2>1 DEF P!Folders
  <2>3. QED BY <2>2 DEF P!Init, FolderMaps
<1>5. RestTyped BY <1>2 DEF P!Init, RestTyped, P!ProjectsAssumption
<1>6. work \in [Workers -> Tasks] /\ \A w \in Workers : work[w].at = "idle" BY IdleIsATask DEF P!Init
<1>7. QED BY <1>2, <1>3, <1>4, <1>5, <1>6, RestKnowsNothing DEF ProjectsInv, FolderMaps

LEMMA NextKeeps ==
  ASSUME P!ProjectsAssumption, ProjectsInv, [P!Next]_(P!vars)
  PROVE  ProjectsInv'
<1>1. CASE UNCHANGED P!vars
  BY <1>1 DEF P!vars, ProjectsInv, RestTyped
<1>2. CASE P!Outside BY <1>2, OutsideKeeps
<1>3. ASSUME NEW w \in Workers, P!Requests(w) PROVE ProjectsInv'
  BY <1>3, CreateKeeps, UpdateKeeps, TagKeeps, BeginDeleteKeeps, DeleteFolderKeeps, DeleteRowKeeps DEF P!Requests
<1>4. ASSUME NEW w \in Workers, P!Rescan(w) PROVE ProjectsInv'
  BY <1>4, BeginRescanKeeps, ListFoldersKeeps, AdoptKeeps, VisitKeeps, VisitNothingKeeps, WalkKeeps DEF P!Rescan
<1>5. ASSUME NEW w \in Workers, P!Extracted(w) PROVE ProjectsInv'
  <2>1. work[w].at \notin {"idle", "check"} BY <1>5 DEF P!Extracted, P!At
  <2>2. QED BY <1>5, <2>1, GoListKeeps DEF P!Extracted
<1>6. ASSUME NEW w \in Workers, P!Archived(w) PROVE ProjectsInv'
  BY <1>5, <1>6, BeginZipKeeps, CheckZipKeeps, ExtractKeeps, CleanKeeps DEF P!Archived
<1>7. ASSUME NEW w \in Workers, P!Moved(w) PROVE ProjectsInv'
  <2>1. work[w].at \notin {"idle", "check"} BY <1>7 DEF P!Moved, P!At
  <2>2. QED BY <1>7, <2>1, GoListKeeps DEF P!Moved
<1>8. ASSUME NEW w \in Workers, P!MoveIn(w) PROVE ProjectsInv'
  BY <1>7, <1>8, BeginMoveKeeps, CollideKeeps, MoveKeeps DEF P!MoveIn
<1>9. ASSUME NEW w \in Workers, P!Sidecars(w) PROVE ProjectsInv'
  BY <1>9, ReadRowsKeeps, ReadSidecarKeeps, TagSidecarKeeps, PatchSidecarKeeps DEF P!Sidecars
<1>10. ASSUME NEW w \in Workers, P!Fails(w) PROVE ProjectsInv' BY <1>10, FailsKeeps
<1>11. QED BY <1>1, <1>2, <1>3, <1>4, <1>6, <1>8, <1>9, <1>10 DEF P!Next

-----------------------------------------------------------------------------
(* Who takes a step, and which.                                              *)

LEMMA RequestsStep ==
  ASSUME NEW w \in Workers, P!Requests(w)
  PROVE  \E task, ds : P!Step(w, task, ds)
<1>1. P!Create(w) => \E task, ds : P!Step(w, task, ds) BY DEF P!Create
<1>2. P!Changes(w) => \E task, ds : P!Step(w, task, ds) BY DEF P!Changes
<1>3. P!BeginDelete(w) => \E task, ds : P!Step(w, task, ds) BY DEF P!BeginDelete, P!Begin
<1>4. P!DeleteFolder(w) => \E task, ds : P!Step(w, task, ds) BY DEF P!DeleteFolder
<1>5. P!DeleteRow(w) => \E task, ds : P!Step(w, task, ds) BY DEF P!DeleteRow
<1>6. QED BY <1>1, <1>2, <1>3, <1>4, <1>5 DEF P!Requests, P!Update, P!Tag

LEMMA RescanSteps ==
  ASSUME NEW w \in Workers, P!Rescan(w)
  PROVE  \E task, ds : P!Step(w, task, ds)
<1>1. P!BeginRescan(w) => \E task, ds : P!Step(w, task, ds) BY DEF P!BeginRescan, P!Begin
<1>2. P!ListFolders(w) => \E task, ds : P!Step(w, task, ds) BY DEF P!ListFolders
<1>3. P!Adopt(w) => \E task, ds : P!Step(w, task, ds) BY DEF P!Adopt, P!End
<1>4. P!Visit(w) => \E task, ds : P!Step(w, task, ds) BY DEF P!Visit
<1>5. P!VisitNothing(w) => \E task, ds : P!Step(w, task, ds) BY DEF P!VisitNothing
<1>6. P!Walk(w) => \E task, ds : P!Step(w, task, ds) BY DEF P!Walk
<1>7. QED BY <1>1, <1>2, <1>3, <1>4, <1>5, <1>6 DEF P!Rescan

LEMMA ImportSteps ==
  ASSUME NEW w \in Workers, P!Archived(w) \/ P!MoveIn(w)
  PROVE  \E task, ds : P!Step(w, task, ds)
<1>1. P!BeginZip(w) => \E task, ds : P!Step(w, task, ds) BY DEF P!BeginZip, P!Begin
<1>2. P!CheckZip(w) => \E task, ds : P!Step(w, task, ds) BY DEF P!CheckZip, P!End
<1>3. P!Extract(w) => \E task, ds : P!Step(w, task, ds) BY DEF P!Extract
<1>4. P!Extracted(w) => \E task, ds : P!Step(w, task, ds) BY DEF P!Extracted, P!Go
<1>5. P!Clean(w) => \E task, ds : P!Step(w, task, ds) BY DEF P!Clean, P!Removal, P!End
<1>6. P!BeginMove(w) => \E task, ds : P!Step(w, task, ds) BY DEF P!BeginMove, P!Begin
<1>7. P!Collide(w) => \E task, ds : P!Step(w, task, ds) BY DEF P!Collide, P!End
<1>8. P!Move(w) => \E task, ds : P!Step(w, task, ds) BY DEF P!Move, P!End
<1>9. P!Moved(w) => \E task, ds : P!Step(w, task, ds) BY DEF P!Moved, P!Go
<1>10. QED BY <1>1, <1>2, <1>3, <1>4, <1>5, <1>6, <1>7, <1>8, <1>9 DEF P!Archived, P!MoveIn

LEMMA SidecarsStep ==
  ASSUME NEW w \in Workers, P!Sidecars(w)
  PROVE  \E task, ds : P!Step(w, task, ds)
<1>1. P!ReadRows(w) => \E task, ds : P!Step(w, task, ds) BY DEF P!ReadRows
<1>2. P!ReadSidecar(w) => \E task, ds : P!Step(w, task, ds) BY DEF P!ReadSidecar, P!End
<1>3. P!TagSidecar(w) => \E task, ds : P!Step(w, task, ds) BY DEF P!TagSidecar, P!End, P!Go
<1>4. P!PatchSidecar(w) => \E task, ds : P!Step(w, task, ds) BY DEF P!PatchSidecar, P!End
<1>5. QED BY <1>1, <1>2, <1>3, <1>4 DEF P!Sidecars

LEMMA FailsSteps ==
  ASSUME NEW w \in Workers, P!Fails(w)
  PROVE  \E task, ds : P!Step(w, task, ds)
BY DEF P!Fails, P!End

Acts(w) == P!Requests(w) \/ P!Rescan(w) \/ P!Archived(w) \/ P!MoveIn(w) \/ P!Sidecars(w) \/ P!Fails(w)

(* A request that goes on to another stage took the step.                    *)
LEMMA ItsOwnStep ==
  ASSUME ProjectsInv, P!Next, NEW v \in Workers, work'[v].at # work[v].at
  PROVE  Acts(v)
<1>1. work[v] \in Tasks BY DEF ProjectsInv
<1>2. \A ds : [work[v] EXCEPT !.touched = @ \cup ds].at = work[v].at BY <1>1 DEF Tasks
<1>3. ~P!Outside
  <2>1. ASSUME P!Outside PROVE FALSE
    <3>1. PICK d : work' = [w \in Workers |-> IF P!At(w, "idle") THEN work[w]
                                              ELSE [work[w] EXCEPT !.touched = @ \cup {d}]]
      BY <2>1 DEF P!Outside
    <3>2. QED BY <1>2, <3>1
  <2>2. QED BY <2>1
<1>4. PICK w \in Workers : Acts(w) BY <1>3 DEF P!Next, Acts
<1>5. PICK task, ds : P!Step(w, task, ds)
  BY <1>4, RequestsStep, RescanSteps, ImportSteps, SidecarsStep, FailsSteps DEF Acts
<1>6. v = w BY <1>2, <1>5 DEF P!Step
<1>7. QED BY <1>4, <1>6

LEMMA WhatStep ==
  ASSUME NEW v \in Workers, Acts(v)
  PROVE  /\ work[v].at \in {"visit", "walk"} => P!Visit(v) \/ P!VisitNothing(v) \/ P!Walk(v) \/ P!Fails(v)
         /\ work[v].at = "clean" => P!Clean(v)
         /\ work[v].at = "move" => P!Move(v) \/ P!Moved(v)
         /\ work[v].at \in {"tag", "patch"} => P!TagSidecar(v) \/ P!PatchSidecar(v) \/ P!Fails(v)
<1>1. P!Requests(v) => work[v].at \in {"idle", "remove", "drop"}
  BY DEF P!Requests, P!Create, P!Update, P!Tag, P!Changes, P!BeginDelete, P!Begin, P!DeleteFolder,
         P!DeleteRow, P!At
<1>2. P!Rescan(v) => work[v].at \in {"idle", "list", "adopt"} \/ (work[v].at \in {"visit", "walk"}
                                    /\ (P!Visit(v) \/ P!VisitNothing(v) \/ P!Walk(v)))
  BY DEF P!Rescan, P!BeginRescan, P!Begin, P!ListFolders, P!Adopt, P!Visit, P!VisitNothing, P!Walk, P!At
<1>3. P!Archived(v) => work[v].at \in {"idle", "check", "extract"} \/ (work[v].at = "clean" /\ P!Clean(v))
  BY DEF P!Archived, P!BeginZip, P!Begin, P!CheckZip, P!Extract, P!Extracted, P!Clean, P!At
<1>4. P!MoveIn(v) => work[v].at \in {"idle", "collide"} \/ (work[v].at = "move" /\ (P!Move(v) \/ P!Moved(v)))
  BY DEF P!MoveIn, P!BeginMove, P!Begin, P!Collide, P!Move, P!Moved, P!At
<1>5. P!Sidecars(v) => work[v].at \in {"rows", "sidecar"} \/ (work[v].at \in {"tag", "patch"}
                                    /\ (P!TagSidecar(v) \/ P!PatchSidecar(v)))
  BY DEF P!Sidecars, P!ReadRows, P!ReadSidecar, P!TagSidecar, P!PatchSidecar, P!At
<1>6. P!Fails(v) => work[v].at \notin {"clean", "move"}
  BY DEF P!Fails
<1>7. QED BY <1>1, <1>2, <1>3, <1>4, <1>5, <1>6 DEF Acts

LEMMA ItsTask ==
  ASSUME NEW v \in Workers, NEW task, NEW ds, P!Step(v, task, ds)
  PROVE  work'[v] = task
BY DEF P!Step

-----------------------------------------------------------------------------
(* The properties.                                                           *)

(* What a rescan that ends leaves.                                           *)
LEMMA RescanEnds ==
  ASSUME P!ProjectsAssumption, ProjectsInv, NEW v \in Workers, work[v].at \in {"visit", "walk"},
         P!Visit(v) \/ P!VisitNothing(v) \/ P!Walk(v) \/ P!Fails(v),
         work'[v].at \in {"idle", "rows"}, work'[v].answer # "failed"
  PROVE  \A d \in P!Places \ work[v].touched : Agreed(d, projects', folders')
<1>1. PICK t \in Tasks : t = work[v] /\ Knows(t, projects, used, folders, flat) BY DEF ProjectsInv
<1>2. KnowsRows(t, projects, used) /\ KnowsFolders(t, projects, folders, flat) /\ t.at \in {"visit", "walk"}
      /\ RestAgrees(t, projects, folders)
  BY <1>1 DEF Knows, KnowsFolders
<1>3. CASE P!Visit(v)
  <2>1. t.at = "visit" /\ t.todo # {} /\ UNCHANGED folders BY <1>1, <1>3 DEF P!Visit, P!At
  <2>2. PICK p : p = P!First(t.todo) OBVIOUS
  <2>3. p \in t.todo /\ P!Rest(t.todo) = t.todo \ {p} BY <1>2, <2>1, <2>2, NextProject DEF P!Rest
  <2>4. p.dir \notin t.seen
    <3>1. ASSUME p.dir \in t.seen PROVE FALSE
      <4>1. PICK ds : P!Step(v, [t EXCEPT !.at = "walk"], ds) BY <1>1, <1>3, <2>2, <3>1 DEF P!Visit
      <4>2. work'[v] = [t EXCEPT !.at = "walk"] BY <4>1, ItsTask
      <4>3. work'[v].at = "walk" BY <4>2 DEF Tasks
      <4>4. QED BY <4>3
    <3>2. QED BY <3>1
  <2>5. PICK s, ds : /\ s = IF p.dir \in t.seen THEN "ok" ELSE "missing"
                     /\ ds = IF p.state # s THEN {p.dir} ELSE {}
    OBVIOUS
  <2>6. /\ Marks(p, s, ds)
        /\ P!Step(v, P!Visited(t), ds)
    BY <1>1, <1>3, <2>2, <2>4, <2>5 DEF P!Visit, Marks
  <2>7. work'[v] = P!Visited(t) BY <2>6, ItsTask
  <2>8. P!Rest(t.todo) = {}
    BY <1>2, <2>7, VisitedIsATask DEF Fields
  <2>9. \A d \in Untouched(t) : (\A q \in t.todo \ {p} : q.dir # d) => Agreed(d, projects', folders)
    BY <1>2, <2>1, <2>3, <2>5, <2>6, MarkedAgrees
  <2>10. QED BY <1>1, <2>1, <2>3, <2>8, <2>9 DEF Untouched
<1>4. CASE P!VisitNothing(v)
  <2>1. t.at = "visit" /\ t.todo = {} /\ UNCHANGED <<projects, folders>>
    BY <1>1, <1>4 DEF P!VisitNothing, P!At
  <2>2. ToVisit(t) = {} BY <2>1 DEF ToVisit
  <2>3. QED BY <1>1, <1>2, <2>1, <2>2 DEF RestAgrees, Untouched
<1>5. CASE P!Walk(v)
  <2>1. t.at = "walk" /\ UNCHANGED <<projects, folders>>
        /\ (P!Step(v, P!Ended("failed"), {}) \/ P!Step(v, P!Visited(t), {}))
    BY <1>1, <1>5 DEF P!Walk, P!At
  <2>2. work'[v] = P!Visited(t)
    <3>1. P!Ended("failed").answer = "failed" BY EndedIsATask
    <3>2. QED BY <2>1, <3>1, ItsTask
  <2>3. P!Rest(t.todo) = {}
    BY <1>2, <2>2, VisitedIsATask DEF Fields
  <2>4. ToVisit(t) = {} BY <2>1, <2>3 DEF ToVisit
  <2>5. QED BY <1>1, <1>2, <2>1, <2>4 DEF RestAgrees, Untouched
<1>6. ~P!Fails(v)
  <2>1. P!Fails(v) => work'[v] = P!Ended("failed") BY ItsTask DEF P!Fails, P!End
  <2>2. P!Ended("failed").answer = "failed" BY EndedIsATask
  <2>3. QED BY <2>1, <2>2
<1>7. QED BY <1>3, <1>4, <1>5, <1>6

LEMMA RescanAgreesStep ==
  ASSUME P!ProjectsAssumption, ProjectsInv, P!Next
  PROVE  P!RescanAgrees
<1>1. ASSUME NEW v \in Workers, work[v].at \in {"visit", "walk"}, work'[v].at \in {"idle", "rows"},
             work'[v].answer # "failed"
      PROVE  \A d \in P!Places \ work[v].touched : Agreed(d, projects', folders')
  <2>1. work'[v].at # work[v].at BY <1>1
  <2>2. P!Visit(v) \/ P!VisitNothing(v) \/ P!Walk(v) \/ P!Fails(v) BY <1>1, <2>1, ItsOwnStep, WhatStep
  <2>3. QED BY <1>1, <2>2, RescanEnds
<1>2. SUFFICES ASSUME NEW v \in Workers, work[v].at \in {"visit", "walk"}, work'[v].at \in {"idle", "rows"},
                      work'[v].answer # "failed", NEW d \in P!Places \ work[v].touched
               PROVE  LET held == {i \in Ids : projects'[i] # None /\ projects'[i].dir = d}
                      IN  /\ folders'[d] # None => \E i \in held : projects'[i].state = "ok"
                          /\ folders'[d] = None => \A i \in held : projects'[i].state = "missing"
  BY DEF P!RescanAgrees
<1>3. Agreed(d, projects', folders') BY <1>1, <1>2
<1>4. QED BY <1>3 DEF Agreed

LEMMA CleanupStep ==
  ASSUME P!ProjectsAssumption, ProjectsInv, P!Next
  PROVE  P!CleanupIsThorough
<1>1. SUFFICES ASSUME NEW v \in Workers, work[v].at = "clean", work'[v].at = "idle",
                      NEW d \in P!Places \ work[v].touched
               PROVE  folders'[d] # None <=> d \in work[v].there \cup work[v].kept
  BY DEF P!CleanupIsThorough
<1>2. PICK t \in Tasks : t = work[v] /\ Knows(t, projects, used, folders, flat) BY DEF ProjectsInv
<1>3. P!Clean(v)
  <2>1. work'[v].at # work[v].at BY <1>1
  <2>2. QED BY <1>1, <2>1, ItsOwnStep, WhatStep
<1>4. CASE t.plan.dirs \ t.seen = {}
  <2>1. UNCHANGED folders BY <1>2, <1>3, <1>4 DEF P!Clean
  <2>2. Unpacked(t, folders) BY <1>1, <1>2 DEF Knows, KnowsFolders
  <2>3. QED BY <1>1, <1>2, <1>4, <2>1, <2>2 DEF Unpacked, Untouched
<1>5. CASE t.plan.dirs \ t.seen # {}
  <2>1. PICK seen, kept, ds : P!Step(v, [t EXCEPT !.seen = seen, !.kept = kept], ds)
    BY <1>2, <1>3, <1>5 DEF P!Clean, P!Removal
  <2>2. work'[v] = [t EXCEPT !.seen = seen, !.kept = kept] BY <2>1, ItsTask
  <2>3. work'[v].at = t.at BY <2>2 DEF Tasks
  <2>4. QED BY <1>1, <1>2, <2>3
<1>6. QED BY <1>4, <1>5

LEMMA MoveStep ==
  ASSUME P!ProjectsAssumption, ProjectsInv, P!Next
  PROVE  P!MoveLosesNothing
<1>1. SUFFICES ASSUME NEW v \in Workers, work[v].at = "move", work'[v].at # "move",
                      NEW d \in P!Places \ work[v].touched
               PROVE  /\ d \in work[v].there <=> (folders'[d] # None) # (flat'[d] # None)
                      /\ work'[v].at = "list" => flat'[d] = None
  BY DEF P!MoveLosesNothing
<1>2. PICK t \in Tasks : t = work[v] /\ Knows(t, projects, used, folders, flat) BY DEF ProjectsInv
<1>3. P!Move(v) \/ P!Moved(v)
  <2>1. work'[v].at # work[v].at BY <1>1
  <2>2. QED BY <1>1, <2>1, ItsOwnStep, WhatStep
<1>4. Movable(t, folders, flat) /\ d \in Untouched(t)
  BY <1>1, <1>2 DEF Knows, KnowsFolders, Untouched
<1>5. CASE P!Moved(v)
  <2>1. UNCHANGED <<folders, flat>> /\ t.seen = {} BY <1>2, <1>5 DEF P!Moved
  <2>2. QED BY <1>2, <1>4, <2>1 DEF Movable
<1>6. CASE P!Move(v)
  <2>1. UNCHANGED <<folders, flat>> /\ P!End(v, "failed")
    <3>1. ASSUME NEW seen, NEW ds, P!Step(v, [t EXCEPT !.seen = seen], ds) PROVE FALSE
      <4>1. work'[v] = [t EXCEPT !.seen = seen] BY <3>1, ItsTask
      <4>2. work'[v].at = t.at BY <4>1 DEF Tasks
      <4>3. QED BY <1>1, <1>2, <4>2
    <3>2. QED BY <1>2, <1>6, <3>1 DEF P!Move
  <2>2. work'[v].at = "idle"
    <3>1. work'[v] = P!Ended("failed") BY <2>1, ItsTask DEF P!End
    <3>2. QED BY <3>1, EndedIsATask
  <2>3. QED BY <1>2, <1>4, <2>1, <2>2 DEF Movable
<1>7. QED BY <1>3, <1>5, <1>6

LEMMA KeepsEditsStep ==
  ASSUME P!ProjectsAssumption, ProjectsInv, P!Next
  PROVE  P!ImportKeepsEdits
<1>1. ASSUME NEW v \in Workers, NEW i \in P!Live, work[v].op = "zip", work[v].at \in {"tag", "patch"},
             work'[v].at # work[v].at, projects[i].dir \in work[v].there
      PROVE  projects'[i] = projects[i]
  <2>1. PICK t \in Tasks : t = work[v] /\ Knows(t, projects, used, folders, flat) BY DEF ProjectsInv
  <2>2. P!TagSidecar(v) \/ P!PatchSidecar(v) \/ P!Fails(v) BY <1>1, ItsOwnStep, WhatStep
  <2>3. /\ t.todo # {} /\ \A p \in t.todo : Noted(p.id, p.dir, projects, used) /\ p.dir \in t.plan.dirs
        /\ t.plan.dirs \cap t.there = {}
    BY <1>1, <2>1 DEF Knows, KnowsRows, KnowsItself, Apart
  <2>4. PICK p : p = P!First(t.todo) OBVIOUS
  <2>5. p \in t.todo BY <2>3, <2>4, NextNoted
  <2>6. i \in Ids /\ projects[i] # None /\ projects \in [Ids -> P!Rows \cup {None}]
    BY DEF P!Live, ProjectsInv, RowsTyped
  <2>7. i # p.id BY <1>1, <2>1, <2>3, <2>5, <2>6 DEF Noted
  <2>8. CASE P!TagSidecar(v)
    <3>1. projects' = projects \/ projects' = [projects EXCEPT ![p.id].tags = @ \cup t.sidecar.tags]
      BY <2>1, <2>4, <2>8 DEF P!TagSidecar
    <3>2. QED BY <2>6, <2>7, <3>1
  <2>9. CASE P!PatchSidecar(v)
    <3>1. \/ projects' = projects
          \/ projects' = [projects EXCEPT ![p.id].website = t.sidecar.website,
                                          ![p.id].archived = t.sidecar.archived]
      BY <2>1, <2>4, <2>9 DEF P!PatchSidecar
    <3>2. QED BY <2>6, <2>7, <3>1
  <2>10. CASE P!Fails(v) BY <2>10 DEF P!Fails
  <2>11. QED BY <2>2, <2>8, <2>9, <2>10
<1>2. QED BY <1>1 DEF P!ImportKeepsEdits

(* What ProjectsInv says holds for as long as the library is used.           *)
THEOREM ProjectsInvAlways ==
  ASSUME P!ProjectsAssumption PROVE P!Spec => []ProjectsInv
<1>1. (P!Init => ProjectsInv) /\ (ProjectsInv /\ [P!Next]_(P!vars) => ProjectsInv')
  BY InitHolds, NextKeeps
<1>2. QED BY <1>1, PTL DEF P!Spec

(* Whatever requests, rescans, imports and the user's file manager do, every *)
(* row names a folder and a state, an id is given once, and no two projects  *)
(* have one folder.                                                          *)
THEOREM ProjectsTypeCorrect ==
  ASSUME P!ProjectsAssumption PROVE P!Spec => []P!TypeOK
<1>1. ASSUME ProjectsInv PROVE P!TypeOK
  <2>1. RowsTyped(projects, used) /\ RestTyped /\ work \in [Workers -> Tasks] BY <1>1 DEF ProjectsInv
  <2>2. \A i \in P!Live : projects[i] \in P!Rows /\ i \in Ids /\ projects[i] # None
    BY <1>1, LiveRow DEF P!Live
  <2>3. P!Live \subseteq used /\ used \subseteq Ids BY <2>1, <2>2 DEF RowsTyped
  <2>4. \A i \in P!Live : projects[i].dir \in P!Places /\ projects[i].state \in {"ok", "missing"}
    BY <2>2 DEF P!Rows
  <2>5. \A i, j \in P!Live : projects[i].dir = projects[j].dir => i = j BY <2>1, <2>2 DEF RowsTyped
  <2>6. \A w \in Workers : work[w].touched \subseteq P!Places /\ work[w].seen \subseteq P!Places
    BY <2>1 DEF Tasks
  <2>7. QED BY <2>1, <2>3, <2>4, <2>5, <2>6 DEF P!TypeOK, RestTyped
<1>2. QED BY <1>1, ProjectsInvAlways, PTL

(* A rescan that answers leaves every folder nobody else touched with a row  *)
(* that is ok, and every row without a folder missing; an archive that fails *)
(* at any entry leaves the folders as they were, those aside that could not  *)
(* be removed; a move that any rename may stop loses and doubles no folder;  *)
(* and no import writes over what a user edited of a project that was there. *)
THEOREM FoldersAndRowsAgreeAlways ==
  ASSUME P!ProjectsAssumption PROVE P!Spec => P!FoldersAndRowsAgree
<1>1. ProjectsInv /\ [P!Next]_(P!vars)
        => [P!RescanAgrees /\ P!CleanupIsThorough /\ P!MoveLosesNothing /\ P!ImportKeepsEdits]_(P!vars)
  BY RescanAgreesStep, CleanupStep, MoveStep, KeepsEditsStep
<1>2. QED BY <1>1, ProjectsInvAlways, PTL DEF P!Spec, P!FoldersAndRowsAgree
=============================================================================
