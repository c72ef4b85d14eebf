-------------------------------- MODULE Launch --------------------------------
(* Handing a file to a slicer: the configuration of the slicers on this       *)
(* machine (slicers.json: detection, the manual entry and its dialog,         *)
(* bindings, re-resolving an install) and the launch that reads it, copies,    *)
(* strips or downloads the file, records it and spawns.                       *)
(*                                                                            *)
(* Every command runs on a thread of its own and takes no lock: what it       *)
(* loaded may be old when it writes, and a launch asks four times which       *)
(* library is open.  Meanwhile slicers are updated and uninstalled and the    *)
(* app may die.                                                               *)
EXTENDS Integers, Sequences, FiniteSets, SequencesExt

CONSTANTS
  Workers,       \* commands that may run at once
  Slicers,       \* the products, by name
  Keyed, Manual, \* installs by origin key: what detection finds, what is added by hand
  SlicerOf,      \* the product of each install
  Paths,         \* executables, by path
  ExeOf,         \* the product whose executable name a path carries, or None
  Absolute,      \* the paths that are absolute
  Files,         \* the files of the library a launch may name
  Libraries,     \* what may be open: a local folder or a server
  IsServer,      \* which of them are servers
  Machines,      \* the machines to start from: uninstall rows and files there
  Stored,        \* the slicers.json files to start from
  None,
  MaxOps,        \* bound: the commands begun
  MaxEvents      \* bound: what happens to the machine, the mode and the app

Installs == Keyed \cup Manual

(* What slicers.json may hold, and what a launch leaves in its directory.     *)
RowsOf(hints) == UNION {[D -> [hint : hints, missing : BOOLEAN]] : D \in SUBSET Installs}
Rows  == RowsOf(Paths)
Binds == UNION {[D -> Installs] : D \in SUBSET Slicers}
Stores == [state : {"absent", "garbage", "newer", "v1"}, rows : RowsOf(Paths \cup {None}),
           bind : Binds, default : Slicers \cup {None}]
LaunchRecords == [library : Libraries \cup {None}, slicer : Slicers]
Dirs == [holds : {"nothing", "part", "download", "copy"}, record : LaunchRecords \cup {None},
         from : Libraries \cup {None}]
Answers == {"done", "refused", "failed", "cancelled", "crashed", "unrecorded", "launched"}

ASSUME LaunchAssumption ==
  /\ Keyed \cap Manual = {} /\ Absolute \subseteq Paths /\ IsServer \subseteq Libraries
  /\ SlicerOf \in [Installs -> Slicers] /\ ExeOf \in [Paths -> Slicers \cup {None}]
  /\ MaxOps \in Nat /\ MaxEvents \in Nat
ASSUME StartAssumption ==
  /\ Stored \subseteq Stores
  /\ \A m \in Machines : m.rows \in Seq([id : Keyed, path : Paths]) /\ m.present \subseteq Paths
ASSUME NoneAssumption ==
  None \notin Slicers \cup Installs \cup Paths \cup Libraries \cup LaunchRecords
         \cup Dirs \cup Answers

VARIABLES
  stored,     \* slicers.json: its state, its rows, its bindings and its default
  rows,       \* what the uninstall keys and packages say, in order
  present,    \* the paths that are regular files
  opened,     \* the library that is open, or None
  work,       \* work[w]: what worker w is doing
  flight,     \* the flight of the executable dialog: None, or its leader and answer
  pickingFor, \* the slicer the dialog is about
  dirs,       \* dirs[w]: the launch directory worker w made, or None
  child,      \* child[w]: the process worker w spawned, and who watches it
  ops, events

machine == <<rows, present>>
dialog  == <<flight, pickingFor>>
disk    == <<dirs, child>>
vars == <<stored, machine, opened, work, dialog, disk, ops, events>>

-----------------------------------------------------------------------------
(* The registry: the measured behaviour of each product.                      *)

OpensStep        == Slicers \ {"cura"}
SavesInPlace     == Slicers \ {"cura"}
DiscardsForeign  == Slicers \cap {"anycubic"}
PromptsOn3mf     == Slicers \cap {"prusaslicer"}
PromptsWithoutOwn == Slicers \cap {"bambu"}

(* notices: what is said of a launch, from the slicer, the source and whether *)
(* the copy was stripped.                                                     *)
Notices(s, author, is3mf, stripped, remote) ==
     (IF s \in PromptsOn3mf /\ is3mf THEN {"prompts"} ELSE {})
  \cup (IF s \in PromptsWithoutOwn /\ is3mf /\ (stripped \/ author # s)
        THEN {"geometry only"} ELSE {})
  \cup (IF s \in DiscardsForeign /\ ~stripped /\ author \in {"bambu", "orca"}
        THEN {"may discard"} ELSE {})
  \cup (IF s = "orca" /\ author \notin {None, s}
        THEN {IF stripped THEN "geometry data" ELSE "version"} ELSE {})
  \cup (IF remote /\ s \notin SavesInPlace THEN {"nothing comes back"} ELSE {})

-----------------------------------------------------------------------------
(* slicers.json.  A row is a hint of a path and whether the install is        *)
(* missing; a row no build would write is one without a hint.                 *)

Empty == [rows |-> [i \in {} |-> None], bind |-> [s \in {} |-> None], default |-> None]

(* read_config: rows that are not rows are dropped, and bindings to an        *)
(* install that is not there or is another product's.                         *)
ReadConfig(file) ==
  IF file.state # "v1" THEN [config |-> Empty, writable |-> file.state # "newer"]
  ELSE LET good  == {i \in DOMAIN file.rows : file.rows[i].hint # None}
           bound == {s \in DOMAIN file.bind : file.bind[s] \in good /\ SlicerOf[file.bind[s]] = s}
       IN  [writable |-> TRUE,
            config |-> [rows |-> Restrict(file.rows, good), bind |-> Restrict(file.bind, bound),
                        default |-> file.default]]

(* A read that fails for any other reason than an absent file is taken for    *)
(* one: nothing is configured, and what is saved next replaces the file.      *)
Unread == [config |-> Empty, writable |-> TRUE]
Readings == {ReadConfig(stored), Unread}

Written(config) == [state |-> "v1", rows |-> config.rows, bind |-> config.bind,
                    default |-> config.default]

Usable(rs, s) == {i \in DOMAIN rs : SlicerOf[i] = s /\ ~rs[i].missing}

(* auto_bind: the bindings there is no choice about, over the products in     *)
(* `among`.                                                                   *)
AutoBind(bind, rs, among) ==
  LET only == {s \in among \ DOMAIN bind : Cardinality(Usable(rs, s)) = 1}
  IN  [s \in DOMAIN bind \cup only |->
         IF s \in DOMAIN bind THEN bind[s] ELSE CHOOSE i \in Usable(rs, s) : TRUE]

MergeDropping(config, found) ==
  LET manual == {i \in DOMAIN config.rows : i \in Manual}
      merged == [i \in manual \cup DOMAIN found |->
                   IF i \in DOMAIN found THEN [hint |-> found[i], missing |-> FALSE] ELSE config.rows[i]]
  IN  [config EXCEPT !.rows = merged, !.bind = AutoBind(config.bind, merged, Slicers)]

(* merge_detected: what was found is there, what was not is missing, what was *)
(* added by hand is as it was.                                                *)
MergeDetected(config, found) ==
  LET row(i) == IF i \in DOMAIN found THEN [hint |-> found[i], missing |-> FALSE]
                ELSE IF i \in Manual THEN config.rows[i]
                ELSE [config.rows[i] EXCEPT !.missing = TRUE]
      merged == [i \in DOMAIN config.rows \cup DOMAIN found |-> row(i)]
  IN  [config EXCEPT !.rows = merged, !.bind = AutoBind(config.bind, merged, Slicers)]

WithManual(config, i, path) ==
  LET added == [j \in DOMAIN config.rows \cup {i} |->
                  IF j = i THEN [hint |-> path, missing |-> FALSE] ELSE config.rows[j]]
  IN  [config EXCEPT !.rows = added, !.bind = AutoBind(config.bind, added, {SlicerOf[i]})]

WithoutRow(config, i) == [config EXCEPT !.rows = Restrict(config.rows, DOMAIN config.rows \ {i})]
WithoutInstall(config, i) ==
  [config EXCEPT !.rows = Restrict(config.rows, DOMAIN config.rows \ {i}),
                 !.bind = Restrict(config.bind, {s \in DOMAIN config.bind : config.bind[s] # i})]

Bound(config, s, i) ==
  [config EXCEPT !.bind = IF i = None THEN Restrict(@, DOMAIN @ \ {s})
                          ELSE [t \in DOMAIN @ \cup {s} |-> IF t = s THEN i ELSE @[t]]]

Preferred(config, s) == [config EXCEPT !.default = s]

Fresh == Written(Empty)

-----------------------------------------------------------------------------
(* Detection: one subprocess.  A row counts if its name is a product's and    *)
(* its icon is that product's executable, absolute and there; of two rows of  *)
(* one key the first counts.                                                  *)

Validated(row) == /\ row.path \in Absolute /\ row.path \in present
                  /\ ExeOf[row.path] = SlicerOf[row.id]

Counting(i) == {k \in DOMAIN rows : Validated(rows[k]) /\ rows[k].id = i}
First(i) == CHOOSE k \in Counting(i) : \A j \in Counting(i) : k <= j
Detected == [i \in {j \in Keyed : Counting(j) # {}} |-> rows[First(i)].path]

(* A run that answers: what is there, or nothing for an answer that is no     *)
(* JSON.                                                                      *)
DetectionResults == {Detected, [i \in {} |-> None]}

(* hint_still_good: a path the user named need not carry the product's name.  *)
HintIsThere(i, hint) == hint \in present
HintStillGood(i, hint) == hint \in present /\ (i \in Manual \/ ExeOf[hint] = SlicerOf[i])

-----------------------------------------------------------------------------
(* Workers.                                                                   *)

Idle == [op |-> "idle", at |-> "idle", slicer |-> None, install |-> None, read |-> None,
         found |-> None, path |-> None, file |-> None, mode |-> None, remote |-> None,
         source |-> None, key |-> None, plan |-> None, answer |-> None]

At(w, op, at) == work[w].op = op /\ work[w].at = at
Goto(w, at)   == work' = [work EXCEPT ![w].at = at]
FinishKeeping(w, answer) == work' = [work EXCEPT ![w].at = "idle", ![w].answer = answer]
Finish(w, answer) == work' = [work EXCEPT ![w] = [Idle EXCEPT !.answer = answer]]

Begin(w, task) ==
  /\ ops' = ops + 1
  /\ work' = [work EXCEPT ![w] = task]
  /\ dirs' = [dirs EXCEPT ![w] = None]
  /\ child' = [child EXCEPT ![w] = None]
  /\ UNCHANGED <<stored, machine, opened, dialog, events>>

Task(op, at) == [Idle EXCEPT !.op = op, !.at = at]

(* The commands of the settings page that load, change and save.              *)
BeginEdit(w) ==
  \/ Begin(w, Task("scan", "load"))
  \/ \E i \in Installs : Begin(w, [Task("remove", "load") EXCEPT !.install = i])
  \/ \E s \in Slicers, i \in Installs \cup {None} :
       Begin(w, [Task("bind", "load") EXCEPT !.slicer = s, !.install = i])
  \/ \E s \in Slicers \cup {None} : Begin(w, [Task("default", "load") EXCEPT !.slicer = s])
  \/ Begin(w, Task("reset", "save"))

Load(w) ==
  /\ work[w].at = "load"
  /\ \E read \in Readings :
       LET scans == work[w].op = "scan" /\ read.writable
       IN  work' = [work EXCEPT ![w].read = read, ![w].at = IF scans THEN "detect" ELSE "save"]
  /\ UNCHANGED <<stored, machine, opened, dialog, disk, ops, events>>

(* detect, of a scan: a run that fails is the command's failure.              *)
Detect(w) ==
  /\ At(w, "scan", "detect")
  /\ \/ Finish(w, "failed")
     \/ \E found \in DetectionResults :
          work' = [work EXCEPT ![w].found = found, ![w].at = "save"]
  /\ UNCHANGED <<stored, machine, opened, dialog, disk, ops, events>>

(* What the command asks for, or why it is refused, from what was loaded.     *)
Edited(w) ==
  LET task == work[w]
      config == task.read.config
      known == task.install \in DOMAIN config.rows
  IN  CASE task.op = "scan"    -> [refused |-> FALSE, config |-> MergeDetected(config, task.found)]
        [] task.op = "remove"  -> [refused |-> ~known, config |-> WithoutInstall(config, task.install)]
        [] task.op = "bind"    -> [refused |-> task.install # None
                                               /\ ~(known /\ SlicerOf[task.install] = task.slicer),
                                   config |-> Bound(config, task.slicer, task.install)]
        [] task.op = "default" -> [refused |-> FALSE, config |-> Preferred(config, task.slicer)]

(* save: a file of a newer build is left alone, and only reset replaces it.   *)
Save(w) ==
  /\ work[w].at = "save" /\ work[w].op # "add"
  /\ IF work[w].op = "reset"
     THEN stored' = Fresh /\ Finish(w, "done")
     ELSE IF ~work[w].read.writable \/ Edited(w).refused
     THEN Finish(w, "refused") /\ UNCHANGED stored
     ELSE stored' = Written(Edited(w).config) /\ Finish(w, "done")
  /\ UNCHANGED <<machine, opened, dialog, disk, ops, events>>

-----------------------------------------------------------------------------
(* add_manual and its dialog: one flight, whose leader asks.                  *)

BeginAdd(w) == \E s \in Slicers : Begin(w, [Task("add", "claim") EXCEPT !.slicer = s])

(* picking_for: another slicer's question is refused.                         *)
ClaimDialog(w) ==
  /\ At(w, "add", "claim")
  /\ IF pickingFor \notin {None, work[w].slicer}
     THEN Finish(w, "refused") /\ UNCHANGED pickingFor
     ELSE pickingFor' = work[w].slicer /\ Goto(w, "run")
  /\ UNCHANGED <<stored, machine, opened, flight, disk, ops, events>>

(* SingleFlight::run: the first leads, the others wait for its answer.        *)
RunDialog(w) ==
  /\ At(w, "add", "run")
  /\ IF flight = None
     THEN flight' = [leader |-> w, answer |-> None, about |-> work[w].slicer] /\ Goto(w, "asking")
     ELSE Goto(w, "waiting") /\ UNCHANGED flight
  /\ UNCHANGED <<stored, machine, opened, pickingFor, disk, ops, events>>

(* The user names a path, or cancels; a path that is no file is refused.      *)
AnswerDialog(w) ==
  /\ At(w, "add", "asking")
  /\ \E path \in Paths \cup {None} :
       IF path \notin present
       THEN work' = [work EXCEPT ![w].answer = IF path = None THEN "cancelled" ELSE "refused",
                                 ![w].at = "unclaim"]
       ELSE work' = [work EXCEPT ![w].path = path, ![w].at = "load"]
  /\ UNCHANGED <<stored, machine, opened, dialog, disk, ops, events>>

(* The id is a new one; Manual bounds how many there can be.                  *)
NewIds(task) == {i \in Manual \ (DOMAIN stored.rows \cup DOMAIN task.read.config.rows) :
                   SlicerOf[i] = task.slicer}

SaveManual(w) ==
  /\ At(w, "add", "save")
  /\ IF work[w].read.writable
     THEN /\ \E i \in NewIds(work[w]) :
               stored' = Written(WithManual(work[w].read.config, i, work[w].path))
          /\ work' = [work EXCEPT ![w].answer = "done", ![w].at = "unclaim"]
     ELSE /\ work' = [work EXCEPT ![w].answer = "refused", ![w].at = "unclaim"]
          /\ UNCHANGED stored
  /\ UNCHANGED <<machine, opened, dialog, disk, ops, events>>

(* The closure's last line, before the flight has its answer.                 *)
Unclaim(w) ==
  /\ At(w, "add", "unclaim")
  /\ pickingFor' = None
  /\ Goto(w, "land")
  /\ UNCHANGED <<stored, machine, opened, flight, disk, ops, events>>

LandDialog(w) ==
  /\ At(w, "add", "land")
  /\ flight' = None
  /\ work' = [v \in Workers |->
                IF v = w THEN [Idle EXCEPT !.answer = work[w].answer]
                ELSE IF At(v, "add", "waiting")
                THEN [Idle EXCEPT !.answer = work[w].answer, !.slicer = work[v].slicer,
                                  !.source = flight.about]
                ELSE work[v]]
  /\ UNCHANGED <<stored, machine, opened, pickingFor, disk, ops, events>>

-----------------------------------------------------------------------------
(* open: everything that can refuse cheaply, then the copy, the record, the   *)
(* spawn.                                                                     *)

BeginLaunch(w) ==
  \E f \in Files, m \in {"as-is", "new"}, s \in Slicers \cup {None} :
    Begin(w, [Task("open", "mode") EXCEPT !.file = f, !.mode = m, !.slicer = s])

ReadMode(w) ==
  /\ At(w, "open", "mode")
  /\ work' = [work EXCEPT ![w].remote = opened \in IsServer, ![w].at = "source"]
  /\ UNCHANGED <<stored, machine, opened, dialog, disk, ops, events>>

(* local_source or remote_source: the library of that kind, if it is open.    *)
Answering(remote) == IF opened # None /\ (opened \in IsServer) = remote THEN opened ELSE None

FindSource(w) ==
  /\ At(w, "open", "source")
  /\ IF Answering(work[w].remote) = None THEN Finish(w, "refused")
     ELSE work' = [work EXCEPT ![w].source = Answering(work[w].remote), ![w].at = "choose"]
  /\ UNCHANGED <<stored, machine, opened, dialog, disk, ops, events>>

(* choose_slicer: the choice, else the file's own for as-is, else the default.*)
ChosenSlicer(task, config) ==
  IF task.slicer # None THEN task.slicer
  ELSE IF task.mode = "as-is" /\ task.file.author # None THEN task.file.author
  ELSE config.default

ChooseInstall(w) ==
  /\ At(w, "open", "choose")
  /\ \E read \in Readings :
       LET bind == read.config.bind
           s == ChosenSlicer(work[w], read.config)
       IN  IF \/ s = None
              \/ work[w].file.ext = "step" /\ s \notin OpensStep
              \/ s \notin DOMAIN bind
           THEN Finish(w, "refused")
           ELSE work' = [work EXCEPT ![w].slicer = s, ![w].install = bind[s], ![w].at = "resolve"]
  /\ UNCHANGED <<stored, machine, opened, dialog, disk, ops, events>>

(* resolve_install loads again: one stat of the hint in the common case.      *)
Resolve(w) ==
  /\ At(w, "open", "resolve")
  /\ \E read \in Readings :
       LET i == work[w].install
       IN  IF i \notin DOMAIN read.config.rows THEN Finish(w, "refused")
           ELSE IF HintStillGood(i, read.config.rows[i].hint)
           THEN work' = [work EXCEPT ![w].path = read.config.rows[i].hint, ![w].at = "key"]
           ELSE work' = [work EXCEPT ![w].read = read, ![w].at = "redetect"]
  /\ UNCHANGED <<stored, machine, opened, dialog, disk, ops, events>>

(* Re-resolving: a manual install has nothing to find, a run that fails says  *)
(* nothing about it, and what is found is looked at once more.                *)
Redetect(w) ==
  LET i == work[w].install
      answers == IF i \in Manual THEN {[j \in {} |-> None]} ELSE DetectionResults
  IN  /\ At(w, "open", "redetect")
      /\ \/ i \in Keyed /\ Finish(w, "failed")
         \/ \E found \in answers :
              work' = [work EXCEPT ![w].found = found, ![w].at = "rewrite"]
      /\ UNCHANGED <<stored, machine, opened, dialog, disk, ops, events>>

Rewrite(w) ==
  LET task == work[w]
      i == task.install
      path == IF i \in DOMAIN task.found THEN task.found[i] ELSE None
      gone == path = None \/ path \notin present
      config == [task.read.config EXCEPT
                   !.rows[i] = IF gone THEN [@ EXCEPT !.missing = TRUE]
                               ELSE [hint |-> path, missing |-> FALSE]]
  IN  /\ At(w, "open", "rewrite")
      /\ stored' = IF task.read.writable THEN Written(config) ELSE stored
      /\ IF gone THEN Finish(w, "refused")
         ELSE work' = [work EXCEPT ![w].path = path, ![w].at = "key"]
      /\ UNCHANGED <<machine, opened, dialog, disk, ops, events>>

(* library_key_of asks again which library is open.                           *)
ReadKey(w) ==
  /\ At(w, "open", "key")
  /\ work' = [work EXCEPT ![w].key = Answering(work[w].remote), ![w].at = "prepare"]
  /\ UNCHANGED <<stored, machine, opened, dialog, disk, ops, events>>

(* What a launch may refuse before it makes a directory, and when it makes    *)
(* none at all.                                                               *)
InPlaceByKind(task) == ~task.remote /\ (task.mode = "as-is" \/ task.file.kind = "model")
InPlace(task) == ~task.remote /\ (task.mode = "as-is" \/ task.file.ext \in {"stl", "obj"})

PrepareRefused(task) ==
  \/ task.mode = "as-is" /\ task.file.kind # "project"
  \/ ~InPlace(task) /\ task.file.record
  \/ task.remote /\ Answering(TRUE) = None

Strips(task) == task.mode = "new" /\ task.file.ext = "3mf"

PlanByIndex(task) ==
  [inPlace |-> InPlace(task), author |-> task.file.author,
   stripped |-> Strips(task) /\ task.file.holds # None]
Plan(task) ==
  [inPlace |-> InPlace(task),
   stripped |-> Strips(task) /\ task.file.holds # None,
   author |-> IF InPlace(task) /\ task.mode = "as-is" THEN task.file.author ELSE task.file.holds]

Prepare(w) ==
  LET task == work[w]
  IN  /\ At(w, "open", "prepare")
      /\ IF PrepareRefused(task) THEN Finish(w, "refused") /\ UNCHANGED dirs
         ELSE IF InPlace(task)
         THEN /\ work' = [work EXCEPT ![w].plan = Plan(task), ![w].at = "spawn"]
              /\ UNCHANGED dirs
         ELSE /\ dirs' = [dirs EXCEPT ![w] = [holds |-> "nothing", record |-> None,
                             from |-> IF task.remote THEN Answering(TRUE) ELSE task.source]]
              /\ Goto(w, IF task.remote THEN "download" ELSE "copy")
      /\ UNCHANGED <<stored, machine, opened, dialog, child, ops, events>>

(* remote_download, beside the name the copy will have.                       *)
Download(w) ==
  /\ At(w, "open", "download")
  /\ dirs[w].holds = "nothing" /\ dirs' = [dirs EXCEPT ![w].holds = "part"]
  /\ UNCHANGED <<stored, machine, opened, work, dialog, child, ops, events>>

DownloadEndsLeaving(w) ==
  /\ At(w, "open", "download")
  /\ dirs[w].holds = "part"
  /\ \/ Goto(w, "copy") /\ dirs' = [dirs EXCEPT ![w].holds = "download"]
     \/ Finish(w, "failed") /\ UNCHANGED dirs
  /\ UNCHANGED <<stored, machine, opened, dialog, child, ops, events>>
DownloadEnds(w) ==
  /\ At(w, "open", "download")
  /\ dirs[w].holds = "part"
  /\ \/ Goto(w, "copy") /\ dirs' = [dirs EXCEPT ![w].holds = "download"]
     \/ Finish(w, "failed") /\ dirs' = [dirs EXCEPT ![w] = None]
  /\ UNCHANGED <<stored, machine, opened, dialog, child, ops, events>>

(* The rename, the copy or the strip into the name the slicer is given.       *)
MakeCopy(w) ==
  LET task == work[w]
      fine == ~(Strips(task) /\ task.file.refuses)
  IN  /\ At(w, "open", "copy")
      /\ \/ /\ fine
            /\ dirs' = [dirs EXCEPT ![w].holds = "copy"]
            /\ work' = [work EXCEPT ![w].plan = Plan(task), ![w].at = "record"]
         \/ dirs' = [dirs EXCEPT ![w] = None] /\ Finish(w, "refused")
      /\ UNCHANGED <<stored, machine, opened, dialog, child, ops, events>>

(* entry_hash, entry_digests and the record: a failure here leaves the        *)
(* directory.                                                                 *)
WriteRecord(w) ==
  /\ At(w, "open", "record")
  /\ \/ /\ work[w].file.hashes
        /\ dirs' = [dirs EXCEPT ![w].record = [library |-> work[w].key, slicer |-> work[w].slicer]]
        /\ Goto(w, "spawn")
     \/ Finish(w, "unrecorded") /\ UNCHANGED dirs
  /\ UNCHANGED <<stored, machine, opened, dialog, child, ops, events>>

(* spawn_or_clean, then on_launched with the exit watch.  A process whose      *)
(* watching thread cannot start runs on, though the launch has failed.        *)
Spawn(w) ==
  LET task == work[w]
  IN  /\ At(w, "open", "spawn")
      /\ \/ /\ task.path \in present
            /\ child' = [child EXCEPT ![w] =
                 [slicer |-> task.slicer, install |-> task.install, path |-> task.path,
                  file |-> task.file, plan |-> task.plan, remote |-> task.remote,
                  says |-> Notices(task.slicer, task.plan.author, task.file.ext = "3mf",
                                   task.plan.stripped, task.remote),
                  mode |-> task.mode, exited |-> FALSE, watch |-> "none", told |-> 0]]
            /\ \/ Goto(w, "launched") /\ UNCHANGED dirs
               \/ Finish(w, "failed") /\ dirs' = [dirs EXCEPT ![w] = None]
         \/ /\ dirs' = [dirs EXCEPT ![w] = None]
            /\ Finish(w, "failed")
            /\ UNCHANGED child
      /\ UNCHANGED <<stored, machine, opened, dialog, ops, events>>

(* on_exit: a child that has ended already is told of at once.                *)
WatchedBlindly(c) == [c EXCEPT !.watch = "set"]
Watched(c) == IF c.exited THEN [c EXCEPT !.told = @ + 1, !.watch = "done"]
              ELSE [c EXCEPT !.watch = "set"]

(* on_launched registers the callback; an in-place launch watches nothing.    *)
OnLaunched(w) ==
  /\ At(w, "open", "launched")
  /\ child' = IF dirs[w] = None THEN child ELSE [child EXCEPT ![w] = Watched(@)]
  /\ Finish(w, "launched")
  /\ UNCHANGED <<stored, machine, opened, dialog, dirs, ops, events>>

(* The waiter thread: the child has ended, and whoever watches is told.       *)
ChildExits(w) ==
  /\ child[w] # None /\ ~child[w].exited
  /\ child' = IF child[w].watch = "set"
              THEN [child EXCEPT ![w].exited = TRUE, ![w].told = @ + 1, ![w].watch = "done"]
              ELSE [child EXCEPT ![w].exited = TRUE]
  /\ UNCHANGED <<stored, machine, opened, work, dialog, dirs, ops, events>>

-----------------------------------------------------------------------------
(* The world.                                                                 *)

Happens == events < MaxEvents /\ events' = events + 1

(* An update moves a slicer; an uninstall takes its row and its file.         *)
MoveInstall(k, path) ==
  /\ k \in DOMAIN rows
  /\ rows' = [rows EXCEPT ![k].path = path]
  /\ present' = (present \ {rows[k].path}) \cup {path}
  /\ UNCHANGED <<stored, opened, work, dialog, disk, ops>>

Uninstall(k) ==
  /\ k \in DOMAIN rows
  /\ rows' = RemoveAt(rows, k)
  /\ present' = present \ {rows[k].path}
  /\ UNCHANGED <<stored, opened, work, dialog, disk, ops>>

SwitchLibrary(l) ==
  /\ opened # l
  /\ opened' = l
  /\ UNCHANGED <<stored, machine, work, dialog, disk, ops>>

(* The app dies: what it was doing and asking is gone, the disk and the       *)
(* slicers it started are not.                                                *)
Crash ==
  /\ work' = [w \in Workers |-> [Idle EXCEPT !.answer = IF work[w].at = "idle" THEN work[w].answer ELSE "crashed"]]
  /\ flight' = None /\ pickingFor' = None
  /\ child' = [w \in Workers |-> IF child[w] # None THEN [child[w] EXCEPT !.watch = "gone"] ELSE None]
  /\ UNCHANGED <<stored, machine, opened, dirs, ops>>

Init ==
  /\ stored \in Stored
  /\ \E m \in Machines : rows = m.rows /\ present = m.present
  /\ opened \in Libraries
  /\ work = [w \in Workers |-> Idle]
  /\ flight = None /\ pickingFor = None
  /\ dirs = [w \in Workers |-> None]
  /\ child = [w \in Workers |-> None]
  /\ ops = 0 /\ events = 0

Starts(w) == /\ work[w].at = "idle" /\ ops < MaxOps
             /\ BeginEdit(w) \/ BeginAdd(w) \/ BeginLaunch(w)

Steps(w) ==
  \/ Load(w) \/ Detect(w) \/ Save(w)
  \/ ClaimDialog(w) \/ RunDialog(w) \/ AnswerDialog(w) \/ SaveManual(w) \/ Unclaim(w) \/ LandDialog(w)
  \/ ReadMode(w) \/ FindSource(w) \/ ChooseInstall(w) \/ Resolve(w) \/ Redetect(w) \/ Rewrite(w)
  \/ ReadKey(w) \/ Prepare(w) \/ Download(w) \/ DownloadEnds(w) \/ MakeCopy(w) \/ WriteRecord(w)
  \/ Spawn(w) \/ OnLaunched(w)

World ==
  /\ Happens
  /\ \/ \E k \in DOMAIN rows : Uninstall(k) \/ \E p \in Absolute : MoveInstall(k, p)
     \/ \E l \in Libraries \cup {None} : SwitchLibrary(l)
     \/ Crash

Next == \/ \E w \in Workers : Starts(w) \/ Steps(w) \/ ChildExits(w)
        \/ World

Spec == Init /\ [][Next]_vars

-----------------------------------------------------------------------------
(* Properties.                                                                *)

(* The variables have their types: what the app wrote is a whole              *)
(* configuration, and a worker at rest holds nothing of a command.            *)
TypeOK ==
  /\ stored.state \in {"absent", "garbage", "newer", "v1"}
  /\ stored \notin Stored => stored.rows \in Rows /\ stored.bind \in Binds
                             /\ stored.default \in Slicers \cup {None}
  /\ present \subseteq Paths /\ opened \in Libraries \cup {None}
  /\ pickingFor \in Slicers \cup {None}
  /\ flight # None => flight.leader \in Workers
  /\ \A w \in Workers :
       /\ work[w].at = "idle" => work[w].op = "idle" /\ work[w].file = None
       /\ dirs[w] # None => dirs[w].holds \in {"nothing", "part", "download", "copy"}
       /\ child[w] # None => child[w].install \in Installs /\ child[w].path \in Paths
  /\ ops \in 0..MaxOps /\ events \in 0..MaxEvents

(* hint_still_good and validated_executable: whatever was edited, moved or     *)
(* saved over between the click and the spawn, an executable the app started   *)
(* carries the name of the product it was started as, unless the user named   *)
(* it in the dialog.                                                          *)
SpawnIsVetted ==
  \A w \in Workers : child[w] # None =>
    /\ SlicerOf[child[w].install] = child[w].slicer
    /\ child[w].install \in Keyed => ExeOf[child[w].path] = child[w].slicer

(* launch.rs open: a slicer that was reported as launched with a copy has the *)
(* finished copy and the record that will explain what comes back; a launch   *)
(* that was refused or failed leaves no directory behind; a directory without *)
(* a record is a failed record or a crash.                                    *)
LaunchIsExplained ==
  \A w \in Workers :
    LET answer == work[w].answer
    IN  /\ child[w] # None /\ ~child[w].plan.inPlace /\ answer # "failed" =>
             /\ dirs[w] # None /\ dirs[w].holds = "copy"
             /\ dirs[w].record # None /\ dirs[w].record.slicer = child[w].slicer
        /\ work[w].at = "idle" /\ dirs[w] # None =>
             answer = "launched" \/ (dirs[w].record = None /\ answer = "unrecorded")
             \/ answer = "crashed"

(* prepare: the library's own file is handed over only where the user asked   *)
(* for it as it is, or where a slicer cannot save over it; a 3mf opened for a *)
(* new project, read as a mesh or not, is never that file.                    *)
OriginalIsKept ==
  \A w \in Workers : child[w] # None /\ child[w].plan.inPlace =>
    /\ ~child[w].remote
    /\ child[w].mode = "new" => child[w].file.ext # "3mf"
    /\ child[w].mode = "as-is" => child[w].file.kind = "project"

(* notices: Anycubic drops what another product configured, so bytes it is    *)
(* handed with such a configuration in them are announced, except where the   *)
(* launch is in place and the index no longer says what the file holds.       *)
DiscardIsWarned ==
  \A w \in Workers : child[w] # None =>
    LET c == child[w]
    IN  c.slicer = "anycubic" /\ c.file.holds \in {"bambu", "orca"} /\ ~c.plan.stripped
          /\ ~(c.plan.inPlace /\ c.file.author # c.file.holds)
        => "may discard" \in c.says

(* spawn.rs on_exit: however the exit and the registration interleave, a      *)
(* watched launch hears of its exit once, unless the app died in between.     *)
ExitIsToldOnce ==
  \A w \in Workers : child[w] # None =>
    /\ child[w].told <= 1
    /\ child[w].exited /\ work[w].answer = "launched" /\ dirs[w] # None
         /\ child[w].watch # "gone" => child[w].told = 1

(* merge_detected, add_manual and a re-resolving launch: over the              *)
(* configuration they loaded, they re-point no binding, forget no install,    *)
(* keep the default, and leave what was added by hand alone except that a     *)
(* launch marks it missing.                                                   *)
ChoicesAreKept ==
  \A w \in Workers :
       LET old == ReadConfig(stored).config
           new == ReadConfig(stored').config
       IN  stored' # stored /\ work'[w] # work[w] /\ work[w].op \in {"scan", "add", "open"}
             /\ work[w].read = ReadConfig(stored)
           => /\ \A s \in DOMAIN old.bind : s \in DOMAIN new.bind /\ new.bind[s] = old.bind[s]
              /\ DOMAIN old.rows \subseteq DOMAIN new.rows
              /\ new.default = old.default
              /\ \A i \in Manual \cap DOMAIN old.rows :
                   new.rows[i].hint = old.rows[i].hint
                   /\ (new.rows[i] = old.rows[i] \/ work[w].op = "open")

(* read_config and the edits: whatever commands overlap and overwrite each    *)
(* other, nothing the app writes is dropped when it is read again.            *)
WrittenReadsBack ==
  stored' # stored =>
       ReadConfig(stored') = [writable |-> TRUE,
         config |-> [rows |-> stored'.rows, bind |-> stored'.bind, default |-> stored'.default]]

(* So no step loses what the user chose.                                      *)
ConfigIsKept == [][ChoicesAreKept /\ WrittenReadsBack]_vars

(* host.rs add_manual: a caller that asks about another slicer is "refused    *)
(* rather than handed the answer to a question it did not ask".               *)
AnswerIsItsOwn == \A w \in Workers : work[w].source # None /\ work[w].at = "idle"
                                       => work[w].source = work[w].slicer

(* What is spawned is what the user chose, what is handed over is explained   *)
(* and announced, and its exit is told once, however commands overlap.        *)
LaunchIsSound ==
  TypeOK /\ SpawnIsVetted /\ LaunchIsExplained /\ OriginalIsKept /\ DiscardIsWarned
    /\ ExitIsToldOnce
=============================================================================
