# slicer-project-manager: models and proofs

This directory holds TLA+ models of slicer-project-manager, the TLC
configurations that check them on small instances, and TLAPS proofs of their
main theorems for every instance. It is meant to be read beside the source:
every definition that models code is traced to its lines in `PROJECT.json`
(`map`), and the places where the code is hard to test are listed there too
(`hazards`).

How to run it, for example:

    tlc -config Parts_all.cfg MCParts.tla
    tlapm PreviewQueue_proofs.tla

| module | what it models | runs | proofs |
|---|---|---|---|
| `PreviewQueue` | the queue that draws thumbnails, with the rescans, saves, deletions and crashes around it | `parts_all`, `upkeep_live`, `preview_png_race` | `PreviewQueue_proofs` |
| `Accounts` | accounts, activation links, sessions, administrators | `requests_all`, `upkeep_live`, `accounts_resurrected` | `Accounts_proofs` |
| `LibraryIndex` | one project's folder and its rows: upload, rename, delete, rescan | `library_shared`, `requests_all` | `Library_proofs` |
| `Projects` | projects, tags and folders: edits, rescan, archive import, command import | `libraries_all` | `Library_proofs` |
| `SlicerSessions` | one file handed to a slicer: watch, compare, sweep, answer | `slicers_all` | `Desktop_proofs` |
| `Launch` | slicers.json, its commands, and the launch of a file | `launch_all` | `Launch_proofs` |
| `Shell` | which library or server the desktop app looks at, and its state.json | `libraries_all` | `Desktop_proofs` |
| `Loopback` | the app's own HTTP server: the gate, the choice of a library, the proxy | `loopback_all` | `Loopback_proofs` |
| `Browse` | the model browser: its view, its downloads, their landing | `browse_all` | `Browse_proofs` |
| `PreviewPipeline`, `Chunks` | one preview job: streams, windows, two passes, limits | `parts_all` | |
| `Archive` | reading, classifying and stripping a 3MF; the verdict on a round trip | `parts_all` | |
| `RateLimiter`, `RateBudget` | the fixed-window limiter, and what it promises | `parts_all` | `Server_proofs` |
| `Startup` | opening a library by several processes; the life of a server | `startup_all` | `Server_proofs` |
| `Sites` | the URLs the program decides by | `parts_all` | |

Each `MC...` module gives one of them the constants of its instances.
`MCParts`, `MCLibraries`, `MCRequests` and `MCUpkeep` put several parts that
share no variable into one run: a variable `part`, chosen by Init, says which of
them is at work, and the others rest, each in a single initial state. So the
states of such a run are the sum of its parts' states, not their product, and a
property of a part is looked at while that part is at work.

The modules take from each other only what reaches them through the database,
the disk or a call, as an action of their own: a rescan is a few actions in
`PreviewQueue`, where its effect on the queue matters, in full in
`LibraryIndex`, where its effect on file rows does, and in `Projects`, where its
effect on projects does; the steps of `Shell` that close and open libraries come
back in `Loopback` without their questions; `Launch` ends where `SlicerSessions`
begins; `PreviewPipeline` is one `Draw` of `PreviewQueue`.

## 1. The system

slicer-project-manager keeps a library of 3D-printing projects: folders of
models and slicer files on disk, an SQLite index of them, and pictures of the
models. It runs as a server (`spm-server`, HTTP) or as a desktop application
(`apps/desktop`, Tauri, on `spm-shell`), on the same core (`spm-core`). Several
processes may have one library open.

| part | state | operations | interacts with |
|---|---|---|---|
| preview queue (`spm-core/previews/queue.rs`, `worker.rs`) | `previews` rows: state, attempts, lease (`claimed_at`), `source_hash`; `<file id>.png` | claim a batch, draw, write the picture, record the outcome | rescan re-queues rows, delete_file removes the picture, hosts call it on a timer |
| preview pipeline (`embedded.rs`, `mesh/*`, `raster.rs`, `png.rs`) | none (streaming) | read a thumbnail, parse a mesh, draw it | called by the queue |
| library index (`projects/rescan.rs`, `files/usecases.rs`) | `files` rows; the files of a folder | rescan, upload, rename, delete | each other, through the disk and the database |
| projects and imports (`projects/usecases.rs`, `import_zip.rs`, `import_curamanager.rs`) | `projects`, `tags` rows; folders and sidecars | create, edit, tag, delete, rescan, import | the library index |
| accounts (`auth/*`, `users/*`) | `users`, `sessions`, `activation_tokens` | invite, activate, log in, change password, disable, delete | the HTTP session layer |
| archives (`files/zip.rs`, `zip_write.rs`, `strip3mf.rs`, `entry_hash.rs`, `chunks.rs`) | none (streaming) | read, write and strip zips | downloads, launches |
| database (`db/open.rs`, `db/migrate.rs`) | the file, its `user_version` | open, migrate | every process on the library |
| HTTP (`spm-http`) | rate-limit windows | routes, cookies, origin check, static files | core |
| server (`spm-server`) | the loops' timers | serve, preview loop, prune loop, import CLI | core, HTTP |
| slicers (`spm-shell/slicers`) | registry, configuration, launch directories, tracked sessions | detect, configure, launch, watch, compare, import what was saved, sweep | core or a remote server |
| browsing (`spm-shell/browse`) | the view, downloads, notices | open a site, download, land a file in a project | core or a remote server |
| shell (`spm-shell`: library, remote, server, gate, state, json_store) | the connected target, the stored state, the window's sessions | open a library, connect, disconnect, proxy | everything above |
| web UI (`packages/web`) | per-page stores | pages, upload queue, slicer-session polling | HTTP |

### What is hard

* Processes that share a library: leases, timestamps used as tokens, SQLite
  transactions that read and then write, migrations by several builds.
* State read before a lock is released and used after it: the rescan's walk
  and its rows, a quota check and its upload, a password verified and then
  written, an account looked up and then activated, a file compared and then
  removed, a configuration loaded and then saved, a connection found open and
  then used.
* The disk and the database are two stores without a common transaction.
* A process that dies in the middle of any of these.
* Timers against events: a slicer saves while its session is swept; a view is
  parked while a download begins.
* Streams cut anywhere, and files that change while they are read.

### What makes each part correct

* Preview queue: one writer per row; a ready row's picture and hash are those
  of the bytes on disk; a final outcome is deserved; an edited file is drawn
  again and an untouched one is not; queued rows settle.
* Preview pipeline: what is drawn is what was read, however it was cut; no
  array is larger than the limits; a verdict does not depend on the chunks.
* Library index: a row for each file and a file for each row once a rescan is
  through; an upload that was answered keeps its bytes; no row is lost to an
  unmounted drive; a stat match can be believed.
* Projects: a rescan's end and the folders agree; an import that fails takes
  away every folder it can and loses none; a repeated import does not undo an
  edit.
* Accounts: there is always an active administrator; a link works once and only
  for an account without a password; a set password is replaced only by someone
  who knew it; a disabled account stays disabled.
* Archives: a strip yields a clean archive that reads, or says that it failed;
  a file that does not read is never called the same.
* Slicers: what is spawned is what the user chose; nothing the user saved is
  removed without an answer; a comparison is never made with a stale hash; every
  save is compared in the end; no edit forgets what it had read.
* Browsing: only whole files land; a view that was hidden stays hidden; a
  download is not cut by housekeeping.
* Shell and HTTP: whoever was replaced is let go of; a server is used only if
  somebody agreed to it; one gate decides; a limiter keeps its budget; the
  stored state is the last choice made.
* Startup: the version tells the schema; one first user; a process that was
  started comes up or says why not.

## 2. The plan

All modules of the table above are written and checked. Proved so far is what
section 6 lists: every property of the
runs of `PreviewQueue`, `Accounts`, `LibraryIndex`, `Projects`,
`SlicerSessions`, `Launch`, `Loopback`, `Browse`, `RateLimiter`, `Startup` and
`Shell` that is not about liveness, and of `NobodyIsStuck`, which speaks of
ENABLED, that nobody waits in a circle. What the streams of `PreviewPipeline` and `Archive` yield is by
induction over data and stays with TLC.

## 3. The modules

### PreviewQueue

State. `pv[f]` is the `previews` row, `row[f]` the `files` row, `png[f]` the
picture on disk, `disk[f]` and `present` the file itself, `project` the
project's state. `pc`, `stamp` and `job` are a batch of one process (`Runs`);
`scan[s]` is a rescan, `deleting` what delete_file has unlinked.

The saves of a file are numbered. Version v has modification time v and bytes
`Content[f][v]`; a stored hash is the version that was hashed, compared through
`SameBytes`. So "the stat is the same" and "the hash is the same" are different
questions, as in the code, and a touched file (new stat, old bytes) exists.

Actions. `BeginBatch` reads the clock, `ClaimBatch` is the claim's transaction,
`Draw`/`DrawFails` a handler, `StorePng`/`StoreFails` the write of the picture,
`Finish`/`FinishLost` the guarded UPDATE or its failure, `Crash` the end of the
process at any of them. A rescan is `ScanWalk` (stat), `ScanLookup` (row),
`ScanRead` (hash and kind), then one of `ScanInsert`, `ScanUpdate`,
`ScanRestamp`, `ScanDrop`. `DeleteBytes` and `DeleteRow` are delete_file.

Abstractions. `ScanRead` merges hashing and classifying, which read the file
one after the other. A rescan takes one file at a time and any number of
passes; a walk of several files is several such passes. The order of a batch is
any order. What the handlers answer is a function of the bytes (`Outcome`). The
rescan's insert does not look at whether the classifier could open the file
(rescan.rs:308), so a new file may get any kind of `Unopened[f]`, what the
classifier answers without opening it.

Stamps. A job's write token is the millisecond of its claim, read before the
claim's transaction and compared with nothing: two claims may well share one.
`requeued[r]`, a history variable no action looks at, is the files a rescan put
back in the queue while run r had a job for them. `OneOwner` says what the token
does tell apart, with no assumption on the clock: of the jobs claimed since a
row was last put in the queue one at most can still write its outcome. It rests
on a lease being longer than nothing (`TokenInv`): within one queueing a row is
claimed again only when its token is older.

Finding (`preview_png_race`): `run_one` writes the picture before the guarded
UPDATE (queue.rs:496). A process that lost its lease replaces the picture of a
row another process has already made ready; the comment at queue.rs:377 argues
that the row is then still pending. With one process the picture is right
(`OwnPictureIsCurrent`, and `ServedPictureOfOneRun` for every instance).

Seen besides:

* If a file is saved back to earlier bytes while it is queued, `reset_preview`
  has kept `source_hash`, `same_source` finds it equal and leaves the row alone,
  and a job claimed in between may end it as ready with a hash of other bytes.
  The theorems about hashes assume `NoReverts`.
* `OwnerIsUntouched` fails (queue.rs:597, against "nobody has touched this row
  since I took it" at :364). The trace: a process claims the row and reads the
  file; a save and a rescan, which finds other bytes and resets the row,
  `claimed_at` included; another process claims it in the millisecond of the
  first claim; the first one's outcome finds its token and is written, with the
  hash and the picture of the old bytes, and the second's is dropped. The row is
  in step with the disk, so no rescan looks at it again. `RecordedHashIsCurrent`
  and `UnsupportedIsDeserved` fail with it: they are proved for behaviours in
  which no two jobs in flight for a file share a stamp (`TokensApart`), and the
  run checks the first of them where that holds (`HashIsCurrent`).
* A job in flight writes the picture again after `delete_file` removed it
  (files/usecases.rs:394); the row is gone and nothing serves the file, and
  nothing removes it.

### Accounts

State: the three tables (`users`, `tokens`, `sess`) and, for each request that
is under way, what it has read (`req`).

Every statement runs under the library's one database lock and the
administrators' operations are IMMEDIATE transactions, so those are single
steps. What interleaves is what happens outside the lock. A request is first
tied to a session (`Resolve`, which captures `is_admin`) and acts afterwards; a
login (`LoginRead`, `LoginFinish`), a password change (`ChangeRead`,
`ChangeWrite`) and an activation (`ActivateCheck`, `ActivateCommit`) read,
derive a key for hundreds of milliseconds and then write.

Abstractions. A password is a value, and `weak` says that its hash was derived
with fewer iterations than today's. Refused requests change nothing and are
`GiveUp`, as is a crash. An activation is judged by the clock it began with, as
in the code. `Init` is an empty library or one with accounts an earlier build
activated, among them an active administrator. Names, display names and quotas
are left out.

Finding (`accounts_resurrected`): `activate_account_at` looks at the account's
status before it derives the key, and its transaction then sets the account
active whatever has become of it (login.rs:165); login.rs:137 calls that check
"the last door".

Seen besides:

* The first-run link lapses after its time; its account is then the only one,
  nobody can re-issue the link, and a table that is not empty gets no other
  (bootstrap.rs:37).
* A login that upgrades a weak hash (login.rs:101) writes the password it
  verified over one that was changed meanwhile. `PasswordReplacedByItsKnower`
  allows it: whoever logged in did know the account's password.
* Disabling an account keeps its session rows, and enabling it revives those
  that have not expired.

### LibraryIndex

State: the folder (`folder`, whether the drive is mounted; `disk`, which file is
at a path; `bytes`, how often it was saved), the rows (`project`, `rows`), and
how far each upload (`up`), each rename or delete (`ed`) and the rescan (`scan`)
has come. `scan.touched` (the paths others changed since the walk) is a history
variable: a property uses it, no guard does.

Actions. `upload_file` is check, create_new, body, metadata, insert, and the
cleanup each failure runs; `rename_file` is check, fs::rename, row;
`delete_file` is resolve, unlink, row. A rescan reads whether the folder is
there, walks it, reads the rows, then for each file inserts, keeps or updates a
row and at last drops the rows of what it has not seen. Every one of them can
fail or die between any two steps. `Mount`, `SaveOutside`, `CreateOutside` and
`RemoveOutside` are the drive, a file manager and a slicer that saves in place.

Abstractions. Sizes and the quota are left out: the check only refuses. Size and
modification time tell any two saves apart, and nobody else saves a file while
an upload is writing it. Hashing a file and writing its row are one step of the
rescan. Paths are flat names.

Properties. `IndexIsSound` is `TypeOK` (rows and disk keep their shape, one row
per path, one path per file) with `RescanReconciles`: what a finished rescan
found untouched is indexed right. `RowsOutliveDrive`: no step drops a row while
the drive is away. `UploadsAreSound`, in a folder nobody else changes, is
`UploadsAreKept` and `HashIsBelievable`.

Seen besides:

* `CleanupOwnsItsBytes` fails (usecases.rs:260, against "No row means no owner
  for these bytes" one line above). The trace: an upload creates its file and
  writes it; a rescan walks the folder, finds the file and inserts a row for it;
  the upload's own insert fails on `UNIQUE(project_id, rel_path)`; its cleanup
  removes the file, which now has a row and nothing behind it until the next
  rescan.
* The rescan reads the rows after the walk (rescan.rs:279). A file uploaded in
  between has a row and was not seen, and its row is deleted; the next rescan
  adopts the file under a new id. `RescanReconciles` excuses paths touched since
  the walk.
* rename_file asks whether the new name is free and then renames, and
  `fs::rename` replaces a file created in between (usecases.rs:353).
* delete_file unlinks a path it resolved earlier, whatever is there by now, and
  removes the row although the drive is away.
* Concurrent uploads pass the quota check before any of them has a row.

### Projects

State: the rows (`projects`), the tags table (`used`, `tags`), the folders and
what lies in them (`folders`), the files of a flat library (`flat`), and how far
each worker has come (`work`). Folder names are numbers in their sorted order, b
a base name and b + k the same with " (k + 1)"; what a request has still to do
is a set, taken in the order of the folder names, which are all different.

Actions: create, edit, tag, delete, the project half of a rescan, the archive
import from plan over extraction and indexing to the sidecars with its clean-up,
and the command that moves a flat library in, any two of them at once, with a
folder changed from outside. The ids a project gets are canonical: which unused
one is taken is the same to every property.

Everything that asks the disk or the database may fail. An entry's extraction
fails before, while or after it writes, a damaged one always; `remove_dir_all`
may leave all of a folder, its sidecar gone, or an empty folder (`Remains`); a
rename fails for any reason (import_curamanager.rs:129); any other step that
reads or writes ends its request where it is (`Fails`). The history fields
`there`, `kept` and `touched` of a task are the folders it found, those it could
not remove and those others changed since.

`FoldersAndRowsAgree` is four action properties, each about the folders nobody
else changed meanwhile: where a rescan ends, rows and folders agree
(`RescanAgrees`); an archive that fails leaves the folders as they were, those
aside that could not be removed, and one that could not keeps no other from
going (`CleanupIsThorough`); a move that goes on has moved every folder, and one
that stops has lost none and left none in both places, so that it can be run
again (`MoveLosesNothing`); a repeated import keeps what a user edited
(`ImportKeepsEdits`).

Seen besides:

* `CleanupTakesOwn` fails (import_zip.rs:239): of two imports of one archive,
  the clean-up of the one that fails removes the folder the other is extracting
  into.
* `TagsAreCarried` fails (usecases.rs:217 against queries.rs:331): deleting the
  last project that carries a tag leaves the tag.
* A project created after a deletion that kept the files adopts the old folder;
  two deletions and a creation may wipe the new project's folder; a rescan
  during an extraction adopts folders the clean-up then removes; a failure after
  the extraction leaves the folders; a missing project's metadata is overwritten
  when an archive brings its folder back.
* The choice of a folder name is case-sensitive where Windows folders are not.
* "All or nothing" (import_curamanager.rs:81) is true of collisions found before
  the first rename. A rename that fails, for a folder that appeared since or any
  other reason, leaves what was moved before it moved; a second run goes on from
  there. An archive's folder that cannot be removed stays, half extracted, and
  collides with the next attempt (import_zip.rs:242). A rescan fails if a listed folder goes before it is walked.
* The adopting transaction of the rescan reads before it writes
  (rescan.rs:189); as a deferred transaction its upgrade fails at once when
  another process has written, which `db/open.rs:26` means to rule out.

### SlicerSessions

State. `saves` numbers the saves the slicer has begun, `file` is which of them
is at the launch path and whether it is whole, `record` is `launch.json`.
`tracked`, `exiting`, `memo` and `since` are what the process remembers of the
launch: the `Tracked` entry, the exit sweep's timer, `hashes[path]` and
`unsettled_since[path]`. `work[q]` is what a worker is doing: the scheduler is
one thread, so `Timers` has one element; a command of the window is a worker of
`Commands`. `imported` is what reached the library.

Actions. `Watch` is on_changed, `PendingFires` and `Poll` start a settle step,
`ExitFires` starts the exit sweep, `Command` a list, a resolve or a discard. All
of them then compare: a stat, which finds nothing (`ProbeGone`), the memo's key
(`ProbeMemo`) or the need to read, and the read, which succeeds (`ProbeRead`) or
does not (`ProbeFails`). What follows from the verdict is an action of its own:
`SettleStep`, `Listed`, `ExitSweep` with its second enumeration (`ExitListed`),
`Discard`, `Import` or `ImportFails`. A sweep is `SweepFile`, then
`SweepRecord`. `Restart` is the end of the process at any of these steps and
sweep_at_start of the next.

Abstractions. Size and modification time tell any two writes apart. A read is
one step: a read that mixes two saves stores its hash under the stat from before
it, which no longer is the file's, so nobody believes it. A file that is not
whole is an archive that does not read, or is empty; a mesh that is half written
reads, and is left out. There is one launch; libraries that are not open, stray
files beside a record, derived names and the preparation of a launch are left
out.

Seen besides:

* `ExitSweepTakesOwnBytes` fails (sessions.rs:670 against :14, "may delete only a
  file that is *still byte-identical to what this app itself wrote there*"):
  exit_sweep compares the file, enumerates the sessions, which compares every
  file again, and sweeps the session of its launch whatever that enumeration
  found. A save between its comparison and its removal is lost.
* resolve imports the bytes that are there when the upload reads them
  (sessions.rs:408). A save that begins after the verdict is imported half
  written and then swept; `ComparedSavesSurvive` excuses saves begun after the
  comparison.
* Two commands that answer for one file at once import it twice, under two
  names.
* `unsettled_since` (926) is cleared only by a look that succeeds, so a file
  that cannot be read for a second time is given up at once if nobody looked in
  between.
* A crash between the removal and `sweptAt` (1139) leaves a record that ages
  from its launch.
* sweep and sweep_at_start list a directory and then remove it whole; a slicer
  that saves in between loses its save. The model takes the two as one step.
* write_json_file's temporary file is, for an instant, a file beside the record,
  and an enumeration sees it as a session.

### Launch

State: slicers.json (`stored`), what the uninstall keys say (`rows`) and which
executables are there (`present`), the open library (`opened`), the commands
that are under way (`work`), the executable dialog (`flight`, `pickingFor`), the
launch directories with their records (`dirs`) and the processes that were
spawned (`child`).

Actions: every command of the settings page as load, think, save (`Load`,
`Detect`, `Save`, and the dialog's `ClaimDialog` to `LandDialog`), and `open`
with each of its reads of the open library as a step of its own: mode, source,
install, hint, redetection, key, the refusals, the directory, the download or
copy, the record, the spawn and the exit watch. No command takes a lock. Any
read of slicers.json may fail (`Readings`): a file that is there and cannot be
read is taken for an absent one (`Unread`). The world may move or uninstall a
slicer, change the library, or end the app.

Abstractions. A detection fails or answers with a finding per key; its script,
timeout and quoting are left out, and so are the argument list and the scrubbed
environment. A file is what a launch tells apart: extension, kind, the author
the index names and the one the bytes hold, and whether a strip, a hash or a
record will fail. `Manual` bounds how many installs are added by hand.

`LaunchIsSound`: what is spawned carries the name of its product unless the user
chose it in the dialog (`SpawnIsVetted`); a launch with a copy has the copy and
the record (`LaunchIsExplained`); the library's own file is handed over only
where it may be (`OriginalIsKept`); a loss is announced (`DiscardIsWarned`); an
exit is told once (`ExitIsToldOnce`). `ConfigIsKept`: over what it had loaded no
command re-points a binding or forgets an install (`ChoicesAreKept`), and
nothing that is written is dropped when it is read (`WrittenReadsBack`).
`ChoicesAreKept` speaks of commands that had loaded what is still stored; it
says nothing of the two losses below.

Seen besides:

* `AnswerIsItsOwn` fails (host.rs:194): `picking_for` is cleared inside the
  flight's closure, so a caller that asks about another slicer joins the flight
  and gets its answer, and its own claim then stays.
* A record's library is None or another's when the library changes in mid-launch
  (launch.rs calls that unreachable). A process whose watching thread cannot
  start runs on though the launch failed and its directory is removed. A failure
  of the hash or the record leaves the directory.
* A detection whose output is no JSON marks every detected install missing. The
  warning of an as-is launch goes by the index, which may be stale.
* Updates are lost: a scan that overlaps a binding overwrites it, as nothing is
  locked (host.rs:128). And one failed read of slicers.json is enough for the
  next save to replace all of it: config.rs:177 answers such a read with an
  empty configuration that may be written.

### Shell

State: the three questions that are shared (`flight`), the worker of each call
(`job`), the open folder (`current`, `folder`, `adopting`, `lastRelease`,
`generation`), the server (`remote`, `server`, `connectingTo`), and state.json
with its temporary file (`file`, `temp`, `handle`). `stale`, `agreed`, `alone`
and `unwritten` are history.

Actions: start and plan_startup, ask_for_mode, pick_local_folder,
prompt_for_folder, connect_remote, adopt_remote, become_local, library_changed,
LibraryHost's open, close and release threads with their rescans, SingleFlight
with a leader that panics, remember_choice down to open, write, close and rename
of the temporary file. Every call is a thread of its own.

`CallsAreSound` is `LastReleaseIsLast` (waiting for the last release is waiting
for all of them, unless one had no thread), `NoServerLeftBehind`,
`ServerWasConfirmed` and `NobodyIsStuck`; `ChoicesAreFollowed` is
`SwitchIsRemembered` (alone, a switch is what the next start finds) and
`PageIsFresh`.

Seen besides:

* `StateIsWhole` fails (json_store.rs:118). The trace: two threads write
  state.json through one temporary file; the second opens, and so empties, the
  file the first has just written and closed; the first renames it into place,
  and state.json is empty or half a document until the second renames too. A
  stop in between leaves it so, and the next start reads it as no choice.
* A release whose thread cannot be spawned counts as done at once
  (library.rs:765), with the folder's handle gone and earlier releases still
  waiting (stage "dropped"): leaving the app then waits for none of them.
* A caller that joins between the leader's answer and the end of its flight gets
  an answer about another server and leaves connecting_to set.
* become_local of a waiter after a concurrent adopt_remote releases the server
  that was just confirmed. An open that is overlapped by close_current between
  its generation and its replace leaves a library open whose rescan never
  announces.

### Loopback

State: the window's links and sessions (`links`, `sessions`, `landing`,
`cookie`, `redeemed`), what the shell points at (`remote`, `folder`,
`releasing`, `adopting`, `arriving`), the connections (`closed`, `jar`: which
login of its server a connection carries; `live`: which logins the server still
honours) and the requests (`job`). Everything made is numbered.

Actions: minting and redeeming links, the gate, the dispatch of a request (first
the server, then the folder, then the router), the proxy from the check of
`closed` over the cookies, the redirects and the body to the answer, and the
shell's steps that close, release and connect. Which headers and paths pass, the
log and the merging of capabilities are left out.

`ServesItsWindow` is `LinksWorkOnce`, `AnswersAreOfTheirTime` and
`SessionIsLive`; `NothingIsSentLate` and `RequestsEnd` are about a connection
that was closed.

Seen besides:

* `ClosedHoldsNoSession` fails (remote.rs:449 against :249): an answer received
  just before close puts its cookies back afterwards. They are never sent.
* `/./_spm/x` and `.\_spm` resolve into `_spm` though is_reserved does not see
  them as reserved (server.rs:333).

### Browse

State: the downloads (`transfer`, what the web view knows; `entry`, what the
host lists; `disk`, the staging directory with its records), the view (`slot`,
`view`), and what hooks and commands are doing (`job`). The hooks run on one
main thread, every command on its own; `alone` is history.

Actions: attach, detach, park, hide, show, set_bounds, resize, close; a download
from its request over the caps and the destination to its end and its record;
the sweep at start; landing and discarding; a restart at any moment. Navigation,
the last page, page matching and notices are left out.

`BrowseIsSound` is `LandedIsWhole`, `StagedIsBounded`, `ComingIsAccountedFor`,
`ParkedViewIsReleasedAlone` and `HiddenStaysHidden`; `ParkedDownloadSurvives` is
an action property.

Seen besides:

* `ParkedViewIsReleased`, without "alone", fails (host.rs:221): release_parked
  reads that the view is parked, then that nothing is running, then destroys it,
  while an attach un-parks it.
* A hide that races apply_bounds may leave a hidden view shown. An attach over a
  shown view cuts its download, whose entry may stay "running" until the next
  start. Two running downloads of one URL without a path are never told apart. A
  discard that races the rewrite of its record leaves an empty directory. Two
  lands, or a land and a discard, land twice or after the discard. A page that
  commits while clear_last_page runs is written back.

### PreviewPipeline and Chunks

`Chunks` has the two sinks as pure operators over symbols: the line splitter and
the window scanner. `PreviewPipeline` is one job: the embedded picture first,
then a mesh parser that streams the file once or twice while it is overwritten
(`file`, `edits`), chunk by chunk (`pos`, `held`, `sink`), counting, allocating
and filling (`counts`, `built`). A vertex has one coordinate and a binary record
two bytes; number syntax is a set of good and bad numbers.

`MeshIsSound`: what is built is what was read, arrays stay within their limits,
an entry keeps to its size. `ParseIsSound`: a verdict does not depend on where
the chunks were cut. Every file of up to three parts is tried in two sizes of
chunk. Seen besides: a line over `MAX_LINE_CHARS` that begins and ends within
one push is accepted (against chunks.rs:154), and the filling pass of an ASCII
STL does not repeat the check of where a vertex begins.

### Archive

One strip, step by step, while the input may be replaced (`input`, `swaps`): the
directory with its zip64 fields, the classification, the plan of references, the
rewrite, and the hash and digests by which a round trip is judged (`verdict`).
A refusal removes its output or fails to (strip3mf.rs:617) and leaves it there,
"littered"; it is a refusal all the same.
Deflate, checksums and the XML grammar are tokens.

`StripIsSound` is `DirectoryIsRead`, `StrippedIsClean`, `RewriteReadsBack`;
`VerdictIsHonest` is about the round trip. Seen besides: strip3mf opens its path
four times (strip3mf.rs:226), so a replaced input can give it references of one
file and data of another while it reports success; the docs of zip_write.rs call
`invalid-request` unreachable from a strip, but a replaced input reaches it.

### RateLimiter and RateBudget

`RateLimiter` is every attempt of a key: the clock read outside the lock
(`asked`), the sweep (`lastSweep`), the window (`buckets`), the eviction
(`order`, `nextSeq`) and the waiting time in the answer. `RateBudget` is what a
client is promised: a window grants `Limit` attempts and refuses the rest, and a
window that is open is forgotten only when there are many. `LimiterIsHonest` is
`BooksAgree` and `RetryIsHonest`; `KeepsTheBudget` is the refinement.

### Startup

One library file opened by processes of different builds: `version` and
`applied` are `user_version` and the schema, `writer` and `draft` the write lock
and an uncommitted transaction, `users` the first user; `at`, `seen`, `empty`,
`why`, `told` and `pass` are each process, from its first statement to an exit
that does not wait for a preview pass. A statement of a transaction, or the first
user's folder, may fail (`StatementFails`); the transaction is then rolled back.

`LibraryIsSound` is `VersionTellsSchema`, `OpenedIsMigrated` and `OneFirstUser`;
`StartsAndStops` is liveness. Seen besides:

* `OpensTogether` fails (migrate.rs:21 against the comment on BUSY_TIMEOUT_MS in
  open.rs): of two processes that open a fresh library together, the second
  fails, because it read the version before the first migrated and its first
  migration finds the tables there.
* A crash between the commit of the first user and the printed link loses the
  only link; a library that was first opened by the desktop app never gets an
  administrator; the link is printed before the port is bound.

### Sites

The URLs the program decides by, as tokens: the key by which two pages are one
model, where the two web views may go, the address of a library server, the
origins and the cookie's Secure. Every pair of some 350 texts is tried.
`ReadingsAgree` is `KeysAreFaithful` and `AddressesAreReadAlike`. Seen besides:
`KeysAreDisjoint` fails for `x:thingiverse:1`, which only http(s) keys keep out
of match_projects; `TypedPathIsRefused` fails for `http:host/api/..`.

## 4. The runs

| run | instance | shows |
|---|---|---|
| `parts_all` | `Parts_all.cfg` on `MCParts` | One of seven parts at work while the others rest: two processes or one on the preview queue, with saves, rescans, crashes, leases that lapse and claims that all share one instant; every mesh file of up to three parts drawn in two chunk sizes while it is overwritten; every strip of 290 archives with its input replaced at any step and an output that may not be removable, then judged after a round trip; every pair of some 350 page and server addresses; and the rate limiter with a clock set back, which implements RateBudget. |
| `upkeep_live` | `Upkeep_live.cfg` on `MCUpkeep` | Under the timers' fairness every queued picture settles although processes die mid-batch, as long as its attempts last, and an expired session goes for good whatever requests arrive with its cookie. |
| `requests_all` | `Requests_all.cfg` on `MCRequests` | Two requests interleave over two accounts, three links and two sessions, from an empty library and from one an earlier build left, each administrator acting by rights resolved earlier; or three uploads of one name race, fail and die at every step while a rescan indexes what they are writing. |
| `libraries_all` | `Libraries_all.cfg` on `MCLibraries` | Two threads choose, pick folders and connect to servers, with dialogs that panic, releases that may find no thread, rescans and a restart; or any two of create, edit, delete, rescan, archive import and command import share one library, with a folder changed from outside, and every write, removal, rename and query may fail. |
| `library_shared` | `LibraryIndex_shared.cfg` on `MCLibraryIndex` | An upload, a rename or delete, a rescan, a drive that comes and goes and outsiders change one folder together: what a finished rescan found untouched is indexed right, and no row is lost to an absent drive. |
| `browse_all` | `Browse_all.cfg` on `MCBrowse` | Two command threads and the view's hooks share two downloads and a view through one restart: only whole files land, the limits hold, what is still coming is never mistaken for something else, and calls that do not overlap leave no view behind and cost no download. |
| `launch_all` | `Launch_all.cfg` on `MCLaunch` | Two commands at once over four stored configurations, of which any read may fail, five files and one event (a slicer moves or goes, the library changes, the app dies): what is spawned is what the user chose, what is handed over is explained and announced, and no edit forgets a choice it had read. |
| `slicers_all` | `SlicerSessions_all.cfg` on `MCSlicerSessions` | A slicer saves at any moment while the timers and a command compare, import, discard and sweep, and the app restarts: no compared save is removed without an answer, the memo is never wrong, and the poll alone gets every save compared. |
| `loopback_all` | `Loopback_all.cfg` on `MCLoopback` | Two requests of any kind at any step while the shell opens a folder and connects to two servers one after the other, and a window that loads two links with room for one. |
| `startup_all` | `Startup_all.cfg` on `MCStartup` | Two servers and a desktop app of an older build open one library, with timeouts, failing statements and a crash: the version always tells the schema, one first user is made, and every started process comes up or says why not. |
| `preview_png_race` | `PreviewQueue_png_race.cfg` on `MCPreviewQueue` | (violation) With two processes a job whose lease was taken over replaces the picture of a row that is already ready. |
| `accounts_resurrected` | `Accounts_resurrected.cfg` on `MCAccounts` | (violation) An activation that checked the link before an administrator disabled the account activates it afterwards. |

Why the bounds are enough.

* `parts_all`, queue: one file, because rows do not interact but through a
  batch; three saves after the first let a job, a rescan and a row be about
  three different contents (two saves where two processes are at work); a lease
  of one tick and a clock of two let it expire under a job and be taken again.
  With two processes the part "shared queue" stops when two claims share a stamp,
  and its file is not deleted; in "one instant" the clock stands still, so that
  every claim has the same stamp, and nothing else is held back. Limiter: three
  keys against a cap of one and a batch of one, so that eviction, a key that
  returns and a sweep all occur, and a clock that is set back once.
* `upkeep_live`, queue: two files, so that one row's trouble could hold up
  another; the clock's bound of eight lets both rows use up both attempts.
* `requests_all`: two requests are what a race needs; two accounts, the last
  administrator and another; three links, the one in use, the re-issued and the
  next. Three uploads of one name: one that succeeds, one that fails and one in
  between.
* `libraries_all`: two callers share a question or race; two folders and two
  servers are the old and the new; one restart shows what was remembered. Three
  project ids and two operations let one import meet any other operation. A
  release finds no thread only before the restart and while another one is at
  work, which is where leaving the app could be misled; `ShellIsSound` and
  `ChoiceIsFollowed` were also explored without that bound (`Shell` alone,
  2 626 596 states).
* `library_shared`: one actor of each kind, and two paths for a rename to go
  from one to the other.
* `browse_all`: two threads and two downloads for one view; a third call lets a
  late one meet what two others left.
* `launch_all`: two commands at once; one event is enough to change what one of
  them has read.
* `slicers_all`: one save after the launch gives a worker three files to be
  wrong about: the copy, the save half written and the save whole. A clock of
  two with a window and a life of one lets each be inside and outside. The
  safety properties were also explored with two saves (`MaxSaves = 2, MaxNow =
  1, Ttl = 0`, 1.1 million states).
* `loopback_all`: two requests, one folder and two servers, one after the other
  (`OneAtATime`); two links with room for one.
* `startup_all`: two servers and an app of an older build, one crash.

## 5. Fairness

* Queue (`upkeep_live`): the batch starts (WF), its claim commits in the end
  although the process may die before it (SF: a host that died on every attempt
  before its claim would draw nothing), each job's steps are taken (WF), and the
  clock runs while a lease does. `serve.rs` and `worker.rs` call the queue on a
  timer for as long as the process lives. Nobody has to rescan or save.
* Sessions (`upkeep_live`): WF of `Prune`: `prune_loop` runs every hour as long
  as the server does.
* `slicers_all`: `sched.rs` keeps its timers in one queue in the order in which
  they are due, so one that is due again and again while the thread is busy is
  run in the end: SF of each timer. A worker that has begun goes on: WF of its
  steps. Nothing obliges the slicer to finish a save, the user to answer, or the
  watch to report; `SaveIsCompared` is what the poll alone achieves.
* `loopback_all`: WF of a request's own steps and of the closing of a
  connection; a server need never answer.
* `startup_all`: WF of a process that boots, ticks, drains or exits; its tasks
  are spawned and polled by the runtime. Nobody need start or stop one.
* `parts_all`, mesh part: only safety is asked of it.

## 6. What is proved

A theorem holds for every value of the module's constants: any number of
processes, files, requests or accounts, any clock, any number of steps. TLAPS
checks each proof to its last leaf. What is assumed of the constants is named in
the module that declares them (an `ASSUME`, or, of a module that is instantiated,
a definition its MC module assumes), TLC evaluates it in every run, and it
is of three kinds: the constants are numbers or sets of the right kind, `None`
is none of the values it stands beside, and, where a theorem says so, a
hypothesis about the environment that it names (below).

Each proof goes the same way. An inductive invariant says, for each stage an
actor can be at, what it has established and what still has to hold for its next
step to be right. It is stated at the top of the `_proofs` module, TLC checked
it on a small instance first (the number of states is given below), and the
proof shows that Init gives it, that every action keeps it, one lemma per
action, and that it implies the property the runs check. An action property
follows from the invariant and one step.

**`PreviewQueue_proofs`.** `TypeCorrect`; `OneOwnerAlways` (of the jobs claimed since a row was last queued
one at most can still write it; for any clock, any processes and any rescans, from
`TokenInv`: a stamp no later claim of that queueing can take);
`RecordedHashAlways` and `UnsupportedAlways` (an outcome is about the bytes whose
hash the row carries; of behaviours in which no two jobs in flight for a file
share a stamp (`TokensApart`), from `OneScanner`, `NoReverts` and `QueueInv`,
whose parts are what holds of a row, of a rescan, of a job and of an outcome);
`ServedPictureOfOneRun` (with one process the picture of a ready row is of the
bytes its hash names; `PictureInv`); `ReadyIsKeptAlways` (a ready row returns to
the queue only because the index names other bytes or another kind, with one
rescan at a time; `ReadyInv`). The hypotheses are the readings of section 3 under which the statements are true at
all: without `OneRun` the run `preview_png_race` refutes
`ServedPictureOfOneRun`, and without `TokensApart` the trace of
`OwnerIsUntouched` refutes the two about hashes.

**`Accounts_proofs`.** `TypeCorrect`; `OneLiveLinkAlways` and
`LinkIsFirstPasswordAlways` (`LinksInv`); `OneWayInAlways` (either
nobody can have signed in yet, or every active account has a password;
`AccountsInv`); `AdminAlwaysRemains`; `PasswordAlwaysKnown`. They need what the requests
remember, because each of them is about a request that acts on what it read
before its key was derived.

**`Library_proofs`**, first part, about `LibraryIndex`. `InvAlways`, `TypeCorrect`, `IndexIsSoundAlways` (a
finished rescan has put in order every path that nobody touched),
`RowsOutliveDriveAlways` (a rescan drops a row only if it found its path empty,
and the drive in place, or if somebody changed the path) and
`UploadsAreSoundAlways` (in a folder nobody else changes, an answered upload
keeps its bytes and a stat match can be believed). The invariant is `TypeOK`,
`ScanInv` (at every stage of the rescan, what walk, rows and touched paths say
of each other) and, in a quiet folder, `UpInv` and `HashInv`. TLC: 4 541 154
states with everybody at work, 112 264 quiet.

**`Library_proofs`**, second part, about `Projects`, which it has as an instance
(`P`) over variables of its own. Under `ProjectsAssumption`, which `MCLibraries`
assumes of its instance (names are numbers and their suffixes do not meet,
archives, flat libraries and the library at the start are well formed):
`ProjectsInvAlways`, `ProjectsTypeCorrect` and `FoldersAndRowsAgreeAlways` (the
four action properties of section 3), for any number of requests at a time and
any failure of any step. The
invariant says what each request takes for granted where it is (`Knows`): a row
it has read keeps its folder for as long as it is there; of the folders nobody
else touched, what a rescan listed is still so, what it has still to visit is as
it noted, and the rest agrees; of an archive, that the folders are as it found
them but for its own, which it has still to clean or could not remove; of a move,
that every folder it found is in one of its two places and none in both. What a
step leaves of the others' knowledge is said once, of the
set of folders it changed (`RowsKept`, `FoldersKept`, `OthersStay`). TLC:
785 710 states.

**`Desktop_proofs`**, first part, about `SlicerSessions`. `TypeCorrect`, `MemoryIsSoundAlways` (where
the memo's key is the stat of the file on disk, that file is whole and the hash
its own) and `ComparedSavesSurviveAlways` (a save begun before the comparison
leaves the launch directory only discarded, imported, or as the app wrote it).
The invariant adds to the types that a memo is never newer than the file and,
for each worker, what it knows at its stage (`Knows`). TLC: 324 013 states.

**`Desktop_proofs`**, second part, about `Shell`, which it has as an instance
(`S`) over variables of its own. Under `ShellAssumption`, which `MCShell` assumes
of its instances (`None`, the empty and the torn document are none of the values
they stand beside; the bounds are numbers, and there is room for one folder and
one server): `ShellTypeCorrect`; `NothingIsLeaked` (`LastReleaseIsLast`,
`NoServerLeftBehind`, `ServerWasConfirmed`; the first says nothing once a release
had no thread) and `ChoiceIsFollowedAlways` (`SwitchIsRemembered`, `PageIsFresh`),
for any number of callers, folders, servers, calls and starts, and of releases
without a thread. The invariant `ShellInv` (theorem `ShellInvAlways`)
adds to the types what none of
the properties says by itself: a question that is asked has one leader, who is
at work on it or asks for a folder on its behalf, and whoever waits for an
answer finds one coming (`FlightInv`); an open folder that is not current is
held by one caller, who is about to let go of it, and from the last release every
folder that was let go of is reached through the releases each waited for
(`FolderInv`); from the moment a caller closes one server until it installs the
next no server is in use, and that next one was agreed to (`ServerInv`); and, while calls do not overlap, what the one at
work may take for granted of the folder, the server, the document it read and the
one it drafted (`LoneInv`). TLC: 2 626 596 states. `NobodyWaitsInACircle` is
what `NobodyIsStuck` says of waiting, stated of the stages and not of ENABLED:
while one caller waits, another is at a stage that waits for nobody, because
waits end at a leader at work; and the releases are ordered (`OrderInv`: every
set of folders that were let go of has one that waits for none of the set). That
a caller at such a stage can take its step is what TLC adds.

**`Loopback_proofs`.** `TypeCorrect`, `ServesItsWindowAlways` (links work once;
an answer is from a library that was in place while the request ran; a
connection in use carries no session its server has ended, unless a logout is
under way or an answer was lost) and `NothingIsSentLateAlways` (no
request leaves for a server once the shell has let go of it). The invariant is the
types, the gate's books, where each request has been, and whose cookies each jar
holds.

**`Server_proofs`**, first part. Under `RulesAssumption` (finitely many keys at
a time; limits, windows and the cap are positive): `LimiterIsHonestAlways`, and
`KeepsTheBudgetAlways`: the limiter implements `RateBudget`, with
`Many <- Cap + Batch`, its window `WindowOf` and its last answer `AnswerOf`.
Every step of the limiter is a step of the budget or changes nothing the budget
speaks of; the invariant says that the index of the eviction and the buckets are
one book. TLC: 710 581 states.

**`Server_proofs`**, second part, about `Startup`, which it has as an instance
(`Up`) over variables of its own. Under `StartupAssumption`, which `MCStartup`
assumes of its instance: `StartupTypeCorrect` and `LibraryIsSoundAlways`: for any
number of processes of any builds, with crashes and failing statements anywhere, the version tells the
schema, whoever has opened the library finds it migrated, and one first user is
made. TLC: 174 416 states.

**`Browse_proofs`.** `InvAlways`, `BrowseTypeCorrect`, `BrowseIsSoundAlways`
(what lands is whole, what is staged stays within the limits together, what is
coming is accounted for, a parked view goes with its last download and a hidden
one stays hidden) and `ParkedDownloadSurvivesAlways`. The invariant says what a
download, its entry, its directory and the calls that are about it say of each
other (`Downloads`: only what vouches for the whole file is ever called
verifiable, and a call that measures or uploads has let go of a running one),
that a download that was let in has left room for a file of its own until it is
listed (`Bounded`), and, while calls do not overlap, what the one at work may
take for granted of the view and its slot (`Undisturbed`). None of the
properties is inductive without it: the upload, for one, reads the bytes again
long after the entry was believed. `Total` is a recursive function, about which
nothing is known but its equation; that a sum is at most another one term by
term at most it is by the least place where the partial sums are not
(`TotalBound`, from `PartialSums` and `LeastOf`). TLC: 4 017 087 states.

**`Launch_proofs`.** `InvAlways`, `TypeCorrect`, `LaunchIsSoundAlways` (what is
spawned carries its product's name unless the user named it, a launch with a
copy has its record, the original is handed over only where it may be, a loss is
announced, an exit is told once) and `ConfigIsKeptAlways` (over the
configuration it loaded no scan, addition or launch re-points a binding, forgets
an install or changes one added by hand). The invariant says, for each command
at its stage, what it has decided (`TaskInv`), what its launch directory holds
(`DirInv`), what its process was started with and who watches it (`ChildInv`),
and that whoever waits for the dialog waits for a dialog somebody is asking
(`FlightInv`). Lemmas on the operators carry it: each edit of slicers.json
(`MergeDetected`, `WithManual`, `WithoutInstall`, `Bound`, `Preferred`, a row
resolved again) leads from a configuration to a configuration, and what
`Written` writes reads back. TLC: 173 632 states (`MaxOps = 1, MaxEvents = 2`).

### Only model-checked

* Liveness (`PendingSettles`, `ExpiredSessionIsPruned`, `SaveIsCompared`,
  `RequestsEnd`, `StartsAndStops`) and what speaks of ENABLED (`NobodyIsStuck`,
  a part of `CallsAreSound`, of which `NobodyWaitsInACircle` is the part without
  ENABLED): outside the prover's logic.
* What a recursive function or a fold computes (the parsers of
  `PreviewPipeline`, `Chunks`, the codecs of `Archive`, the readings of
  `Sites`): induction over data.
* The two runs that expect a violation show what one instance does.

## 7. What is not modelled

* Preview drawing (`raster.rs`, `png.rs`): arithmetic on pixels.
* Validation, DTOs, settings, the log: functions of one value, well reached by
  unit tests.
* The HTTP layer of the server: routes, static files and cookies; what it
  decides by is in `Sites`, `RateLimiter` and `Accounts`.
* The server's configuration (`env.rs`), read once.
* The slicer API and the paths of launch directories.
* Commands, bounds and notices of browsing; the desktop host (`hidden*.rs`),
  which forwards to the shell and depends on the window system.
* The web UI. Read while modelling: a patch of one setting that overlaps
  another of the same key can end with the older value after a rollback, though
  the comment in stores.ts says the last writer wins; the project page reads its
  id again after awaits; browse.ts `open()` leaks the view if `sites()` fails.
* SQLite itself: a statement, or an IMMEDIATE transaction, is one step. In
  `Startup`, where the transactions are the subject, their parts are steps.
