---------------------------- MODULE PreviewQueue ----------------------------
(* The preview queue of spm-core and everything that races with it.          *)
(*                                                                           *)
(* Runs (one per host process: the server's preview loop, the desktop app's  *)
(* worker thread) claim pending `previews` rows under a lease, draw the      *)
(* file's picture, write `<file id>.png`, and only then record the outcome.  *)
(* Meanwhile the file's bytes change on disk, a rescan re-indexes the file   *)
(* and may put its row back in the queue, a user deletes the file, a process *)
(* dies, and the clock moves.                                                *)
(*                                                                           *)
(* The bytes of a file are numbered by the save that produced them: version  *)
(* v of file f has its own modification time (v itself) and the content      *)
(* Content[f][v], so that two versions have equal hashes exactly when their  *)
(* contents are equal.  Wherever the code stores a content hash the model    *)
(* stores the version that was hashed, and compares contents.                *)
EXTENDS Naturals, FiniteSets

CONSTANTS
  Files,          \* file ids
  Runs,           \* processes that run the preview queue on this library
  Scanners,       \* rescans that may be under way at once
  None,           \* SQL NULL, and the absence of a picture
  MaxVersion,     \* bound: the number of saves of one file
  Contents,       \* what a file's bytes can be
  Content,        \* Content[f][v]: the bytes of file f after its v-th save
  Kinds,          \* file kinds
  Kind,           \* Kind[b][c]: the kind classifier version b gives content c
  HandledKinds,   \* the kinds some handler of the chain covers
  Outcome,        \* Outcome[c]: what the handlers deterministically answer
  ClassifierVersion,   \* CLASSIFIER_VERSION of the running build
  MaxAttempts,    \* MAX_PREVIEW_ATTEMPTS
  Lease,          \* PREVIEW_LEASE_MS, in clock units
  BatchLimit,     \* rows one batch claims at most
  Concurrency,    \* jobs one batch works on at a time
  MaxNow,         \* bound: the clock stops here
  Unopened        \* Unopened[f]: the kinds f may be given without being opened

Versions == 0 .. MaxVersion
Instants == 0 .. MaxNow
Classifiers == 0 .. ClassifierVersion
Outcomes == {"ready", "unsupported", "failed"}

ASSUME NoneAssumption == None \notin Nat
ASSUME BoundsAssumption ==
  /\ MaxVersion \in Nat /\ MaxNow \in Nat /\ ClassifierVersion \in Nat
  /\ MaxAttempts \in Nat /\ Lease \in Nat \ {0}
  /\ BatchLimit \in Nat \ {0} /\ Concurrency \in Nat \ {0}
ASSUME TablesAssumption ==
  /\ Content \in [Files -> [Versions -> Contents]]
  /\ Kind \in [Classifiers -> [Contents -> Kinds]]
  /\ Outcome \in [Contents -> Outcomes]
  /\ Unopened \in [Files -> SUBSET Kinds]
  /\ HandledKinds \subseteq Kinds

VARIABLES
  now,          \* the wall clock
  disk,         \* disk[f]: the version of f's bytes on disk
  present,      \* the files whose bytes are on disk
  png,          \* png[f]: the version drawn in <f>.png, or None without a file
  project,      \* projects.state
  row,          \* row[f]: the `files` row
  pv,           \* pv[f]: the `previews` row; its state is "none" until the file is
                \* indexed and "deleted" once its `files` row is gone for good
  pc,           \* pc[r]: where run r's batch is
  stamp,        \* stamp[r]: the `now` run r's batch claims with
  job,          \* job[r][f]: run r's job for f
  scan,         \* scan[s]: where rescan s is
  deleting,     \* the files delete_file has unlinked and not yet unrowed
  requeued      \* history: requeued[r], the files a rescan put back in the queue
                \* while run r had a job for them (no action looks at it)

dbVars   == <<project, row, pv>>
runVars  == <<pc, stamp, job>>
restVars == <<present, deleting, requeued>>
vars == <<now, disk, png, dbVars, runVars, scan, restVars>>

JobStates == {"none", "queued", "drawn", "stored", "nothing", "broken"}
ScanStates == {"idle", "walked", "new", "changed", "stale",
               "insert", "update", "restamp", "gone"}

NoJob == [phase |-> "none", hashed |-> 0, drew |-> 0]
IdleScan == [at |-> "idle", file |-> None, seen |-> 0, was |-> None, hashed |-> 0]

SameBytes(f, u, v) == Content[f][u] = Content[f][v]
Settled(f) == pv[f].state \in Outcomes

(* The row just inserted, and the row reset_preview leaves: source_hash is   *)
(* not among the columns a reset clears.                                     *)
FreshPreview == [state |-> "pending", source |-> None, attempts |-> 0, claimed |-> None]
LeasedReset(p) == [p EXCEPT !.state = "pending", !.attempts = 0]
ResetPreview(p) == [p EXCEPT !.state = "pending", !.attempts = 0, !.claimed = None]
NoPreview == [FreshPreview EXCEPT !.state = "none"]
Deleted == [FreshPreview EXCEPT !.state = "deleted"]
HasRow(f) == pv[f].state \notin {"none", "deleted"}

FileRow(f, mtime, hashed) ==
  [mtime |-> mtime, hashed |-> hashed, by |-> ClassifierVersion,
   kind |-> Kind[ClassifierVersion][Content[f][hashed]]]

-----------------------------------------------------------------------------
(* A library some build has scanned before: a file it saw has a row made     *)
(* from its first version, stamped with that build's classifier, and its     *)
(* preview waits; the other files are new since.                             *)
Init ==
  /\ now = 0
  /\ disk = [f \in Files |-> 0]
  /\ present = Files
  /\ png = [f \in Files |-> None]
  /\ project = "ok"
  /\ row \in [Files -> {[mtime |-> 0, hashed |-> 0, by |-> b, kind |-> k] :
                          b \in Classifiers, k \in Kinds}]
  /\ \A f \in Files : row[f].kind = Kind[row[f].by][Content[f][0]]
  /\ pv \in [Files -> {FreshPreview, NoPreview}]
  /\ pc = [r \in Runs |-> "idle"]
  /\ stamp = [r \in Runs |-> 0]
  /\ job = [r \in Runs |-> [f \in Files |-> NoJob]]
  /\ scan = [s \in Scanners |-> IdleScan]
  /\ deleting = {}
  /\ requeued = [r \in Runs |-> {}]

-----------------------------------------------------------------------------
(* The world outside: the clock, and whoever saves the file.                 *)

Tick ==
  /\ now < MaxNow
  /\ now' = now + 1
  /\ UNCHANGED <<disk, png, dbVars, runVars, scan, restVars>>

Save(f) ==
  /\ f \in present /\ disk[f] < MaxVersion
  /\ disk' = [disk EXCEPT ![f] = @ + 1]
  /\ UNCHANGED <<now, png, dbVars, runVars, scan, restVars>>

-----------------------------------------------------------------------------
(* One batch of the queue: run_preview_queue.                                *)

JobsOf(r) == {f \in Files : job[r][f].phase # "none"}
Busy(r) == {f \in Files : job[r][f].phase \notin {"none", "queued"}}

SetJob(r, f, j) == job' = [job EXCEPT ![r][f] = j]

(* now_ms() is read before the claim's transaction, which may wait for the   *)
(* database lock: two claims may well be stamped with one instant.           *)
BeginBatch(r) ==
  /\ pc[r] # "claiming" /\ JobsOf(r) = {}
  /\ pc' = [pc EXCEPT ![r] = "claiming"]
  /\ stamp' = [stamp EXCEPT ![r] = now]
  /\ UNCHANGED <<now, disk, png, dbVars, job, scan, restVars>>

UncappedClaimable(f, at) ==
  /\ pv[f].state = "pending" /\ project = "ok"
  /\ pv[f].claimed = None \/ pv[f].claimed + Lease <= at
  /\ row[f].kind \in HandledKinds
UnleasedClaimable(f, at) ==
  /\ pv[f].state = "pending" /\ pv[f].attempts < MaxAttempts
  /\ project = "ok" /\ pv[f].claimed = None
  /\ row[f].kind \in HandledKinds
TakenOverClaimable(f, at) ==
  /\ pv[f].state = "pending" /\ pv[f].attempts < MaxAttempts
  /\ project = "ok" /\ (pv[f].claimed = None \/ pv[f].claimed <= at)
  /\ row[f].kind \in HandledKinds
Claimable(f, at) ==
  /\ pv[f].state = "pending" /\ pv[f].attempts < MaxAttempts
  /\ project = "ok"
  /\ pv[f].claimed = None \/ pv[f].claimed + Lease <= at
  /\ row[f].kind \in HandledKinds

Claimed(p, at) == [p EXCEPT !.claimed = at, !.attempts = @ + 1]
QueuedJob(f) == [phase |-> "queued", hashed |-> row[f].hashed, drew |-> 0]

(* claim_pending_previews: a full batch of claimable rows, or all of them.   *)
ClaimBatch(r) ==
  /\ pc[r] = "claiming"
  /\ LET claimable == {f \in Files : Claimable(f, stamp[r])}
     IN \E batch \in SUBSET claimable :
          /\ \/ batch = claimable /\ Cardinality(batch) <= BatchLimit
             \/ Cardinality(batch) = BatchLimit
          /\ pv' = [f \in Files |->
                      IF f \in batch
                      THEN Claimed(pv[f], stamp[r])
                      ELSE pv[f]]
          /\ job' = [job EXCEPT ![r] = [f \in Files |->
                      IF f \in batch
                      THEN QueuedJob(f)
                      ELSE NoJob]]
  /\ pc' = [pc EXCEPT ![r] = "working"]
  /\ requeued' = [requeued EXCEPT ![r] = {}]
  /\ UNCHANGED <<now, disk, png, project, row, stamp, scan, present, deleting>>

Answered(outcome) == CASE outcome = "ready" -> "drawn" [] outcome = "failed" -> "broken"
                       [] outcome = "unsupported" -> "nothing"

(* produce: the handlers read the bytes that are on disk when they run, not  *)
(* the bytes the row's hash names.                                           *)
Draw(r, f) ==
  /\ job[r][f].phase = "queued" /\ Cardinality(Busy(r)) < Concurrency
  /\ f \in present
  /\ SetJob(r, f, [job[r][f] EXCEPT !.phase = Answered(Outcome[Content[f][disk[f]]]),
                                    !.drew = disk[f]])
  /\ UNCHANGED <<now, disk, png, dbVars, pc, stamp, scan, restVars>>

(* The bytes are gone or unreadable, or a handler panicked.                  *)
DrawFails(r, f) ==
  /\ job[r][f].phase = "queued" /\ Cardinality(Busy(r)) < Concurrency
  /\ SetJob(r, f, [job[r][f] EXCEPT !.phase = "broken"])
  /\ UNCHANGED <<now, disk, png, dbVars, pc, stamp, scan, restVars>>

(* fs::write of the picture, before the row is asked whether the job still   *)
(* owns it; a write that fails makes the job a failed one.                   *)
StorePng(r, f) ==
  /\ job[r][f].phase = "drawn"
  /\ png' = [png EXCEPT ![f] = job[r][f].drew]
  /\ SetJob(r, f, [job[r][f] EXCEPT !.phase = "stored"])
  /\ UNCHANGED <<now, disk, dbVars, pc, stamp, scan, restVars>>

StoreFails(r, f) ==
  /\ job[r][f].phase = "drawn"
  /\ SetJob(r, f, [job[r][f] EXCEPT !.phase = "broken"])
  /\ UNCHANGED <<now, disk, png, dbVars, pc, stamp, scan, restVars>>

(* finish: the guard every outcome is written under.                         *)
OwnsPending(r, f) == pv[f].state = "pending"
Owns(r, f) == pv[f].state = "pending" /\ pv[f].claimed = stamp[r]

Recorded(p, j) ==
  CASE j.phase = "stored"  -> [p EXCEPT !.state = "ready", !.source = j.hashed, !.claimed = None]
    [] j.phase = "nothing" -> [p EXCEPT !.state = "unsupported", !.claimed = None]
    [] j.phase = "broken"  -> [p EXCEPT !.state = "failed", !.claimed = None]

Finish(r, f) ==
  /\ job[r][f].phase \in {"stored", "nothing", "broken"}
  /\ pv' = IF Owns(r, f) THEN [pv EXCEPT ![f] = Recorded(@, job[r][f])] ELSE pv
  /\ SetJob(r, f, NoJob)
  /\ UNCHANGED <<now, disk, png, project, row, pc, stamp, scan, restVars>>

(* The outcome could not be written: the row keeps its lease.                *)
FinishLost(r, f) ==
  /\ job[r][f].phase \in {"stored", "nothing", "broken"}
  /\ SetJob(r, f, NoJob)
  /\ UNCHANGED <<now, disk, png, dbVars, pc, stamp, scan, restVars>>

(* The process dies, or the host stops without waiting for its batch.        *)
Crash(r) ==
  /\ pc[r] = "claiming" \/ JobsOf(r) # {}
  /\ job' = [job EXCEPT ![r] = [f \in Files |-> NoJob]]
  /\ pc' = [pc EXCEPT ![r] = "idle"]
  /\ UNCHANGED <<now, disk, png, dbVars, stamp, scan, restVars>>

-----------------------------------------------------------------------------
(* rescan, one file at a time: stat the file, look its row up, read it,      *)
(* write the row.                                                            *)

SetScan(s, rec) == scan' = [scan EXCEPT ![s] = rec]

ScanWalk(s, f) ==
  /\ scan[s].at = "idle"
  /\ project' = "ok"
  /\ SetScan(s, [at |-> IF f \in present THEN "walked" ELSE "gone",
                 file |-> f, seen |-> disk[f], was |-> None, hashed |-> 0])
  /\ UNCHANGED <<now, disk, png, row, pv, runVars, restVars>>

(* The project's folder is not there: an unmounted drive.                    *)
ScanMissing(s) ==
  /\ scan[s].at = "idle" /\ project = "ok"
  /\ project' = "missing"
  /\ UNCHANGED <<now, disk, png, row, pv, runVars, scan, restVars>>

ScanLookup(s) ==
  /\ scan[s].at = "walked"
  /\ LET f == scan[s].file
         known == HasRow(f)
         sameStat == row[f].mtime = scan[s].seen
     IN \/ ~known /\ SetScan(s, [scan[s] EXCEPT !.at = "new"])
        \/ known /\ ~sameStat /\ SetScan(s, [scan[s] EXCEPT !.at = "changed"])
        \/ /\ known /\ sameStat /\ row[f].by # ClassifierVersion
           /\ SetScan(s, [scan[s] EXCEPT !.at = "stale", !.was = row[f].kind])
        \/ /\ known /\ sameStat /\ row[f].by = ClassifierVersion
           /\ SetScan(s, IdleScan)
  /\ UNCHANGED <<now, disk, png, dbVars, runVars, restVars>>

WriteOf(at) == CASE at = "new" -> "insert" [] at = "changed" -> "update"
                 [] at = "stale" -> "restamp"

(* file_content_hash and classify_file read the bytes that are there now.    *)
ScanRead(s) ==
  /\ scan[s].at \in {"new", "changed", "stale"} /\ scan[s].file \in present
  /\ SetScan(s, [scan[s] EXCEPT !.at = WriteOf(scan[s].at),
                                !.hashed = disk[scan[s].file]])
  /\ UNCHANGED <<now, disk, png, dbVars, runVars, restVars>>

(* The file cannot be opened: the row is left exactly as it was, or the      *)
(* whole rescan fails.                                                       *)
ScanSkip(s) ==
  /\ scan[s].at \in {"new", "changed", "stale"}
  /\ SetScan(s, IdleScan)
  /\ UNCHANGED <<now, disk, png, dbVars, runVars, restVars>>

(* A path with no row gets one, unless another writer inserted it first: the *)
(* UNIQUE constraint then fails the rescan.  A path whose row was deleted    *)
(* meanwhile gets a row with an id of its own, which is no row of f.  Nobody *)
(* asks whether the classifier could open the file: what it answers when it  *)
(* cannot is written, if the hash could be taken a moment later.             *)
ScanInsert(s) ==
  LET f == scan[s].file
      new == FileRow(f, scan[s].seen, scan[s].hashed)
  IN
  /\ scan[s].at = "insert"
  /\ IF pv[f].state = "none"
     THEN /\ \E kind \in {new.kind} \cup Unopened[f] :
               row' = [row EXCEPT ![f] = [new EXCEPT !.kind = kind]]
          /\ pv' = [pv EXCEPT ![f] = FreshPreview]
     ELSE UNCHANGED <<row, pv>>
  /\ SetScan(s, IdleScan)
  /\ UNCHANGED <<now, disk, png, project, runVars, restVars>>

(* same_source: the preview's source_hash is the hash just computed.         *)
SameSaveSource(f, hashed) == pv[f].source = hashed
SameSource(f, hashed) == pv[f].source # None /\ SameBytes(f, pv[f].source, hashed)

(* History: the jobs in flight on f no longer are the row's last claim.       *)
Requeue(f) ==
  requeued' = [r \in Runs |->
                IF job[r][f].phase = "none" THEN requeued[r] ELSE requeued[r] \cup {f}]

(* The stat moved: the row takes the new stat and hash, and the preview goes *)
(* back in the queue unless it was drawn from a file of that very hash.      *)
ScanUpdate(s) ==
  LET f == scan[s].file IN
  /\ scan[s].at = "update"
  /\ IF ~HasRow(f)
     THEN UNCHANGED <<row, pv, requeued>>
     ELSE /\ row' = [row EXCEPT ![f] = FileRow(f, scan[s].seen, scan[s].hashed)]
          /\ \/ SameSource(f, scan[s].hashed) /\ UNCHANGED <<pv, requeued>>
             \/ /\ ~SameSource(f, scan[s].hashed)
                /\ pv' = [pv EXCEPT ![f] = ResetPreview(@)] /\ Requeue(f)
  /\ SetScan(s, IdleScan)
  /\ UNCHANGED <<now, disk, png, project, runVars, present, deleting>>

(* The stat did not move but the classifier did: only a kind that changed    *)
(* puts the preview back in the queue.                                       *)
ScanRestamp(s) ==
  LET f == scan[s].file
      kind == Kind[ClassifierVersion][Content[f][scan[s].hashed]]
  IN
  /\ scan[s].at = "restamp"
  /\ IF ~HasRow(f)
     THEN UNCHANGED <<row, pv, requeued>>
     ELSE /\ row' = [row EXCEPT ![f] = [@ EXCEPT !.kind = kind, !.by = ClassifierVersion]]
          /\ \/ kind = scan[s].was /\ UNCHANGED <<pv, requeued>>
             \/ /\ kind # scan[s].was
                /\ pv' = [pv EXCEPT ![f] = ResetPreview(@)] /\ Requeue(f)
  /\ SetScan(s, IdleScan)
  /\ UNCHANGED <<now, disk, png, project, runVars, present, deleting>>

(* A row whose file the walk did not see; its picture is left behind.        *)
ScanDrop(s) ==
  /\ scan[s].at = "gone"
  /\ pv' = [pv EXCEPT ![scan[s].file] = IF HasRow(scan[s].file) THEN Deleted ELSE @]
  /\ SetScan(s, IdleScan)
  /\ UNCHANGED <<now, disk, png, project, row, runVars, restVars>>

-----------------------------------------------------------------------------
(* delete_file: the bytes and the picture, then the row.                     *)

DeleteBytes(f) ==
  /\ f \in present /\ HasRow(f)
  /\ present' = present \ {f}
  /\ deleting' = deleting \cup {f}
  /\ png' = [png EXCEPT ![f] = None]
  /\ UNCHANGED <<now, disk, dbVars, runVars, scan, requeued>>

DeleteRow(f) ==
  /\ f \in deleting
  /\ deleting' = deleting \ {f}
  /\ pv' = [pv EXCEPT ![f] = Deleted]
  /\ UNCHANGED <<now, disk, png, project, row, runVars, scan, present, requeued>>

-----------------------------------------------------------------------------
Work(r, f) ==
  \/ Draw(r, f) \/ DrawFails(r, f)
  \/ StorePng(r, f) \/ StoreFails(r, f)
  \/ Finish(r, f) \/ FinishLost(r, f)

Run(r) ==
  \/ BeginBatch(r) \/ ClaimBatch(r) \/ Crash(r)
  \/ \E f \in Files : Work(r, f)

Scan(s) ==
  \/ \E f \in Files : ScanWalk(s, f)
  \/ ScanMissing(s) \/ ScanLookup(s) \/ ScanRead(s) \/ ScanSkip(s)
  \/ ScanInsert(s) \/ ScanUpdate(s) \/ ScanRestamp(s) \/ ScanDrop(s)

User(f) == Save(f) \/ DeleteBytes(f) \/ DeleteRow(f)

Next ==
  \/ Tick
  \/ \E f \in Files : User(f)
  \/ \E r \in Runs : Run(r)
  \/ \E s \in Scanners : Scan(s)

Spec == Init /\ [][Next]_vars

-----------------------------------------------------------------------------
(* What the queue promises.                                                  *)

FileRows == [mtime : Versions, hashed : Versions, by : Classifiers, kind : Kinds]
PreviewRows == [state : {"none", "deleted", "pending"} \cup Outcomes,
                source : Versions \cup {None},
                attempts : 0 .. MaxAttempts,
                claimed : Instants \cup {None}]
Jobs == [phase : JobStates, hashed : Versions, drew : Versions]
Scans == [at : {"idle"}, file : {None}, seen : Versions,
          was : Kinds \cup {None}, hashed : Versions]
           \cup [at : ScanStates \ {"idle"}, file : Files, seen : Versions,
                 was : Kinds \cup {None}, hashed : Versions]

(* TypeOK: the shape of the two tables, the folder, the batches and the      *)
(* rescans; and no row is ever charged more than MAX_PREVIEW_ATTEMPTS        *)
(* claims.                                                                   *)
TypeOK ==
  /\ now \in Instants
  /\ disk \in [Files -> Versions]
  /\ present \subseteq Files /\ deleting \subseteq Files
  /\ png \in [Files -> Versions \cup {None}]
  /\ project \in {"ok", "missing"}
  /\ row \in [Files -> FileRows]
  /\ pv \in [Files -> PreviewRows]
  /\ pc \in [Runs -> {"idle", "claiming", "working"}]
  /\ stamp \in [Runs -> Instants]
  /\ job \in [Runs -> [Files -> Jobs]]
  /\ scan \in [Scanners -> Scans]
  /\ requeued \in [Runs -> SUBSET Files]

(* The index agrees with the disk about f: nothing was saved since the       *)
(* rescan that wrote its row took the file's stat.                           *)
InStep(f) == HasRow(f) /\ f \in present /\ row[f].mtime = disk[f]

(* No save brings back bytes an earlier save replaced.                       *)
NoReverts ==
  \A f \in Files : \A u, v, w \in Versions :
    u <= v /\ v <= w /\ SameBytes(f, u, w) => SameBytes(f, u, v)

InFlight(r, f) == job[r][f].phase # "none"

(* The write token, `claimed_at`, tells a row's jobs apart: of all the jobs  *)
(* claimed since the row was last put in the queue, whatever instants they   *)
(* were stamped with, however many processes run the queue and however many  *)
(* leases ran out meanwhile, one at most can still write its outcome.        *)
OneOwner ==
  \A f \in Files : \A r, q \in Runs :
    /\ InFlight(r, f) /\ Owns(r, f) /\ f \notin requeued[r]
    /\ InFlight(q, f) /\ Owns(q, f) /\ f \notin requeued[q]
    => r = q

(* finish's comment: a job whose token still fits is one whose row "nobody   *)
(* has touched ... since I took it".  No rescan re-queued it meanwhile.      *)
OwnerIsUntouched ==
  \A f \in Files, r \in Runs : InFlight(r, f) /\ Owns(r, f) => f \notin requeued[r]

(* What the code takes for granted where OwnerIsUntouched fails: no two jobs *)
(* in flight for a file were claimed in the same millisecond.                *)
TokensApart ==
  \A f \in Files : \A r, q \in Runs :
    InFlight(r, f) /\ InFlight(q, f) /\ stamp[r] = stamp[q] => r = q

(* A ready row whose file has not been saved since it was indexed names the  *)
(* hash of the bytes on disk, so the stat-match path may skip it for good.   *)
RecordedHashIsCurrent ==
  \A f \in Files :
    InStep(f) /\ pv[f].state = "ready" => SameBytes(f, pv[f].source, disk[f])

(* And the picture resolve_preview_path would serve for it shows those       *)
(* bytes: no edited model keeps its pre-edit thumbnail.                      *)
ServedPictureIsCurrent ==
  \A f \in Files :
    InStep(f) /\ pv[f].state = "ready" =>
      png[f] # None /\ SameBytes(f, png[f], disk[f])

(* A row given up as `unsupported`, which nothing ever revisits, is one whose*)
(* bytes on disk really have nothing to render.                              *)
UnsupportedIsDeserved ==
  \A f \in Files :
    InStep(f) /\ pv[f].state = "unsupported" =>
      Outcome[Content[f][disk[f]]] = "unsupported"

(* A row that left the queue comes back only because the index now names     *)
(* other bytes, or another kind, than those it was drawn from: a touched     *)
(* file keeps its picture, and no batch re-queues anything.                  *)
ReadyIsKeptForSameBytes ==
  [][\A f \in Files :
       pv[f].state = "ready" /\ pv'[f].state = "pending" =>
         \/ ~SameBytes(f, pv[f].source, row'[f].hashed)
         \/ row'[f].kind # row[f].kind]_vars

-----------------------------------------------------------------------------
(* The host calls the queue on a timer and a batch runs to its end; a host   *)
(* that keeps dying between a batch's start and its claim is excluded (SF).  *)
(* Nothing obliges anyone to rescan, save or delete.  So that the bounded    *)
(* clock cannot stop under a lease, it runs only while some lease does.      *)
LeaseTick == Tick /\ \E f \in Files : pv[f].claimed # None /\ now < pv[f].claimed + Lease

LiveNext ==
  \/ LeaseTick
  \/ \E f \in Files : User(f)
  \/ \E r \in Runs : Run(r)
  \/ \E s \in Scanners : Scan(s)

Fairness ==
  /\ WF_vars(LeaseTick)
  /\ \A r \in Runs : WF_vars(BeginBatch(r)) /\ SF_vars(ClaimBatch(r))
  /\ \A r \in Runs, f \in Files :
       /\ WF_vars(Draw(r, f) \/ DrawFails(r, f))
       /\ WF_vars(StorePng(r, f) \/ StoreFails(r, f))
       /\ WF_vars(Finish(r, f) \/ FinishLost(r, f))

LiveSpec == Init /\ [][LiveNext]_vars /\ Fairness

(* Every queued row whose kind a handler covers settles, unless it uses up   *)
(* its attempts, its file or its project goes away, or a rescan re-queues    *)
(* it: a crash costs an attempt, never the row.                              *)
PendingSettles ==
  \A f \in Files :
    pv[f].state = "pending" ~>
      \/ Settled(f) \/ ~HasRow(f)
      \/ pv[f].attempts = MaxAttempts
      \/ project = "missing" \/ row[f].kind \notin HandledKinds

-----------------------------------------------------------------------------
(* Why the recorded hash and the pictures are right: the inductive invariant *)
(* behind the properties above, for a library rescanned by one rescan at a   *)
(* time.  A row's hash was taken after its stat and before now; a preview's  *)
(* source hash is never newer than the row's; a job that still owns its row  *)
(* was claimed for the very bytes the row names.                             *)
RowInv(f) ==
  HasRow(f) =>
    /\ row[f].mtime <= row[f].hashed /\ row[f].hashed <= disk[f]
    /\ pv[f].source # None => pv[f].source <= row[f].hashed

ScanInv(s) ==
  LET sc == scan[s] IN
  /\ sc.at \notin {"idle", "gone"} => sc.seen <= disk[sc.file]
  /\ sc.at \in {"insert", "update", "restamp"} =>
       /\ sc.seen <= sc.hashed /\ sc.hashed <= disk[sc.file]
       /\ HasRow(sc.file) => row[sc.file].hashed <= sc.hashed

(* A version drawn at or after the claim of bytes equal to the row's.        *)
DrawnSince(f, hashed, drew) ==
  hashed <= drew /\ drew <= disk[f] /\ SameBytes(f, hashed, row[f].hashed)

JobInv(r, f) ==
  LET j == job[r][f] IN
  j.phase # "none" /\ Owns(r, f) =>
    /\ j.hashed <= row[f].hashed /\ SameBytes(f, j.hashed, row[f].hashed)
    /\ j.phase \in {"drawn", "stored", "nothing"} => DrawnSince(f, j.hashed, j.drew)
    /\ j.phase = "nothing" => Outcome[Content[f][j.drew]] = "unsupported"

OutcomeInv(f) ==
  /\ pv[f].state = "ready" =>
       pv[f].source # None /\ SameBytes(f, pv[f].source, row[f].hashed)
  /\ pv[f].state = "unsupported" =>
       \E hashed, drew \in Versions :
         DrawnSince(f, hashed, drew) /\ Outcome[Content[f][drew]] = "unsupported"

QueueInv ==
  /\ \A f \in Files : RowInv(f) /\ OutcomeInv(f) /\ \A r \in Runs : JobInv(r, f)
  /\ \A s \in Scanners : ScanInv(s)

(* Behind OneOwner: the row's token is never older than a job claimed since  *)
(* it was last queued, and a claim takes a newer one.                        *)
TokenInv(f) ==
  /\ \A r \in Runs :
       /\ InFlight(r, f) => pv[f].state # "none"
       /\ InFlight(r, f) /\ f \notin requeued[r] /\ pv[f].state = "pending" =>
            pv[f].claimed # None /\ stamp[r] <= pv[f].claimed
  /\ \A r, q \in Runs :
       /\ InFlight(r, f) /\ f \notin requeued[r]
       /\ InFlight(q, f) /\ f \notin requeued[q]
       /\ stamp[r] = stamp[q]
       => r = q

(* With one run at a time, the file on disk is the picture of the last claim.*)
PictureInv ==
  \A f \in Files :
    /\ \A r \in Runs :
         /\ job[r][f].phase # "none" => ~Settled(f)
         /\ job[r][f].phase = "stored" /\ f \in present => png[f] = job[r][f].drew
    /\ pv[f].state = "ready" /\ f \in present =>
         png[f] # None /\ \E hashed \in Versions : DrawnSince(f, hashed, png[f])
=============================================================================
