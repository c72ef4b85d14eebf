---------------------------- MODULE SlicerSessions ----------------------------
(* One file handed to a slicer in a launch directory, and what becomes of it: *)
(* the watch, the poll, the settle loop, the comparison with its memo, the   *)
(* exit sweep, the user's answers, and the sweep at the next start.          *)
(*                                                                           *)
(* The file's saves are numbered; save 0 is the copy the app wrote.  A save  *)
(* may take its time: until it is whole the file is an archive that does not *)
(* read.  Content[v] is what entry_hash makes of save v, so a slicer that    *)
(* saves what it was given leaves the file unchanged.  Size and modification *)
(* time tell any two writes apart, and stand for <<save, whole>> here.       *)
(*                                                                           *)
(* The scheduler is one thread, so what its timers do is one worker; each    *)
(* command of the window is a worker of its own.                             *)
EXTENDS Naturals, FiniteSets

CONSTANTS
  Timers,        \* the scheduler's thread
  Commands,      \* commands of the window that may run at once
  None,
  MaxSaves,      \* bound: the saves the slicer makes
  Contents, Content,   \* Content[v]: the decompressed entries of save v
  Window,        \* SETTLE_WINDOW_MS, in clock units
  Ttl,           \* SWEPT_RECORD_TTL_MS
  MaxNow         \* bound: the clock stops here

Saves == 0 .. MaxSaves
Files == [save : Saves, whole : BOOLEAN]
StatSet == Saves \X BOOLEAN    \* what a stat of the file says
Instants == 0 .. MaxNow
Workers == Timers \cup Commands

(* What a command does, and what the timers do.                              *)
Tasks == {"list", "import", "discard"}
TimerTasks == {"settle", "exit", "exit again"}

ASSUME NoneAssumption ==
  None \notin Nat \cup Tasks \cup TimerTasks \cup Files \cup StatSet \cup Contents \cup Timers \cup Commands
ASSUME WorkersAssumption == Cardinality(Timers) = 1 /\ Timers \cap Commands = {}
ASSUME BoundsAssumption ==
  /\ MaxSaves \in Nat /\ MaxNow \in Nat /\ Window \in Nat /\ Ttl \in Nat
  /\ Content \in [Saves -> Contents]

VARIABLES
  now,
  saves,      \* the saves begun so far
  file,       \* what is at the launch path: None, or which save and whether it is whole
  record,     \* launch.json: None, or its startedAt and sweptAt
  tracked,    \* the Tracked entry: None, or its alive, pending and last_seen
  exiting,    \* whether the exit sweep's timer is set
  memo,       \* hashes[path]: None, or its key and hash
  since,      \* unsettled_since[path]
  work,       \* work[q]: what worker q is doing
  imported    \* the saves that were added to the library, whole or not

diskVars == <<saves, file, record>>
memVars == <<tracked, exiting, memo, since>>
vars == <<now, diskVars, memVars, work, imported>>

Idle == [at |-> "idle", task |-> None, key |-> None, saw |-> None]
Fresh == [alive |-> TRUE, pending |-> FALSE, seen |-> None]
Stat == <<file.save, file.whole>>
Readable == IF file = None THEN FALSE ELSE file.whole
OwnBytes(hash) == hash = Content[0]
Launched == [save |-> 0, whole |-> TRUE]

(* A launch this process has just made, or one an earlier process left: with *)
(* its record, or without one if it died before it wrote it.                 *)
Init ==
  /\ now = 0 /\ saves = 0 /\ file = Launched
  /\ \/ record = [started |-> 0, swept |-> None] /\ tracked \in {Fresh, None}
     \/ record = None /\ tracked = None
  /\ exiting = FALSE /\ memo = None /\ since = None
  /\ work = [q \in Workers |-> Idle]
  /\ imported = {}

-----------------------------------------------------------------------------
(* The world: the clock, and a slicer that saves whether or not the process  *)
(* the app spawned is still there, as long as the directory is.              *)

Tick ==
  /\ now < MaxNow
  /\ now' = now + 1
  /\ UNCHANGED <<diskVars, memVars, work, imported>>

Directory == file # None \/ record # None

SaveBegins(whole) ==
  /\ Directory /\ saves < MaxSaves
  /\ saves' = saves + 1
  /\ file' = [save |-> saves + 1, whole |-> whole]
  /\ UNCHANGED <<now, record, memVars, work, imported>>

SaveEnds ==
  /\ file # None /\ ~file.whole
  /\ file' = [file EXCEPT !.whole = TRUE]
  /\ UNCHANGED <<now, saves, record, memVars, work, imported>>

(* on_exit.                                                                  *)
ProcessExits ==
  /\ tracked # None /\ tracked.alive
  /\ tracked' = [tracked EXCEPT !.alive = FALSE]
  /\ exiting' = TRUE
  /\ UNCHANGED <<now, diskVars, memo, since, work, imported>>

-----------------------------------------------------------------------------
(* What starts a worker.                                                     *)

SetWork(q, w) == work' = [work EXCEPT ![q] = w]
Begin(q, task) == SetWork(q, [Idle EXCEPT !.at = "stat", !.task = task])
End(q) == SetWork(q, Idle)

(* on_changed: any event under the directory; one timer at a time.           *)
Watch ==
  /\ tracked # None /\ ~tracked.pending
  /\ tracked' = [tracked EXCEPT !.pending = TRUE]
  /\ UNCHANGED <<now, diskVars, exiting, memo, since, work, imported>>

PendingFires(q) ==
  /\ work[q].at = "idle" /\ tracked # None /\ tracked.pending
  /\ tracked' = [tracked EXCEPT !.pending = FALSE]
  /\ Begin(q, "settle")
  /\ UNCHANGED <<now, diskVars, exiting, memo, since, imported>>

(* on_poll, where it finds something to do: the stat is not the last one's.  *)
SeenAny == tracked.seen # None
SeenThis == tracked.seen = Stat
Poll(q) ==
  /\ work[q].at = "idle" /\ tracked # None /\ file # None /\ ~SeenThis
  /\ tracked' = [tracked EXCEPT !.seen = Stat]
  /\ Begin(q, "settle")
  /\ UNCHANGED <<now, diskVars, exiting, memo, since, imported>>

ExitFires(q) ==
  /\ work[q].at = "idle" /\ exiting
  /\ exiting' = FALSE
  /\ IF tracked # None THEN Begin(q, "exit") ELSE UNCHANGED work
  /\ UNCHANGED <<now, diskVars, tracked, memo, since, imported>>

(* list, and the enumeration resolve and discard_many begin with: a session  *)
(* is a file that is there.                                                  *)
Command(q, task) ==
  /\ work[q].at = "idle" /\ file # None
  /\ Begin(q, task)
  /\ UNCHANGED <<now, diskVars, memVars, imported>>

-----------------------------------------------------------------------------
(* inspect and probe: the stat, the memo, the read; then the verdict.        *)

Saw(q) == IF work[q].task \in {"exit", "import"} /\ file # None
          THEN file.save ELSE work[q].saw

(* A file without a record has nothing to be compared with: it is changed.   *)
Found(q, hash) ==
  SetWork(q, [work[q] EXCEPT
    !.at = IF record # None /\ OwnBytes(hash) THEN "unchanged" ELSE "changed",
    !.key = None, !.saw = Saw(q)])

ProbeGone(q) ==
  /\ work[q].at = "stat" /\ file = None
  /\ since' = None
  /\ SetWork(q, [work[q] EXCEPT !.at = "unreadable"])
  /\ UNCHANGED <<now, diskVars, tracked, exiting, memo, imported>>

ProbeMemo(q) ==
  /\ work[q].at = "stat" /\ file # None
  /\ IF memo # None /\ memo.key = Stat
     THEN Found(q, memo.hash) /\ since' = None
     ELSE SetWork(q, [work[q] EXCEPT !.at = "read", !.key = Stat]) /\ UNCHANGED since
  /\ UNCHANGED <<now, diskVars, tracked, exiting, memo, imported>>

(* The memo takes the key of the stat that came before the read.             *)
LateKeyRead(q) ==
  /\ work[q].at = "read" /\ Readable
  /\ memo' = [key |-> Stat, hash |-> Content[work[q].key[1]]]
  /\ since' = None
  /\ Found(q, Content[file.save])
  /\ UNCHANGED <<now, diskVars, tracked, exiting, imported>>
ProbeRead(q) ==
  /\ work[q].at = "read" /\ Readable
  /\ memo' = [key |-> work[q].key, hash |-> Content[file.save]]
  /\ since' = None
  /\ Found(q, Content[file.save])
  /\ UNCHANGED <<now, diskVars, tracked, exiting, imported>>

(* Empty at the stat, locked, half an archive, or gone since; the window is  *)
(* counted from the first time anybody found it so.                          *)
Deadline == now + Window
FirstFailure == IF since = None THEN now ELSE since
ProbeFails(q) ==
  /\ work[q].at = "read" /\ ~(Readable /\ work[q].key[2])
  /\ since' = FirstFailure
  /\ SetWork(q, [work[q] EXCEPT
       !.at = IF now - FirstFailure < Window THEN "settling" ELSE "unreadable",
       !.key = None, !.saw = Saw(q)])
  /\ UNCHANGED <<now, diskVars, tracked, exiting, memo, imported>>

-----------------------------------------------------------------------------
(* What follows from the verdict.                                            *)

Verdicts == {"unchanged", "changed", "settling", "unreadable"}

(* settle_step: another comparison while the file is being written.          *)
SettleStep(q) ==
  /\ work[q].task = "settle" /\ work[q].at \in Verdicts
  /\ tracked' = IF work[q].at = "settling" /\ tracked # None
                THEN [tracked EXCEPT !.pending = TRUE] ELSE tracked
  /\ End(q)
  /\ UNCHANGED <<now, diskVars, exiting, memo, since, imported>>

Listed(q) ==
  /\ work[q].task = "list" /\ work[q].at \in Verdicts
  /\ End(q)
  /\ UNCHANGED <<now, diskVars, memVars, imported>>

(* exit_sweep goes on only where the copy is what the app wrote.  The        *)
(* enumeration that follows looks for the file and probes it once more, but  *)
(* what it then finds is not asked about.                                    *)
Goner(verdict) == verdict # "changed"
Sweepable(verdict) == verdict = "unchanged"
ExitSweep(q) ==
  /\ work[q].task = "exit" /\ work[q].at \in Verdicts
  /\ IF Sweepable(work[q].at) /\ file # None
     THEN SetWork(q, [work[q] EXCEPT !.at = "stat", !.task = "exit again"])
     ELSE End(q)
  /\ UNCHANGED <<now, diskVars, memVars, imported>>

ExitListed(q) ==
  /\ work[q].task = "exit again" /\ work[q].at \in Verdicts
  /\ SetWork(q, [work[q] EXCEPT !.at = "sweep"])
  /\ UNCHANGED <<now, diskVars, memVars, imported>>

Discard(q) ==
  /\ work[q].task = "discard" /\ work[q].at \in Verdicts
  /\ SetWork(q, [work[q] EXCEPT !.at = "sweep"])
  /\ UNCHANGED <<now, diskVars, memVars, imported>>

(* The bytes that are there by now are added to the project ...              *)
Import(q) ==
  /\ work[q].task = "import" /\ work[q].at \in {"unchanged", "changed"} /\ file # None
  /\ imported' = imported \cup {file}
  /\ SetWork(q, [work[q] EXCEPT !.at = "sweep"])
  /\ UNCHANGED <<now, diskVars, memVars>>

(* ... unless the file is not settled, is gone, or the upload fails.         *)
ImportFails(q) ==
  /\ work[q].task = "import" /\ work[q].at \in Verdicts
  /\ End(q)
  /\ UNCHANGED <<now, diskVars, memVars, imported>>

(* sweep: the file, whose removal may fail unnoticed, and what this process  *)
(* remembers of it; then the record.                                         *)
SweepFile(q) ==
  /\ work[q].at = "sweep"
  /\ file' \in {None, file}
  /\ memo' = None /\ since' = None /\ tracked' = None
  /\ SetWork(q, [work[q] EXCEPT !.at = "record"])
  /\ UNCHANGED <<now, saves, record, exiting, imported>>

SweepRecord(q) ==
  /\ work[q].at = "record"
  /\ record' = IF record = None THEN None ELSE [record EXCEPT !.swept = now]
  /\ End(q)
  /\ UNCHANGED <<now, saves, file, memVars, imported>>

-----------------------------------------------------------------------------
(* The app dies, or is closed, and starts again: sweep_at_start removes only *)
(* a record that has been alone for longer than its time.                    *)
Expired == now - (IF record.swept # None THEN record.swept ELSE record.started) > Ttl

Restart ==
  /\ record' = IF record # None /\ file = None /\ Expired THEN None ELSE record
  /\ tracked' = None /\ exiting' = FALSE /\ memo' = None /\ since' = None
  /\ work' = [q \in Workers |-> Idle]
  /\ UNCHANGED <<now, saves, file, imported>>

-----------------------------------------------------------------------------
Slicer == SaveEnds \/ ProcessExits \/ \E whole \in BOOLEAN : SaveBegins(whole)

Timer(q) == PendingFires(q) \/ Poll(q) \/ ExitFires(q)

Step(q) ==
  \/ ProbeGone(q) \/ ProbeMemo(q) \/ ProbeRead(q) \/ ProbeFails(q)
  \/ SettleStep(q) \/ Listed(q) \/ ExitSweep(q) \/ ExitListed(q) \/ Discard(q)
  \/ Import(q) \/ ImportFails(q)
  \/ SweepFile(q) \/ SweepRecord(q)

Next ==
  \/ Tick \/ Slicer \/ Watch \/ Restart
  \/ \E q \in Timers : Timer(q)
  \/ \E q \in Commands, task \in Tasks : Command(q, task)
  \/ \E q \in Workers : Step(q)

(* The scheduler runs every timer that is due, and a worker that has begun   *)
(* goes on.  Nothing obliges the slicer, the user or the watch.              *)
Fairness ==
  /\ \A q \in Timers : SF_vars(Poll(q)) /\ SF_vars(PendingFires(q)) /\ SF_vars(ExitFires(q))
  /\ \A q \in Workers : WF_vars(Step(q))

Spec == Init /\ [][Next]_vars /\ Fairness

-----------------------------------------------------------------------------

(* TypeOK: the shape of the directory, of what the process remembers and of  *)
(* its workers; the scheduler's thread never answers for the user, no        *)
(* command sweeps for an exit, and who reads the file has its stat.          *)
TypeOK ==
  /\ now \in Instants /\ saves \in Saves
  /\ file \in Files \cup {None}
  /\ file # None => file.save <= saves
  /\ record \in [started : Instants, swept : Instants \cup {None}] \cup {None}
  /\ tracked \in [alive : BOOLEAN, pending : BOOLEAN, seen : StatSet \cup {None}] \cup {None}
  /\ exiting \in BOOLEAN
  /\ memo \in [key : StatSet, hash : Contents] \cup {None}
  /\ since \in 0 .. now \cup {None}
  /\ imported \subseteq Files
  /\ work \in [Workers -> [at : {"idle", "stat", "read", "sweep", "record"} \cup Verdicts,
                           task : Tasks \cup TimerTasks \cup {None},
                           key : StatSet \cup {None}, saw : Saves \cup {None}]]
  /\ \A q \in Workers :
       /\ work[q].task \in (IF q \in Timers THEN TimerTasks ELSE Tasks) \cup {None}
       /\ work[q].at = "read" => work[q].key # None

(* The memo is never believed wrongly: where its key is the stat of the file *)
(* that is there, the file is whole and the hash is that file's, although    *)
(* several workers stat, read and write it while the slicer saves.           *)
MemoIsHonest ==
  memo # None /\ file # None /\ memo.key = Stat =>
    file.whole /\ memo.hash = Content[file.save]

(* "Only the user's answer, or an observed-and-settled exit, removes a file":*)
(* a save that had begun when the comparison was made is removed only if the *)
(* user discards it, if it was added to the library, or if it is what the    *)
(* app itself wrote.                                                         *)
Excused(q) ==
  /\ work[q].at = "sweep"
  /\ \/ work[q].task = "discard"
     \/ work[q].saw < file.save
     \/ work[q].task = "import" /\ file \in imported
     \/ work[q].task = "exit again" /\ file.whole /\ OwnBytes(Content[file.save])
ComparedSavesSurvive ==
  [][file # None /\ file' = None => \E q \in Workers : Excused(q)]_vars

(* While a launch is tracked, a whole save that the poll has not seen yet is *)
(* compared, or gives way to another, whatever the watch misses.             *)
Unseen(s) == /\ tracked # None /\ file = [save |-> s, whole |-> TRUE]
             /\ tracked.seen # <<s, TRUE>>
Compared(s) == memo # None /\ memo.key = <<s, TRUE>>
SaveIsCompared ==
  \A s \in Saves :
    Unseen(s) ~> Compared(s) \/ file # [save |-> s, whole |-> TRUE] \/ tracked = None

(* sessions.rs: the exit sweep "may delete only a file that is still         *)
(* byte-identical to what this app itself wrote there".                      *)
ExitSweepTakesOwnBytes ==
  [][\A q \in Timers :
       work[q].at = "sweep" /\ file # None /\ file' = None =>
         file.whole /\ OwnBytes(Content[file.save])]_vars

(* What the process remembers of a launch has its type and is never wrong.   *)
MemoryIsSound == TypeOK /\ MemoIsHonest
=============================================================================
