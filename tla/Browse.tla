-------------------------------- MODULE Browse -------------------------------
(* The model browser: the one view on a foreign site, the downloads it       *)
(* starts, the directory they are staged in, and what becomes of them.       *)
(*                                                                           *)
(* The view's hooks run on the main thread, one at a time; every command of  *)
(* the page runs on a thread of its own.  None of them holds a lock from one *)
(* step to the next.  A download is known by a number; its size is in units, *)
(* and unknown until it is there.                                            *)
EXTENDS Naturals, FiniteSets

CONSTANTS
  Threads, Main, \* the threads commands run on, and the one hooks run on
  Urls,          \* what can be downloaded
  None,
  MaxConcurrent, MaxStaged, MaxSingle,   \* Limits
  MaxSize,       \* bound: size of what a site sends
  MaxDownloads,  \* bound: downloads requested
  MaxViews,      \* bound: views made between two starts
  MaxCalls,      \* bound: commands
  MaxRestarts    \* bound: restarts of the app

Ids == 1 .. MaxDownloads
Views == 1 .. MaxViews
Sizes == 0 .. MaxSize
Records == [state : {"progressing", "completed", "interrupted"}, total : Sizes,
            received : Sizes]
Entries == [rec : Records, orphan : BOOLEAN, bytes : Sizes, verifiable : BOOLEAN]
Dirs == [record : Records \cup {None}, bytes : Sizes]

ASSUME BrowseAssumption ==
  /\ None \notin Threads \cup {Main} \cup Urls \cup Nat \cup Records \cup Entries \cup Dirs
  /\ Main \notin Threads
  /\ {MaxConcurrent, MaxStaged, MaxSingle, MaxSize, MaxDownloads, MaxViews, MaxCalls,
      MaxRestarts} \subseteq Nat

VARIABLES
  transfer,   \* transfer[d]: what the site sends and what the browser does with it
  entry,      \* Downloads.staged: entry[d], or None
  disk,       \* disk[d]: the staged directory, its record and its bytes, or None
  slot,       \* BrowseHost.slot
  view,       \* view[v]: whether it lives, whether it is visible
  job,        \* job[t]: what thread t is doing
  landed,     \* what was uploaded to a library: which download and how much of it
  alone,      \* no command has overlapped another, or a hook, since the start
  calls, starts

hostVars == <<slot, view>>
stageVars == <<transfer, entry, disk>>
tallyVars == <<alone, calls, starts>>
vars == <<stageVars, hostVars, job, landed, tallyVars>>

NoTransfer == [at |-> "none", whole |-> 0, url |-> None, view |-> None]
NoSlot == [view |-> None, bounds |-> FALSE, hidden |-> FALSE, parked |-> FALSE]
NoView == [alive |-> FALSE, visible |-> FALSE, used |-> FALSE]
Idle == [at |-> "idle", then |-> "idle", id |-> None, size |-> 0, ok |-> FALSE,
         view |-> None, hidden |-> FALSE]
Actors == Threads \cup {Main}

At(t, stage) == job[t].at = stage
Go(t, stage) == job' = [job EXCEPT ![t].at = stage]
GoWith(t, stage, j) == job' = [job EXCEPT ![t] = [j EXCEPT !.at = stage]]
End(t) == job' = [job EXCEPT ![t] = Idle]
Then(t) == job' = [job EXCEPT ![t] = [Idle EXCEPT !.at = job[t].then]]
Least(S) == CHOOSE n \in S : \A m \in S : n <= m

Running(d) == entry[d] # None /\ ~entry[d].orphan /\ entry[d].rec.state = "progressing"
AnyRunning == \E d \in Ids : Running(d)
Live(v) == v # None /\ view[v].alive
Fresh == {d \in Ids : transfer[d] = NoTransfer}

-----------------------------------------------------------------------------
(* The record beside a download says how far it came.  Only the record of a  *)
(* completed one vouches for the bytes.                                      *)

VouchesForAnyState(rec, bytes, observed) ==
  IF rec.total = 0 THEN bytes > 0 /\ bytes = rec.received ELSE bytes = rec.total

Vouches(rec, bytes, observed) ==
  /\ rec.state = "completed"
  /\ IF rec.total = 0 THEN observed /\ bytes > 0 /\ bytes = rec.received
                      ELSE bytes = rec.total

Started == [state |-> "progressing", total |-> 0, received |-> 0]
Unrecorded(bytes) == [state |-> "interrupted", total |-> 0, received |-> bytes]

(* What a start makes of a directory it finds.                               *)
Swept(dir) ==
  IF dir = None THEN None
  ELSE LET rec == IF dir.record = None THEN Unrecorded(dir.bytes) ELSE dir.record IN
       [rec |-> rec, orphan |-> TRUE, bytes |-> dir.bytes,
        verifiable |-> dir.record # None /\ Vouches(rec, dir.bytes, FALSE)]

Init ==
  /\ transfer = [d \in Ids |-> NoTransfer]
  /\ entry = [d \in Ids |-> None] /\ disk = [d \in Ids |-> None]
  /\ slot = NoSlot /\ view = [v \in Views |-> NoView]
  /\ job = [t \in Actors |-> Idle]
  /\ landed = {}
  /\ alone = TRUE /\ calls = 0 /\ starts = 0

(* The app stops at any moment and starts again.  Files may have been cut    *)
(* short while it was away.                                                  *)
Restart ==
  /\ starts < MaxRestarts /\ starts' = starts + 1
  /\ \E d \in Ids, n \in Sizes :
       LET dir == disk[d] IN
       disk' = [disk EXCEPT ![d] =
         IF dir # None /\ n < dir.bytes THEN [dir EXCEPT !.bytes = n] ELSE dir]
  /\ entry' = [d \in Ids |-> Swept(disk'[d])]
  /\ transfer' = [d \in Ids |->
       IF transfer[d] = NoTransfer THEN NoTransfer
       ELSE [transfer[d] EXCEPT !.at = "over", !.view = None]]
  /\ slot' = NoSlot /\ view' = [v \in Views |-> NoView]
  /\ job' = [t \in Actors |-> Idle]
  /\ alone' = TRUE
  /\ UNCHANGED <<landed, calls>>

-----------------------------------------------------------------------------
Begins(t, j) ==
  /\ job' = [job EXCEPT ![t] = j]
  /\ alone' = (alone /\ \A a \in Actors : At(a, "idle"))
  /\ calls' = IF t = Main THEN calls ELSE calls + 1
  /\ UNCHANGED starts

(* A page asks to download.  The record is on disk before the browser is     *)
(* told where to put the file.                                               *)

Total(c) ==
  LET upTo[n \in 0 .. MaxDownloads] == IF n = 0 THEN 0 ELSE upTo[n - 1] + c[n]
  IN  upTo[MaxDownloads]

Staged(d) ==
  IF entry[d] = None THEN 0
  ELSE IF Running(d) THEN entry[d].rec.total ELSE entry[d].bytes

StagedBytes == Total([d \in Ids |-> Staged(d)])

RefusesTooMany == Cardinality({d \in Ids : Running(d)}) >= MaxConcurrent

Refuses ==
  \/ Cardinality({d \in Ids : Running(d)}) >= MaxConcurrent
  \/ StagedBytes > MaxStaged

Requested ==
  /\ Fresh # {} /\ ~Refuses
  /\ \E v \in Views, url \in Urls, whole \in Sizes \ {0} :
       /\ Live(v)
       /\ transfer' = [transfer EXCEPT ![Least(Fresh)] =
            [at |-> "asked", whole |-> whole, url |-> url, view |-> v]]
  /\ Begins(Main, [Idle EXCEPT !.at = "mkdir", !.id = Least(Fresh)])
  /\ UNCHANGED <<entry, disk, hostVars, landed>>

MakeDir ==
  LET d == job[Main].id IN
  /\ At(Main, "mkdir")
  /\ disk' = [disk EXCEPT ![d] = [record |-> None, bytes |-> 0]]
  /\ Go(Main, "record")
  /\ UNCHANGED <<transfer, entry, hostVars, landed, tallyVars>>

RecordFails ==
  LET d == job[Main].id IN
  /\ At(Main, "record")
  /\ disk' = [disk EXCEPT ![d] = None]
  /\ transfer' = [transfer EXCEPT ![d].at = "over"]
  /\ End(Main)
  /\ UNCHANGED <<entry, hostVars, landed, tallyVars>>

Record ==
  /\ At(Main, "record")
  /\ disk' = [disk EXCEPT ![job[Main].id].record = Started]
  /\ Go(Main, "push")
  /\ UNCHANGED <<transfer, entry, hostVars, landed, tallyVars>>

Push ==
  LET d == job[Main].id IN
  /\ At(Main, "push")
  /\ entry' = [entry EXCEPT ![d] =
       [rec |-> Started, orphan |-> FALSE, bytes |-> 0, verifiable |-> FALSE]]
  /\ transfer' = [transfer EXCEPT ![d].at = IF Live(transfer[d].view) THEN "coming" ELSE "cut"]
  /\ End(Main)
  /\ UNCHANGED <<disk, hostVars, landed, tallyVars>>

(* The browser writes the file, and says when it is done or has given up.    *)
(* It may not say where the file is; then the address has to tell.  A        *)
(* download whose view was closed is cut off, and may never be heard of.     *)

Arrive(d) ==
  /\ transfer[d].at = "coming" /\ disk[d] # None /\ disk[d].bytes < transfer[d].whole
  /\ disk' = [disk EXCEPT ![d].bytes = @ + 1]
  /\ UNCHANGED <<transfer, entry, hostVars, job, landed, tallyVars>>

SameUrl(d) == {e \in Ids : Running(e) /\ transfer[e].url = transfer[d].url}
Located(d, withPath) == IF withPath THEN Running(d) ELSE SameUrl(d) = {d}
Bytes(d) == IF disk[d] = None THEN 0 ELSE disk[d].bytes

Finished(d, ok, withPath) ==
  /\ transfer[d].at = "coming" \/ (transfer[d].at = "cut" /\ ~ok)
  /\ ok => Bytes(d) = transfer[d].whole
  /\ transfer' = [transfer EXCEPT ![d].at = "over"]
  /\ Begins(Main,
       IF ~Located(d, withPath) THEN [Idle EXCEPT !.at = "release"]
       ELSE [Idle EXCEPT !.at = IF ok /\ Bytes(d) > MaxSingle THEN "remove" ELSE "settle",
                         !.then = "release", !.id = d, !.ok = ok, !.size = Bytes(d)])
  /\ UNCHANGED <<entry, disk, hostVars, landed>>

Ended(rec, ok, size) ==
  [state |-> IF ok THEN "completed" ELSE "interrupted",
   total |-> IF ok /\ rec.total = 0 THEN size ELSE rec.total, received |-> size]

Settle ==
  LET j == job[Main]
      rec == Ended(entry[j.id].rec, j.ok, j.size) IN
  /\ At(Main, "settle")
  /\ IF entry[j.id] = None THEN UNCHANGED entry /\ Then(Main)
     ELSE /\ entry' = [entry EXCEPT ![j.id] =
               [rec |-> rec, orphan |-> FALSE, bytes |-> j.size,
                verifiable |-> Vouches(rec, j.size, TRUE)]]
          /\ Go(Main, "rewrite")
  /\ UNCHANGED <<transfer, disk, hostVars, landed, tallyVars>>

(* The entry is not held meanwhile: writing puts the directory of one that   *)
(* has just been discarded back.                                             *)
RewriteOnly ==
  LET j == job[Main] IN
  /\ At(Main, "rewrite")
  /\ disk' = [disk EXCEPT ![j.id] =
       [record |-> Ended(Started, j.ok, j.size), bytes |-> Bytes(j.id)]]
  /\ End(Main)
  /\ UNCHANGED <<transfer, entry, hostVars, landed, tallyVars>>

Rewrite ==
  LET j == job[Main] IN
  /\ At(Main, "rewrite")
  /\ \/ disk' = [disk EXCEPT ![j.id] =
          [record |-> Ended(Started, j.ok, j.size), bytes |-> Bytes(j.id)]]
     \/ UNCHANGED disk
  /\ Then(Main)
  /\ UNCHANGED <<transfer, entry, hostVars, landed, tallyVars>>

-----------------------------------------------------------------------------
(* Landing and discarding.  A directory that cannot be removed stays, with   *)
(* or without its record; the entry is forgotten all the same.               *)

Land(t, d) ==
  /\ entry[d] # None /\ entry[d].verifiable
  /\ Begins(t, [Idle EXCEPT !.at = "measure", !.id = d, !.size = entry[d].bytes])
  /\ UNCHANGED <<stageVars, hostVars, landed>>

Measure(t) ==
  LET j == job[t] IN
  /\ At(t, "measure")
  /\ IF disk[j.id] # None /\ disk[j.id].bytes = j.size THEN Go(t, "upload") ELSE End(t)
  /\ UNCHANGED <<stageVars, hostVars, landed, tallyVars>>

Upload(t) ==
  LET j == job[t] IN
  /\ At(t, "upload")
  /\ \/ /\ Bytes(j.id) > 0
        /\ landed' = landed \cup {[id |-> j.id, bytes |-> disk[j.id].bytes]}
        /\ Go(t, "remove")
     \/ UNCHANGED landed /\ End(t)
  /\ UNCHANGED <<stageVars, hostVars, tallyVars>>

DiscardAny(t, d) ==
  /\ entry[d] # None
  /\ Begins(t, [Idle EXCEPT !.at = "remove", !.then = "release", !.id = d])
  /\ UNCHANGED <<stageVars, hostVars, landed>>

Discard(t, d) ==
  /\ entry[d] # None /\ ~Running(d)
  /\ Begins(t, [Idle EXCEPT !.at = "remove", !.then = "release", !.id = d])
  /\ UNCHANGED <<stageVars, hostVars, landed>>

RemoveDir(a) ==
  LET d == job[a].id IN
  /\ At(a, "remove")
  /\ IF entry[d] = None THEN UNCHANGED disk /\ Then(a)
     ELSE /\ \/ disk' = [disk EXCEPT ![d] = None]
             \/ disk[d] # None /\ disk' = [disk EXCEPT ![d].record = None]
             \/ UNCHANGED disk
          /\ Go(a, "retain")
  /\ UNCHANGED <<transfer, entry, hostVars, landed, tallyVars>>

RetainCancelled(a) ==
  LET d == job[a].id IN
  /\ At(a, "retain")
  /\ entry' = [entry EXCEPT ![d] = IF @ = None THEN None ELSE [@ EXCEPT !.rec.state = "cancelled"]]
  /\ Then(a)
  /\ UNCHANGED <<transfer, disk, hostVars, landed, tallyVars>>

Retain(a) ==
  /\ At(a, "retain")
  /\ entry' = [entry EXCEPT ![job[a].id] = None]
  /\ Then(a)
  /\ UNCHANGED <<transfer, disk, hostVars, landed, tallyVars>>

-----------------------------------------------------------------------------
(* The view: made, placed, hidden, parked, closed.  Closing a view cuts off  *)
(* what it downloads.                                                        *)

Take(a) ==
  /\ At(a, "take")
  /\ slot' = NoSlot
  /\ GoWith(a, "close", [job[a] EXCEPT !.view = slot.view])
  /\ UNCHANGED <<stageVars, view, landed, tallyVars>>

Close(a) ==
  LET v == job[a].view IN
  /\ At(a, "close")
  /\ IF ~Live(v) THEN UNCHANGED <<view, transfer>>
     ELSE /\ view' = [view EXCEPT ![v].alive = FALSE, ![v].visible = FALSE]
          /\ transfer' = [d \in Ids |->
               IF transfer[d].view = v /\ transfer[d].at = "coming"
               THEN [transfer[d] EXCEPT !.at = "cut"] ELSE transfer[d]]
  /\ Then(a)
  /\ UNCHANGED <<entry, disk, slot, landed, tallyVars>>

AttachAnew(t) ==
  /\ Begins(t, [Idle EXCEPT !.at = "take", !.then = "create"])
  /\ UNCHANGED <<stageVars, hostVars, landed>>

Attach(t) ==
  /\ IF slot.parked /\ Live(slot.view)
     THEN /\ slot' = [slot EXCEPT !.parked = FALSE, !.hidden = FALSE, !.bounds = TRUE]
          /\ Begins(t, [Idle EXCEPT !.at = "apply"])
     ELSE UNCHANGED slot /\ Begins(t, [Idle EXCEPT !.at = "take", !.then = "create"])
  /\ UNCHANGED <<stageVars, view, landed>>

(* All views have one label, and a label is not given twice.                 *)
Create(t) ==
  /\ At(t, "create")
  /\ \/ \E v \in Views :
          /\ ~view[v].used /\ \A w \in Views : w < v => view[w].used
          /\ \A w \in Views : ~view[w].alive
          /\ view' = [view EXCEPT ![v] = [alive |-> TRUE, visible |-> TRUE, used |-> TRUE]]
          /\ GoWith(t, "store", [job[t] EXCEPT !.view = v])
     \/ UNCHANGED view /\ End(t)
  /\ UNCHANGED <<stageVars, slot, landed, tallyVars>>

Store(t) ==
  /\ At(t, "store")
  /\ slot' = [view |-> job[t].view, bounds |-> TRUE, hidden |-> FALSE, parked |-> FALSE]
  /\ job' = [job EXCEPT ![t] = [Idle EXCEPT !.at = "apply"]]
  /\ UNCHANGED <<stageVars, view, landed, tallyVars>>

Apply(a) ==
  /\ At(a, "apply")
  /\ IF slot.view = None \/ ~slot.bounds THEN End(a)
     ELSE job' = [job EXCEPT ![a] =
            [Idle EXCEPT !.at = "place", !.view = slot.view, !.hidden = slot.hidden]]
  /\ UNCHANGED <<stageVars, hostVars, landed, tallyVars>>

(* A rectangle too small to see hides the view too.                          *)
Place(a) ==
  LET v == job[a].view IN
  /\ At(a, "place")
  /\ IF ~Live(v) THEN UNCHANGED view
     ELSE \E seen \in BOOLEAN :
       /\ job[a].hidden => ~seen
       /\ view' = [view EXCEPT ![v].visible = seen]
  /\ End(a)
  /\ UNCHANGED <<stageVars, slot, landed, tallyVars>>

Detach(t) ==
  /\ Begins(t, IF AnyRunning THEN [Idle EXCEPT !.at = "keep"]
               ELSE [Idle EXCEPT !.at = "take"])
  /\ UNCHANGED <<stageVars, hostVars, landed>>

Keep(t) ==
  /\ At(t, "keep")
  /\ Go(t, IF Live(slot.view) THEN "park" ELSE "take")
  /\ UNCHANGED <<stageVars, hostVars, landed, tallyVars>>

ParkInPlace(t) ==
  /\ At(t, "park")
  /\ slot' = [slot EXCEPT !.parked = TRUE]
  /\ GoWith(t, "cover", [job[t] EXCEPT !.view = slot.view])
  /\ UNCHANGED <<stageVars, view, landed, tallyVars>>

Park(t) ==
  /\ At(t, "park")
  /\ slot' = [slot EXCEPT !.parked = TRUE, !.bounds = FALSE]
  /\ GoWith(t, "cover", [job[t] EXCEPT !.view = slot.view])
  /\ UNCHANGED <<stageVars, view, landed, tallyVars>>

Hide(t) ==
  /\ Begins(t, [Idle EXCEPT !.at = "cover", !.view = slot.view])
  /\ slot' = [slot EXCEPT !.hidden = TRUE]
  /\ UNCHANGED <<stageVars, view, landed>>

Cover(t) ==
  LET v == job[t].view IN
  /\ At(t, "cover")
  /\ IF Live(v) THEN view' = [view EXCEPT ![v].visible = FALSE] ELSE UNCHANGED view
  /\ End(t)
  /\ UNCHANGED <<stageVars, slot, landed, tallyVars>>

Show(t) ==
  /\ Begins(t, [Idle EXCEPT !.at = "apply"])
  /\ slot' = [slot EXCEPT !.hidden = FALSE]
  /\ UNCHANGED <<stageVars, view, landed>>

SetBounds(t) ==
  /\ ~slot.parked
  /\ Begins(t, [Idle EXCEPT !.at = "apply"])
  /\ slot' = [slot EXCEPT !.bounds = TRUE]
  /\ UNCHANGED <<stageVars, view, landed>>

Resized ==
  /\ Begins(Main, [Idle EXCEPT !.at = "apply"])
  /\ UNCHANGED <<stageVars, hostVars, landed>>

(* Whether a parked view may go: first the slot is read, then the downloads. *)
ReleaseParked(a) ==
  /\ At(a, "release")
  /\ IF slot.parked THEN job' = [job EXCEPT ![a] = [Idle EXCEPT !.at = "release now"]]
                    ELSE End(a)
  /\ UNCHANGED <<stageVars, hostVars, landed, tallyVars>>

ReleaseNow(a) ==
  /\ At(a, "release now")
  /\ IF AnyRunning THEN End(a) ELSE Go(a, "take")
  /\ UNCHANGED <<stageVars, hostVars, landed, tallyVars>>

-----------------------------------------------------------------------------

Step(a) ==
  \/ RemoveDir(a) \/ Retain(a)
  \/ Take(a) \/ Close(a) \/ Apply(a) \/ Place(a) \/ ReleaseParked(a) \/ ReleaseNow(a)

HookStep ==
  \/ MakeDir \/ Record \/ RecordFails \/ Push \/ Settle \/ Rewrite \/ Step(Main)

CommandStep(t) ==
  \/ Measure(t) \/ Upload(t)
  \/ Create(t) \/ Store(t) \/ Keep(t) \/ Park(t) \/ Cover(t) \/ Step(t)

HookBegins ==
  /\ At(Main, "idle")
  /\ \/ Requested \/ Resized
     \/ \E d \in Ids, ok, withPath \in BOOLEAN : Finished(d, ok, withPath)

CommandBegins(t) ==
  /\ At(t, "idle") /\ calls < MaxCalls
  /\ \/ Attach(t) \/ Detach(t) \/ Hide(t) \/ Show(t) \/ SetBounds(t)
     \/ \E d \in Ids : Land(t, d) \/ Discard(t, d)

Next ==
  \/ Restart \/ \E d \in Ids : Arrive(d)
  \/ HookBegins \/ HookStep
  \/ \E t \in Threads : CommandBegins(t) \/ CommandStep(t)

Spec == Init /\ [][Next]_vars

-----------------------------------------------------------------------------

Stages == {"idle", "mkdir", "record", "push", "settle", "rewrite", "remove", "retain",
  "measure", "upload", "take", "close", "create", "store", "apply", "place", "keep", "park",
  "cover", "release", "release now"}

Jobs == [at : Stages, then : {"idle", "create", "release"}, id : Ids \cup {None}, size : Sizes,
         ok : BOOLEAN, view : Views \cup {None}, hidden : BOOLEAN]
Transfers == [at : {"none", "asked", "coming", "cut", "over"}, whole : Sizes,
              url : Urls \cup {None}, view : Views \cup {None}]

(* Every variable has its type.                                              *)
TypeOK ==
  /\ transfer \in [Ids -> Transfers]
  /\ entry \in [Ids -> Entries \cup {None}] /\ disk \in [Ids -> Dirs \cup {None}]
  /\ slot \in [view : Views \cup {None}, bounds : BOOLEAN, hidden : BOOLEAN, parked : BOOLEAN]
  /\ view \in [Views -> [alive : BOOLEAN, visible : BOOLEAN, used : BOOLEAN]]
  /\ job \in [Actors -> Jobs]
  /\ landed \subseteq [id : Ids, bytes : Sizes] /\ alone \in BOOLEAN

Rest == \A a \in Actors : At(a, "idle")

(* What lands in a library is the whole file: not what a crash, a closed     *)
(* view or an interruption left of it, nor what a later start finds cut      *)
(* short (BrowseLanding::land, Downloads::sweep).                            *)
LandedIsWhole == \A f \in landed : f.bytes = transfer[f.id].whole

(* What a download has or may still come to, if it is of this start.         *)
Claim(d) ==
  IF entry[d] = None \/ entry[d].orphan THEN 0
  ELSE IF Running(d) THEN MaxSingle
  ELSE IF entry[d].rec.state = "completed" THEN entry[d].bytes ELSE 0

(* However many downloads a page starts, those that have ended since the     *)
(* start and those that may still come stay within the limits together: the  *)
(* size of none of them was known when it was let in (Downloads::cap_refusal). *)
StagedIsBounded == Total([d \in Ids |-> Claim(d)]) <= MaxStaged + MaxConcurrent * MaxSingle

(* What the browser is still writing is listed as running and recorded as    *)
(* unfinished beside the bytes, so neither a stop at this moment nor a        *)
(* command can take it for something else (Downloads::on_requested, discard). *)
ComingIsAccountedFor ==
  \A d \in Ids : transfer[d].at = "coming" =>
    /\ Running(d)
    /\ disk[d] # None /\ disk[d].record # None /\ disk[d].record.state = "progressing"

(* A parked view, which nobody sees, is gone when the last download has      *)
(* ended (BrowseHost::release_parked).                                       *)
ParkedViewIsReleased == Rest /\ slot.parked /\ Live(slot.view) => AnyRunning

(* As long as calls and hooks do not overlap, parked views are let go of.    *)
ParkedViewIsReleasedAlone == alone => ParkedViewIsReleased

(* As long as calls and hooks do not overlap, leaving the page and coming    *)
(* back does not cost a download: a view that is downloading is only given   *)
(* up when a page attaches over one that is on screen (BrowseHost::attach,   *)
(* detach, release_parked).                                                  *)
ParkedDownloadSurvives ==
  [][alone /\ starts' = starts /\ slot.view # None /\ slot'.view # slot.view
     /\ (\E d \in Ids : transfer[d].view = slot.view /\ transfer[d].at = "coming")
     => ~slot.parked /\ \E t \in Threads : At(t, "take") /\ job[t].then = "create"]_vars

(* As long as calls and hooks do not overlap, a view that is hidden under a  *)
(* dialog, or parked, stays hidden whatever is resized or reported, and no   *)
(* view is on screen but the one in use (BrowseHost::hide, apply_bounds).    *)
HiddenStaysHidden ==
  alone /\ Rest => \A v \in Views : view[v].visible =>
    slot.view = v /\ ~slot.hidden /\ ~slot.parked

(* However calls and hooks overlap, what lands is whole and what is staged   *)
(* is bounded and accounted for; where they do not, no view is left behind.  *)
BrowseIsSound ==
  TypeOK /\ LandedIsWhole /\ StagedIsBounded /\ ComingIsAccountedFor
    /\ ParkedViewIsReleasedAlone /\ HiddenStaysHidden
=============================================================================
