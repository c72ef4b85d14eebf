--------------------------- MODULE Desktop_proofs ---------------------------
(* Proofs about the desktop's two state-keeping parts.                       *)
(*                                                                           *)
(* SlicerSessions: for any number of commands at once, any saves and         *)
(* contents of them, any settle window, time to live and clock.              *)
(*                                                                           *)
(* Shell (S! below): for any callers, folders, origins, and bounds of the    *)
(* calls, folder states, servers and restarts.  Its variable file is called  *)
(* state here: file is the slicer's file.                                    *)
EXTENDS SlicerSessions, TLAPS, WellFoundedInduction

(***************************************************************************)
(* Slicer sessions                                                         *)
(***************************************************************************)


Ats == {"idle", "stat", "read", "sweep", "record"} \cup Verdicts
Rows == [at : Ats, task : Tasks \cup TimerTasks \cup {None},
         key : StatSet \cup {None}, saw : Saves \cup {None}]
Sessions == [alive : BOOLEAN, pending : BOOLEAN, seen : StatSet \cup {None}]
Records == [started : Instants, swept : Instants \cup {None}]
Memos == [key : StatSet, hash : Contents]

LEMMA RowTypes ==
  /\ Idle \in Rows /\ 0 \in Saves /\ 0 \in Instants
  /\ Fresh \in Sessions /\ Launched \in Files
  /\ \A w \in Rows, a \in Ats : [w EXCEPT !.at = a] \in Rows
  /\ \A w \in Rows, a \in Ats, k \in StatSet : [w EXCEPT !.at = a, !.key = k] \in Rows
  /\ \A w \in Rows, a \in Ats, s \in Saves \cup {None} :
       [w EXCEPT !.at = a, !.key = None, !.saw = s] \in Rows
  /\ \A t \in Tasks \cup TimerTasks : [Idle EXCEPT !.at = "stat", !.task = t] \in Rows
<1> USE DEF Idle, Rows, Ats
<1>1. 0 \in Saves /\ 0 \in Instants
  BY BoundsAssumption DEF Saves, Instants
<1>2. Fresh \in Sessions /\ Launched \in Files
  BY <1>1 DEF Fresh, Sessions, Launched, Files
<1>3. Idle \in Rows /\ \A t \in Tasks \cup TimerTasks : [Idle EXCEPT !.at = "stat", !.task = t] \in Rows
  OBVIOUS
<1>4. \A w \in Rows, a \in Ats : [w EXCEPT !.at = a] \in Rows
  OBVIOUS
<1>5. \A w \in Rows, a \in Ats, k \in StatSet : [w EXCEPT !.at = a, !.key = k] \in Rows
  OBVIOUS
<1>6. \A w \in Rows, a \in Ats, s \in Saves \cup {None} :
        [w EXCEPT !.at = a, !.key = None, !.saw = s] \in Rows
  OBVIOUS
<1>7. QED BY <1>1, <1>2, <1>3, <1>4, <1>5, <1>6

(* Who may have which task, and what a table of workers looks like.          *)
Roles(q) == (IF q \in Timers THEN TimerTasks ELSE Tasks) \cup {None}
Table(w) ==
  /\ w \in [Workers -> Rows]
  /\ \A q \in Workers : w[q].task \in Roles(q) /\ (w[q].at = "read" => w[q].key # None)

LEMMA SetWorkType ==
  ASSUME TypeOK, NEW q \in Workers, NEW w \in Rows, SetWork(q, w),
         w.task \in Roles(q), w.at = "read" => w.key # None
  PROVE  Table(work')
BY DEF TypeOK, SetWork, Table, Rows, Ats, Roles

LEMMA EndType ==
  ASSUME TypeOK, NEW q \in Workers, End(q)
  PROVE  Table(work')
BY SetWorkType, RowTypes DEF End, Idle, Roles

LEMMA AtType ==
  ASSUME TypeOK, NEW q \in Workers, NEW a \in Ats \ {"read"},
         SetWork(q, [work[q] EXCEPT !.at = a])
  PROVE  Table(work')
<1>1. work[q] \in Rows /\ work[q].task \in Roles(q)
  BY DEF TypeOK, Table, Rows, Ats, Roles
<1>2. [work[q] EXCEPT !.at = a].task = work[q].task /\ [work[q] EXCEPT !.at = a].at = a
  BY <1>1 DEF Rows
<1>3. QED BY <1>1, <1>2, SetWorkType, RowTypes

LEMMA BeginType ==
  ASSUME TypeOK, NEW q \in Workers, NEW t \in Tasks \cup TimerTasks, t \in Roles(q), Begin(q, t)
  PROVE  Table(work')
<1>1. [Idle EXCEPT !.at = "stat", !.task = t].task = t /\ [Idle EXCEPT !.at = "stat", !.task = t].at # "read"
  BY DEF Idle
<1>2. QED BY <1>1, SetWorkType, RowTypes DEF Begin

LEMMA VerdictType ==
  ASSUME TypeOK, NEW q \in Workers, NEW a \in Verdicts,
         SetWork(q, [work[q] EXCEPT !.at = a, !.key = None, !.saw = Saw(q)])
  PROVE  Table(work')
<1>1. work[q] \in Rows /\ work[q].task \in Roles(q) /\ a \in Ats
  BY DEF TypeOK, Table, Rows, Ats, Roles
<1>2. Saw(q) \in Saves \cup {None}
  BY <1>1 DEF Saw, TypeOK, Files, Rows
<1>3. [work[q] EXCEPT !.at = a, !.key = None, !.saw = Saw(q)].task = work[q].task
      /\ [work[q] EXCEPT !.at = a, !.key = None, !.saw = Saw(q)].at = a /\ a # "read"
  BY <1>1 DEF Rows, Verdicts
<1>4. QED BY <1>1, <1>2, <1>3, SetWorkType, RowTypes

LEMMA StatIsKnown == None \notin StatSet
BY NoneAssumption

LEMMA StatType ==
  ASSUME TypeOK, file # None
  PROVE  file \in Files /\ Stat \in StatSet /\ Content[file.save] \in Contents
BY BoundsAssumption DEF TypeOK, Files, Stat, StatSet

(* Every step keeps the shape of the disk, the memory and the workers.       *)
LEMMA TypeStep == TypeOK /\ [Next]_vars => TypeOK'
<1> SUFFICES ASSUME TypeOK, [Next]_vars PROVE TypeOK'
  OBVIOUS
<1> USE DEF diskVars, memVars
<1>0. Table(work)
  BY DEF TypeOK, Table, Rows, Ats, Roles
<1>1. CASE Tick
  <2>1. now' \in Instants /\ now \in Nat /\ now' = now + 1
    BY <1>1, BoundsAssumption DEF TypeOK, Tick, Instants
  <2>2. since' \in 0 .. now' \cup {None}
    BY <1>1, <2>1 DEF TypeOK, Tick
  <2>3. QED BY <1>1, <2>1, <2>2 DEF TypeOK, Tick
<1>2. CASE Slicer
  <2>1. ASSUME NEW whole \in BOOLEAN, SaveBegins(whole) PROVE TypeOK'
    <3>1. saves' \in Saves /\ saves' = saves + 1
      BY <2>1, BoundsAssumption DEF TypeOK, SaveBegins, Saves
    <3>2. file' = [save |-> saves', whole |-> whole]
      BY <2>1, <3>1 DEF SaveBegins
    <3>3. file' \in Files /\ file'.save <= saves'
      BY <3>1, <3>2, BoundsAssumption DEF Files, Saves
    <3>4. QED BY <2>1, <3>1, <3>3 DEF TypeOK, SaveBegins
  <2>2. CASE SaveEnds
    <3>1. file \in Files /\ file.save <= saves
      BY <2>2 DEF SaveEnds, TypeOK
    <3>2. file' \in Files /\ file'.save = file.save
      BY <2>2, <3>1 DEF SaveEnds, Files
    <3>3. QED BY <2>2, <3>1, <3>2 DEF TypeOK, SaveEnds
  <2>3. CASE ProcessExits
    <3>1. tracked' \in Sessions
      BY <2>3 DEF TypeOK, ProcessExits, Sessions
    <3>2. QED BY <2>3, <3>1 DEF TypeOK, ProcessExits, Sessions
  <2>4. QED BY <1>2, <2>1, <2>2, <2>3 DEF Slicer
<1>3. CASE Watch
  <2>1. tracked' \in Sessions
    BY <1>3 DEF TypeOK, Watch, Sessions
  <2>2. QED BY <1>3, <2>1 DEF TypeOK, Watch, Sessions
<1>4. CASE Restart
  <2>1. Table(work')
    BY <1>4, RowTypes DEF Restart, Roles, Idle, Table
  <2>2. QED BY <1>4, <2>1 DEF TypeOK, Restart, Table, Rows, Ats, Roles
<1>5. ASSUME NEW q \in Timers, Timer(q) PROVE TypeOK'
  <2>1. q \in Workers /\ {"settle", "exit"} \subseteq Roles(q) /\ {"settle", "exit"} \subseteq TimerTasks
    BY DEF Workers, Roles, TimerTasks
  <2>2. CASE PendingFires(q)
    <3>1. tracked' \in Sessions
      BY <2>2 DEF TypeOK, PendingFires, Sessions
    <3>2. Table(work')
      BY <2>1, <2>2, BeginType DEF PendingFires
    <3>3. QED BY <2>2, <3>1, <3>2 DEF TypeOK, PendingFires, Sessions, Table, Rows, Ats, Roles
  <2>3. CASE Poll(q)
    <3>1. tracked' \in Sessions
      BY <2>3, StatType DEF TypeOK, Poll, Sessions
    <3>2. Table(work')
      BY <2>1, <2>3, BeginType DEF Poll
    <3>3. QED BY <2>3, <3>1, <3>2 DEF TypeOK, Poll, Sessions, Table, Rows, Ats, Roles
  <2>4. CASE ExitFires(q)
    <3>1. Table(work')
      BY <1>0, <2>1, <2>4, BeginType DEF ExitFires
    <3>2. QED BY <2>4, <3>1 DEF TypeOK, ExitFires, Table, Rows, Ats, Roles
  <2>5. QED BY <1>5, <2>2, <2>3, <2>4 DEF Timer
<1>6. ASSUME NEW q \in Commands, NEW task \in Tasks, Command(q, task) PROVE TypeOK'
  <2>1. q \in Workers /\ task \in Roles(q)
    BY WorkersAssumption DEF Workers, Roles
  <2>2. Table(work')
    BY <1>6, <2>1, BeginType DEF Command
  <2>3. QED BY <1>6, <2>2 DEF TypeOK, Command, Table, Rows, Ats, Roles
<1>7. ASSUME NEW q \in Workers, Step(q) PROVE TypeOK'
  <2> USE DEF Verdicts
  <2>1. CASE ProbeGone(q)
    <3>1. Table(work')
      BY <2>1, AtType DEF ProbeGone, Ats
    <3>2. QED BY <2>1, <3>1 DEF TypeOK, ProbeGone, Table, Rows, Ats, Roles
  <2>2. CASE ProbeMemo(q)
    <3>1. CASE memo # None /\ memo.key = Stat
      <4>1. Table(work')
        BY <2>2, <3>1, VerdictType DEF ProbeMemo, Found
      <4>2. QED BY <2>2, <3>1, <4>1 DEF TypeOK, ProbeMemo, Table, Rows, Ats, Roles
    <3>2. CASE ~(memo # None /\ memo.key = Stat)
      <4>1. SetWork(q, [work[q] EXCEPT !.at = "read", !.key = Stat]) /\ since' = since
        BY <2>2, <3>2 DEF ProbeMemo
      <4>2. [work[q] EXCEPT !.at = "read", !.key = Stat] \in Rows
        BY <2>2, <1>0, RowTypes, StatType DEF ProbeMemo, Ats, Table
      <4>3. [work[q] EXCEPT !.at = "read", !.key = Stat].task = work[q].task
            /\ [work[q] EXCEPT !.at = "read", !.key = Stat].key = Stat /\ Stat # None
        BY <1>0, <2>2, StatType, StatIsKnown DEF Table, Rows, ProbeMemo
      <4>4. Table(work')
        BY <1>0, <4>1, <4>2, <4>3, SetWorkType DEF Table
      <4>5. QED BY <2>2, <4>1, <4>4 DEF TypeOK, ProbeMemo, Table, Rows, Ats, Roles
    <3>3. QED BY <3>1, <3>2
  <2>3. CASE ProbeRead(q)
    <3>1. Table(work')
      BY <2>3, VerdictType DEF ProbeRead, Found
    <3>2. file # None
      BY <2>3 DEF ProbeRead, Readable
    <3>3. work[q].key \in StatSet
      BY <1>0, <2>3 DEF Table, Rows, ProbeRead
    <3>4. memo' \in Memos
      BY <2>3, <3>2, <3>3, StatType DEF ProbeRead, Memos
    <3>5. QED BY <2>3, <3>1, <3>4 DEF TypeOK, ProbeRead, Table, Rows, Ats, Roles, Memos
  <2>4. CASE ProbeFails(q)
    <3>1. Table(work')
      BY <2>4, VerdictType DEF ProbeFails
    <3>2. since' \in 0 .. now \cup {None}
      BY <2>4 DEF TypeOK, ProbeFails, FirstFailure, Instants
    <3>3. QED BY <2>4, <3>1, <3>2 DEF TypeOK, ProbeFails, Table, Rows, Ats, Roles
  <2>5. CASE SettleStep(q)
    <3>1. Table(work')
      BY <2>5, EndType DEF SettleStep
    <3>2. tracked' \in Sessions \cup {None}
      BY <2>5 DEF TypeOK, SettleStep, Sessions
    <3>3. QED BY <2>5, <3>1, <3>2 DEF TypeOK, SettleStep, Sessions, Table, Rows, Ats, Roles
  <2>6. CASE Listed(q) \/ ImportFails(q)
    <3>1. Table(work')
      BY <2>6, EndType DEF Listed, ImportFails
    <3>2. QED BY <2>6, <3>1 DEF TypeOK, Listed, ImportFails, Table, Rows, Ats, Roles
  <2>7. CASE ExitSweep(q)
    <3>1. CASE Sweepable(work[q].at) /\ file # None
      <4>1. [work[q] EXCEPT !.at = "stat", !.task = "exit again"] \in Rows
        BY <1>0 DEF Table, Rows, Ats, TimerTasks
      <4>2. [work[q] EXCEPT !.at = "stat", !.task = "exit again"].task = "exit again"
        BY <1>0 DEF Table, Rows
      <4>3. "exit again" \in Roles(q)
        <5>1. "exit" \notin Tasks \cup {None}
          BY NoneAssumption DEF Tasks, TimerTasks
        <5>2. work[q].task = "exit" /\ work[q].task \in Roles(q)
          BY <2>7, <1>0 DEF ExitSweep, Table
        <5>3. QED BY <5>1, <5>2 DEF Roles, Tasks, TimerTasks
      <4>4. [work[q] EXCEPT !.at = "stat", !.task = "exit again"].at = "stat"
        BY <1>0 DEF Table, Rows
      <4>5. Table(work')
        BY <2>7, <3>1, <4>1, <4>2, <4>3, <4>4, SetWorkType DEF ExitSweep
      <4>6. QED BY <2>7, <4>5 DEF ExitSweep, TypeOK, Table, Rows, Ats, Roles
    <3>2. CASE ~(Sweepable(work[q].at) /\ file # None)
      <4>1. Table(work')
        BY <2>7, <3>2, EndType DEF ExitSweep
      <4>2. QED BY <2>7, <4>1 DEF TypeOK, ExitSweep, Table, Rows, Ats, Roles
    <3>3. QED BY <3>1, <3>2
  <2>8. CASE ExitListed(q) \/ Discard(q)
    <3>1. Table(work')
      BY <2>8, AtType DEF ExitListed, Discard, Ats
    <3>2. QED BY <2>8, <3>1 DEF TypeOK, ExitListed, Discard, Table, Rows, Ats, Roles
  <2>9. CASE Import(q)
    <3>1. Table(work')
      BY <2>9, AtType DEF Import, Ats
    <3>2. imported' \subseteq Files
      BY <2>9, StatType DEF Import, TypeOK
    <3>3. QED BY <2>9, <3>1, <3>2 DEF TypeOK, Import, Table, Rows, Ats, Roles
  <2>10. CASE SweepFile(q)
    <3>1. Table(work')
      BY <2>10, AtType DEF SweepFile, Ats
    <3>2. QED BY <2>10, <3>1 DEF TypeOK, SweepFile, Table, Rows, Ats, Roles
  <2>11. CASE SweepRecord(q)
    <3>1. Table(work')
      BY <2>11, EndType DEF SweepRecord
    <3>2. record' \in Records \cup {None}
      BY <2>11 DEF TypeOK, SweepRecord, Records
    <3>3. QED BY <2>11, <3>1, <3>2 DEF TypeOK, SweepRecord, Table, Rows, Ats, Roles, Records
  <2>12. QED
    BY <1>7, <2>1, <2>2, <2>3, <2>4, <2>5, <2>6, <2>7, <2>8, <2>9, <2>10, <2>11 DEF Step
<1>8. CASE UNCHANGED vars
  BY <1>8 DEF TypeOK, vars, Table, Rows, Ats, Roles
<1>9. QED BY <1>1, <1>2, <1>3, <1>4, <1>5, <1>6, <1>7, <1>8 DEF Next

LEMMA TypeInit == Init => TypeOK
<1> SUFFICES ASSUME Init PROVE TypeOK
  OBVIOUS
<1>1. file \in Files /\ file.save <= saves /\ saves \in Saves /\ now \in Instants
  <2>1. file = Launched /\ saves = 0 /\ now = 0 /\ file.save = 0
    BY DEF Init, Launched
  <2>2. file \in Files /\ saves \in Saves /\ now \in Instants
    BY <2>1, RowTypes
  <2>3. QED BY <2>1, <2>2
<1>2. record \in Records \cup {None} /\ tracked \in Sessions \cup {None}
  <2>1. [started |-> 0, swept |-> None] \in Records
    BY RowTypes DEF Records
  <2>2. QED BY <2>1, RowTypes DEF Init
<1>3. Table(work)
  BY RowTypes DEF Init, Table, Idle, Roles
<1>4. QED BY <1>1, <1>2, <1>3 DEF Init, TypeOK, Records, Sessions, Table, Rows, Ats, Roles

(* TypeOK holds always: what the disk, the memory and the workers look like. *)
THEOREM TypeCorrect == Spec => []TypeOK
BY TypeInit, TypeStep, PTL DEF Spec

-----------------------------------------------------------------------------
(* What the process knows of the file is never ahead of the disk.  A save    *)
(* that was stat'ed or compared is the one that is there, or an older one;   *)
(* and if it is the one that is there, what was found of it still holds.     *)

Behind(v) == v <= saves /\ (file # None => v <= file.save)

MemoIsOld ==
  memo # None =>
    /\ Behind(memo.key[1])
    /\ file # None /\ memo.key[1] = file.save =>
         file.whole /\ (memo.key[2] => memo.hash = Content[file.save])

KeyIsOld(q) ==
  work[q].at = "read" =>
    /\ Behind(work[q].key[1])
    /\ file # None /\ work[q].key[1] = file.save /\ work[q].key[2] => file.whole

SawWhole(q) ==
  /\ work[q].saw # None /\ Behind(work[q].saw)
  /\ file # None /\ work[q].saw = file.save => file.whole

ImportSaw(q) ==
  work[q].task = "import" =>
    /\ work[q].at \in {"unchanged", "changed", "sweep"} => SawWhole(q)
    /\ work[q].at = "sweep" /\ file # None => work[q].saw < file.save \/ file \in imported

ExitSaw(q) ==
  (work[q].task = "exit" /\ work[q].at = "unchanged") \/ work[q].task = "exit again" =>
    SawWhole(q) /\ OwnBytes(Content[work[q].saw])

SweepAnswers(q) == work[q].at = "sweep" => work[q].task \in {"discard", "import", "exit again"}

Knows(q) == KeyIsOld(q) /\ ImportSaw(q) /\ ExitSaw(q) /\ SweepAnswers(q)

Inv == TypeOK /\ MemoIsOld /\ \A q \in Workers : Knows(q)

LEMMA Natural ==
  ASSUME TypeOK
  PROVE  /\ saves \in Nat /\ (file # None => file.save \in Nat /\ file.whole \in BOOLEAN)
         /\ memo # None => memo.key[1] \in Nat /\ memo.key[2] \in BOOLEAN
         /\ \A q \in Workers :
              /\ work[q].key # None => work[q].key[1] \in Nat /\ work[q].key[2] \in BOOLEAN
              /\ work[q].saw # None => work[q].saw \in Nat
BY BoundsAssumption DEF TypeOK, Saves, Files, StatSet

(* While the file stays as it is, so does what a worker that is not at work  *)
(* knows.                                                                    *)
LEMMA KeepsKnowing ==
  ASSUME Inv, NEW q \in Workers, work'[q] = work[q], UNCHANGED <<saves, file>>,
         imported \subseteq imported'
  PROVE  Knows(q)'
<1>1. Knows(q)
  BY DEF Inv
<1>2. KeyIsOld(q)' /\ SweepAnswers(q)'
  BY <1>1 DEF Knows, KeyIsOld, SweepAnswers, Behind
<1>3. SawWhole(q)' = SawWhole(q)
  BY DEF SawWhole, Behind
<1>4. ImportSaw(q)'
  BY <1>1, <1>3 DEF Knows, ImportSaw
<1>5. ExitSaw(q)'
  BY <1>1, <1>3 DEF Knows, ExitSaw, OwnBytes
<1>6. QED BY <1>2, <1>4, <1>5 DEF Knows

LEMMA OthersKeepKnowing ==
  ASSUME Inv, NEW q \in Workers, NEW w, SetWork(q, w), UNCHANGED <<saves, file>>,
         imported \subseteq imported', Knows(q)'
  PROVE  \A p \in Workers : Knows(p)'
<1> SUFFICES ASSUME NEW p \in Workers PROVE Knows(p)'
  OBVIOUS
<1>1. CASE p = q
  BY <1>1
<1>2. CASE p # q
  <2>1. work'[p] = work[p]
    BY <1>2 DEF Inv, TypeOK, SetWork
  <2>2. QED BY <2>1, KeepsKnowing
<1>3. QED BY <1>1, <1>2

(* A worker that has ended, or is to take the stat, has nothing to be wrong  *)
(* about unless it is the second look of an exit.                            *)
LEMMA KnowsNothing ==
  ASSUME Inv, NEW q \in Workers, work'[q].at \in {"idle", "stat", "record", "settling", "unreadable"},
         work'[q].task # "exit again"
  PROVE  Knows(q)'
BY DEF Knows, KeyIsOld, ImportSaw, ExitSaw, SweepAnswers

LEMMA MemoStays ==
  ASSUME Inv, UNCHANGED <<saves, file, memo>>
  PROVE  MemoIsOld'
BY DEF Inv, MemoIsOld, Behind

LEMMA ProbesKnow ==
  ASSUME Inv, NEW q \in Workers,
         ProbeGone(q) \/ ProbeMemo(q) \/ ProbeRead(q) \/ ProbeFails(q)
  PROVE  MemoIsOld' /\ \A p \in Workers : Knows(p)'
<1> USE DEF diskVars, memVars
<1>1. /\ UNCHANGED <<saves, file, imported>> /\ work[q] \in Rows /\ Knows(q) /\ MemoIsOld
      /\ work \in [Workers -> Rows]
  BY DEF Inv, TypeOK, Rows, Ats, ProbeGone, ProbeMemo, ProbeRead, ProbeFails
<1>2. CASE ProbeGone(q)
  <2>1. work'[q] = [work[q] EXCEPT !.at = "unreadable"]
    BY <1>1, <1>2 DEF ProbeGone, SetWork
  <2>2. Knows(q)'
    <3>1. work'[q].at = "unreadable" /\ work'[q].task = work[q].task /\ work'[q].saw = work[q].saw
      BY <1>1, <2>1 DEF Rows
    <3>2. QED
      BY <1>1, <3>1 DEF Knows, KeyIsOld, ImportSaw, ExitSaw, SweepAnswers, SawWhole, Behind, OwnBytes
  <2>3. QED BY <1>1, <1>2, <2>2, OthersKeepKnowing, MemoStays DEF ProbeGone
(* What a verdict on a whole file teaches.                                   *)
<1>3. ASSUME NEW hash, Found(q, hash), file # None, file.whole, hash = Content[file.save],
             work[q].at \in {"stat", "read"}
      PROVE  Knows(q)'
  <2> DEFINE verdict == IF record # None /\ OwnBytes(hash) THEN "unchanged" ELSE "changed"
  <2>1. work'[q] = [work[q] EXCEPT !.at = verdict, !.key = None, !.saw = Saw(q)]
    BY <1>1, <1>3 DEF Found, SetWork
  <2>2. work'[q].at = verdict /\ work'[q].task = work[q].task /\ work'[q].saw = Saw(q)
    BY <1>1, <2>1 DEF Rows
  <2>3. KeyIsOld(q)' /\ SweepAnswers(q)'
    BY <2>2 DEF KeyIsOld, SweepAnswers
  <2>4. CASE work[q].task \in {"import", "exit"}
    <3>1. work'[q].saw = file.save
      BY <1>3, <2>2, <2>4 DEF Saw
    <3>2. SawWhole(q)'
      BY <1>1, <1>3, <3>1, Natural, NoneAssumption DEF SawWhole, Behind, Inv, TypeOK
    <3>3. ImportSaw(q)'
      BY <2>2, <3>2 DEF ImportSaw
    <3>4. ExitSaw(q)'
      BY <1>1, <1>3, <2>2, <2>4, <3>1, <3>2 DEF ExitSaw, OwnBytes
    <3>5. QED BY <2>3, <3>3, <3>4 DEF Knows
  <2>5. CASE work[q].task \notin {"import", "exit"}
    <3>1. work'[q].saw = work[q].saw
      BY <2>2, <2>5 DEF Saw
    <3>2. ImportSaw(q)'
      BY <2>2, <2>5 DEF ImportSaw
    <3>3. ExitSaw(q)'
      BY <1>1, <2>2, <2>5, <3>1 DEF ExitSaw, OwnBytes, Knows, SawWhole, Behind
    <3>4. QED BY <2>3, <3>2, <3>3 DEF Knows
  <2>6. QED BY <2>4, <2>5
<1>4. CASE ProbeMemo(q)
  <2>1. CASE memo # None /\ memo.key = Stat
    <3>1. memo.key[1] = file.save /\ memo.key[2] = file.whole /\ file # None
      BY <1>4, <2>1 DEF Stat, ProbeMemo
    <3>2. file.whole /\ memo.hash = Content[file.save]
      BY <1>1, <2>1, <3>1 DEF MemoIsOld
    <3>3. Found(q, memo.hash) /\ work[q].at = "stat"
      BY <1>4, <2>1 DEF ProbeMemo
    <3>4. Knows(q)'
      BY <1>3, <3>1, <3>2, <3>3
    <3>5. QED BY <1>1, <1>4, <3>3, <3>4, OthersKeepKnowing, MemoStays DEF ProbeMemo, Found
  <2>2. CASE ~(memo # None /\ memo.key = Stat)
    <3>1. SetWork(q, [work[q] EXCEPT !.at = "read", !.key = Stat]) /\ file # None
      BY <1>4, <2>2 DEF ProbeMemo
    <3>2. work'[q] = [work[q] EXCEPT !.at = "read", !.key = Stat]
      BY <1>1, <3>1 DEF SetWork
    <3>3. /\ work'[q].at = "read" /\ work'[q].task = work[q].task /\ work'[q].saw = work[q].saw
          /\ work'[q].key = <<file.save, file.whole>>
      BY <1>1, <3>2 DEF Rows, Stat
    <3>4. KeyIsOld(q)'
      BY <1>1, <3>1, <3>3, Natural DEF KeyIsOld, Behind, Inv, TypeOK
    <3>5. ImportSaw(q)' /\ ExitSaw(q)' /\ SweepAnswers(q)'
      BY <1>1, <3>3 DEF Knows, ImportSaw, ExitSaw, SweepAnswers, SawWhole, Behind, OwnBytes
    <3>6. Knows(q)'
      BY <3>4, <3>5 DEF Knows
    <3>7. QED BY <1>1, <1>4, <3>1, <3>6, OthersKeepKnowing, MemoStays DEF ProbeMemo
  <2>3. QED BY <2>1, <2>2
<1>5. CASE ProbeRead(q)
  <2>1. /\ work[q].at = "read" /\ file # None /\ file.whole /\ Found(q, Content[file.save])
        /\ memo' = [key |-> work[q].key, hash |-> Content[file.save]]
    BY <1>5 DEF ProbeRead, Readable
  <2>2. MemoIsOld'
    BY <1>1, <2>1 DEF MemoIsOld, Knows, KeyIsOld, Behind
  <2>3. Knows(q)'
    BY <1>3, <2>1
  <2>4. QED BY <1>1, <2>1, <2>2, <2>3, OthersKeepKnowing DEF Found
<1>6. CASE ProbeFails(q)
  <2> DEFINE verdict == IF now - FirstFailure < Window THEN "settling" ELSE "unreadable"
  <2>1. SetWork(q, [work[q] EXCEPT !.at = verdict, !.key = None, !.saw = Saw(q)])
    BY <1>6 DEF ProbeFails
  <2>2. work'[q] = [work[q] EXCEPT !.at = verdict, !.key = None, !.saw = Saw(q)]
    BY <1>1, <2>1 DEF SetWork
  <2>3. work'[q].at = verdict /\ work'[q].task = work[q].task /\ work'[q].saw = Saw(q)
    BY <1>1, <2>2 DEF Rows
  <2>4. verdict \in {"settling", "unreadable"}
    OBVIOUS
  <2>5. KeyIsOld(q)' /\ SweepAnswers(q)' /\ ImportSaw(q)'
    BY <2>3, <2>4 DEF KeyIsOld, SweepAnswers, ImportSaw
  <2>6. ExitSaw(q)'
    <3>1. CASE work[q].task = "exit again"
      <4>1. work'[q].saw = work[q].saw
        BY <2>3, <3>1 DEF Saw
      <4>2. QED BY <1>1, <2>3, <3>1, <4>1 DEF ExitSaw, OwnBytes, Knows, SawWhole, Behind
    <3>2. CASE work[q].task # "exit again"
      BY <2>3, <2>4, <3>2 DEF ExitSaw
    <3>3. QED BY <3>1, <3>2
  <2>7. QED BY <1>1, <1>6, <2>1, <2>5, <2>6, OthersKeepKnowing, MemoStays DEF Knows, ProbeFails
<1>7. QED BY <1>2, <1>4, <1>5, <1>6

LEMMA SlicerKnows ==
  ASSUME Inv, Slicer, TypeOK'
  PROVE  MemoIsOld' /\ \A p \in Workers : Knows(p)'
<1> USE DEF memVars
<1>1. ASSUME NEW whole \in BOOLEAN, SaveBegins(whole) PROVE MemoIsOld' /\ \A p \in Workers : Knows(p)'
  <2>1. /\ saves' = saves + 1 /\ file' = [save |-> saves + 1, whole |-> whole]
        /\ UNCHANGED <<memo, work, imported>>
    BY <1>1 DEF SaveBegins
  <2>2. file'.save = saves + 1
    BY <2>1
  <2>3. \A v \in Nat : Behind(v) => Behind(v)' /\ v # file'.save /\ v < file'.save
    BY <2>1, <2>2, Natural DEF Behind, Inv
  <2>4. MemoIsOld'
    BY <2>1, <2>3, Natural DEF MemoIsOld, Inv, Behind
  <2>5. ASSUME NEW p \in Workers PROVE Knows(p)'
    <3>1. Knows(p) /\ (work[p].saw # None => work[p].saw \in Nat)
          /\ (work[p].at = "read" => work[p].key[1] \in Nat)
      BY Natural DEF Inv, TypeOK
    <3>2. SawWhole(p) => SawWhole(p)' /\ work[p].saw < file'.save
      BY <2>1, <2>3, <3>1 DEF SawWhole, Behind
    <3>3. KeyIsOld(p)' /\ SweepAnswers(p)'
      BY <2>1, <2>3, <3>1 DEF Knows, KeyIsOld, SweepAnswers, Behind
    <3>4. ImportSaw(p)' /\ ExitSaw(p)'
      BY <2>1, <3>1, <3>2 DEF Knows, ImportSaw, ExitSaw, OwnBytes
    <3>5. QED BY <3>3, <3>4 DEF Knows
  <2>6. QED BY <2>4, <2>5
<1>2. CASE SaveEnds
  <2>1. /\ file \in Files /\ ~file.whole /\ file' = [file EXCEPT !.whole = TRUE]
        /\ UNCHANGED <<saves, memo, work, imported>>
    BY <1>2 DEF SaveEnds, Inv, TypeOK
  <2>2. file'.save = file.save /\ file'.whole /\ file # None
    BY <1>2, <2>1 DEF Files, SaveEnds
  <2>3. MemoIsOld'
    BY <2>1, <2>2 DEF MemoIsOld, Behind, Inv
  <2>4. ASSUME NEW p \in Workers PROVE Knows(p)'
    <3>1. Knows(p) /\ (work[p].saw # None => work[p].saw \in Nat) /\ file.save \in Nat
      BY <2>2, Natural DEF Inv
    <3>2. SawWhole(p) => SawWhole(p)' /\ work[p].saw < file'.save
      BY <2>1, <2>2, <3>1 DEF SawWhole, Behind
    <3>3. KeyIsOld(p)' /\ SweepAnswers(p)'
      BY <2>1, <2>2, <3>1 DEF Knows, KeyIsOld, SweepAnswers, Behind
    <3>4. ImportSaw(p)' /\ ExitSaw(p)'
      BY <2>1, <3>1, <3>2 DEF Knows, ImportSaw, ExitSaw, OwnBytes
    <3>5. QED BY <3>3, <3>4 DEF Knows
  <2>5. QED BY <2>3, <2>4
<1>3. CASE ProcessExits
  BY <1>3, KeepsKnowing, MemoStays DEF ProcessExits, diskVars
<1>4. QED BY <1>1, <1>2, <1>3 DEF Slicer

(* Inv is inductive.                                                         *)
LEMMA InvStep == Inv /\ [Next]_vars => Inv'
<1> SUFFICES ASSUME Inv, [Next]_vars PROVE Inv'
  OBVIOUS
<1> USE DEF diskVars, memVars
<1>1. TypeOK' /\ TypeOK
  BY TypeStep DEF Inv
<1> DEFINE Knowing == MemoIsOld' /\ \A p \in Workers : Knows(p)'
<1> SUFFICES Knowing
  BY <1>1 DEF Inv
<1>2. work \in [Workers -> Rows] /\ MemoIsOld /\ \A q \in Workers : Knows(q)
  BY DEF Inv, TypeOK, Rows, Ats
<1>3. CASE Tick \/ Watch \/ UNCHANGED vars
  BY <1>3, KeepsKnowing, MemoStays DEF Tick, Watch, vars
<1>4. CASE Slicer
  BY <1>1, <1>4, SlicerKnows
<1>5. CASE Restart
  BY <1>2, <1>5, NoneAssumption
     DEF Restart, Knows, MemoIsOld, KeyIsOld, ImportSaw, ExitSaw, SweepAnswers, Idle, Tasks, TimerTasks
<1>6. ASSUME NEW q \in Workers, NEW t, t # "exit again", Begin(q, t),
             UNCHANGED <<saves, file, memo, imported>>
      PROVE  Knowing
  <2>1. work'[q] = [Idle EXCEPT !.at = "stat", !.task = t]
    BY <1>2, <1>6 DEF Begin, SetWork
  <2>2. work'[q].at = "stat" /\ work'[q].task = t
    BY <2>1 DEF Idle
  <2>3. Knows(q)'
    BY <1>6, <2>2, KnowsNothing
  <2>4. QED BY <1>6, <2>3, OthersKeepKnowing, MemoStays DEF Begin
<1>7. ASSUME NEW q \in Timers, Timer(q) PROVE Knowing
  <2>1. q \in Workers
    BY DEF Workers
  <2>2. CASE PendingFires(q) \/ Poll(q)
    <3>1. Begin(q, "settle") /\ UNCHANGED <<saves, file, memo, imported>>
      BY <2>2 DEF PendingFires, Poll
    <3>2. QED BY <1>6, <2>1, <3>1
  <2>3. CASE ExitFires(q)
    <3>1. CASE tracked # None
      <4>1. Begin(q, "exit") /\ UNCHANGED <<saves, file, memo, imported>>
        BY <2>3, <3>1 DEF ExitFires
      <4>2. QED BY <1>6, <2>1, <4>1
    <3>2. CASE tracked = None
      BY <2>3, <3>2, KeepsKnowing, MemoStays DEF ExitFires
    <3>3. QED BY <3>1, <3>2
  <2>4. QED BY <1>7, <2>2, <2>3 DEF Timer
<1>8. ASSUME NEW q \in Commands, NEW task \in Tasks, Command(q, task) PROVE Knowing
  <2>1. q \in Workers /\ task # "exit again"
    BY DEF Workers, Tasks
  <2>2. Begin(q, task) /\ UNCHANGED <<saves, file, memo, imported>>
    BY <1>8 DEF Command
  <2>3. QED BY <1>6, <2>1, <2>2
<1>9. ASSUME NEW q \in Workers, Step(q) PROVE Knowing
  <2>1. Knows(q) /\ work[q] \in Rows
    BY <1>2
  <2>2. ASSUME End(q), UNCHANGED <<saves, file, memo, imported>> PROVE Knowing
    <3>1. work'[q] = Idle
      BY <1>2, <2>2 DEF End, SetWork
    <3>2. work'[q].at = "idle" /\ work'[q].task # "exit again"
      <4>1. "exit again" # None
        BY NoneAssumption DEF TimerTasks
      <4>2. Idle.at = "idle" /\ Idle.task = None
        BY DEF Idle
      <4>3. QED BY <3>1, <4>1, <4>2
    <3>3. Knows(q)'
      BY <3>2, KnowsNothing
    <3>4. QED BY <2>2, <3>3, OthersKeepKnowing, MemoStays DEF End
  <2>3. CASE ProbeGone(q) \/ ProbeMemo(q) \/ ProbeRead(q) \/ ProbeFails(q)
    BY <2>3, ProbesKnow
  <2>4. CASE SettleStep(q) \/ Listed(q) \/ ImportFails(q)
    BY <2>2, <2>4 DEF SettleStep, Listed, ImportFails
  <2>5. CASE ExitSweep(q)
    <3>1. CASE Sweepable(work[q].at) /\ file # None
      <4>1. SetWork(q, [work[q] EXCEPT !.at = "stat", !.task = "exit again"])
        BY <2>5, <3>1 DEF ExitSweep
      <4>2. work'[q] = [work[q] EXCEPT !.at = "stat", !.task = "exit again"]
        BY <1>2, <4>1 DEF SetWork
      <4>3. work'[q].at = "stat" /\ work'[q].task = "exit again" /\ work'[q].saw = work[q].saw
        BY <2>1, <4>2 DEF Rows
      <4>4. SawWhole(q) /\ OwnBytes(Content[work[q].saw])
        BY <2>1, <2>5, <3>1 DEF Knows, ExitSaw, ExitSweep, Sweepable
      <4>5. Knows(q)'
        BY <2>5, <4>3, <4>4
           DEF ExitSweep, Knows, KeyIsOld, ImportSaw, ExitSaw, SweepAnswers, SawWhole, Behind, OwnBytes
      <4>6. QED BY <2>5, <4>1, <4>5, OthersKeepKnowing, MemoStays DEF ExitSweep
    <3>2. CASE ~(Sweepable(work[q].at) /\ file # None)
      BY <2>2, <2>5, <3>2 DEF ExitSweep
    <3>3. QED BY <3>1, <3>2
  <2>6. CASE ExitListed(q) \/ Discard(q) \/ Import(q)
    <3>1. SetWork(q, [work[q] EXCEPT !.at = "sweep"])
      BY <2>6 DEF ExitListed, Discard, Import
    <3>2. work'[q] = [work[q] EXCEPT !.at = "sweep"]
      BY <1>2, <3>1 DEF SetWork
    <3>3. work'[q].at = "sweep" /\ work'[q].task = work[q].task /\ work'[q].saw = work[q].saw
      BY <2>1, <3>2 DEF Rows
    <3>4. /\ work[q].task \in {"exit again", "discard", "import"}
          /\ work[q].task = "import" =>
               /\ work[q].at \in {"unchanged", "changed"}
               /\ imported' = imported \cup {file}
          /\ UNCHANGED <<saves, file, memo>> /\ imported \subseteq imported'
      BY <2>6 DEF ExitListed, Discard, Import
    <3>5. Knows(q)'
      BY <2>1, <3>3, <3>4
         DEF Knows, KeyIsOld, ImportSaw, ExitSaw, SweepAnswers, SawWhole, Behind, OwnBytes
    <3>6. QED BY <3>1, <3>4, <3>5, OthersKeepKnowing, MemoStays
  <2>7. CASE SweepFile(q)
    <3>1. /\ SetWork(q, [work[q] EXCEPT !.at = "record"]) /\ memo' = None
          /\ file' \in {None, file} /\ UNCHANGED <<saves, imported>>
      BY <2>7 DEF SweepFile
    <3>2. MemoIsOld'
      BY <3>1 DEF MemoIsOld
    <3>3. ASSUME NEW p \in Workers PROVE Knows(p)'
      <4>1. CASE p = q
        <5>1. work'[q] = [work[q] EXCEPT !.at = "record"]
          BY <1>2, <3>1 DEF SetWork
        <5>2. work'[q].at = "record" /\ work'[q].task = work[q].task /\ work'[q].saw = work[q].saw
          BY <2>1, <5>1 DEF Rows
        <5>3. QED
          BY <2>1, <3>1, <4>1, <5>2
             DEF Knows, KeyIsOld, ImportSaw, ExitSaw, SweepAnswers, SawWhole, Behind, OwnBytes
      <4>2. CASE p # q
        <5>1. work'[p] = work[p] /\ Knows(p)
          BY <1>2, <3>1, <4>2 DEF SetWork
        <5>2. QED
          BY <3>1, <5>1
             DEF Knows, KeyIsOld, ImportSaw, ExitSaw, SweepAnswers, SawWhole, Behind, OwnBytes
      <4>3. QED BY <4>1, <4>2
    <3>4. QED BY <3>2, <3>3
  <2>8. CASE SweepRecord(q)
    BY <2>2, <2>8 DEF SweepRecord
  <2>9. QED BY <1>9, <2>3, <2>4, <2>5, <2>6, <2>7, <2>8 DEF Step
<1>10. QED BY <1>3, <1>4, <1>5, <1>7, <1>8, <1>9 DEF Next

LEMMA InvInit == Init => Inv
<1> SUFFICES ASSUME Init PROVE Inv
  OBVIOUS
<1>1. TypeOK
  BY TypeInit
<1>2. QED
  BY <1>1, NoneAssumption
     DEF Init, Inv, MemoIsOld, Knows, KeyIsOld, ImportSaw, ExitSaw, SweepAnswers, Idle, Tasks, TimerTasks

LEMMA InvAlways == Spec => []Inv
BY InvInit, InvStep, PTL DEF Spec

-----------------------------------------------------------------------------
(* sessions.rs: with any number of commands beside the timers, a memo whose  *)
(* key is the stat of the file that is there holds that file's hash.         *)
THEOREM MemoryIsSoundAlways == Spec => []MemoryIsSound
<1>1. Inv => MemoryIsSound
  <2> SUFFICES ASSUME Inv PROVE MemoryIsSound
    OBVIOUS
  <2>1. ASSUME memo # None, file # None, memo.key = Stat
        PROVE  file.whole /\ memo.hash = Content[file.save]
    BY <2>1 DEF Inv, MemoIsOld, Stat
  <2>2. QED BY <2>1 DEF MemoryIsSound, MemoIsHonest, Inv
<1>2. QED BY <1>1, InvAlways, PTL

(* sessions.rs: a save that had begun when the comparison was made leaves    *)
(* the launch directory only discarded, added to the library, or as the app  *)
(* itself wrote it, whatever the slicer and other commands do in between.    *)
THEOREM ComparedSavesSurviveAlways == Spec => ComparedSavesSurvive
<1> DEFINE Removed == file # None /\ file' = None => \E q \in Workers : Excused(q)
<1>1. Inv /\ [Next]_vars => [Removed]_vars
  <2> SUFFICES ASSUME Inv, Next, file # None, file' = None PROVE \E q \in Workers : Excused(q)
    BY DEF Excused
  <2>1. PICK q \in Workers : SweepFile(q)
    <3>1. ~(Tick \/ Watch \/ Restart \/ Slicer)
      <4>1. ~(Tick \/ Watch \/ Restart \/ ProcessExits)
        BY DEF Tick, Watch, Restart, ProcessExits, diskVars
      <4>2. file' \notin Files /\ file \in Files
        BY NoneAssumption DEF Inv, TypeOK
      <4>3. ~SaveEnds
        BY <4>2 DEF SaveEnds, Files
      <4>4. ~(\E whole \in BOOLEAN : SaveBegins(whole))
        BY <4>2, BoundsAssumption DEF SaveBegins, Files, Saves, Inv, TypeOK
      <4>5. QED BY <4>1, <4>3, <4>4 DEF Slicer
    <3>2. \A q \in Timers : ~Timer(q)
      BY DEF Timer, PendingFires, Poll, ExitFires, diskVars
    <3>3. \A q \in Commands, task \in Tasks : ~Command(q, task)
      BY DEF Command, diskVars
    <3>4. \A q \in Workers : Step(q) => SweepFile(q)
      BY DEF Step, ProbeGone, ProbeMemo, ProbeRead, ProbeFails, SettleStep, Listed, ExitSweep, ExitListed,
             Discard, Import, ImportFails, SweepRecord, diskVars
    <3>5. QED BY <3>1, <3>2, <3>3, <3>4 DEF Next
  <2>2. work[q].at = "sweep" /\ Knows(q)
    BY <2>1 DEF SweepFile, Inv
  <2>3. CASE work[q].task = "discard"
    BY <2>2, <2>3 DEF Excused
  <2>4. CASE work[q].task = "import"
    BY <2>2, <2>4 DEF Excused, Knows, ImportSaw
  <2>5. CASE work[q].task = "exit again"
    <3>1. SawWhole(q) /\ OwnBytes(Content[work[q].saw])
      BY <2>2, <2>5 DEF Knows, ExitSaw
    <3>2. CASE work[q].saw = file.save
      BY <2>2, <2>5, <3>1, <3>2 DEF Excused, SawWhole, OwnBytes
    <3>3. CASE work[q].saw # file.save
      <4>1. work[q].saw \in Nat /\ file.save \in Nat /\ work[q].saw <= file.save
        BY <3>1, Natural DEF SawWhole, Behind, Inv
      <4>2. work[q].saw < file.save
        BY <3>3, <4>1
      <4>3. QED BY <2>2, <4>2 DEF Excused
    <3>4. QED BY <3>2, <3>3
  <2>6. QED BY <2>2, <2>3, <2>4, <2>5 DEF Knows, SweepAnswers
<1>2. QED BY <1>1, InvAlways, PTL DEF Spec, ComparedSavesSurvive

(***************************************************************************)
(* The shell: the library the window works with, and where the choice is   *)
(* kept                                                                    *)
(***************************************************************************)
CONSTANTS Callers, Dirs, Origins, Blank, Torn, MaxCalls, MaxFolders, MaxServers, MaxRestarts
VARIABLES flight, job, current, folder, adopting, earlier, lastRelease, generation, remote, server,
          connectingTo, state, temp, handle, stale, agreed, alone, unwritten, calls, starts

S == INSTANCE Shell WITH file <- state

Jobs == [at : S!Stages, call : S!Questions \cup {None}, asks : S!Questions \cup {None},
         target : Dirs \cup Origins \cup {None}, inst : S!Folders \cup {None},
         was : Origins \cup {None}, answer : S!Answers, doc : S!Docs \cup {None}]
FolderRows == [dir : Dirs \cup {None}, gen : Nat, stage : {"unused", "open", "released", "dropped", "closed"}]
Entries == [origin : Origins \cup {None}, closed : BOOLEAN]

(* What is being written, and what for.                                      *)
Writing == {"read", "temp", "write", "rename"}
Targets(j) ==
  /\ j.asks = "folder" /\ j.at \in {"open", "replace", "release", "changed"} \cup Writing => j.target \in Dirs
  /\ j.asks = "server" => j.target \in Origins
  /\ j.at \in {"temp", "write", "rename"} => j.doc \in S!Docs
  /\ j.at \in {"open", "replace", "changed", "local", "home"} => j.asks = "folder"
  /\ j.at \in {"adopt", "hangup", "bump", "take", "slot", "navigate", "unpend"} => j.asks = "server"
  /\ j.at \in {"leave", "address"} => j.asks = "mode"
  /\ j.at \in {"release"} \cup Writing => j.asks \in {"folder", "server"}
  /\ j.at # "idle" => j.asks \in S!Questions
  /\ j.asks = "mode" => j.call = "mode"
  /\ j.at = "idle" => j = S!Idle

JobsInv ==
  /\ job \in [Callers -> Jobs] /\ \A c \in Callers : Targets(job[c])
  /\ handle \in [Callers -> {"temp", "target", "gone", None}]
FoldersTyped ==
  /\ folder \in [S!Folders -> FolderRows] /\ generation \in Nat /\ \A i \in S!Folders : folder[i].gen <= generation
  /\ current \in S!Folders \cup {None} /\ lastRelease \in S!Folders \cup {None}
  /\ earlier \in [S!Folders -> S!Folders \cup {None}] /\ adopting \subseteq S!Folders
ServersTyped ==
  /\ server \in [S!Servers -> Entries] /\ remote \in S!Servers \cup {None}
  /\ connectingTo \in Origins \cup {None} /\ agreed \subseteq Origins
FilesTyped == state \in S!Texts /\ temp \in S!Texts \cup {None} /\ {stale, alone, unwritten} \subseteq BOOLEAN

(* Who asks a question: its flight has one leader, and he is at work on it.  *)
Leading == S!Stages \ {"idle", "join", "wait", "local", "home"}
Leads(j, q) ==
  \/ j.asks = q /\ j.at \in Leading
  \/ q = "mode" /\ j.call = "mode" /\ j.asks = "folder"
FlightInv ==
  /\ flight \in [S!Questions -> S!Flights \cup {None}]
  /\ \A q \in S!Questions : flight[q] # None => Leads(job[flight[q].leader], q)
  /\ \A c \in Callers, q \in S!Questions : Leads(job[c], q) => flight[q] # None /\ flight[q].leader = c
  /\ \A c \in Callers :
       /\ S!At(c, "wait") => flight[job[c].asks] # None /\ ~flight[job[c].asks].ready
       /\ S!At(c, "clear") => flight[job[c].asks].ready

(* A folder that was taken out of use is with the one who took it, until it  *)
(* is let go of; and each release but the first waits for the one before.    *)
Holds(c) == job[c].at \in {"replace", "release"}
Gone(i) == folder[i].stage \in {"released", "dropped", "closed"}
FolderInv ==
  /\ current # None => folder[current].stage = "open"
  /\ \A c \in Callers : Holds(c) => /\ job[c].inst # None /\ job[c].inst # current
                                    /\ folder[job[c].inst].stage = "open"
  /\ \A c, d \in Callers : Holds(c) /\ Holds(d) /\ job[c].inst = job[d].inst => c = d
  /\ \A i \in S!Folders : folder[i].stage = "closed" => S!Done(earlier[i])
  /\ \A i \in S!Folders : earlier[i] # None => Gone(i)
  /\ \A F \in SUBSET S!Folders :
       (lastRelease # None => lastRelease \in F) /\ (\A i \in F : earlier[i] # None => earlier[i] \in F)
       => \A i \in S!Folders : Gone(i) => i \in F

(* A server is open only while it is in use, and was agreed to.              *)
ServerInv ==
  /\ S!NoServerLeftBehind /\ S!ServerWasConfirmed
  /\ \A c \in Callers : job[c].asks = "server" =>
       /\ job[c].at \in {"adopt", "hangup", "bump", "take", "release", "slot"} => job[c].target \in agreed
       /\ job[c].at \in {"bump", "take", "release", "slot"} => remote = None

(* A call that nothing overlaps.                                             *)
Busy(c) == job[c] # S!Idle
Saved == S!Plan(S!ReadState(state))
Draft(j) == S!Chosen(S!ReadState(state), IF j.asks = "folder" THEN "local" ELSE "remote", j.target)
Newest == current # None => folder[current].gen = generation
FolderKept == ~unwritten /\ current # None => Saved = [dir |-> S!OpenDir, origin |-> None]
ServerKept == ~unwritten /\ remote # None => Saved = [dir |-> None, origin |-> S!RemoteOrigin]
Switched == Newest /\ FolderKept /\ ServerKept /\ (remote # None => current = None)
Quiet == Switched /\ ~stale
Purpose(j) == IF j.asks = "folder" THEN [dir |-> j.target, origin |-> None] ELSE [dir |-> None, origin |-> j.target]
Local(j) == \/ j.at \in {"answer", "clear"} /\ j.asks = "folder" /\ j.answer # None
            \/ j.at = "local"
Before(j) == \/ j.at \in {"join", "ask", "open", "adopt", "hangup", "unpend", "leave"}
             \/ j.at \in {"answer", "clear"} /\ ~Local(j)
LoneRest(j) ==
  /\ Before(j) => Quiet
  /\ Local(j) => FolderKept /\ Newest /\ ~stale
  /\ j.at \in {"home", "address"} => Switched /\ remote = None
LoneFolder(j) ==
  /\ j.at = "replace" => folder[j.inst].dir = j.target /\ folder[j.inst].gen = generation /\ (stale => remote = None)
  /\ j.at \in {"release", "changed"} \cup Writing /\ j.asks = "folder" =>
       current # None /\ S!OpenDir = j.target /\ Newest /\ (stale => remote = None)
LoneServer(j) == j.asks = "server" =>
  /\ j.at \in {"join", "ask", "adopt"} => S!RemoteOrigin # j.target
  /\ j.at \in {"hangup", "bump", "take", "release", "slot", "navigate"} \cup Writing => j.was # j.target
  /\ j.at \in {"release", "slot"} => current = None
  /\ j.at \in {"navigate"} \cup Writing => current = None /\ remote # None /\ S!RemoteOrigin = j.target
LoneText(c, j) ==
  /\ j.at \in {"temp", "write", "rename"} => j.doc = Draft(j)
  /\ j.at = "write" => handle[c] = "temp" /\ temp = Blank
  /\ j.at = "rename" => temp = j.doc
  /\ j.at \in {"changed", "navigate"} => unwritten \/ Saved = Purpose(j)
LoneAs(c, j) == LoneRest(j) /\ LoneFolder(j) /\ LoneServer(j) /\ LoneText(c, j)
LoneCall(c) == LoneAs(c, job[c])
LoneInv == alone =>
  /\ \A c, d \in Callers : Busy(c) /\ Busy(d) => c = d
  /\ \A c \in Callers : Busy(c) => LoneCall(c)
  /\ (\A c \in Callers : ~Busy(c)) => Quiet

ShellInv == JobsInv /\ FoldersTyped /\ ServersTyped /\ FilesTyped /\ FlightInv /\ FolderInv /\ ServerInv /\ LoneInv

-----------------------------------------------------------------------------
(* The first folder or server that is free.                                  *)
LEMMA LeastIsIn ==
  ASSUME NEW F \in SUBSET Nat, F # {}
  PROVE  S!Least(F) \in F
<1>1. PICK m \in F : \A n \in F : ~(<<n, m>> \in OpToRel(<, Nat))
  BY NatLessThanWellFounded, WFMin
<1>2. \A n \in F : ~(n < m) BY <1>1 DEF OpToRel
<1>3. \E k \in F : \A n \in F : k <= n BY <1>2
<1>4. QED BY <1>3 DEF S!Least

-----------------------------------------------------------------------------
(* Calls, and what goes on in them.                                          *)

Fields(r, at, call, asks, target, inst, was, answer, text) ==
  /\ r.at = at /\ r.call = call /\ r.asks = asks /\ r.target = target
  /\ r.inst = inst /\ r.was = was /\ r.answer = answer /\ r.doc = text

LEMMA IdleIsAJob ==
  ASSUME S!ShellAssumption
  PROVE  /\ S!Idle \in Jobs /\ Targets(S!Idle)
         /\ Fields(S!Idle, "idle", None, None, None, None, None, None, None)
BY DEF Jobs, S!Answers, Targets, Fields, Writing, S!Idle, S!Stages, S!Questions, S!ShellAssumption

LEMMA GoTo ==
  ASSUME NEW t \in Jobs, NEW at \in S!Stages,
         NEW r, r = [t EXCEPT !.at = at]
  PROVE  r \in Jobs /\ Fields(r, at, t.call, t.asks, t.target, t.inst, t.was, t.answer, t.doc)
BY DEF Jobs, Fields

LEMMA AskAndGo ==
  ASSUME NEW t \in Jobs, NEW at \in S!Stages, NEW asks \in S!Questions,
         NEW r, r = [[t EXCEPT !.asks = asks] EXCEPT !.at = at]
  PROVE  r \in Jobs /\ Fields(r, at, t.call, asks, t.target, t.inst, t.was, t.answer, t.doc)
BY DEF Jobs, Fields

LEMMA AnswerAndGo ==
  ASSUME NEW t \in Jobs, NEW at \in S!Stages, NEW answer \in S!Answers,
         NEW r, r = [[t EXCEPT !.answer = answer] EXCEPT !.at = at]
  PROVE  r \in Jobs /\ Fields(r, at, t.call, t.asks, t.target, t.inst, t.was, answer, t.doc)
BY DEF Jobs, Fields

LEMMA AimAndGo ==
  ASSUME NEW t \in Jobs, NEW at \in S!Stages, NEW target \in Dirs,
         NEW r, r = [[t EXCEPT !.target = target] EXCEPT !.at = at]
  PROVE  r \in Jobs /\ Fields(r, at, t.call, t.asks, target, t.inst, t.was, t.answer, t.doc)
BY DEF Jobs, Fields

LEMMA TakeAndGo ==
  ASSUME NEW t \in Jobs, NEW at \in S!Stages, NEW inst \in S!Folders \cup {None},
         NEW r, r = [[t EXCEPT !.inst = inst] EXCEPT !.at = at]
  PROVE  r \in Jobs /\ Fields(r, at, t.call, t.asks, t.target, inst, t.was, t.answer, t.doc)
BY DEF Jobs, Fields

LEMMA NoteAndGo ==
  ASSUME NEW t \in Jobs, NEW at \in S!Stages, NEW was \in Origins \cup {None},
         NEW r, r = [[t EXCEPT !.was = was] EXCEPT !.at = at]
  PROVE  r \in Jobs /\ Fields(r, at, t.call, t.asks, t.target, t.inst, was, t.answer, t.doc)
BY DEF Jobs, Fields

LEMMA DraftAndGo ==
  ASSUME NEW t \in Jobs, NEW at \in S!Stages, NEW text \in S!Docs \cup {None},
         NEW r, r = [[t EXCEPT !.doc = text] EXCEPT !.at = at]
  PROVE  r \in Jobs /\ Fields(r, at, t.call, t.asks, t.target, t.inst, t.was, t.answer, text)
BY DEF Jobs, Fields

LEMMA EndAndGo ==
  ASSUME NEW t \in Jobs, NEW at \in S!Stages, NEW answer \in S!Answers,
         NEW r, r = [[t EXCEPT !.answer = answer, !.inst = None] EXCEPT !.at = at]
  PROVE  r \in Jobs /\ Fields(r, at, t.call, t.asks, t.target, None, t.was, answer, t.doc)
BY DEF Jobs, Fields

LEMMA GoAndAnswer ==
  ASSUME NEW t \in Jobs, NEW at \in S!Stages, NEW answer \in S!Answers,
         NEW r, r = [t EXCEPT !.at = at, !.answer = answer]
  PROVE  r \in Jobs /\ Fields(r, at, t.call, t.asks, t.target, t.inst, t.was, answer, t.doc)
BY DEF Jobs, Fields

LEMMA GoOnAsking ==
  ASSUME NEW t \in Jobs, NEW at \in S!Stages, NEW asks \in S!Questions, NEW answer \in S!Answers,
         NEW r, r = [t EXCEPT !.at = at, !.asks = asks, !.answer = answer]
  PROVE  r \in Jobs /\ Fields(r, at, t.call, asks, t.target, t.inst, t.was, answer, t.doc)
BY DEF Jobs, Fields

(* What a caller goes on with once a folder was opened, or not.              *)
LEMMA AfterLocalIs ==
  ASSUME S!ShellAssumption, NEW t \in Jobs, Targets(t), NEW r, r = S!AfterLocal(t)
  PROVE  /\ r \in Jobs /\ Targets(r)
         /\ \/ t.call = "mode" /\ Fields(r, "answer", t.call, "mode", t.target, t.inst, t.was, "local", t.doc)
            \/ t.call # "mode" /\ r = S!Idle
<1>1. CASE t.call = "mode"
  <2>1. r = [t EXCEPT !.at = "answer", !.asks = "mode", !.answer = "local"] BY <1>1 DEF S!AfterLocal
  <2>2. r \in Jobs /\ Fields(r, "answer", t.call, "mode", t.target, t.inst, t.was, "local", t.doc)
    <3>1. "answer" \in S!Stages /\ "mode" \in S!Questions /\ "local" \in S!Answers
      BY DEF S!Stages, S!Questions, S!Answers
    <3>2. QED BY <2>1, <3>1, GoOnAsking
  <2>3. Targets(r) BY <1>1, <2>2 DEF Targets, Fields, Writing, S!Questions
  <2>4. QED BY <1>1, <2>2, <2>3
<1>2. CASE t.call # "mode"
  BY <1>2, IdleIsAJob DEF S!AfterLocal
<1>3. QED BY <1>1, <1>2

LEMMA AfterAnswerIs ==
  ASSUME S!ShellAssumption, NEW t \in Jobs, Targets(t), NEW answer \in S!Answers, NEW r, r = S!AfterAnswer(t, answer)
  PROVE  /\ r \in Jobs /\ Targets(r)
         /\ \/ /\ t.asks = "folder" /\ answer # None
               /\ Fields(r, "local", t.call, t.asks, t.target, t.inst, t.was, answer, t.doc)
            \/ /\ t.asks = "folder" /\ answer = None /\ t.call = "mode"
               /\ Fields(r, "answer", t.call, "mode", t.target, t.inst, t.was, "local", t.doc)
            \/ (t.asks # "folder" \/ (answer = None /\ t.call # "mode")) /\ r = S!Idle
<1>1. CASE t.asks = "folder" /\ answer # None
  <2>1. r = [t EXCEPT !.at = "local", !.answer = answer] BY <1>1 DEF S!AfterAnswer
  <2>2. r \in Jobs /\ Fields(r, "local", t.call, t.asks, t.target, t.inst, t.was, answer, t.doc)
    <3>1. "local" \in S!Stages BY DEF S!Stages
    <3>2. QED BY <2>1, <3>1, GoAndAnswer
  <2>3. Targets(r) BY <1>1, <2>2 DEF Targets, Fields, Writing, S!Questions
  <2>4. QED BY <1>1, <2>2, <2>3
<1>2. CASE t.asks = "folder" /\ answer = None /\ t.call = "mode"
  <2>1. r = [t EXCEPT !.at = "answer", !.asks = "mode", !.answer = "local"] BY <1>2 DEF S!AfterAnswer
  <2>2. r \in Jobs /\ Fields(r, "answer", t.call, "mode", t.target, t.inst, t.was, "local", t.doc)
    <3>1. "answer" \in S!Stages /\ "mode" \in S!Questions /\ "local" \in S!Answers
      BY DEF S!Stages, S!Questions, S!Answers
    <3>2. QED BY <2>1, <3>1, GoOnAsking
  <2>3. Targets(r) BY <1>2, <2>2 DEF Targets, Fields, Writing, S!Questions
  <2>4. QED BY <1>2, <2>2, <2>3
<1>3. CASE t.asks # "folder" \/ (answer = None /\ t.call # "mode")
  BY <1>3, IdleIsAJob DEF S!AfterAnswer
<1>4. QED BY <1>1, <1>2, <1>3

-----------------------------------------------------------------------------
(* What is left as it was when one caller goes on.                           *)

Handles == {"temp", "target", "gone", None}

LEMMA JobTurns ==
  ASSUME JobsInv, NEW c \in Callers, NEW r \in Jobs, Targets(r), job' = [job EXCEPT ![c] = r],
         handle' \in [Callers -> Handles]
  PROVE  JobsInv' /\ job'[c] = r /\ \A d \in Callers : d # c => job'[d] = job[d]
BY DEF JobsInv, Handles

LEMMA FlightTurns ==
  ASSUME JobsInv, FlightInv, NEW c \in Callers, NEW r \in Jobs, job' = [job EXCEPT ![c] = r],
         flight' = flight, r.at \notin {"wait", "clear"},
         \A q \in S!Questions : Leads(r, q) <=> Leads(job[c], q)
  PROVE  FlightInv'
<1>1. job'[c] = r /\ \A d \in Callers : d # c => job'[d] = job[d] BY DEF JobsInv
<1>2. \A d \in Callers, q \in S!Questions : Leads(job'[d], q) <=> Leads(job[d], q) BY <1>1
<1>3. flight' \in [S!Questions -> S!Flights \cup {None}] BY DEF FlightInv
<1>4. ASSUME NEW q \in S!Questions, flight'[q] # None PROVE Leads(job'[flight'[q].leader], q)
  <2>1. flight[q].leader \in Callers BY <1>4 DEF FlightInv, S!Flights
  <2>2. Leads(job[flight[q].leader], q) BY <1>4 DEF FlightInv
  <2>3. QED BY <1>2, <2>1, <2>2
<1>5. \A d \in Callers, q \in S!Questions : Leads(job'[d], q) => flight'[q] # None /\ flight'[q].leader = d
  BY <1>2 DEF FlightInv
<1>6. \A d \in Callers :
        /\ job'[d].at = "wait" => flight'[job'[d].asks] # None /\ ~flight'[job'[d].asks].ready
        /\ job'[d].at = "clear" => flight'[job'[d].asks].ready
  BY <1>1 DEF FlightInv, S!At
<1>7. QED BY <1>3, <1>4, <1>5, <1>6 DEF FlightInv, S!At

LEMMA FolderTurns ==
  ASSUME JobsInv, FolderInv, NEW c \in Callers, NEW r \in Jobs, job' = [job EXCEPT ![c] = r],
         r.at \notin {"replace", "release"},
         current' = current, folder' = folder, earlier' = earlier, lastRelease' = lastRelease
  PROVE  FolderInv'
<1>1. job'[c] = r /\ \A d \in Callers : d # c => job'[d] = job[d] BY DEF JobsInv
<1>2. \A d \in Callers : Holds(d)' => d # c /\ Holds(d) /\ job'[d] = job[d] BY <1>1 DEF Holds
<1>3. \A i \in S!Folders : (Gone(i)' <=> Gone(i)) /\ folder'[i].stage = folder[i].stage
  BY DEF Gone
<1>4. \A i \in S!Folders : S!Done(earlier[i])' <=> S!Done(earlier[i]) BY DEF S!Done
<1>5. \A d \in Callers : Holds(d)' => /\ job'[d].inst # None /\ job'[d].inst # current'
                                      /\ folder'[job'[d].inst].stage = "open"
  BY <1>2 DEF FolderInv
<1>6. \A d, e \in Callers : Holds(d)' /\ Holds(e)' /\ job'[d].inst = job'[e].inst => d = e
  BY <1>2 DEF FolderInv
<1>7. \A i \in S!Folders : folder'[i].stage = "closed" => S!Done(earlier[i])' BY <1>4 DEF FolderInv
<1>8. \A F \in SUBSET S!Folders :
       (lastRelease' # None => lastRelease' \in F) /\ (\A i \in F : earlier'[i] # None => earlier'[i] \in F)
       => \A i \in S!Folders : Gone(i)' => i \in F
  BY <1>3 DEF FolderInv
<1>9. current' # None => folder'[current'].stage = "open" BY DEF FolderInv
<1>10. \A i \in S!Folders : earlier'[i] # None => Gone(i)' BY <1>3 DEF FolderInv
<1>11. QED BY <1>5, <1>6, <1>7, <1>8, <1>9, <1>10 DEF FolderInv

(* What a caller that connects to a server must know where it is.            *)
MayConnect(j, rem, agr) ==
  j.asks = "server" =>
    /\ j.at \in {"adopt", "hangup", "bump", "take", "release", "slot"} => j.target \in agr
    /\ j.at \in {"bump", "take", "release", "slot"} => rem = None

LEMMA ServerTurns ==
  ASSUME JobsInv, ServerInv, NEW c \in Callers, NEW r \in Jobs, job' = [job EXCEPT ![c] = r],
         server' = server, remote' = remote, agreed \subseteq agreed', MayConnect(r, remote, agreed')
  PROVE  ServerInv'
<1>1. job'[c] = r /\ \A d \in Callers : d # c => job'[d] = job[d] BY DEF JobsInv
<1>2. S!NoServerLeftBehind' /\ S!ServerWasConfirmed'
  BY DEF ServerInv, S!NoServerLeftBehind, S!ServerWasConfirmed, S!RemoteOrigin
<1>3. \A d \in Callers : MayConnect(job'[d], remote', agreed')
  BY <1>1 DEF ServerInv, MayConnect
<1>4. QED BY <1>2, <1>3 DEF ServerInv, MayConnect

LEMMA LoneTurns ==
  ASSUME JobsInv, LoneInv, NEW c \in Callers, NEW r \in Jobs, job' = [job EXCEPT ![c] = r],
         job[c].at # "idle", alone' = alone,
         alone /\ LoneCall(c) => IF r = S!Idle THEN Quiet' ELSE LoneAs(c, r)'
  PROVE  LoneInv'
<1>1. job'[c] = r /\ \A d \in Callers : d # c => job'[d] = job[d] BY DEF JobsInv
<1>2. Busy(c) BY DEF Busy, S!Idle
<1>3. SUFFICES ASSUME alone'
               PROVE  /\ \A d, e \in Callers : Busy(d)' /\ Busy(e)' => d = e
                      /\ \A d \in Callers : Busy(d)' => LoneCall(d)'
                      /\ (\A d \in Callers : ~Busy(d)') => Quiet'
  BY DEF LoneInv
<1>4. LoneCall(c) /\ \A d \in Callers : Busy(d) => d = c BY <1>2, <1>3 DEF LoneInv
<1>5. \A d \in Callers : Busy(d)' => d = c BY <1>1, <1>4 DEF Busy
<1>6. Busy(c)' <=> r # S!Idle BY <1>1 DEF Busy
<1>7. LoneCall(c)' <=> LoneAs(c, r)' BY <1>1 DEF LoneCall
<1>8. QED BY <1>3, <1>4, <1>5, <1>6, <1>7

(* The caller goes on, and the folders stay as they are.                     *)
LEMMA Turn ==
  ASSUME ShellInv, NEW c \in Callers, NEW r \in Jobs, Targets(r), job' = [job EXCEPT ![c] = r],
         job[c].at # "idle", r.at \notin {"wait", "clear", "replace", "release"},
         \A q \in S!Questions : Leads(r, q) <=> Leads(job[c], q),
         UNCHANGED <<flight, current, folder, adopting, earlier, lastRelease, alone>>,
         generation' \in Nat, generation <= generation',
         handle' \in [Callers -> Handles], ServersTyped', ServerInv', FilesTyped',
         alone /\ LoneCall(c) => IF r = S!Idle THEN Quiet' ELSE LoneAs(c, r)'
  PROVE  ShellInv'
<1>1. JobsInv' BY JobTurns DEF ShellInv
<1>2. FlightInv' BY FlightTurns DEF ShellInv
<1>3. FolderInv' BY FolderTurns DEF ShellInv
<1>4. LoneInv' BY LoneTurns DEF ShellInv
<1>5. FoldersTyped'
  <2>1. \A i \in S!Folders : folder[i].gen \in Nat /\ folder[i].gen <= generation
    BY DEF ShellInv, FoldersTyped, FolderRows
  <2>2. generation \in Nat BY DEF ShellInv, FoldersTyped
  <2>3. \A i \in S!Folders : folder[i].gen <= generation' BY <2>1, <2>2
  <2>4. QED BY <2>3 DEF ShellInv, FoldersTyped
<1>6. QED BY <1>1, <1>2, <1>3, <1>4, <1>5 DEF ShellInv

(* The caller goes on, and the servers stay as they are, too.                *)
LEMMA PlainTurn ==
  ASSUME ShellInv, NEW c \in Callers, NEW r \in Jobs, Targets(r), job' = [job EXCEPT ![c] = r],
         job[c].at # "idle", r.at \notin {"wait", "clear", "replace", "release"},
         \A q \in S!Questions : Leads(r, q) <=> Leads(job[c], q),
         UNCHANGED <<flight, current, folder, adopting, earlier, lastRelease, alone>>,
         generation' \in Nat, generation <= generation',
         UNCHANGED <<remote, server>>, agreed \subseteq agreed', agreed' \subseteq Origins,
         connectingTo' \in Origins \cup {None}, MayConnect(r, remote, agreed'),
         handle' \in [Callers -> Handles], FilesTyped',
         alone /\ LoneCall(c) => IF r = S!Idle THEN Quiet' ELSE LoneAs(c, r)'
  PROVE  ShellInv'
<1>1. ServerInv' BY ServerTurns DEF ShellInv
<1>2. ServersTyped' BY DEF ShellInv, ServersTyped
<1>3. QED BY <1>1, <1>2, Turn

(* What a caller knows of a library that stays as it is.                     *)
LEMMA SameText ==
  ASSUME UNCHANGED state
  PROVE  Saved' = Saved /\ \A j : Draft(j)' = Draft(j)
BY DEF Saved, Draft, S!Plan, S!RememberedMode, S!ReadState, S!Chosen, S!NoDoc, S!Docs

LEMMA Same ==
  ASSUME UNCHANGED <<current, folder, generation, remote, server, state, unwritten>>
  PROVE  /\ S!OpenDir' = S!OpenDir /\ S!RemoteOrigin' = S!RemoteOrigin
         /\ Newest' <=> Newest
         /\ FolderKept' <=> FolderKept
         /\ ServerKept' <=> ServerKept
         /\ Switched' <=> Switched
BY SameText DEF S!OpenDir, S!RemoteOrigin, Newest, FolderKept, ServerKept, Switched

LEMMA LoneStays ==
  ASSUME UNCHANGED <<current, folder, generation, remote, server, state, temp, handle, unwritten, stale>>,
         NEW c, NEW r
  PROVE  /\ Quiet' <=> Quiet
         /\ LoneAs(c, r)' <=> LoneAs(c, r)
<1>1. /\ Newest' <=> Newest
      /\ FolderKept' <=> FolderKept
      /\ Switched' <=> Switched
      /\ S!OpenDir' = S!OpenDir /\ S!RemoteOrigin' = S!RemoteOrigin
      /\ Saved' = Saved /\ Draft(r)' = Draft(r)
  BY Same, SameText
<1>2. Quiet' <=> Quiet BY <1>1 DEF Quiet
<1>3. LoneRest(r)' <=> LoneRest(r)
  <2>1. Local(r)' <=> Local(r) BY DEF Local
  <2>2. Before(r)' <=> Before(r) BY DEF Before, Local
  <2>3. QED BY <1>1, <1>2, <2>1, <2>2 DEF LoneRest
<1>4. LoneFolder(r)' <=> LoneFolder(r) BY <1>1 DEF LoneFolder, Writing
<1>5. LoneServer(r)' <=> LoneServer(r) BY <1>1 DEF LoneServer, Writing
<1>6. LoneText(c, r)' <=> LoneText(c, r) BY <1>1 DEF LoneText, Purpose
<1>7. QED BY <1>2, <1>3, <1>4, <1>5, <1>6 DEF LoneAs

(* The library stays as it is.                                               *)
LEMMA StillTurn ==
  ASSUME ShellInv, NEW c \in Callers, NEW r \in Jobs, Targets(r), job' = [job EXCEPT ![c] = r],
         job[c].at # "idle", r.at \notin {"wait", "clear", "replace", "release"},
         \A q \in S!Questions : Leads(r, q) <=> Leads(job[c], q),
         UNCHANGED <<flight, current, folder, adopting, earlier, lastRelease, alone>>,
         UNCHANGED <<generation, remote, server, state, temp, handle, unwritten, stale>>,
         agreed \subseteq agreed', agreed' \subseteq Origins,
         connectingTo' \in Origins \cup {None}, MayConnect(r, remote, agreed'),
         alone /\ LoneCall(c) => IF r = S!Idle THEN Quiet ELSE LoneAs(c, r)
  PROVE  ShellInv'
<1>1. /\ generation' \in Nat /\ generation <= generation'
      /\ handle' \in [Callers -> Handles] /\ FilesTyped'
  BY DEF ShellInv, FoldersTyped, JobsInv, Handles, FilesTyped
<1>2. (Quiet' <=> Quiet) /\ (LoneAs(c, r)' <=> LoneAs(c, r)) BY LoneStays
<1>3. alone /\ LoneCall(c) => IF r = S!Idle THEN Quiet' ELSE LoneAs(c, r)' BY <1>2
<1>4. QED BY <1>1, <1>3, PlainTurn

(* Nothing changes but the call.                                             *)
LEMMA CallTurn ==
  ASSUME ShellInv, NEW c \in Callers, NEW r \in Jobs, Targets(r), job' = [job EXCEPT ![c] = r],
         job[c].at # "idle", r.at \notin {"wait", "clear", "replace", "release"},
         \A q \in S!Questions : Leads(r, q) <=> Leads(job[c], q),
         MayConnect(r, remote, agreed),
         UNCHANGED <<flight, S!folderVars, S!serverVars, S!fileVars, stale, S!tallyVars>>,
         alone /\ LoneCall(c) => IF r = S!Idle THEN Quiet ELSE LoneAs(c, r)
  PROVE  ShellInv'
<1>1. /\ UNCHANGED <<flight, current, folder, adopting, earlier, lastRelease, alone>>
      /\ UNCHANGED <<generation, remote, server, state, temp, handle, unwritten, stale>>
      /\ UNCHANGED <<agreed, connectingTo>>
  BY DEF S!folderVars, S!serverVars, S!fileVars, S!tallyVars
<1>2. agreed \subseteq agreed' /\ agreed' \subseteq Origins /\ connectingTo' \in Origins \cup {None}
  BY <1>1 DEF ShellInv, ServersTyped
<1>3. MayConnect(r, remote, agreed') BY <1>1
<1>4. QED BY <1>1, <1>2, <1>3, StillTurn

-----------------------------------------------------------------------------
(* How a call goes on.                                                       *)

LEMMA CallIs ==
  ASSUME ShellInv, NEW c \in Callers
  PROVE  job[c] \in Jobs /\ Targets(job[c])
BY DEF ShellInv, JobsInv

Goes(c, at, asks, target, inst, was, answer, text) ==
  \E r \in Jobs : /\ job' = [job EXCEPT ![c] = r]
                  /\ Fields(r, at, job[c].call, asks, target, inst, was, answer, text)

LEMMA Going ==
  ASSUME ShellInv, NEW c \in Callers, NEW at \in S!Stages, S!Go(c, at)
  PROVE  Goes(c, at, job[c].asks, job[c].target, job[c].inst, job[c].was, job[c].answer, job[c].doc)
<1>1. PICK t \in Jobs : t = job[c] BY CallIs
<1>2. PICK r : r = [t EXCEPT !.at = at] OBVIOUS
<1>3. r \in Jobs /\ Fields(r, at, t.call, t.asks, t.target, t.inst, t.was, t.answer, t.doc) BY <1>2, GoTo
<1>4. job' = [job EXCEPT ![c] = r] BY <1>1, <1>2 DEF S!Go
<1>5. QED BY <1>1, <1>3, <1>4 DEF Goes

LEMMA GoingAsks ==
  ASSUME ShellInv, NEW c \in Callers, NEW at \in S!Stages, NEW asks \in S!Questions,
         S!GoWith(c, at, [job[c] EXCEPT !.asks = asks])
  PROVE  Goes(c, at, asks, job[c].target, job[c].inst, job[c].was, job[c].answer, job[c].doc)
<1>1. PICK t \in Jobs : t = job[c] BY CallIs
<1>2. PICK r : r = [[t EXCEPT !.asks = asks] EXCEPT !.at = at] OBVIOUS
<1>3. r \in Jobs /\ Fields(r, at, t.call, asks, t.target, t.inst, t.was, t.answer, t.doc) BY <1>2, AskAndGo
<1>4. job' = [job EXCEPT ![c] = r] BY <1>1, <1>2 DEF S!GoWith
<1>5. QED BY <1>1, <1>3, <1>4 DEF Goes

LEMMA GoingAnswers ==
  ASSUME ShellInv, NEW c \in Callers, NEW at \in S!Stages, NEW answer \in S!Answers,
         S!GoWith(c, at, [job[c] EXCEPT !.answer = answer])
  PROVE  Goes(c, at, job[c].asks, job[c].target, job[c].inst, job[c].was, answer, job[c].doc)
<1>1. PICK t \in Jobs : t = job[c] BY CallIs
<1>2. PICK r : r = [[t EXCEPT !.answer = answer] EXCEPT !.at = at] OBVIOUS
<1>3. r \in Jobs /\ Fields(r, at, t.call, t.asks, t.target, t.inst, t.was, answer, t.doc) BY <1>2, AnswerAndGo
<1>4. job' = [job EXCEPT ![c] = r] BY <1>1, <1>2 DEF S!GoWith
<1>5. QED BY <1>1, <1>3, <1>4 DEF Goes

LEMMA GoingAims ==
  ASSUME ShellInv, NEW c \in Callers, NEW at \in S!Stages, NEW target \in Dirs,
         S!GoWith(c, at, [job[c] EXCEPT !.target = target])
  PROVE  Goes(c, at, job[c].asks, target, job[c].inst, job[c].was, job[c].answer, job[c].doc)
<1>1. PICK t \in Jobs : t = job[c] BY CallIs
<1>2. PICK r : r = [[t EXCEPT !.target = target] EXCEPT !.at = at] OBVIOUS
<1>3. r \in Jobs /\ Fields(r, at, t.call, t.asks, target, t.inst, t.was, t.answer, t.doc) BY <1>2, AimAndGo
<1>4. job' = [job EXCEPT ![c] = r] BY <1>1, <1>2 DEF S!GoWith
<1>5. QED BY <1>1, <1>3, <1>4 DEF Goes

LEMMA GoingTakes ==
  ASSUME ShellInv, NEW c \in Callers, NEW at \in S!Stages, NEW inst \in S!Folders \cup {None},
         S!GoWith(c, at, [job[c] EXCEPT !.inst = inst])
  PROVE  Goes(c, at, job[c].asks, job[c].target, inst, job[c].was, job[c].answer, job[c].doc)
<1>1. PICK t \in Jobs : t = job[c] BY CallIs
<1>2. PICK r : r = [[t EXCEPT !.inst = inst] EXCEPT !.at = at] OBVIOUS
<1>3. r \in Jobs /\ Fields(r, at, t.call, t.asks, t.target, inst, t.was, t.answer, t.doc) BY <1>2, TakeAndGo
<1>4. job' = [job EXCEPT ![c] = r] BY <1>1, <1>2 DEF S!GoWith
<1>5. QED BY <1>1, <1>3, <1>4 DEF Goes

LEMMA GoingNotes ==
  ASSUME ShellInv, NEW c \in Callers, NEW at \in S!Stages, NEW was \in Origins \cup {None},
         S!GoWith(c, at, [job[c] EXCEPT !.was = was])
  PROVE  Goes(c, at, job[c].asks, job[c].target, job[c].inst, was, job[c].answer, job[c].doc)
<1>1. PICK t \in Jobs : t = job[c] BY CallIs
<1>2. PICK r : r = [[t EXCEPT !.was = was] EXCEPT !.at = at] OBVIOUS
<1>3. r \in Jobs /\ Fields(r, at, t.call, t.asks, t.target, t.inst, was, t.answer, t.doc) BY <1>2, NoteAndGo
<1>4. job' = [job EXCEPT ![c] = r] BY <1>1, <1>2 DEF S!GoWith
<1>5. QED BY <1>1, <1>3, <1>4 DEF Goes

LEMMA GoingDrafts ==
  ASSUME ShellInv, NEW c \in Callers, NEW at \in S!Stages, NEW text \in S!Docs \cup {None},
         S!GoWith(c, at, [job[c] EXCEPT !.doc = text])
  PROVE  Goes(c, at, job[c].asks, job[c].target, job[c].inst, job[c].was, job[c].answer, text)
<1>1. PICK t \in Jobs : t = job[c] BY CallIs
<1>2. PICK r : r = [[t EXCEPT !.doc = text] EXCEPT !.at = at] OBVIOUS
<1>3. r \in Jobs /\ Fields(r, at, t.call, t.asks, t.target, t.inst, t.was, t.answer, text) BY <1>2, DraftAndGo
<1>4. job' = [job EXCEPT ![c] = r] BY <1>1, <1>2 DEF S!GoWith
<1>5. QED BY <1>1, <1>3, <1>4 DEF Goes

LEMMA GoingEnds ==
  ASSUME ShellInv, NEW c \in Callers, NEW at \in S!Stages, NEW answer \in S!Answers,
         S!GoWith(c, at, [job[c] EXCEPT !.answer = answer, !.inst = None])
  PROVE  Goes(c, at, job[c].asks, job[c].target, None, job[c].was, answer, job[c].doc)
<1>1. PICK t \in Jobs : t = job[c] BY CallIs
<1>2. PICK r : r = [[t EXCEPT !.answer = answer, !.inst = None] EXCEPT !.at = at] OBVIOUS
<1>3. r \in Jobs /\ Fields(r, at, t.call, t.asks, t.target, None, t.was, answer, t.doc) BY <1>2, EndAndGo
<1>4. job' = [job EXCEPT ![c] = r] BY <1>1, <1>2 DEF S!GoWith
<1>5. QED BY <1>1, <1>3, <1>4 DEF Goes

-----------------------------------------------------------------------------
(* The questions.                                                            *)

LEMMA AskModeKeeps ==
  ASSUME S!ShellAssumption, ShellInv, NEW c \in Callers, S!AskMode(c)
  PROVE  ShellInv'
<1>1. PICK t \in Jobs : t = job[c] /\ Targets(t) BY CallIs
<1>2. /\ t.at = "ask" /\ t.asks = "mode" /\ t.call = "mode"
      /\ UNCHANGED <<flight, S!folderVars, S!serverVars, S!fileVars, stale, S!tallyVars>>
  BY <1>1 DEF S!AskMode, S!At, Targets
<1>3. PICK at, asks, answer :
        /\ Goes(c, at, asks, t.target, t.inst, t.was, answer, t.doc)
        /\ \/ at = "join" /\ asks = "folder"
           \/ at \in {"leave", "answer"} /\ asks = "mode"
  <2>1. CASE S!GoWith(c, "join", [job[c] EXCEPT !.asks = "folder"])
    <3>1. "join" \in S!Stages /\ "folder" \in S!Questions BY DEF S!Stages, S!Questions
    <3>2. Goes(c, "join", "folder", t.target, t.inst, t.was, t.answer, t.doc) BY <1>1, <2>1, <3>1, GoingAsks
    <3>3. QED BY <3>2
  <2>2. CASE S!GoWith(c, "leave", [job[c] EXCEPT !.answer = "remote"])
    <3>1. "leave" \in S!Stages /\ "remote" \in S!Answers BY DEF S!Stages, S!Answers
    <3>2. Goes(c, "leave", t.asks, t.target, t.inst, t.was, "remote", t.doc) BY <1>1, <2>2, <3>1, GoingAnswers
    <3>3. QED BY <1>2, <3>2
  <2>3. CASE S!GoWith(c, "answer", [job[c] EXCEPT !.answer = None])
    <3>1. "answer" \in S!Stages /\ None \in S!Answers BY DEF S!Stages, S!Answers
    <3>2. Goes(c, "answer", t.asks, t.target, t.inst, t.was, None, t.doc) BY <1>1, <2>3, <3>1, GoingAnswers
    <3>3. QED BY <1>2, <3>2
  <2>4. QED BY <2>1, <2>2, <2>3 DEF S!AskMode
<1>4. PICK r \in Jobs : /\ job' = [job EXCEPT ![c] = r]
                        /\ Fields(r, at, t.call, asks, t.target, t.inst, t.was, answer, t.doc)
  BY <1>1, <1>3 DEF Goes
<1>5. Targets(r) BY <1>2, <1>3, <1>4 DEF Targets, Fields, Writing, S!Questions
<1>6. \A q \in S!Questions : Leads(r, q) <=> Leads(t, q)
  BY <1>2, <1>3, <1>4 DEF Leads, Fields, Leading, S!Stages
<1>7. MayConnect(r, remote, agreed) BY <1>3, <1>4 DEF MayConnect, Fields
<1>8. LoneAs(c, t) => LoneAs(c, r)
  BY <1>2, <1>3, <1>4 DEF LoneAs, LoneRest, LoneFolder, LoneServer, LoneText, Before, Local, Writing, Fields
<1>9. r # S!Idle /\ r.at \notin {"wait", "clear", "replace", "release"} BY <1>3, <1>4 DEF Fields, S!Idle
<1>10. QED BY <1>1, <1>2, <1>4, <1>5, <1>6, <1>7, <1>8, <1>9, CallTurn DEF LoneCall

LEMMA AskFolderKeeps ==
  ASSUME S!ShellAssumption, ShellInv, NEW c \in Callers, S!AskFolder(c)
  PROVE  ShellInv'
<1>1. PICK t \in Jobs : t = job[c] /\ Targets(t) BY CallIs
<1>2. /\ t.at = "ask" /\ t.asks = "folder"
      /\ UNCHANGED <<flight, S!folderVars, S!serverVars, S!fileVars, stale, S!tallyVars>>
  BY <1>1 DEF S!AskFolder, S!At
<1>3. PICK at, target, answer :
        /\ Goes(c, at, t.asks, target, t.inst, t.was, answer, t.doc)
        /\ \/ at = "open" /\ target \in Dirs
           \/ at = "answer" /\ answer = None
  <2>1. ASSUME NEW d \in Dirs, S!GoWith(c, "open", [job[c] EXCEPT !.target = d])
        PROVE  Goes(c, "open", t.asks, d, t.inst, t.was, t.answer, t.doc)
    <3>1. "open" \in S!Stages BY DEF S!Stages
    <3>2. QED BY <1>1, <2>1, <3>1, GoingAims
  <2>2. ASSUME S!GoWith(c, "answer", [job[c] EXCEPT !.answer = None])
        PROVE  Goes(c, "answer", t.asks, t.target, t.inst, t.was, None, t.doc)
    <3>1. "answer" \in S!Stages /\ None \in S!Answers BY DEF S!Stages, S!Answers
    <3>2. QED BY <1>1, <2>2, <3>1, GoingAnswers
  <2>3. QED BY <2>1, <2>2 DEF S!AskFolder
<1>4. PICK r \in Jobs : /\ job' = [job EXCEPT ![c] = r]
                        /\ Fields(r, at, t.call, t.asks, target, t.inst, t.was, answer, t.doc)
  BY <1>1, <1>3 DEF Goes
<1>5. Targets(r) BY <1>1, <1>2, <1>3, <1>4 DEF Targets, Fields, Writing, S!Questions
<1>6. \A q \in S!Questions : Leads(r, q) <=> Leads(t, q)
  BY <1>2, <1>3, <1>4 DEF Leads, Fields, Leading, S!Stages
<1>7. MayConnect(r, remote, agreed) BY <1>2, <1>3, <1>4 DEF MayConnect, Fields
<1>8. LoneAs(c, t) => LoneAs(c, r)
  BY <1>2, <1>3, <1>4 DEF LoneAs, LoneRest, LoneFolder, LoneServer, LoneText, Before, Local, Writing, Fields
<1>9. r # S!Idle /\ r.at \notin {"wait", "clear", "replace", "release"} BY <1>3, <1>4 DEF Fields, S!Idle
<1>10. QED BY <1>1, <1>2, <1>4, <1>5, <1>6, <1>7, <1>8, <1>9, CallTurn DEF LoneCall

LEMMA AskServerKeeps ==
  ASSUME S!ShellAssumption, ShellInv, NEW c \in Callers, S!AskServer(c)
  PROVE  ShellInv'
<1>1. PICK t \in Jobs : t = job[c] /\ Targets(t) BY CallIs
<1>2. /\ t.at = "ask" /\ t.asks = "server" /\ t.target \in Origins
      /\ UNCHANGED <<flight, S!folderVars, remote, server, connectingTo, S!fileVars, stale, S!tallyVars>>
  BY <1>1 DEF S!AskServer, S!At, Targets
<1>3. PICK at, answer :
        /\ Goes(c, at, t.asks, t.target, t.inst, t.was, answer, t.doc)
        /\ \/ at = "adopt" /\ agreed' = agreed \cup {t.target}
           \/ at = "unpend" /\ agreed' = agreed
  <2>1. ASSUME S!GoWith(c, "adopt", [job[c] EXCEPT !.answer = job[c].target])
        PROVE  Goes(c, "adopt", t.asks, t.target, t.inst, t.was, t.target, t.doc)
    <3>1. "adopt" \in S!Stages /\ t.target \in S!Answers BY <1>2 DEF S!Stages, S!Answers
    <3>2. QED BY <1>1, <2>1, <3>1, GoingAnswers
  <2>2. ASSUME S!Go(c, "unpend")
        PROVE  Goes(c, "unpend", t.asks, t.target, t.inst, t.was, t.answer, t.doc)
    <3>1. "unpend" \in S!Stages BY DEF S!Stages
    <3>2. QED BY <1>1, <2>2, <3>1, Going
  <2>3. QED BY <1>1, <2>1, <2>2 DEF S!AskServer
<1>4. PICK r \in Jobs : /\ job' = [job EXCEPT ![c] = r]
                        /\ Fields(r, at, t.call, t.asks, t.target, t.inst, t.was, answer, t.doc)
  BY <1>1, <1>3 DEF Goes
<1>5. Targets(r) BY <1>1, <1>2, <1>3, <1>4 DEF Targets, Fields, Writing, S!Questions
<1>6. \A q \in S!Questions : Leads(r, q) <=> Leads(t, q)
  BY <1>2, <1>3, <1>4 DEF Leads, Fields, Leading, S!Stages
<1>7. MayConnect(r, remote, agreed') BY <1>2, <1>3, <1>4 DEF MayConnect, Fields
<1>8. /\ UNCHANGED <<flight, current, folder, adopting, earlier, lastRelease, alone>>
      /\ UNCHANGED <<generation, remote, server, connectingTo, state, temp, handle, unwritten, stale>>
  BY <1>2 DEF S!folderVars, S!fileVars, S!tallyVars
<1>9. LoneAs(c, t) => LoneAs(c, r)
  BY <1>2, <1>3, <1>4 DEF LoneAs, LoneRest, LoneFolder, LoneServer, LoneText, Before, Local, Writing, Fields
<1>10. r # S!Idle /\ r.at \notin {"wait", "clear", "replace", "release"} BY <1>3, <1>4 DEF Fields, S!Idle
<1>11. agreed \subseteq agreed' /\ agreed' \subseteq Origins BY <1>2, <1>3 DEF ShellInv, ServersTyped
<1>12. connectingTo' \in Origins \cup {None} BY <1>8 DEF ShellInv, ServersTyped
<1>13. QED BY <1>1, <1>2, <1>4, <1>5, <1>6, <1>7, <1>8, <1>9, <1>10, <1>11, <1>12, StillTurn DEF LoneCall

-----------------------------------------------------------------------------
(* Writing the choice down.                                                  *)

LEMMA ChosenIsADoc ==
  ASSUME NEW text, NEW mode \in {"local", "remote"}, NEW target,
         mode = "local" => target \in Dirs, mode = "remote" => target \in Origins
  PROVE  S!Chosen(S!ReadState(text), mode, target) \in S!Docs
<1>1. PICK doc \in S!Docs : doc = S!ReadState(text)
  <2>1. S!NoDoc \in S!Docs BY DEF S!NoDoc, S!Docs
  <2>2. S!ReadState(text) \in S!Docs BY <2>1 DEF S!ReadState
  <2>3. QED BY <2>2
<1>2. [doc EXCEPT !.mode = mode, !.dir = target] \in S!Docs \/ mode = "remote" BY DEF S!Docs
<1>3. [doc EXCEPT !.mode = mode, !.origin = target] \in S!Docs \/ mode = "local" BY DEF S!Docs
<1>4. QED BY <1>1, <1>2, <1>3 DEF S!Chosen

LEMMA ReadKeeps ==
  ASSUME S!ShellAssumption, ShellInv, NEW c \in Callers, S!Read(c)
  PROVE  ShellInv'
<1>1. PICK t \in Jobs : t = job[c] /\ Targets(t) BY CallIs
<1>2. /\ t.at = "read" /\ t.asks \in {"folder", "server"}
      /\ UNCHANGED <<flight, S!folderVars, S!serverVars, S!fileVars, stale, S!tallyVars>>
  BY <1>1 DEF S!Read, S!At, Targets, Writing
<1>3. PICK text \in S!Docs : text = Draft(t)
  <2>1. Draft(t) \in S!Docs BY <1>1, <1>2, ChosenIsADoc DEF Draft, Targets, Writing
  <2>2. QED BY <2>1
<1>4. PICK r \in Jobs : /\ job' = [job EXCEPT ![c] = r]
                        /\ Fields(r, "temp", t.call, t.asks, t.target, t.inst, t.was, t.answer, text)
  <2>1. S!GoWith(c, "temp", [job[c] EXCEPT !.doc = text])
    BY <1>1, <1>2, <1>3 DEF S!Read, Draft, S!Mode
  <2>2. "temp" \in S!Stages BY DEF S!Stages
  <2>3. QED BY <1>1, <2>1, <2>2, GoingDrafts DEF Goes
<1>5. Targets(r) BY <1>1, <1>2, <1>4 DEF Targets, Fields, Writing, S!Questions
<1>6. \A q \in S!Questions : Leads(r, q) <=> Leads(t, q)
  BY <1>2, <1>4 DEF Leads, Fields, Leading, S!Stages
<1>7. MayConnect(r, remote, agreed) BY <1>4 DEF MayConnect, Fields
<1>8. Draft(r) = text BY <1>3, <1>4 DEF Draft, Fields
<1>9. LoneAs(c, t) => LoneAs(c, r)
  BY <1>2, <1>4, <1>8 DEF LoneAs, LoneRest, LoneFolder, LoneServer, LoneText, Before, Local, Writing, Fields
<1>10. r # S!Idle /\ r.at \notin {"wait", "clear", "replace", "release"} BY <1>4 DEF Fields, S!Idle
<1>11. QED BY <1>1, <1>2, <1>4, <1>5, <1>6, <1>7, <1>9, <1>10, CallTurn DEF LoneCall

(* Only the files change, and what the caller knows of them.                 *)
LEMMA WriteTurn ==
  ASSUME S!ShellAssumption, ShellInv, NEW c \in Callers, NEW at, NEW text \in S!Docs \cup {None},
         job[c].at \in {"temp", "write", "rename"}, at \in {"write", "rename", "changed", "navigate"},
         at = "changed" => job[c].asks = "folder", at = "navigate" => job[c].asks = "server",
         at \in {"write", "rename"} => text \in S!Docs,
         NEW r \in Jobs, job' = [job EXCEPT ![c] = r],
         Fields(r, at, job[c].call, job[c].asks, job[c].target, job[c].inst, job[c].was, job[c].answer, text),
         UNCHANGED <<flight, current, folder, adopting, earlier, lastRelease, generation>>,
         UNCHANGED <<remote, server, connectingTo, agreed, stale, alone>>,
         handle' \in [Callers -> Handles], FilesTyped',
         alone /\ LoneCall(c) => LoneText(c, r)'
  PROVE  ShellInv'
<1>1. PICK t \in Jobs : t = job[c] /\ Targets(t) BY CallIs
<1>2. t.at \in {"temp", "write", "rename"} /\ t.asks \in {"folder", "server"} BY <1>1 DEF Targets, Writing
<1>3. Fields(r, at, t.call, t.asks, t.target, t.inst, t.was, t.answer, text) BY <1>1
<1>4. Targets(r) BY <1>1, <1>2, <1>3 DEF Targets, Fields, Writing, S!Questions
<1>5. \A q \in S!Questions : Leads(r, q) <=> Leads(t, q)
  BY <1>2, <1>3 DEF Leads, Fields, Leading, S!Stages
<1>6. MayConnect(r, remote, agreed') BY <1>3 DEF MayConnect, Fields
<1>7. LoneAs(c, t) => LoneRest(r)' /\ LoneFolder(r)' /\ LoneServer(r)'
  <2>1. /\ S!OpenDir' = S!OpenDir /\ S!RemoteOrigin' = S!RemoteOrigin
        /\ Newest' <=> Newest
    BY DEF S!OpenDir, S!RemoteOrigin, Newest
  <2>2. LoneRest(r)' BY <1>3 DEF LoneRest, Before, Local, Fields
  <2>3. LoneFolder(t) => LoneFolder(r)' BY <1>1, <1>2, <1>3, <2>1 DEF LoneFolder, Writing, Fields
  <2>4. LoneServer(t) => LoneServer(r)' BY <1>1, <1>2, <1>3, <2>1 DEF LoneServer, Writing, Fields
  <2>5. QED BY <2>2, <2>3, <2>4 DEF LoneAs
<1>8. alone /\ LoneCall(c) => LoneAs(c, r)' BY <1>1, <1>7 DEF LoneAs, LoneCall
<1>9. r # S!Idle /\ r.at \notin {"wait", "clear", "replace", "release"} BY <1>3 DEF Fields, S!Idle
<1>10. /\ generation' \in Nat /\ generation <= generation' /\ agreed \subseteq agreed' /\ agreed' \subseteq Origins
       /\ connectingTo' \in Origins \cup {None} /\ job[c].at # "idle"
  BY <1>1, <1>2 DEF ShellInv, ServersTyped, FoldersTyped
<1>11. QED BY <1>1, <1>4, <1>5, <1>6, <1>8, <1>9, <1>10, PlainTurn

LEMMA OpenTempKeeps ==
  ASSUME S!ShellAssumption, ShellInv, NEW c \in Callers, S!OpenTemp(c)
  PROVE  ShellInv'
<1>1. PICK t \in Jobs : t = job[c] /\ Targets(t) BY CallIs
<1>2. /\ t.at = "temp" /\ t.doc \in S!Docs
      /\ temp' = Blank /\ handle' = [handle EXCEPT ![c] = "temp"] /\ S!Go(c, "write")
      /\ UNCHANGED <<flight, current, folder, adopting, earlier, lastRelease, generation>>
      /\ UNCHANGED <<remote, server, connectingTo, agreed, state, unwritten, stale, alone>>
  BY <1>1 DEF S!OpenTemp, S!At, S!folderVars, S!serverVars, S!tallyVars, Targets
<1>3. PICK r \in Jobs : /\ job' = [job EXCEPT ![c] = r]
                        /\ Fields(r, "write", t.call, t.asks, t.target, t.inst, t.was, t.answer, t.doc)
  <2>1. "write" \in S!Stages BY DEF S!Stages
  <2>2. QED BY <1>1, <1>2, <2>1, Going DEF Goes
<1>4. handle' \in [Callers -> Handles] /\ handle'[c] = "temp" BY <1>2 DEF ShellInv, JobsInv, Handles
<1>5. FilesTyped' BY <1>2 DEF ShellInv, FilesTyped, S!Texts
<1>6. Draft(r)' = Draft(t) BY <1>2, <1>3 DEF Draft, Fields
<1>7. LoneText(c, t) => LoneText(c, r)' BY <1>2, <1>3, <1>4, <1>6 DEF LoneText, Fields
<1>8. QED BY <1>1, <1>2, <1>3, <1>4, <1>5, <1>7, WriteTurn DEF LoneCall, LoneAs

LEMMA WriteKeeps ==
  ASSUME S!ShellAssumption, ShellInv, NEW c \in Callers, S!Write(c)
  PROVE  ShellInv'
<1>1. PICK t \in Jobs : t = job[c] /\ Targets(t) BY CallIs
<1>2. /\ t.at = "write" /\ t.doc \in S!Docs
      /\ handle' = [handle EXCEPT ![c] = None] /\ S!Go(c, "rename")
      /\ \/ handle[c] = "temp" /\ temp' \in S!Over(temp, t.doc) /\ UNCHANGED state
         \/ handle[c] = "target" /\ state' \in S!Over(state, t.doc) /\ UNCHANGED temp
         \/ handle[c] = "gone" /\ UNCHANGED <<state, temp>>
      /\ UNCHANGED <<flight, current, folder, adopting, earlier, lastRelease, generation>>
      /\ UNCHANGED <<remote, server, connectingTo, agreed, unwritten, stale, alone>>
  BY <1>1 DEF S!Write, S!At, S!folderVars, S!serverVars, S!tallyVars, Targets
<1>3. PICK r \in Jobs : /\ job' = [job EXCEPT ![c] = r]
                        /\ Fields(r, "rename", t.call, t.asks, t.target, t.inst, t.was, t.answer, t.doc)
  <2>1. "rename" \in S!Stages BY DEF S!Stages
  <2>2. QED BY <1>1, <1>2, <2>1, Going DEF Goes
<1>4. handle' \in [Callers -> Handles] BY <1>2 DEF ShellInv, JobsInv, Handles
<1>5. FilesTyped'
  <2>1. \A text : S!Over(text, t.doc) \subseteq S!Texts BY <1>2 DEF S!Over, S!Texts
  <2>2. state' \in S!Texts /\ temp' \in S!Texts \cup {None} BY <1>2, <2>1 DEF ShellInv, FilesTyped
  <2>3. QED BY <1>2, <2>2 DEF ShellInv, FilesTyped
<1>6. LoneText(c, t) => LoneText(c, r)'
  <2>1. SUFFICES ASSUME LoneText(c, t) PROVE LoneText(c, r)' OBVIOUS
  <2>2. handle[c] = "temp" /\ temp = Blank /\ t.doc = Draft(t) BY <1>2, <2>1 DEF LoneText
  <2>3. temp' = t.doc /\ state' = state BY <1>2, <2>2 DEF S!Over
  <2>4. Draft(r)' = Draft(t) BY <1>3, <2>3 DEF Draft, Fields
  <2>5. QED BY <1>3, <2>2, <2>3, <2>4 DEF LoneText, Fields
<1>7. QED BY <1>1, <1>2, <1>3, <1>4, <1>5, <1>6, WriteTurn DEF LoneCall, LoneAs

(* The plan made of a choice that was written down is that choice.           *)
LEMMA PlanIsDraft ==
  ASSUME S!ShellAssumption, NEW text, NEW t, t.asks \in {"folder", "server"},
         t.asks = "folder" => t.target \in Dirs, t.asks = "server" => t.target \in Origins
  PROVE  S!Plan(S!ReadState(S!Chosen(S!ReadState(text), IF t.asks = "folder" THEN "local" ELSE "remote", t.target)))
           = Purpose(t)
<1>1. PICK doc \in S!Docs : doc = S!ReadState(text)
  <2>1. S!NoDoc \in S!Docs BY DEF S!NoDoc, S!Docs
  <2>2. S!ReadState(text) \in S!Docs BY <2>1 DEF S!ReadState
  <2>3. QED BY <2>2
<1>2. None \notin Dirs \cup Origins \cup {"local", "remote"} BY DEF S!ShellAssumption
<1>3. CASE t.asks = "folder"
  <2>1. PICK new : new = [doc EXCEPT !.mode = "local", !.dir = t.target] OBVIOUS
  <2>2. new \in S!Docs /\ new.mode = "local" /\ new.dir = t.target BY <1>3, <2>1 DEF S!Docs
  <2>3. S!ReadState(new) = new BY <2>2 DEF S!ReadState
  <2>4. S!Plan(new) = Purpose(t) BY <1>2, <1>3, <2>2 DEF S!Plan, S!RememberedMode, Purpose
  <2>5. QED BY <1>1, <1>3, <2>1, <2>3, <2>4 DEF S!Chosen
<1>4. CASE t.asks = "server"
  <2>1. PICK new : new = [doc EXCEPT !.mode = "remote", !.origin = t.target] OBVIOUS
  <2>2. new \in S!Docs /\ new.mode = "remote" /\ new.origin = t.target BY <1>4, <2>1 DEF S!Docs
  <2>3. S!ReadState(new) = new BY <2>2 DEF S!ReadState
  <2>4. S!Plan(new) = Purpose(t) BY <1>2, <1>4, <2>2 DEF S!Plan, S!RememberedMode, Purpose
  <2>5. QED BY <1>1, <1>4, <2>1, <2>3, <2>4 DEF S!Chosen
<1>5. QED BY <1>3, <1>4

(* The two ways a call leaves the writing.                                   *)
LEMMA Leaving ==
  ASSUME S!ShellAssumption, ShellInv, NEW c \in Callers, job[c].at \in {"temp", "write", "rename"},
         S!GoWith(c, S!Written(c), [job[c] EXCEPT !.doc = None])
  PROVE  \E at \in {"changed", "navigate"} :
           /\ at = "changed" => job[c].asks = "folder"
           /\ at = "navigate" => job[c].asks = "server"
           /\ Goes(c, at, job[c].asks, job[c].target, job[c].inst, job[c].was, job[c].answer, None)
<1>1. PICK t \in Jobs : t = job[c] /\ Targets(t) BY CallIs
<1>2. PICK at \in {"changed", "navigate"} : at = S!Written(c)
  <2>1. S!Written(c) \in {"changed", "navigate"} BY DEF S!Written
  <2>2. QED BY <2>1
<1>3. at \in S!Stages /\ None \in S!Docs \cup {None} BY DEF S!Stages
<1>4. Goes(c, at, t.asks, t.target, t.inst, t.was, t.answer, None) BY <1>1, <1>2, <1>3, GoingDrafts
<1>5. (at = "changed" => t.asks = "folder") /\ (at = "navigate" => t.asks = "server")
  BY <1>1, <1>2 DEF S!Written, Targets, Writing
<1>6. QED BY <1>1, <1>4, <1>5

LEMMA RenameKeeps ==
  ASSUME S!ShellAssumption, ShellInv, NEW c \in Callers, S!Rename(c)
  PROVE  ShellInv'
<1>1. PICK t \in Jobs : t = job[c] /\ Targets(t) BY CallIs
<1>2. /\ t.at = "rename" /\ temp # None /\ state' = temp /\ temp' = None
      /\ handle' = S!Moved("target") /\ S!GoWith(c, S!Written(c), [job[c] EXCEPT !.doc = None])
      /\ UNCHANGED <<flight, current, folder, adopting, earlier, lastRelease, generation>>
      /\ UNCHANGED <<remote, server, connectingTo, agreed, unwritten, stale, alone>>
  BY <1>1 DEF S!Rename, S!At, S!folderVars, S!serverVars, S!tallyVars
<1>3. PICK at \in {"changed", "navigate"} :
        /\ at = "changed" => t.asks = "folder"
        /\ at = "navigate" => t.asks = "server"
        /\ Goes(c, at, t.asks, t.target, t.inst, t.was, t.answer, None)
  BY <1>1, <1>2, Leaving
<1>4. PICK r \in Jobs : /\ job' = [job EXCEPT ![c] = r]
                        /\ Fields(r, at, t.call, t.asks, t.target, t.inst, t.was, t.answer, None)
  BY <1>1, <1>3 DEF Goes
<1>5. handle' \in [Callers -> Handles]
  <2>1. \A d \in Callers : handle[d] \in Handles BY DEF ShellInv, JobsInv, Handles
  <2>2. QED BY <1>2, <2>1 DEF S!Moved, Handles
<1>6. FilesTyped' BY <1>2 DEF ShellInv, FilesTyped
<1>7. LoneText(c, t) => LoneText(c, r)'
  <2>1. SUFFICES ASSUME LoneText(c, t) PROVE LoneText(c, r)' OBVIOUS
  <2>2. state' = Draft(t) BY <1>2, <2>1 DEF LoneText
  <2>3. /\ t.asks \in {"folder", "server"}
        /\ t.asks = "folder" => t.target \in Dirs
        /\ t.asks = "server" => t.target \in Origins
    BY <1>1, <1>2 DEF Targets, Writing
  <2>4. Saved' = Purpose(t)
    <3>1. Saved' = S!Plan(S!ReadState(state')) BY DEF Saved, S!Plan, S!RememberedMode, S!ReadState, S!NoDoc, S!Docs
    <3>2. QED BY <2>2, <2>3, <3>1, PlanIsDraft DEF Draft
  <2>5. Purpose(r) = Purpose(t) BY <1>4 DEF Purpose, Fields
  <2>6. QED BY <1>3, <1>4, <2>4, <2>5 DEF LoneText, Fields, Purpose
<1>8. QED BY <1>1, <1>2, <1>3, <1>4, <1>5, <1>6, <1>7, WriteTurn DEF LoneCall, LoneAs

LEMMA WriteFailsKeeps ==
  ASSUME S!ShellAssumption, ShellInv, NEW c \in Callers, S!WriteFails(c)
  PROVE  ShellInv'
<1>1. PICK t \in Jobs : t = job[c] /\ Targets(t) BY CallIs
<1>2. /\ t.at \in {"temp", "write", "rename"} /\ temp' = None
      /\ handle' = [d \in Callers |->
           IF d = c THEN None ELSE IF handle[d] = "temp" THEN "gone" ELSE handle[d]]
      /\ unwritten' = TRUE /\ S!GoWith(c, S!Written(c), [job[c] EXCEPT !.doc = None])
      /\ UNCHANGED <<flight, current, folder, adopting, earlier, lastRelease, generation>>
      /\ UNCHANGED <<remote, server, connectingTo, agreed, state, stale, alone>>
  BY <1>1 DEF S!WriteFails, S!At, S!folderVars, S!serverVars, S!tallyVars
<1>3. PICK at \in {"changed", "navigate"} :
        /\ at = "changed" => t.asks = "folder"
        /\ at = "navigate" => t.asks = "server"
        /\ Goes(c, at, t.asks, t.target, t.inst, t.was, t.answer, None)
  BY <1>1, <1>2, Leaving
<1>4. PICK r \in Jobs : /\ job' = [job EXCEPT ![c] = r]
                        /\ Fields(r, at, t.call, t.asks, t.target, t.inst, t.was, t.answer, None)
  BY <1>1, <1>3 DEF Goes
<1>5. handle' \in [Callers -> Handles]
  <2>1. \A d \in Callers : handle[d] \in Handles BY DEF ShellInv, JobsInv, Handles
  <2>2. QED BY <1>2, <2>1 DEF Handles
<1>6. FilesTyped' BY <1>2 DEF ShellInv, FilesTyped
<1>7. LoneText(c, r)' BY <1>2, <1>3, <1>4 DEF LoneText, Fields
<1>8. QED BY <1>1, <1>2, <1>3, <1>4, <1>5, <1>6, <1>7, WriteTurn

LEMMA ChangedKeeps ==
  ASSUME S!ShellAssumption, ShellInv, NEW c \in Callers, S!Changed(c)
  PROVE  ShellInv'
<1>1. PICK t \in Jobs : t = job[c] /\ Targets(t) BY CallIs
<1>2. /\ t.at = "changed" /\ t.asks = "folder" /\ t.target \in Dirs
      /\ stale' = (stale /\ remote # None)
      /\ S!GoWith(c, "answer", [job[c] EXCEPT !.answer = job[c].target, !.inst = None])
      /\ UNCHANGED <<flight, current, folder, adopting, earlier, lastRelease, generation>>
      /\ UNCHANGED <<remote, server, connectingTo, agreed, state, temp, handle, unwritten, alone>>
  BY <1>1 DEF S!Changed, S!At, S!folderVars, S!serverVars, S!fileVars, S!tallyVars, Targets
<1>3. PICK r \in Jobs : /\ job' = [job EXCEPT ![c] = r]
                        /\ Fields(r, "answer", t.call, t.asks, t.target, None, t.was, t.target, t.doc)
  <2>1. "answer" \in S!Stages /\ t.target \in S!Answers BY <1>2 DEF S!Stages, S!Answers
  <2>2. QED BY <1>1, <1>2, <2>1, GoingEnds DEF Goes
<1>4. Targets(r) BY <1>1, <1>2, <1>3 DEF Targets, Fields, Writing, S!Questions
<1>5. \A q \in S!Questions : Leads(r, q) <=> Leads(t, q)
  BY <1>2, <1>3 DEF Leads, Fields, Leading, S!Stages
<1>6. MayConnect(r, remote, agreed') BY <1>3 DEF MayConnect, Fields
<1>7. handle' \in [Callers -> Handles] /\ FilesTyped'
  BY <1>2 DEF ShellInv, JobsInv, Handles, FilesTyped
<1>8. LoneAs(c, t) => LoneAs(c, r)'
  <2>1. SUFFICES ASSUME LoneAs(c, t) PROVE LoneAs(c, r)' OBVIOUS
  <2>2. current # None /\ S!OpenDir = t.target /\ Newest /\ (stale => remote = None)
    BY <1>2, <2>1 DEF LoneAs, LoneFolder
  <2>3. unwritten \/ Saved = [dir |-> t.target, origin |-> None] BY <1>2, <2>1 DEF LoneAs, LoneText, Purpose
  <2>4. FolderKept BY <2>2, <2>3 DEF FolderKept
  <2>5. FolderKept' /\ Newest' /\ ~stale' BY <1>2, <2>2, <2>4, Same
  <2>6. None \notin Dirs BY DEF S!ShellAssumption
  <2>7. LoneRest(r)' BY <1>2, <1>3, <2>5, <2>6 DEF LoneRest, Before, Local, Fields
  <2>8. LoneFolder(r)' /\ LoneServer(r)' /\ LoneText(c, r)'
    BY <1>2, <1>3 DEF LoneFolder, LoneServer, LoneText, Writing, Fields
  <2>9. QED BY <2>7, <2>8 DEF LoneAs
<1>9. r # S!Idle /\ r.at \notin {"wait", "clear", "replace", "release"} BY <1>3 DEF Fields, S!Idle
<1>10. /\ generation' \in Nat /\ generation <= generation' /\ agreed \subseteq agreed' /\ agreed' \subseteq Origins
       /\ connectingTo' \in Origins \cup {None} /\ job[c].at # "idle"
  BY <1>1, <1>2 DEF ShellInv, ServersTyped, FoldersTyped
<1>11. QED BY <1>1, <1>2, <1>3, <1>4, <1>5, <1>6, <1>7, <1>8, <1>9, <1>10, PlainTurn DEF LoneCall

-----------------------------------------------------------------------------
(* Connecting to a server, and leaving one.                                  *)

LEMMA ServerLeft ==
  ASSUME ShellInv, S!ReleaseRemote, NEW c \in Callers, NEW r \in Jobs, job' = [job EXCEPT ![c] = r],
         UNCHANGED <<connectingTo, agreed>>, r.asks = "server" /\ r.at # "unpend" => r.target \in agreed
  PROVE  /\ ServersTyped' /\ ServerInv' /\ remote' = None /\ stale' \in BOOLEAN
<1>1. server \in [S!Servers -> Entries] BY DEF ShellInv, ServersTyped
<1>2. \A h \in S!Servers : ~server[h].closed => remote = h BY DEF ShellInv, ServerInv, S!NoServerLeftBehind
<1>3. /\ remote' = None /\ stale' = (stale \/ remote # None)
      /\ server' = [h \in S!Servers |-> IF h = remote THEN [server[h] EXCEPT !.closed = TRUE] ELSE server[h]]
  BY DEF S!ReleaseRemote
<1>4. \A h \in S!Servers : [server[h] EXCEPT !.closed = TRUE] \in Entries /\ [server[h] EXCEPT !.closed = TRUE].closed
  BY <1>1 DEF Entries
<1>5. server' \in [S!Servers -> Entries] BY <1>1, <1>3, <1>4
<1>6. \A h \in S!Servers : server'[h].closed
  <2>1. TAKE h \in S!Servers
  <2>2. server[h].closed \in BOOLEAN BY <1>1 DEF Entries
  <2>3. CASE h = remote BY <1>3, <1>4, <2>3
  <2>4. CASE h # remote
    <3>1. server'[h] = server[h] BY <1>3, <2>4
    <3>2. QED BY <1>2, <2>2, <2>4, <3>1
  <2>5. QED BY <2>3, <2>4
<1>7. ServersTyped' BY <1>3, <1>5 DEF ShellInv, ServersTyped
<1>8. S!NoServerLeftBehind' /\ S!ServerWasConfirmed'
  BY <1>3, <1>6 DEF S!NoServerLeftBehind, S!ServerWasConfirmed
<1>9. job'[c] = r /\ \A d \in Callers : d # c => job'[d] = job[d] BY DEF ShellInv, JobsInv
<1>10. \A d \in Callers : MayConnect(job'[d], remote', agreed')
  <2>1. TAKE d \in Callers
  <2>2. CASE d = c BY <1>3, <1>9, <2>2 DEF MayConnect
  <2>3. CASE d # c
    <3>1. job'[d] = job[d] BY <1>9, <2>3
    <3>2. QED BY <1>3, <3>1 DEF ShellInv, ServerInv, MayConnect
  <2>4. QED BY <2>2, <2>3
<1>11. ServerInv' BY <1>8, <1>10 DEF ServerInv, MayConnect
<1>12. QED BY <1>3, <1>7, <1>11 DEF ShellInv, FilesTyped

(* What stays when a server is left.                                         *)
LEMMA FolderStays ==
  ASSUME UNCHANGED <<current, folder, generation, state, unwritten>>
  PROVE  S!OpenDir' = S!OpenDir /\ (Newest' <=> Newest) /\ (FolderKept' <=> FolderKept)
BY SameText DEF S!OpenDir, Newest, FolderKept

LEMMA AdoptKeeps ==
  ASSUME S!ShellAssumption, ShellInv, NEW c \in Callers, S!Adopt(c)
  PROVE  ShellInv'
<1>1. PICK t \in Jobs : t = job[c] /\ Targets(t) BY CallIs
<1>2. /\ t.at = "adopt" /\ t.asks = "server"
      /\ UNCHANGED <<flight, S!folderVars, S!serverVars, S!fileVars, stale, S!tallyVars>>
  BY <1>1 DEF S!Adopt, S!At, Targets
<1>3. PICK was \in Origins \cup {None} : was = S!RemoteOrigin
  <2>1. S!RemoteOrigin \in Origins \cup {None} BY DEF ShellInv, ServersTyped, Entries, S!RemoteOrigin
  <2>2. QED BY <2>1
<1>4. PICK r \in Jobs : /\ job' = [job EXCEPT ![c] = r]
                        /\ Fields(r, "hangup", t.call, t.asks, t.target, t.inst, was, t.answer, t.doc)
  <2>1. S!GoWith(c, "hangup", [job[c] EXCEPT !.was = was]) BY <1>3 DEF S!Adopt
  <2>2. "hangup" \in S!Stages BY DEF S!Stages
  <2>3. QED BY <1>1, <2>1, <2>2, GoingNotes DEF Goes
<1>5. Targets(r) BY <1>1, <1>2, <1>4 DEF Targets, Fields, Writing, S!Questions
<1>6. \A q \in S!Questions : Leads(r, q) <=> Leads(t, q)
  BY <1>2, <1>4 DEF Leads, Fields, Leading, S!Stages
<1>7. MayConnect(r, remote, agreed)
  <2>1. t.target \in agreed BY <1>1, <1>2 DEF ShellInv, ServerInv
  <2>2. QED BY <1>4, <2>1 DEF MayConnect, Fields
<1>8. LoneAs(c, t) => LoneAs(c, r)
  BY <1>2, <1>3, <1>4 DEF LoneAs, LoneRest, LoneFolder, LoneServer, LoneText, Before, Local, Writing, Fields
<1>9. r # S!Idle /\ r.at \notin {"wait", "clear", "replace", "release"} BY <1>4 DEF Fields, S!Idle
<1>10. QED BY <1>1, <1>2, <1>4, <1>5, <1>6, <1>7, <1>8, <1>9, CallTurn DEF LoneCall

LEMMA HangUpKeeps ==
  ASSUME S!ShellAssumption, ShellInv, NEW c \in Callers, S!HangUp(c)
  PROVE  ShellInv'
<1>1. PICK t \in Jobs : t = job[c] /\ Targets(t) BY CallIs
<1>2. /\ t.at = "hangup" /\ t.asks = "server" /\ S!ReleaseRemote /\ S!Go(c, "bump")
      /\ UNCHANGED <<flight, current, folder, adopting, earlier, lastRelease, generation>>
      /\ UNCHANGED <<connectingTo, agreed, state, temp, handle, unwritten, alone>>
  BY <1>1 DEF S!HangUp, S!At, S!folderVars, S!fileVars, S!tallyVars, Targets
<1>3. PICK r \in Jobs : /\ job' = [job EXCEPT ![c] = r]
                        /\ Fields(r, "bump", t.call, t.asks, t.target, t.inst, t.was, t.answer, t.doc)
  <2>1. "bump" \in S!Stages BY DEF S!Stages
  <2>2. QED BY <1>1, <1>2, <2>1, Going DEF Goes
<1>4. Targets(r) BY <1>1, <1>2, <1>3 DEF Targets, Fields, Writing, S!Questions
<1>5. \A q \in S!Questions : Leads(r, q) <=> Leads(t, q)
  BY <1>2, <1>3 DEF Leads, Fields, Leading, S!Stages
<1>6. /\ ServersTyped' /\ ServerInv' /\ remote' = None /\ stale' \in BOOLEAN
  <2>1. t.target \in agreed BY <1>1, <1>2 DEF ShellInv, ServerInv
  <2>2. QED BY <1>2, <1>3, <2>1, ServerLeft DEF Fields
<1>7. handle' \in [Callers -> Handles] /\ FilesTyped'
  BY <1>2, <1>6 DEF ShellInv, JobsInv, Handles, FilesTyped
<1>8. LoneAs(c, t) => LoneAs(c, r)'
  BY <1>2, <1>3 DEF LoneAs, LoneRest, LoneFolder, LoneServer, LoneText, Before, Local, Writing, Fields
<1>9. r # S!Idle /\ r.at \notin {"wait", "clear", "replace", "release"} BY <1>3 DEF Fields, S!Idle
<1>10. generation' \in Nat /\ generation <= generation' /\ job[c].at # "idle"
  BY <1>1, <1>2 DEF ShellInv, FoldersTyped
<1>11. QED BY <1>1, <1>2, <1>3, <1>4, <1>5, <1>6, <1>7, <1>8, <1>9, <1>10, Turn DEF LoneCall

LEMMA BumpKeeps ==
  ASSUME S!ShellAssumption, ShellInv, NEW c \in Callers, S!Bump(c)
  PROVE  ShellInv'
<1>1. PICK t \in Jobs : t = job[c] /\ Targets(t) BY CallIs
<1>2. /\ t.at = "bump" /\ t.asks = "server" /\ generation' = generation + 1 /\ S!Go(c, "take")
      /\ UNCHANGED <<flight, current, folder, adopting, earlier, lastRelease>>
      /\ UNCHANGED <<remote, server, connectingTo, agreed, state, temp, handle, unwritten, stale, alone>>
  BY <1>1 DEF S!Bump, S!At, S!serverVars, S!fileVars, S!tallyVars, Targets
<1>3. PICK r \in Jobs : /\ job' = [job EXCEPT ![c] = r]
                        /\ Fields(r, "take", t.call, t.asks, t.target, t.inst, t.was, t.answer, t.doc)
  <2>1. "take" \in S!Stages BY DEF S!Stages
  <2>2. QED BY <1>1, <1>2, <2>1, Going DEF Goes
<1>4. Targets(r) BY <1>1, <1>2, <1>3 DEF Targets, Fields, Writing, S!Questions
<1>5. \A q \in S!Questions : Leads(r, q) <=> Leads(t, q)
  BY <1>2, <1>3 DEF Leads, Fields, Leading, S!Stages
<1>6. MayConnect(r, remote, agreed')
  <2>1. t.target \in agreed /\ remote = None BY <1>1, <1>2 DEF ShellInv, ServerInv
  <2>2. QED BY <1>2, <1>3, <2>1 DEF MayConnect, Fields
<1>7. handle' \in [Callers -> Handles] /\ FilesTyped'
  BY <1>2 DEF ShellInv, JobsInv, Handles, FilesTyped
<1>8. LoneAs(c, t) => LoneAs(c, r)'
  BY <1>2, <1>3 DEF LoneAs, LoneRest, LoneFolder, LoneServer, LoneText, Before, Local, Writing, Fields
<1>9. r # S!Idle /\ r.at \notin {"wait", "clear", "replace", "release"} BY <1>3 DEF Fields, S!Idle
<1>10. /\ generation' \in Nat /\ generation <= generation' /\ agreed \subseteq agreed' /\ agreed' \subseteq Origins
       /\ connectingTo' \in Origins \cup {None} /\ job[c].at # "idle"
  BY <1>1, <1>2 DEF ShellInv, ServersTyped, FoldersTyped
<1>11. QED BY <1>1, <1>2, <1>3, <1>4, <1>5, <1>6, <1>7, <1>8, <1>9, <1>10, PlainTurn DEF LoneCall

(* One caller at a time connects to a server.                                *)
LEMMA OneConnects ==
  ASSUME ShellInv, NEW c \in Callers, NEW d \in Callers,
         job[c].asks = "server", job[c].at \in Leading, job[d].asks = "server", job[d].at \in Leading
  PROVE  c = d
<1>1. "server" \in S!Questions BY DEF S!Questions
<1>2. Leads(job[c], "server") /\ Leads(job[d], "server") BY DEF Leads
<1>3. flight["server"].leader = c /\ flight["server"].leader = d BY <1>1, <1>2 DEF ShellInv, FlightInv
<1>4. QED BY <1>3

LEMMA SlotKeeps ==
  ASSUME S!ShellAssumption, ShellInv, NEW c \in Callers, S!Slot(c)
  PROVE  ShellInv'
<1>1. PICK t \in Jobs : t = job[c] /\ Targets(t) BY CallIs
<1>2. PICK h \in S!Servers : h = S!Least(S!FreeServers) /\ server[h] = S!NoServer
  <2>1. S!FreeServers # {} /\ S!FreeServers \in SUBSET Nat BY DEF S!Slot, S!FreeServers, S!Servers
  <2>2. S!Least(S!FreeServers) \in S!FreeServers BY <2>1, LeastIsIn
  <2>3. QED BY <2>2 DEF S!FreeServers
<1>3. /\ t.at = "slot" /\ t.asks = "server" /\ t.target \in Origins
      /\ server' = [server EXCEPT ![h] = [origin |-> t.target, closed |-> FALSE]]
      /\ remote' = h /\ stale' = TRUE /\ unwritten' = FALSE /\ S!Go(c, "read")
      /\ UNCHANGED <<flight, current, folder, adopting, earlier, lastRelease, generation>>
      /\ UNCHANGED <<connectingTo, agreed, state, temp, handle, alone>>
  BY <1>1, <1>2 DEF S!Slot, S!At, S!ConnectsTo, S!folderVars, S!tallyVars, Targets
<1>4. PICK r \in Jobs : /\ job' = [job EXCEPT ![c] = r]
                        /\ Fields(r, "read", t.call, t.asks, t.target, t.inst, t.was, t.answer, t.doc)
  <2>1. "read" \in S!Stages BY DEF S!Stages
  <2>2. QED BY <1>1, <1>3, <2>1, Going DEF Goes
<1>5. Targets(r) BY <1>1, <1>3, <1>4 DEF Targets, Fields, Writing, S!Questions
<1>6. \A q \in S!Questions : Leads(r, q) <=> Leads(t, q)
  BY <1>3, <1>4 DEF Leads, Fields, Leading, S!Stages
<1>7. t.target \in agreed /\ remote = None BY <1>1, <1>3 DEF ShellInv, ServerInv
<1>8. PICK new \in Entries : new = [origin |-> t.target, closed |-> FALSE]
  <2>1. [origin |-> t.target, closed |-> FALSE] \in Entries BY <1>3 DEF Entries
  <2>2. QED BY <2>1
<1>9. server \in [S!Servers -> Entries] BY DEF ShellInv, ServersTyped
<1>10. server' = [server EXCEPT ![h] = new] /\ new.origin = t.target BY <1>3, <1>8
<1>11. server'[h] = new /\ \A k \in S!Servers : k # h => server'[k] = server[k] BY <1>9, <1>10
<1>12. server' \in [S!Servers -> Entries] BY <1>9, <1>10
<1>13. ServersTyped' BY <1>3, <1>12 DEF ShellInv, ServersTyped
<1>14. ServerInv'
  <2>1. S!RemoteOrigin' = t.target
    <3>1. h # None BY <1>2 DEF S!Servers, S!ShellAssumption
    <3>2. QED BY <1>3, <1>10, <1>11, <3>1 DEF S!RemoteOrigin
  <2>2. S!ServerWasConfirmed' BY <1>3, <1>7, <2>1 DEF S!ServerWasConfirmed
  <2>3. ASSUME NEW k \in S!Servers, ~server'[k].closed PROVE remote' = k
    <3>1. CASE k = h BY <1>3, <3>1
    <3>2. CASE k # h
      <4>1. ~server[k].closed BY <1>11, <2>3, <3>2
      <4>2. remote = k BY <4>1 DEF ShellInv, ServerInv, S!NoServerLeftBehind
      <4>3. k # None BY DEF S!Servers, S!ShellAssumption
      <4>4. QED BY <1>7, <4>2, <4>3
    <3>3. QED BY <3>1, <3>2
  <2>4. job'[c] = r /\ \A d \in Callers : d # c => job'[d] = job[d] BY <1>4 DEF ShellInv, JobsInv
  <2>5. ASSUME NEW d \in Callers PROVE MayConnect(job'[d], remote', agreed')
    <3>1. CASE d = c BY <1>4, <2>4, <3>1 DEF MayConnect, Fields
    <3>2. CASE d # c
      <4>1. job'[d] = job[d] BY <2>4, <3>2
      <4>2. ~(job[d].asks = "server" /\ job[d].at \in Leading)
        <5>1. t.at \in Leading BY <1>3 DEF Leading, S!Stages
        <5>2. QED BY <1>1, <1>3, <3>2, <5>1, OneConnects
      <4>3. QED BY <4>1, <4>2 DEF MayConnect, Leading, S!Stages
    <3>3. QED BY <3>1, <3>2
  <2>6. S!NoServerLeftBehind' BY <2>3 DEF S!NoServerLeftBehind
  <2>7. QED BY <2>2, <2>5, <2>6 DEF ServerInv, MayConnect
<1>15. handle' \in [Callers -> Handles] /\ FilesTyped'
  BY <1>3 DEF ShellInv, JobsInv, Handles, FilesTyped
<1>16. LoneAs(c, t) => LoneAs(c, r)'
  <2>1. S!RemoteOrigin' = t.target /\ remote' # None
    <3>1. h # None BY <1>2 DEF S!Servers, S!ShellAssumption
    <3>2. QED BY <1>3, <1>10, <1>11, <3>1 DEF S!RemoteOrigin
  <2>2. LoneRest(r)' /\ LoneFolder(r)' /\ LoneText(c, r)'
    BY <1>3, <1>4 DEF LoneRest, LoneFolder, LoneText, Before, Local, Writing, Fields
  <2>3. LoneServer(t) => LoneServer(r)' BY <1>3, <1>4, <2>1 DEF LoneServer, Writing, Fields
  <2>4. QED BY <2>2, <2>3 DEF LoneAs
<1>17. r # S!Idle /\ r.at \notin {"wait", "clear", "replace", "release"} BY <1>4 DEF Fields, S!Idle
<1>18. generation' \in Nat /\ generation <= generation' /\ job[c].at # "idle"
  BY <1>1, <1>3 DEF ShellInv, FoldersTyped
<1>19. QED BY <1>1, <1>3, <1>4, <1>5, <1>6, <1>13, <1>14, <1>15, <1>16, <1>17, <1>18, Turn DEF LoneCall

LEMMA NavigateKeeps ==
  ASSUME S!ShellAssumption, ShellInv, NEW c \in Callers, S!Navigate(c)
  PROVE  ShellInv'
<1>1. PICK t \in Jobs : t = job[c] /\ Targets(t) BY CallIs
<1>2. /\ t.at = "navigate" /\ t.asks = "server" /\ stale' = (stale /\ t.was = t.target) /\ S!Go(c, "unpend")
      /\ UNCHANGED <<flight, current, folder, adopting, earlier, lastRelease, generation>>
      /\ UNCHANGED <<remote, server, connectingTo, agreed, state, temp, handle, unwritten, alone>>
  BY <1>1 DEF S!Navigate, S!At, S!folderVars, S!serverVars, S!fileVars, S!tallyVars, Targets
<1>3. PICK r \in Jobs : /\ job' = [job EXCEPT ![c] = r]
                        /\ Fields(r, "unpend", t.call, t.asks, t.target, t.inst, t.was, t.answer, t.doc)
  <2>1. "unpend" \in S!Stages BY DEF S!Stages
  <2>2. QED BY <1>1, <1>2, <2>1, Going DEF Goes
<1>4. Targets(r) BY <1>1, <1>2, <1>3 DEF Targets, Fields, Writing, S!Questions
<1>5. \A q \in S!Questions : Leads(r, q) <=> Leads(t, q)
  BY <1>2, <1>3 DEF Leads, Fields, Leading, S!Stages
<1>6. MayConnect(r, remote, agreed') BY <1>3 DEF MayConnect, Fields
<1>7. handle' \in [Callers -> Handles] /\ FilesTyped'
  BY <1>2 DEF ShellInv, JobsInv, Handles, FilesTyped
<1>8. LoneAs(c, t) => LoneAs(c, r)'
  <2>1. SUFFICES ASSUME LoneAs(c, t) PROVE LoneAs(c, r)' OBVIOUS
  <2>2. t.was # t.target /\ current = None /\ remote # None /\ S!RemoteOrigin = t.target
    BY <1>2, <2>1 DEF LoneAs, LoneServer
  <2>3. unwritten \/ Saved = [dir |-> None, origin |-> t.target]
    BY <1>2, <2>1 DEF LoneAs, LoneText, Purpose
  <2>4. Switched BY <2>2, <2>3 DEF Switched, Newest, FolderKept, ServerKept
  <2>5. Quiet' BY <1>2, <2>2, <2>4, Same DEF Quiet
  <2>6. LoneRest(r)' BY <1>3, <2>5 DEF LoneRest, Before, Local, Fields
  <2>7. LoneFolder(r)' /\ LoneServer(r)' /\ LoneText(c, r)'
    BY <1>2, <1>3 DEF LoneFolder, LoneServer, LoneText, Writing, Fields
  <2>8. QED BY <2>6, <2>7 DEF LoneAs
<1>9. r # S!Idle /\ r.at \notin {"wait", "clear", "replace", "release"} BY <1>3 DEF Fields, S!Idle
<1>10. /\ generation' \in Nat /\ generation <= generation' /\ agreed \subseteq agreed' /\ agreed' \subseteq Origins
       /\ connectingTo' \in Origins \cup {None} /\ job[c].at # "idle"
  BY <1>1, <1>2 DEF ShellInv, ServersTyped, FoldersTyped
<1>11. QED BY <1>1, <1>2, <1>3, <1>4, <1>5, <1>6, <1>7, <1>8, <1>9, <1>10, PlainTurn DEF LoneCall

LEMMA UnpendKeeps ==
  ASSUME S!ShellAssumption, ShellInv, NEW c \in Callers, S!Unpend(c)
  PROVE  ShellInv'
<1>1. PICK t \in Jobs : t = job[c] /\ Targets(t) BY CallIs
<1>2. /\ t.at = "unpend" /\ t.asks = "server" /\ connectingTo' = None /\ S!Go(c, "answer")
      /\ UNCHANGED <<flight, current, folder, adopting, earlier, lastRelease, generation>>
      /\ UNCHANGED <<remote, server, agreed, state, temp, handle, unwritten, stale, alone>>
  BY <1>1 DEF S!Unpend, S!At, S!folderVars, S!fileVars, S!tallyVars, Targets
<1>3. PICK r \in Jobs : /\ job' = [job EXCEPT ![c] = r]
                        /\ Fields(r, "answer", t.call, t.asks, t.target, t.inst, t.was, t.answer, t.doc)
  <2>1. "answer" \in S!Stages BY DEF S!Stages
  <2>2. QED BY <1>1, <1>2, <2>1, Going DEF Goes
<1>4. Targets(r) BY <1>1, <1>2, <1>3 DEF Targets, Fields, Writing, S!Questions
<1>5. \A q \in S!Questions : Leads(r, q) <=> Leads(t, q)
  BY <1>2, <1>3 DEF Leads, Fields, Leading, S!Stages
<1>6. MayConnect(r, remote, agreed') BY <1>3 DEF MayConnect, Fields
<1>7. LoneAs(c, t) => LoneAs(c, r)
  BY <1>2, <1>3 DEF LoneAs, LoneRest, LoneFolder, LoneServer, LoneText, Before, Local, Writing, Fields
<1>8. r # S!Idle /\ r.at \notin {"wait", "clear", "replace", "release"} BY <1>3 DEF Fields, S!Idle
<1>9. /\ agreed \subseteq agreed' /\ agreed' \subseteq Origins
      /\ connectingTo' \in Origins \cup {None} /\ job[c].at # "idle"
  BY <1>1, <1>2 DEF ShellInv, ServersTyped
<1>10. QED BY <1>1, <1>2, <1>3, <1>4, <1>5, <1>6, <1>7, <1>8, <1>9, StillTurn DEF LoneCall

-----------------------------------------------------------------------------
(* Leaving a server for a folder, or for the page that connects to one.      *)

LEMMA BecomeLocalKeeps ==
  ASSUME S!ShellAssumption, ShellInv, NEW c \in Callers, S!BecomeLocal(c)
  PROVE  ShellInv'
<1>1. PICK t \in Jobs : t = job[c] /\ Targets(t) BY CallIs
<1>2. /\ t.at = "local" /\ t.asks = "folder"
      /\ UNCHANGED <<flight, S!folderVars, connectingTo, agreed, S!fileVars, S!tallyVars>>
  BY <1>1 DEF S!BecomeLocal, S!At, Targets
<1>3. CASE remote = None /\ job' = [job EXCEPT ![c] = S!AfterLocal(job[c])] /\ UNCHANGED <<remote, server, stale>>
  <2>1. PICK r : r = S!AfterLocal(t) OBVIOUS
  <2>2. /\ r \in Jobs /\ Targets(r)
        /\ \/ t.call = "mode" /\ Fields(r, "answer", t.call, "mode", t.target, t.inst, t.was, "local", t.doc)
           \/ t.call # "mode" /\ r = S!Idle
    BY <1>1, <2>1, AfterLocalIs
  <2>3. job' = [job EXCEPT ![c] = r] BY <1>1, <1>3, <2>1
  <2>4. \A q \in S!Questions : Leads(r, q) <=> Leads(t, q)
    <3>1. CASE t.call = "mode"
      BY <1>2, <2>2, <3>1 DEF Leads, Fields, Leading, S!Stages, S!Idle, S!ShellAssumption
    <3>2. CASE t.call # "mode"
      <4>1. r.call = None /\ r.asks = None BY <2>2, <3>2 DEF S!Idle
      <4>2. None # "mode" /\ None \notin S!Questions BY DEF S!ShellAssumption, S!Questions
      <4>3. \A q \in S!Questions : ~Leads(r, q) BY <4>1, <4>2 DEF Leads
      <4>4. \A q \in S!Questions : ~Leads(t, q) BY <1>2, <3>2 DEF Leads, Leading
      <4>5. QED BY <4>3, <4>4
    <3>3. QED BY <3>1, <3>2
  <2>5. MayConnect(r, remote, agreed)
    BY <2>2, IdleIsAJob DEF MayConnect, Fields, S!ShellAssumption, S!Questions
  <2>6. LoneAs(c, t) => Quiet
    <3>1. SUFFICES ASSUME LoneAs(c, t) PROVE Quiet OBVIOUS
    <3>2. FolderKept /\ Newest /\ ~stale BY <1>2, <3>1 DEF LoneAs, LoneRest, Local
    <3>3. QED BY <1>3, <3>2 DEF Quiet, Switched, ServerKept
  <2>7. Quiet /\ r # S!Idle => LoneAs(c, r)
    BY <2>2 DEF LoneAs, LoneRest, LoneFolder, LoneServer, LoneText, Before, Local, Writing, Fields
  <2>8. r.at \notin {"wait", "clear", "replace", "release"}
    BY <2>2, IdleIsAJob DEF Fields
  <2>9. UNCHANGED <<flight, S!folderVars, S!serverVars, S!fileVars, stale, S!tallyVars>>
    BY <1>2, <1>3 DEF S!serverVars
  <2>10. QED BY <1>1, <1>2, <2>2, <2>3, <2>4, <2>5, <2>6, <2>7, <2>8, <2>9, CallTurn DEF LoneCall
<1>4. CASE remote # None /\ S!ReleaseRemote /\ S!Go(c, "home")
  <2>1. PICK r \in Jobs : /\ job' = [job EXCEPT ![c] = r]
                          /\ Fields(r, "home", t.call, t.asks, t.target, t.inst, t.was, t.answer, t.doc)
    <3>1. "home" \in S!Stages BY DEF S!Stages
    <3>2. QED BY <1>1, <1>4, <3>1, Going DEF Goes
  <2>2. Targets(r) BY <1>1, <1>2, <2>1 DEF Targets, Fields, Writing, S!Questions
  <2>3. \A q \in S!Questions : Leads(r, q) <=> Leads(t, q)
    BY <1>2, <2>1 DEF Leads, Fields, Leading, S!Stages
  <2>4. /\ UNCHANGED <<flight, current, folder, adopting, earlier, lastRelease, generation>>
        /\ UNCHANGED <<connectingTo, agreed, state, temp, handle, unwritten, alone>>
    BY <1>2 DEF S!folderVars, S!fileVars, S!tallyVars
  <2>5. ServersTyped' /\ ServerInv' /\ remote' = None /\ stale' \in BOOLEAN
    BY <1>2, <1>4, <2>1, <2>4, ServerLeft DEF Fields
  <2>6. handle' \in [Callers -> Handles] /\ FilesTyped'
    BY <2>4, <2>5 DEF ShellInv, JobsInv, Handles, FilesTyped
  <2>7. LoneAs(c, t) => LoneAs(c, r)'
    <3>1. SUFFICES ASSUME LoneAs(c, t) PROVE LoneAs(c, r)' OBVIOUS
    <3>2. FolderKept /\ Newest BY <1>2, <3>1 DEF LoneAs, LoneRest, Local
    <3>3. FolderKept' /\ Newest' BY <2>4, <3>2, FolderStays
    <3>4. Switched' BY <2>5, <3>3 DEF Switched, ServerKept
    <3>5. QED
      BY <1>2, <2>1, <2>5, <3>4 DEF LoneAs, LoneRest, LoneFolder, LoneServer, LoneText, Before, Local, Writing, Fields
  <2>8. r # S!Idle /\ r.at \notin {"wait", "clear", "replace", "release"} BY <2>1 DEF Fields, S!Idle
  <2>9. generation' \in Nat /\ generation <= generation' /\ job[c].at # "idle"
    BY <1>1, <1>2, <2>4 DEF ShellInv, FoldersTyped
  <2>10. QED BY <1>1, <2>1, <2>2, <2>3, <2>4, <2>5, <2>6, <2>7, <2>8, <2>9, Turn DEF LoneCall
<1>5. QED BY <1>3, <1>4 DEF S!BecomeLocal

LEMMA HomeKeeps ==
  ASSUME S!ShellAssumption, ShellInv, NEW c \in Callers, S!Home(c)
  PROVE  ShellInv'
<1>1. PICK t \in Jobs : t = job[c] /\ Targets(t) BY CallIs
<1>2. /\ t.at = "home" /\ t.asks = "folder" /\ stale' = FALSE /\ job' = [job EXCEPT ![c] = S!AfterLocal(job[c])]
      /\ UNCHANGED <<flight, current, folder, adopting, earlier, lastRelease, generation>>
      /\ UNCHANGED <<remote, server, connectingTo, agreed, state, temp, handle, unwritten, alone>>
  BY <1>1 DEF S!Home, S!At, S!folderVars, S!serverVars, S!fileVars, S!tallyVars, Targets
<1>3. PICK r : r = S!AfterLocal(t) OBVIOUS
<1>4. /\ r \in Jobs /\ Targets(r)
      /\ \/ t.call = "mode" /\ Fields(r, "answer", t.call, "mode", t.target, t.inst, t.was, "local", t.doc)
         \/ t.call # "mode" /\ r = S!Idle
  BY <1>1, <1>3, AfterLocalIs
<1>5. job' = [job EXCEPT ![c] = r] BY <1>1, <1>2, <1>3
<1>6. \A q \in S!Questions : Leads(r, q) <=> Leads(t, q)
  <2>1. CASE t.call = "mode"
    BY <1>2, <1>4, <2>1 DEF Leads, Fields, Leading, S!Stages, S!Idle, S!ShellAssumption
  <2>2. CASE t.call # "mode"
    <3>1. r.call = None /\ r.asks = None BY <1>4, <2>2 DEF S!Idle
    <3>2. None # "mode" /\ None \notin S!Questions BY DEF S!ShellAssumption, S!Questions
    <3>3. \A q \in S!Questions : ~Leads(r, q) BY <3>1, <3>2 DEF Leads
    <3>4. \A q \in S!Questions : ~Leads(t, q) BY <1>2, <2>2 DEF Leads, Leading
    <3>5. QED BY <3>3, <3>4
  <2>3. QED BY <2>1, <2>2
<1>7. MayConnect(r, remote, agreed')
  BY <1>4, IdleIsAJob DEF MayConnect, Fields, S!ShellAssumption, S!Questions
<1>8. LoneAs(c, t) => Quiet'
  <2>1. SUFFICES ASSUME LoneAs(c, t) PROVE Quiet' OBVIOUS
  <2>2. Switched BY <1>2, <2>1 DEF LoneAs, LoneRest
  <2>3. QED BY <1>2, <2>2, Same DEF Quiet
<1>9. Quiet' /\ r # S!Idle => LoneAs(c, r)'
  BY <1>4 DEF LoneAs, LoneRest, LoneFolder, LoneServer, LoneText, Before, Local, Writing, Fields
<1>10. r.at \notin {"wait", "clear", "replace", "release"} BY <1>4, IdleIsAJob DEF Fields
<1>11. handle' \in [Callers -> Handles] /\ FilesTyped'
  BY <1>2 DEF ShellInv, JobsInv, Handles, FilesTyped
<1>12. /\ generation' \in Nat /\ generation <= generation' /\ agreed \subseteq agreed' /\ agreed' \subseteq Origins
       /\ connectingTo' \in Origins \cup {None} /\ job[c].at # "idle"
  BY <1>1, <1>2 DEF ShellInv, ServersTyped, FoldersTyped
<1>13. QED BY <1>1, <1>2, <1>4, <1>5, <1>6, <1>7, <1>8, <1>9, <1>10, <1>11, <1>12, PlainTurn DEF LoneCall

LEMMA LeaveKeeps ==
  ASSUME S!ShellAssumption, ShellInv, NEW c \in Callers, S!Leave(c)
  PROVE  ShellInv'
<1>1. PICK t \in Jobs : t = job[c] /\ Targets(t) BY CallIs
<1>2. /\ t.at = "leave" /\ t.asks = "mode" /\ S!ReleaseRemote /\ S!Go(c, "address")
      /\ UNCHANGED <<flight, current, folder, adopting, earlier, lastRelease, generation>>
      /\ UNCHANGED <<connectingTo, agreed, state, temp, handle, unwritten, alone>>
  BY <1>1 DEF S!Leave, S!At, S!folderVars, S!fileVars, S!tallyVars, Targets
<1>3. PICK r \in Jobs : /\ job' = [job EXCEPT ![c] = r]
                        /\ Fields(r, "address", t.call, t.asks, t.target, t.inst, t.was, t.answer, t.doc)
  <2>1. "address" \in S!Stages BY DEF S!Stages
  <2>2. QED BY <1>1, <1>2, <2>1, Going DEF Goes
<1>4. Targets(r) BY <1>1, <1>2, <1>3 DEF Targets, Fields, Writing, S!Questions
<1>5. \A q \in S!Questions : Leads(r, q) <=> Leads(t, q)
  BY <1>2, <1>3 DEF Leads, Fields, Leading, S!Stages
<1>6. ServersTyped' /\ ServerInv' /\ remote' = None /\ stale' \in BOOLEAN
  BY <1>2, <1>3, ServerLeft DEF Fields
<1>7. handle' \in [Callers -> Handles] /\ FilesTyped'
  BY <1>2, <1>6 DEF ShellInv, JobsInv, Handles, FilesTyped
<1>8. LoneAs(c, t) => LoneAs(c, r)'
  <2>1. SUFFICES ASSUME LoneAs(c, t) PROVE LoneAs(c, r)' OBVIOUS
  <2>2. FolderKept /\ Newest BY <1>2, <2>1 DEF LoneAs, LoneRest, Before, Quiet, Switched
  <2>3. FolderKept' /\ Newest' BY <1>2, <2>2, FolderStays
  <2>4. Switched' BY <1>6, <2>3 DEF Switched, ServerKept
  <2>5. QED
    BY <1>2, <1>3, <1>6, <2>4 DEF LoneAs, LoneRest, LoneFolder, LoneServer, LoneText, Before, Local, Writing, Fields
<1>9. r # S!Idle /\ r.at \notin {"wait", "clear", "replace", "release"} BY <1>3 DEF Fields, S!Idle
<1>10. generation' \in Nat /\ generation <= generation' /\ job[c].at # "idle"
  BY <1>1, <1>2 DEF ShellInv, FoldersTyped
<1>11. QED BY <1>1, <1>2, <1>3, <1>4, <1>5, <1>6, <1>7, <1>8, <1>9, <1>10, Turn DEF LoneCall

LEMMA ToConnectPageKeeps ==
  ASSUME S!ShellAssumption, ShellInv, NEW c \in Callers, S!ToConnectPage(c)
  PROVE  ShellInv'
<1>1. PICK t \in Jobs : t = job[c] /\ Targets(t) BY CallIs
<1>2. /\ t.at = "address" /\ t.asks = "mode" /\ stale' = FALSE /\ S!Go(c, "answer")
      /\ UNCHANGED <<flight, current, folder, adopting, earlier, lastRelease, generation>>
      /\ UNCHANGED <<remote, server, connectingTo, agreed, state, temp, handle, unwritten, alone>>
  BY <1>1 DEF S!ToConnectPage, S!At, S!folderVars, S!serverVars, S!fileVars, S!tallyVars, Targets
<1>3. PICK r \in Jobs : /\ job' = [job EXCEPT ![c] = r]
                        /\ Fields(r, "answer", t.call, t.asks, t.target, t.inst, t.was, t.answer, t.doc)
  <2>1. "answer" \in S!Stages BY DEF S!Stages
  <2>2. QED BY <1>1, <1>2, <2>1, Going DEF Goes
<1>4. Targets(r) BY <1>1, <1>2, <1>3 DEF Targets, Fields, Writing, S!Questions
<1>5. \A q \in S!Questions : Leads(r, q) <=> Leads(t, q)
  BY <1>2, <1>3 DEF Leads, Fields, Leading, S!Stages
<1>6. MayConnect(r, remote, agreed') BY <1>3 DEF MayConnect, Fields
<1>7. handle' \in [Callers -> Handles] /\ FilesTyped'
  BY <1>2 DEF ShellInv, JobsInv, Handles, FilesTyped
<1>8. LoneAs(c, t) => LoneAs(c, r)'
  <2>1. SUFFICES ASSUME LoneAs(c, t) PROVE LoneAs(c, r)' OBVIOUS
  <2>2. Switched BY <1>2, <2>1 DEF LoneAs, LoneRest
  <2>3. Quiet' BY <1>2, <2>2, Same DEF Quiet
  <2>4. QED
    BY <1>2, <1>3, <2>3 DEF LoneAs, LoneRest, LoneFolder, LoneServer, LoneText, Before, Local, Writing, Fields
<1>9. r # S!Idle /\ r.at \notin {"wait", "clear", "replace", "release"} BY <1>3 DEF Fields, S!Idle
<1>10. /\ generation' \in Nat /\ generation <= generation' /\ agreed \subseteq agreed' /\ agreed' \subseteq Origins
       /\ connectingTo' \in Origins \cup {None} /\ job[c].at # "idle"
  BY <1>1, <1>2 DEF ShellInv, ServersTyped, FoldersTyped
<1>11. QED BY <1>1, <1>2, <1>3, <1>4, <1>5, <1>6, <1>7, <1>8, <1>9, <1>10, PlainTurn DEF LoneCall

-----------------------------------------------------------------------------
(* Opening a folder, and letting go of one.                                  *)

(* The caller goes on with a folder in its hands, the servers as they are.   *)
LEMMA FolderTurn ==
  ASSUME ShellInv, NEW c \in Callers, NEW r \in Jobs, Targets(r), job' = [job EXCEPT ![c] = r],
         job[c].at # "idle", r.at \notin {"idle", "wait", "clear"},
         \A q \in S!Questions : Leads(r, q) <=> Leads(job[c], q),
         UNCHANGED <<flight, S!serverVars, state, temp, handle, alone>>,
         MayConnect(r, remote, agreed), FoldersTyped', FolderInv',
         stale' \in BOOLEAN, unwritten' \in BOOLEAN,
         alone /\ LoneCall(c) => LoneAs(c, r)'
  PROVE  ShellInv'
<1>1. UNCHANGED <<remote, server, connectingTo, agreed>> BY DEF S!serverVars
<1>2. handle' \in [Callers -> Handles] BY DEF ShellInv, JobsInv, Handles
<1>3. JobsInv' BY <1>2, JobTurns DEF ShellInv
<1>4. FlightInv' BY FlightTurns DEF ShellInv
<1>5. MayConnect(r, remote, agreed') BY <1>1
<1>6. ServerInv' BY <1>1, <1>5, ServerTurns DEF ShellInv
<1>7. ServersTyped' BY <1>1 DEF ShellInv, ServersTyped
<1>8. FilesTyped' BY DEF ShellInv, FilesTyped
<1>9. r # S!Idle BY DEF S!Idle
<1>10. LoneInv' BY <1>9, LoneTurns DEF ShellInv
<1>11. QED BY <1>3, <1>4, <1>6, <1>7, <1>8, <1>10 DEF ShellInv

LEMMA OpenKeeps ==
  ASSUME S!ShellAssumption, ShellInv, NEW c \in Callers, S!Open(c)
  PROVE  ShellInv'
<1>1. PICK t \in Jobs : t = job[c] /\ Targets(t) BY CallIs
<1>2. /\ t.at = "open" /\ t.asks = "folder" /\ t.target \in Dirs
      /\ UNCHANGED <<flight, current, earlier, lastRelease, S!serverVars, S!fileVars, stale, S!tallyVars>>
  BY <1>1 DEF S!Open, S!At, Targets
<1>3. ASSUME NEW answer \in S!Answers, answer # None => answer = t.target,
             S!GoWith(c, "answer", [job[c] EXCEPT !.answer = answer]),
             UNCHANGED <<generation, folder, adopting>>
      PROVE  ShellInv'
  <2>1. PICK r \in Jobs : /\ job' = [job EXCEPT ![c] = r]
                          /\ Fields(r, "answer", t.call, t.asks, t.target, t.inst, t.was, answer, t.doc)
    <3>1. "answer" \in S!Stages BY DEF S!Stages
    <3>2. QED BY <1>1, <1>3, <3>1, GoingAnswers DEF Goes
  <2>2. Targets(r) BY <1>1, <1>2, <2>1 DEF Targets, Fields, Writing, S!Questions
  <2>3. \A q \in S!Questions : Leads(r, q) <=> Leads(t, q)
    BY <1>2, <2>1 DEF Leads, Fields, Leading, S!Stages
  <2>4. MayConnect(r, remote, agreed) BY <2>1 DEF MayConnect, Fields
  <2>5. LoneAs(c, t) => LoneAs(c, r)
    <3>1. SUFFICES ASSUME LoneAs(c, t) PROVE LoneAs(c, r) OBVIOUS
    <3>2. Quiet BY <1>2, <3>1 DEF LoneAs, LoneRest, Before
    <3>3. FolderKept /\ Newest /\ ~stale BY <3>2 DEF Quiet, Switched
    <3>4. QED
      BY <1>2, <2>1, <3>2, <3>3 DEF LoneAs, LoneRest, LoneFolder, LoneServer, LoneText, Before, Local, Writing, Fields
  <2>6. r # S!Idle /\ r.at \notin {"wait", "clear", "replace", "release"} BY <2>1 DEF Fields, S!Idle
  <2>7. UNCHANGED <<flight, S!folderVars, S!serverVars, S!fileVars, stale, S!tallyVars>>
    BY <1>2, <1>3 DEF S!folderVars
  <2>8. QED BY <1>1, <1>2, <2>1, <2>2, <2>3, <2>4, <2>5, <2>6, <2>7, CallTurn DEF LoneCall
<1>4. ASSUME S!FreeFolders # {}, generation' = generation + 1,
             folder' = [folder EXCEPT ![S!Least(S!FreeFolders)] =
                          [dir |-> job[c].target, gen |-> generation + 1, stage |-> "open"]],
             adopting' = adopting \cup {S!Least(S!FreeFolders)},
             S!GoWith(c, "replace", [job[c] EXCEPT !.inst = S!Least(S!FreeFolders)])
      PROVE  ShellInv'
  <2>1. PICK i \in S!Folders : i = S!Least(S!FreeFolders) /\ folder[i].stage = "unused"
    <3>1. S!FreeFolders # {} /\ S!FreeFolders \in SUBSET Nat BY <1>4 DEF S!FreeFolders, S!Folders
    <3>2. S!Least(S!FreeFolders) \in S!FreeFolders BY <3>1, LeastIsIn
    <3>3. QED BY <3>2 DEF S!FreeFolders
  <2>2. PICK r \in Jobs : /\ job' = [job EXCEPT ![c] = r]
                          /\ Fields(r, "replace", t.call, t.asks, t.target, i, t.was, t.answer, t.doc)
    <3>1. "replace" \in S!Stages /\ i \in S!Folders \cup {None} BY DEF S!Stages
    <3>2. QED BY <1>1, <1>4, <2>1, <3>1, GoingTakes DEF Goes
  <2>3. Targets(r) BY <1>1, <1>2, <2>2 DEF Targets, Fields, Writing, S!Questions
  <2>4. \A q \in S!Questions : Leads(r, q) <=> Leads(t, q)
    BY <1>2, <2>2 DEF Leads, Fields, Leading, S!Stages
  <2>5. MayConnect(r, remote, agreed) BY <2>2 DEF MayConnect, Fields
  <2>6. folder \in [S!Folders -> FolderRows] /\ generation \in Nat BY DEF ShellInv, FoldersTyped
  <2>7. PICK row \in FolderRows : row = [dir |-> t.target, gen |-> generation + 1, stage |-> "open"]
    <3>1. [dir |-> t.target, gen |-> generation + 1, stage |-> "open"] \in FolderRows
      BY <1>2, <2>6 DEF FolderRows
    <3>2. QED BY <3>1
  <2>8. row.dir = t.target /\ row.gen = generation + 1 /\ row.stage = "open" BY <2>7
  <2>9. folder' = [folder EXCEPT ![i] = row] BY <1>1, <1>4, <2>1, <2>7
  <2>10. /\ folder' \in [S!Folders -> FolderRows] /\ folder'[i] = row
         /\ \A k \in S!Folders : k # i => folder'[k] = folder[k]
    BY <2>6, <2>9
  <2>11. UNCHANGED <<current, earlier, lastRelease>> BY <1>2
  <2>12. FoldersTyped'
    <3>1. \A k \in S!Folders : folder[k].gen \in Nat /\ folder[k].gen <= generation
      BY <2>6 DEF ShellInv, FoldersTyped, FolderRows
    <3>2. generation' \in Nat BY <1>4, <2>6
    <3>3. \A k \in S!Folders : folder'[k].gen <= generation'
      <4>1. TAKE k \in S!Folders
      <4>2. CASE k = i BY <1>4, <2>6, <2>8, <2>10, <4>2
      <4>3. CASE k # i
        <5>1. folder'[k].gen \in Nat /\ folder'[k].gen <= generation BY <2>10, <3>1, <4>3
        <5>2. QED BY <1>4, <2>6, <5>1
      <4>4. QED BY <4>2, <4>3
    <3>4. adopting' \subseteq S!Folders BY <1>4, <2>1 DEF ShellInv, FoldersTyped
    <3>5. QED BY <2>10, <2>11, <3>2, <3>3, <3>4 DEF ShellInv, FoldersTyped
  <2>13. job'[c] = r /\ \A d \in Callers : d # c => job'[d] = job[d] BY <2>2 DEF ShellInv, JobsInv
  <2>14. i # None BY <2>1 DEF S!Folders, S!ShellAssumption
  <2>15. current' # i
    <3>1. current # None => folder[current].stage = "open" BY DEF ShellInv, FolderInv
    <3>2. QED BY <2>1, <2>11, <2>14, <3>1
  <2>16. FolderInv'
    <3>1. \A d \in Callers : d # c /\ Holds(d)' => Holds(d) /\ job'[d] = job[d] /\ job[d].inst # i
      <4>1. TAKE d \in Callers
      <4>2. HAVE d # c /\ Holds(d)'
      <4>3. job'[d] = job[d] /\ Holds(d) BY <2>13, <4>2 DEF Holds
      <4>4. folder[job[d].inst].stage = "open" BY <4>3 DEF ShellInv, FolderInv
      <4>5. QED BY <2>1, <4>3, <4>4
    <3>2. ASSUME NEW d \in Callers, Holds(d)'
          PROVE  /\ job'[d].inst # None /\ job'[d].inst # current'
                 /\ folder'[job'[d].inst].stage = "open"
      <4>1. CASE d = c BY <2>2, <2>8, <2>10, <2>13, <2>14, <2>15, <4>1 DEF Fields
      <4>2. CASE d # c
        <5>1. Holds(d) /\ job'[d] = job[d] /\ job[d].inst # i BY <3>1, <3>2, <4>2
        <5>2. /\ job[d].inst # None /\ job[d].inst # current /\ folder[job[d].inst].stage = "open"
          BY <5>1 DEF ShellInv, FolderInv
        <5>3. job[d].inst \in S!Folders BY <5>2 DEF ShellInv, JobsInv, Jobs
        <5>4. QED BY <2>10, <2>11, <5>1, <5>2, <5>3
      <4>3. QED BY <4>1, <4>2
    <3>3. ASSUME NEW d \in Callers, NEW e \in Callers, Holds(d)', Holds(e)', job'[d].inst = job'[e].inst
          PROVE  d = e
      <4>1. CASE d = c \/ e = c BY <2>2, <2>13, <3>1, <3>3, <4>1 DEF Fields
      <4>2. CASE d # c /\ e # c BY <3>1, <3>3, <4>2 DEF ShellInv, FolderInv
      <4>3. QED BY <4>1, <4>2
    <3>4. \A k \in S!Folders : Gone(k)' <=> Gone(k)
      BY <2>1, <2>8, <2>10 DEF Gone
    <3>5. ASSUME NEW k \in S!Folders, folder'[k].stage = "closed" PROVE S!Done(earlier[k])'
      <4>1. k # i /\ folder[k].stage = "closed" BY <2>8, <2>10, <3>5
      <4>2. S!Done(earlier[k]) BY <4>1 DEF ShellInv, FolderInv
      <4>3. earlier[k] \in S!Folders \cup {None} BY DEF ShellInv, FoldersTyped
      <4>4. earlier[k] # None => folder[earlier[k]].stage \in {"closed", "dropped"} BY <4>2 DEF S!Done
      <4>5. earlier[k] # None => folder'[earlier[k]].stage \in {"closed", "dropped"} BY <2>1, <2>10, <4>3, <4>4
      <4>6. QED BY <2>11, <4>5 DEF S!Done
    <3>6. \A k \in S!Folders : earlier'[k] # None => Gone(k)' BY <2>11, <3>4 DEF ShellInv, FolderInv
    <3>7. \A F \in SUBSET S!Folders :
            (lastRelease' # None => lastRelease' \in F) /\ (\A k \in F : earlier'[k] # None => earlier'[k] \in F)
            => \A k \in S!Folders : Gone(k)' => k \in F
      BY <2>11, <3>4 DEF ShellInv, FolderInv
    <3>8. current' # None => folder'[current'].stage = "open"
      <4>1. current \in S!Folders \cup {None} BY DEF ShellInv, FoldersTyped
      <4>2. QED BY <2>10, <2>11, <2>15, <4>1 DEF ShellInv, FolderInv
    <3>9. QED BY <3>2, <3>3, <3>5, <3>6, <3>7, <3>8 DEF FolderInv
  <2>17. LoneAs(c, t) => LoneAs(c, r)'
    <3>1. SUFFICES ASSUME LoneAs(c, t) PROVE LoneAs(c, r)' OBVIOUS
    <3>2. ~stale BY <1>2, <3>1 DEF LoneAs, LoneRest, Before, Quiet
    <3>3. LoneRest(r)' /\ LoneServer(r)' /\ LoneText(c, r)'
      BY <1>2, <2>2 DEF LoneRest, LoneServer, LoneText, Before, Local, Writing, Fields
    <3>4. folder'[i].dir = t.target /\ folder'[i].gen = generation' /\ ~stale'
      BY <1>2, <1>4, <2>8, <2>10, <3>2
    <3>5. LoneFolder(r)' BY <1>2, <2>2, <3>4 DEF LoneFolder, Writing, Fields
    <3>6. QED BY <3>3, <3>5 DEF LoneAs
  <2>18. r.at \notin {"idle", "wait", "clear"} /\ job[c].at # "idle" BY <1>1, <1>2, <2>2 DEF Fields
  <2>19. /\ UNCHANGED <<flight, S!serverVars, state, temp, handle, alone>>
         /\ stale' \in BOOLEAN /\ unwritten' \in BOOLEAN
    BY <1>2 DEF S!fileVars, S!tallyVars, ShellInv, FilesTyped
  <2>20. QED BY <1>1, <2>2, <2>3, <2>4, <2>5, <2>12, <2>16, <2>17, <2>18, <2>19, FolderTurn DEF LoneCall
<1>5. CASE S!OpenDir = t.target /\ S!GoWith(c, "answer", [job[c] EXCEPT !.answer = t.target])
           /\ UNCHANGED <<generation, folder, adopting>>
  <2>1. t.target \in S!Answers BY <1>2 DEF S!Answers
  <2>2. QED BY <1>3, <1>5, <2>1
<1>6. CASE S!GoWith(c, "answer", [job[c] EXCEPT !.answer = None])
           /\ UNCHANGED <<generation, folder, adopting>>
  <2>1. None \in S!Answers BY DEF S!Answers
  <2>2. QED BY <1>3, <1>6, <2>1
<1>7. QED BY <1>1, <1>4, <1>5, <1>6 DEF S!Open

LEMMA ReplaceKeeps ==
  ASSUME S!ShellAssumption, ShellInv, NEW c \in Callers, S!Replace(c)
  PROVE  ShellInv'
<1>1. PICK t \in Jobs : t = job[c] /\ Targets(t) BY CallIs
<1>2. /\ t.at = "replace" /\ t.asks = "folder" /\ current' = t.inst
      /\ S!GoWith(c, IF current = None THEN "read" ELSE "release", [job[c] EXCEPT !.inst = current])
      /\ stale' = (stale \/ remote = None) /\ unwritten' = FALSE
      /\ UNCHANGED <<flight, folder, adopting, earlier, lastRelease, generation>>
      /\ UNCHANGED <<S!serverVars, state, temp, handle, alone>>
  BY <1>1 DEF S!Replace, S!At, S!tallyVars, Targets
<1>3. /\ t.inst \in S!Folders /\ t.inst # None /\ t.inst # current /\ folder[t.inst].stage = "open"
      /\ \A d \in Callers : d # c /\ Holds(d) => job[d].inst # t.inst
      /\ t.target \in Dirs
  <2>1. Holds(c) BY <1>1, <1>2 DEF Holds
  <2>2. t.inst # None /\ t.inst # current /\ folder[t.inst].stage = "open"
    BY <1>1, <2>1 DEF ShellInv, FolderInv
  <2>3. \A d \in Callers : d # c /\ Holds(d) => job[d].inst # t.inst
    BY <1>1, <2>1 DEF ShellInv, FolderInv
  <2>4. t.inst \in S!Folders BY <2>2 DEF Jobs
  <2>5. QED BY <1>1, <1>2, <2>2, <2>3, <2>4 DEF Targets
<1>4. current \in S!Folders \cup {None} BY DEF ShellInv, FoldersTyped
<1>5. PICK at : at = (IF current = None THEN "read" ELSE "release") OBVIOUS
<1>6. PICK r \in Jobs : /\ job' = [job EXCEPT ![c] = r]
                        /\ Fields(r, at, t.call, t.asks, t.target, current, t.was, t.answer, t.doc)
  <2>1. at \in S!Stages BY <1>5 DEF S!Stages
  <2>2. QED BY <1>1, <1>2, <1>4, <1>5, <2>1, GoingTakes DEF Goes
<1>7. Targets(r) BY <1>1, <1>2, <1>3, <1>5, <1>6 DEF Targets, Fields, Writing, S!Questions
<1>8. \A q \in S!Questions : Leads(r, q) <=> Leads(t, q)
  BY <1>2, <1>5, <1>6 DEF Leads, Fields, Leading, S!Stages
<1>9. MayConnect(r, remote, agreed) BY <1>2, <1>6 DEF MayConnect, Fields
<1>10. FoldersTyped' BY <1>2, <1>3 DEF ShellInv, FoldersTyped
<1>11. job'[c] = r /\ \A d \in Callers : d # c => job'[d] = job[d] BY <1>6 DEF ShellInv, JobsInv
<1>12. FolderInv'
  <2>1. \A d \in Callers : d # c /\ Holds(d)' =>
           Holds(d) /\ job'[d] = job[d] /\ job[d].inst # t.inst /\ job[d].inst # current /\ job[d].inst # None
    <3>1. TAKE d \in Callers
    <3>2. HAVE d # c /\ Holds(d)'
    <3>3. job'[d] = job[d] /\ Holds(d) BY <1>11, <3>2 DEF Holds
    <3>4. QED BY <1>3, <3>2, <3>3 DEF ShellInv, FolderInv
  <2>2. Holds(c)' => current # None /\ job'[c].inst = current /\ folder[current].stage = "open"
    <3>1. HAVE Holds(c)'
    <3>2. job'[c].at = at /\ job'[c].inst = current BY <1>6, <1>11 DEF Fields
    <3>3. current # None BY <1>5, <3>1, <3>2 DEF Holds
    <3>4. QED BY <3>2, <3>3 DEF ShellInv, FolderInv
  <2>3. ASSUME NEW d \in Callers, Holds(d)'
        PROVE  /\ job'[d].inst # None /\ job'[d].inst # current'
               /\ folder'[job'[d].inst].stage = "open"
    <3>1. CASE d = c BY <1>2, <1>3, <2>2, <2>3, <3>1
    <3>2. CASE d # c BY <1>2, <2>1, <2>3, <3>2 DEF ShellInv, FolderInv
    <3>3. QED BY <3>1, <3>2
  <2>4. ASSUME NEW d \in Callers, NEW e \in Callers, Holds(d)', Holds(e)', job'[d].inst = job'[e].inst
        PROVE  d = e
    <3>1. CASE d = c \/ e = c BY <2>1, <2>2, <2>4, <3>1
    <3>2. CASE d # c /\ e # c BY <2>1, <2>4, <3>2 DEF ShellInv, FolderInv
    <3>3. QED BY <3>1, <3>2
  <2>5. \A k \in S!Folders : Gone(k)' <=> Gone(k) BY <1>2 DEF Gone
  <2>6. \A k \in S!Folders : folder'[k].stage = "closed" => S!Done(earlier[k])'
    BY <1>2 DEF ShellInv, FolderInv, S!Done
  <2>7. \A k \in S!Folders : earlier'[k] # None => Gone(k)' BY <1>2, <2>5 DEF ShellInv, FolderInv
  <2>8. \A F \in SUBSET S!Folders :
          (lastRelease' # None => lastRelease' \in F) /\ (\A k \in F : earlier'[k] # None => earlier'[k] \in F)
          => \A k \in S!Folders : Gone(k)' => k \in F
    BY <1>2, <2>5 DEF ShellInv, FolderInv
  <2>9. current' # None => folder'[current'].stage = "open" BY <1>2, <1>3
  <2>10. QED BY <2>3, <2>4, <2>6, <2>7, <2>8, <2>9 DEF FolderInv
<1>13. LoneAs(c, t) => LoneAs(c, r)'
  <2>1. SUFFICES ASSUME LoneAs(c, t) PROVE LoneAs(c, r)' OBVIOUS
  <2>2. folder[t.inst].dir = t.target /\ folder[t.inst].gen = generation /\ (stale => remote = None)
    BY <1>2, <2>1 DEF LoneAs, LoneFolder
  <2>3. S!OpenDir' = t.target BY <1>2, <1>3, <2>2 DEF S!OpenDir
  <2>4. Newest' BY <1>2, <2>2 DEF Newest
  <2>5. remote' = remote BY <1>2 DEF S!serverVars
  <2>6. current' # None /\ (stale' => remote' = None) BY <1>2, <1>3, <2>2, <2>5
  <2>7. LoneFolder(r)' BY <1>5, <1>6, <2>3, <2>4, <2>6 DEF LoneFolder, Writing, Fields
  <2>8. LoneRest(r)' /\ LoneServer(r)' /\ LoneText(c, r)'
    BY <1>2, <1>5, <1>6 DEF LoneRest, LoneServer, LoneText, Before, Local, Writing, Fields
  <2>9. QED BY <2>7, <2>8 DEF LoneAs
<1>14. r.at \notin {"idle", "wait", "clear"} /\ job[c].at # "idle" BY <1>1, <1>2, <1>5, <1>6 DEF Fields
<1>15. stale' \in BOOLEAN /\ unwritten' \in BOOLEAN BY <1>2
<1>16. QED BY <1>1, <1>2, <1>6, <1>7, <1>8, <1>9, <1>10, <1>12, <1>13, <1>14, <1>15, FolderTurn DEF LoneCall

LEMMA ReleaseKeeps ==
  ASSUME S!ShellAssumption, ShellInv, NEW c \in Callers, S!Release(c)
  PROVE  ShellInv'
<1>1. PICK t \in Jobs : t = job[c] /\ Targets(t) BY CallIs
<1>2. PICK i : i = t.inst OBVIOUS
<1>2a. PICK last \in {"released", "dropped"} : folder' = [folder EXCEPT ![i].stage = last]
  BY <1>1, <1>2 DEF S!Release
<1>3. /\ t.at = "release" /\ t.asks \in {"folder", "server"}
      /\ folder' = [folder EXCEPT ![i].stage = last]
      /\ earlier' = [earlier EXCEPT ![i] = lastRelease] /\ lastRelease' = i
      /\ S!Go(c, IF t.asks = "folder" THEN "read" ELSE "slot")
      /\ UNCHANGED <<flight, current, adopting, generation, stale, unwritten>>
      /\ UNCHANGED <<S!serverVars, state, temp, handle, alone>>
  BY <1>1, <1>2, <1>2a DEF S!Release, S!At, S!fileVars, S!tallyVars, Targets, Writing
<1>4. /\ i \in S!Folders /\ i # None /\ i # current /\ folder[i].stage = "open"
      /\ \A d \in Callers : d # c /\ Holds(d) => job[d].inst # i
  <2>1. Holds(c) BY <1>1, <1>3 DEF Holds
  <2>2. i # None /\ i # current /\ folder[i].stage = "open"
    BY <1>1, <1>2, <2>1 DEF ShellInv, FolderInv
  <2>3. \A d \in Callers : d # c /\ Holds(d) => job[d].inst # i
    BY <1>1, <1>2, <2>1 DEF ShellInv, FolderInv
  <2>4. i \in S!Folders BY <1>2, <2>2 DEF Jobs
  <2>5. QED BY <2>2, <2>3, <2>4
<1>5. PICK at : at = (IF t.asks = "folder" THEN "read" ELSE "slot") OBVIOUS
<1>6. PICK r \in Jobs : /\ job' = [job EXCEPT ![c] = r]
                        /\ Fields(r, at, t.call, t.asks, t.target, t.inst, t.was, t.answer, t.doc)
  <2>1. at \in S!Stages BY <1>5 DEF S!Stages
  <2>2. QED BY <1>1, <1>3, <1>5, <2>1, Going DEF Goes
<1>7. Targets(r) BY <1>1, <1>3, <1>5, <1>6 DEF Targets, Fields, Writing, S!Questions
<1>8. \A q \in S!Questions : Leads(r, q) <=> Leads(t, q)
  BY <1>3, <1>5, <1>6 DEF Leads, Fields, Leading, S!Stages
<1>9. MayConnect(r, remote, agreed)
  <2>1. t.asks = "server" => t.target \in agreed /\ remote = None BY <1>1, <1>3 DEF ShellInv, ServerInv
  <2>2. QED BY <1>5, <1>6, <2>1 DEF MayConnect, Fields
<1>10. /\ folder \in [S!Folders -> FolderRows] /\ earlier \in [S!Folders -> S!Folders \cup {None}]
       /\ lastRelease \in S!Folders \cup {None} /\ current \in S!Folders \cup {None}
  BY DEF ShellInv, FoldersTyped
<1>11. /\ folder' \in [S!Folders -> FolderRows] /\ folder'[i].stage = last
       /\ \A k \in S!Folders : /\ k # i => folder'[k] = folder[k]
                               /\ folder'[k].dir = folder[k].dir /\ folder'[k].gen = folder[k].gen
  BY <1>3, <1>4, <1>10 DEF FolderRows
<1>12. /\ earlier' \in [S!Folders -> S!Folders \cup {None}] /\ earlier'[i] = lastRelease
       /\ \A k \in S!Folders : k # i => earlier'[k] = earlier[k]
  BY <1>3, <1>4, <1>10
<1>13. FoldersTyped'
  <2>1. \A k \in S!Folders : folder'[k].gen <= generation' BY <1>3, <1>11 DEF ShellInv, FoldersTyped
  <2>2. QED BY <1>3, <1>4, <1>11, <1>12, <2>1 DEF ShellInv, FoldersTyped
<1>14. job'[c] = r /\ \A d \in Callers : d # c => job'[d] = job[d] BY <1>6 DEF ShellInv, JobsInv
<1>15. FolderInv'
  <2>1. \A d \in Callers : Holds(d)' => d # c /\ Holds(d) /\ job'[d] = job[d] /\ job[d].inst # i
    <3>1. TAKE d \in Callers
    <3>2. HAVE Holds(d)'
    <3>3. d # c BY <1>5, <1>6, <1>14, <3>2 DEF Holds, Fields
    <3>4. job'[d] = job[d] /\ Holds(d) BY <1>14, <3>2, <3>3 DEF Holds
    <3>5. QED BY <1>4, <3>3, <3>4
  <2>2. ASSUME NEW d \in Callers, Holds(d)'
        PROVE  /\ job'[d].inst # None /\ job'[d].inst # current'
               /\ folder'[job'[d].inst].stage = "open"
    <3>1. Holds(d) /\ job'[d] = job[d] /\ job[d].inst # i BY <2>1, <2>2
    <3>2. job[d].inst # None /\ job[d].inst # current /\ folder[job[d].inst].stage = "open"
      BY <3>1 DEF ShellInv, FolderInv
    <3>3. job[d].inst \in S!Folders BY <3>2 DEF ShellInv, JobsInv, Jobs
    <3>4. QED BY <1>3, <1>11, <3>1, <3>2, <3>3
  <2>3. \A d, e \in Callers : Holds(d)' /\ Holds(e)' /\ job'[d].inst = job'[e].inst => d = e
    BY <2>1 DEF ShellInv, FolderInv
  <2>4. \A k \in S!Folders : Gone(k)' <=> Gone(k) \/ k = i
    BY <1>4, <1>11 DEF Gone
  <2>5. ASSUME NEW k \in S!Folders, folder'[k].stage = "closed" PROVE S!Done(earlier[k])'
    <3>1. k # i /\ folder[k].stage = "closed" BY <1>11, <2>5
    <3>2. earlier'[k] = earlier[k] /\ earlier[k] \in S!Folders \cup {None} BY <1>10, <1>12, <3>1
    <3>3. earlier[k] # None => folder[earlier[k]].stage \in {"closed", "dropped"} BY <3>1 DEF ShellInv, FolderInv, S!Done
    <3>4. earlier[k] # None => folder'[earlier[k]].stage \in {"closed", "dropped"} BY <1>4, <1>11, <3>2, <3>3
    <3>5. QED BY <3>2, <3>4 DEF S!Done
  <2>6. \A k \in S!Folders : earlier[k] # None => Gone(k) BY DEF ShellInv, FolderInv
  <2>7. \A k \in S!Folders : earlier'[k] # None => Gone(k)' BY <1>12, <2>4, <2>6
  <2>8. ASSUME NEW F \in SUBSET S!Folders, lastRelease' # None => lastRelease' \in F,
               \A k \in F : earlier'[k] # None => earlier'[k] \in F
        PROVE  \A k \in S!Folders : Gone(k)' => k \in F
    <3>1. i \in F BY <1>3, <1>4, <2>8
    <3>2. lastRelease # None => lastRelease \in F BY <1>12, <2>8, <3>1
    <3>3. ~Gone(i) BY <1>4 DEF Gone
    <3>4. \A k \in F : earlier[k] # None => earlier[k] \in F
      <4>1. TAKE k \in F
      <4>2. HAVE earlier[k] # None
      <4>3. k # i BY <2>6, <3>3, <4>2
      <4>4. QED BY <1>12, <2>8, <4>2, <4>3
    <3>5. \A k \in S!Folders : Gone(k) => k \in F BY <3>2, <3>4 DEF ShellInv, FolderInv
    <3>6. QED BY <2>4, <3>1, <3>5
  <2>9. current' # None => folder'[current'].stage = "open"
    <3>1. current # None => folder[current].stage = "open" BY DEF ShellInv, FolderInv
    <3>2. QED BY <1>3, <1>4, <1>10, <1>11, <3>1
  <2>10. QED BY <2>2, <2>3, <2>5, <2>7, <2>8, <2>9 DEF FolderInv
<1>16. LoneAs(c, t) => LoneAs(c, r)'
  <2>1. SUFFICES ASSUME LoneAs(c, t) PROVE LoneAs(c, r)' OBVIOUS
  <2>2. remote' = remote BY <1>3 DEF S!serverVars
  <2>3. t.asks = "folder" => current # None /\ S!OpenDir = t.target /\ Newest /\ (stale => remote = None)
    BY <1>3, <2>1 DEF LoneAs, LoneFolder
  <2>4. S!OpenDir' = S!OpenDir BY <1>3, <1>10, <1>11 DEF S!OpenDir
  <2>5. Newest' <=> Newest BY <1>3, <1>10, <1>11 DEF Newest
  <2>6. LoneFolder(r)' BY <1>3, <1>5, <1>6, <2>2, <2>3, <2>4, <2>5 DEF LoneFolder, Writing, Fields
  <2>7. t.asks = "server" => t.was # t.target /\ current = None BY <1>3, <2>1 DEF LoneAs, LoneServer
  <2>8. LoneServer(r)' BY <1>3, <1>5, <1>6, <2>7 DEF LoneServer, Writing, Fields
  <2>9. LoneRest(r)' /\ LoneText(c, r)'
    BY <1>5, <1>6 DEF LoneRest, LoneText, Before, Local, Writing, Fields
  <2>10. QED BY <2>6, <2>8, <2>9 DEF LoneAs
<1>17. r.at \notin {"idle", "wait", "clear"} /\ job[c].at # "idle" BY <1>1, <1>3, <1>5, <1>6 DEF Fields
<1>18. stale' \in BOOLEAN /\ unwritten' \in BOOLEAN BY <1>3 DEF ShellInv, FilesTyped
<1>19. QED BY <1>1, <1>3, <1>6, <1>7, <1>8, <1>9, <1>13, <1>15, <1>16, <1>17, <1>18, FolderTurn DEF LoneCall

LEMMA TakeKeeps ==
  ASSUME S!ShellAssumption, ShellInv, NEW c \in Callers, S!Take(c)
  PROVE  ShellInv'
<1>1. PICK t \in Jobs : t = job[c] /\ Targets(t) BY CallIs
<1>2. /\ t.at = "take" /\ t.asks = "server" /\ current' = None
      /\ stale' = (stale \/ (current # None /\ remote = None))
      /\ S!GoWith(c, IF current = None THEN "slot" ELSE "release", [job[c] EXCEPT !.inst = current])
      /\ UNCHANGED <<flight, folder, adopting, earlier, lastRelease, generation, unwritten>>
      /\ UNCHANGED <<S!serverVars, state, temp, handle, alone>>
  BY <1>1 DEF S!Take, S!At, S!fileVars, S!tallyVars, Targets
<1>3. current \in S!Folders \cup {None} BY DEF ShellInv, FoldersTyped
<1>4. PICK at : at = (IF current = None THEN "slot" ELSE "release") OBVIOUS
<1>5. PICK r \in Jobs : /\ job' = [job EXCEPT ![c] = r]
                        /\ Fields(r, at, t.call, t.asks, t.target, current, t.was, t.answer, t.doc)
  <2>1. at \in S!Stages BY <1>4 DEF S!Stages
  <2>2. QED BY <1>1, <1>2, <1>3, <1>4, <2>1, GoingTakes DEF Goes
<1>6. Targets(r) BY <1>1, <1>2, <1>4, <1>5 DEF Targets, Fields, Writing, S!Questions
<1>7. \A q \in S!Questions : Leads(r, q) <=> Leads(t, q)
  BY <1>2, <1>4, <1>5 DEF Leads, Fields, Leading, S!Stages
<1>8. MayConnect(r, remote, agreed)
  <2>1. t.target \in agreed /\ remote = None BY <1>1, <1>2 DEF ShellInv, ServerInv
  <2>2. QED BY <1>5, <2>1 DEF MayConnect, Fields
<1>9. FoldersTyped' BY <1>2 DEF ShellInv, FoldersTyped
<1>10. job'[c] = r /\ \A d \in Callers : d # c => job'[d] = job[d] BY <1>5 DEF ShellInv, JobsInv
<1>11. FolderInv'
  <2>1. \A d \in Callers : d # c /\ Holds(d)' =>
           Holds(d) /\ job'[d] = job[d] /\ job[d].inst # current /\ job[d].inst # None
    <3>1. TAKE d \in Callers
    <3>2. HAVE d # c /\ Holds(d)'
    <3>3. job'[d] = job[d] /\ Holds(d) BY <1>10, <3>2 DEF Holds
    <3>4. QED BY <3>3 DEF ShellInv, FolderInv
  <2>2. Holds(c)' => current # None /\ job'[c].inst = current /\ folder[current].stage = "open"
    <3>1. HAVE Holds(c)'
    <3>2. job'[c].at = at /\ job'[c].inst = current BY <1>5, <1>10 DEF Fields
    <3>3. current # None BY <1>4, <3>1, <3>2 DEF Holds
    <3>4. QED BY <3>2, <3>3 DEF ShellInv, FolderInv
  <2>3. ASSUME NEW d \in Callers, Holds(d)'
        PROVE  /\ job'[d].inst # None /\ job'[d].inst # current'
               /\ folder'[job'[d].inst].stage = "open"
    <3>1. CASE d = c BY <1>2, <2>2, <2>3, <3>1
    <3>2. CASE d # c BY <1>2, <2>1, <2>3, <3>2 DEF ShellInv, FolderInv
    <3>3. QED BY <3>1, <3>2
  <2>4. ASSUME NEW d \in Callers, NEW e \in Callers, Holds(d)', Holds(e)', job'[d].inst = job'[e].inst
        PROVE  d = e
    <3>1. CASE d = c \/ e = c BY <2>1, <2>2, <2>4, <3>1
    <3>2. CASE d # c /\ e # c BY <2>1, <2>4, <3>2 DEF ShellInv, FolderInv
    <3>3. QED BY <3>1, <3>2
  <2>5. \A k \in S!Folders : Gone(k)' <=> Gone(k) BY <1>2 DEF Gone
  <2>6. \A k \in S!Folders : folder'[k].stage = "closed" => S!Done(earlier[k])'
    BY <1>2 DEF ShellInv, FolderInv, S!Done
  <2>7. \A k \in S!Folders : earlier'[k] # None => Gone(k)' BY <1>2, <2>5 DEF ShellInv, FolderInv
  <2>8. \A F \in SUBSET S!Folders :
          (lastRelease' # None => lastRelease' \in F) /\ (\A k \in F : earlier'[k] # None => earlier'[k] \in F)
          => \A k \in S!Folders : Gone(k)' => k \in F
    BY <1>2, <2>5 DEF ShellInv, FolderInv
  <2>9. current' = None BY <1>2
  <2>10. QED BY <2>3, <2>4, <2>6, <2>7, <2>8, <2>9 DEF FolderInv
<1>12. LoneAs(c, t) => LoneAs(c, r)'
  <2>1. SUFFICES ASSUME LoneAs(c, t) PROVE LoneAs(c, r)' OBVIOUS
  <2>2. t.was # t.target BY <1>2, <2>1 DEF LoneAs, LoneServer
  <2>3. LoneServer(r)' BY <1>2, <1>4, <1>5, <2>2 DEF LoneServer, Writing, Fields
  <2>4. LoneRest(r)' /\ LoneFolder(r)' /\ LoneText(c, r)'
    BY <1>2, <1>4, <1>5 DEF LoneRest, LoneFolder, LoneText, Before, Local, Writing, Fields
  <2>5. QED BY <2>3, <2>4 DEF LoneAs
<1>13. r.at \notin {"idle", "wait", "clear"} /\ job[c].at # "idle" BY <1>1, <1>2, <1>4, <1>5 DEF Fields
<1>14. stale' \in BOOLEAN /\ unwritten' \in BOOLEAN BY <1>2 DEF ShellInv, FilesTyped
<1>15. QED BY <1>1, <1>2, <1>5, <1>6, <1>7, <1>8, <1>9, <1>11, <1>12, <1>13, <1>14, FolderTurn DEF LoneCall

(* What no caller does.                                                      *)
LEMMA BackTurn ==
  ASSUME ShellInv, UNCHANGED <<flight, job, current, generation, S!serverVars, S!fileVars, alone>>,
         FoldersTyped', FolderInv', stale' \in BOOLEAN, Quiet => Quiet',
         \A c \in Callers : alone /\ LoneCall(c) => LoneCall(c)'
  PROVE  ShellInv'
<1>1. UNCHANGED <<remote, server, connectingTo, agreed, state, temp, handle, unwritten>>
  BY DEF S!serverVars, S!fileVars
<1>2. JobsInv' BY <1>1 DEF ShellInv, JobsInv
<1>3. FlightInv' BY DEF ShellInv, FlightInv, S!At
<1>4. ServersTyped' BY <1>1 DEF ShellInv, ServersTyped
<1>5. FilesTyped' BY <1>1 DEF ShellInv, FilesTyped
<1>6. ServerInv'
  BY <1>1 DEF ShellInv, ServerInv, S!NoServerLeftBehind, S!ServerWasConfirmed, S!RemoteOrigin
<1>7. \A c \in Callers : Busy(c)' <=> Busy(c) BY DEF Busy
<1>8. LoneInv' BY <1>7 DEF ShellInv, LoneInv
<1>9. QED BY <1>2, <1>3, <1>4, <1>5, <1>6, <1>8 DEF ShellInv

LEMMA CloseFolderKeeps ==
  ASSUME S!ShellAssumption, ShellInv, NEW i \in S!Folders, S!CloseFolder(i)
  PROVE  ShellInv'
<1>1. /\ folder[i].stage = "released" /\ folder' = [folder EXCEPT ![i].stage = "closed"]
      /\ S!Done(earlier[i])
      /\ UNCHANGED <<flight, job, current, adopting, earlier, lastRelease, generation>>
      /\ UNCHANGED <<S!serverVars, S!fileVars, stale, alone>>
  BY DEF S!CloseFolder, S!tallyVars
<1>2. /\ folder \in [S!Folders -> FolderRows] /\ earlier \in [S!Folders -> S!Folders \cup {None}]
      /\ current \in S!Folders \cup {None}
  BY DEF ShellInv, FoldersTyped
<1>3. /\ folder' \in [S!Folders -> FolderRows] /\ folder'[i].stage = "closed"
      /\ \A k \in S!Folders : /\ k # i => folder'[k] = folder[k]
                              /\ folder'[k].dir = folder[k].dir /\ folder'[k].gen = folder[k].gen
  BY <1>1, <1>2 DEF FolderRows
<1>4. \A k \in S!Folders : folder[k].stage \in {"closed", "dropped"} => folder'[k].stage \in {"closed", "dropped"}
  BY <1>1, <1>3
<1>5. \A k \in S!Folders : Gone(k)' <=> Gone(k) BY <1>1, <1>3 DEF Gone
<1>6. FoldersTyped'
  <2>1. \A k \in S!Folders : folder'[k].gen <= generation' BY <1>1, <1>3 DEF ShellInv, FoldersTyped
  <2>2. QED BY <1>1, <1>3, <2>1 DEF ShellInv, FoldersTyped
<1>7. \A d \in Callers : Holds(d) => job[d].inst \in S!Folders /\ job[d].inst # i
  <2>1. TAKE d \in Callers
  <2>2. HAVE Holds(d)
  <2>3. job[d].inst # None /\ folder[job[d].inst].stage = "open" BY <2>2 DEF ShellInv, FolderInv
  <2>4. job[d].inst \in S!Folders BY <2>3 DEF ShellInv, JobsInv, Jobs
  <2>5. QED BY <1>1, <2>3, <2>4
<1>8. \A d \in Callers : Holds(d)' <=> Holds(d) BY <1>1 DEF Holds
<1>9. current # None => current # i
  <2>1. current # None => folder[current].stage = "open" BY DEF ShellInv, FolderInv
  <2>2. QED BY <1>1, <2>1
<1>10. FolderInv'
  <2>1. ASSUME NEW d \in Callers, Holds(d)'
        PROVE  /\ job'[d].inst # None /\ job'[d].inst # current'
               /\ folder'[job'[d].inst].stage = "open"
    <3>1. job[d].inst # None /\ job[d].inst # current /\ folder[job[d].inst].stage = "open"
      BY <1>8, <2>1 DEF ShellInv, FolderInv
    <3>2. QED BY <1>1, <1>3, <1>7, <1>8, <2>1, <3>1
  <2>2. \A d, e \in Callers : Holds(d)' /\ Holds(e)' /\ job'[d].inst = job'[e].inst => d = e
    BY <1>1, <1>8 DEF ShellInv, FolderInv
  <2>3. ASSUME NEW k \in S!Folders, folder'[k].stage = "closed" PROVE S!Done(earlier[k])'
    <3>1. earlier'[k] = earlier[k] /\ earlier[k] \in S!Folders \cup {None} BY <1>1, <1>2
    <3>2. S!Done(earlier[k])
      <4>1. CASE k = i BY <1>1, <4>1
      <4>2. CASE k # i
        <5>1. folder[k].stage = "closed" BY <1>3, <2>3, <4>2
        <5>2. QED BY <5>1 DEF ShellInv, FolderInv
      <4>3. QED BY <4>1, <4>2
    <3>3. earlier[k] # None => folder[earlier[k]].stage \in {"closed", "dropped"} BY <3>2 DEF S!Done
    <3>4. earlier[k] # None => folder'[earlier[k]].stage \in {"closed", "dropped"} BY <1>4, <3>1, <3>3
    <3>5. QED BY <3>1, <3>4 DEF S!Done
  <2>4. \A k \in S!Folders : earlier'[k] # None => Gone(k)' BY <1>1, <1>5 DEF ShellInv, FolderInv
  <2>5. \A F \in SUBSET S!Folders :
          (lastRelease' # None => lastRelease' \in F) /\ (\A k \in F : earlier'[k] # None => earlier'[k] \in F)
          => \A k \in S!Folders : Gone(k)' => k \in F
    BY <1>1, <1>5 DEF ShellInv, FolderInv
  <2>6. current' # None => folder'[current'].stage = "open"
    <3>1. current # None => folder[current].stage = "open" BY DEF ShellInv, FolderInv
    <3>2. QED BY <1>1, <1>2, <1>3, <1>9, <3>1
  <2>7. QED BY <2>1, <2>2, <2>3, <2>4, <2>5, <2>6 DEF FolderInv
<1>11. UNCHANGED <<current, generation, remote, server, state, temp, handle, unwritten, stale>>
  BY <1>1 DEF S!serverVars, S!fileVars
<1>12. /\ S!OpenDir' = S!OpenDir /\ (Newest' <=> Newest) /\ S!RemoteOrigin' = S!RemoteOrigin
       /\ Saved' = Saved
  BY <1>2, <1>3, <1>11, SameText DEF S!OpenDir, Newest, S!RemoteOrigin
<1>13. /\ FolderKept' <=> FolderKept
       /\ ServerKept' <=> ServerKept
  BY <1>11, <1>12 DEF FolderKept, ServerKept
<1>14. /\ Switched' <=> Switched
       /\ Quiet' <=> Quiet
  BY <1>11, <1>12, <1>13 DEF Switched, Quiet
<1>15. ASSUME NEW c \in Callers, LoneCall(c) PROVE LoneCall(c)'
  <2>1. PICK t \in Jobs : t = job[c] BY CallIs
  <2>2. LoneRest(t) => LoneRest(t)' BY <1>11, <1>12, <1>13, <1>14 DEF LoneRest, Local, Before
  <2>3. LoneServer(t) => LoneServer(t)' BY <1>11, <1>12 DEF LoneServer, Writing
  <2>4. LoneText(c, t) => LoneText(c, t)' BY <1>11, <1>12, SameText DEF LoneText, Purpose
  <2>5. LoneFolder(t) => LoneFolder(t)'
    <3>1. t.at = "replace" => folder'[t.inst] = folder[t.inst]
      <4>1. HAVE t.at = "replace"
      <4>2. Holds(c) BY <2>1, <4>1 DEF Holds
      <4>3. QED BY <1>3, <1>7, <2>1, <4>2
    <3>2. QED BY <1>11, <1>12, <3>1 DEF LoneFolder, Writing
  <2>6. LoneAs(c, t)' BY <1>15, <2>1, <2>2, <2>3, <2>4, <2>5 DEF LoneCall, LoneAs
  <2>7. QED BY <1>1, <2>1, <2>6 DEF LoneCall
<1>16. stale' \in BOOLEAN BY <1>1 DEF ShellInv, FilesTyped
<1>17. QED BY <1>1, <1>6, <1>10, <1>14, <1>15, <1>16, BackTurn

LEMMA AdoptedKeeps ==
  ASSUME S!ShellAssumption, ShellInv, NEW i \in S!Folders, S!Adopted(i)
  PROVE  ShellInv'
<1>1. /\ adopting' = adopting \ {i}
      /\ UNCHANGED <<flight, job, current, folder, earlier, lastRelease, generation>>
      /\ UNCHANGED <<S!serverVars, S!fileVars, alone>>
  BY DEF S!Adopted, S!tallyVars
<1>2. stale \in BOOLEAN BY DEF ShellInv, FilesTyped
<1>3. stale' \in BOOLEAN /\ (stale' => stale \/ (remote = None /\ current = i /\ folder[i].gen # generation))
  BY <1>2 DEF S!Adopted
<1>4. UNCHANGED <<current, folder, generation, remote, server, state, temp, handle, unwritten>>
  BY <1>1 DEF S!serverVars, S!fileVars
<1>5. Newest => (stale' => stale)
  <2>1. i # None BY DEF S!Folders, S!ShellAssumption
  <2>2. QED BY <1>3, <2>1 DEF Newest
<1>6. stale' => stale \/ remote = None BY <1>3
<1>7. FoldersTyped' BY <1>1 DEF ShellInv, FoldersTyped
<1>8. FolderInv'
  <2>1. \A c \in Callers : Holds(c)' <=> Holds(c) BY <1>1 DEF Holds
  <2>2. \A k \in S!Folders : Gone(k)' <=> Gone(k) BY <1>1 DEF Gone
  <2>3. \A k \in S!Folders : S!Done(earlier[k])' <=> S!Done(earlier[k]) BY <1>1 DEF S!Done
  <2>4. \A c \in Callers : Holds(c)' => /\ job'[c].inst # None /\ job'[c].inst # current'
                                        /\ folder'[job'[c].inst].stage = "open"
    BY <1>1, <2>1 DEF ShellInv, FolderInv
  <2>5. \A c, d \in Callers : Holds(c)' /\ Holds(d)' /\ job'[c].inst = job'[d].inst => c = d
    BY <1>1, <2>1 DEF ShellInv, FolderInv
  <2>6. \A k \in S!Folders : folder'[k].stage = "closed" => S!Done(earlier[k])'
    BY <1>1, <2>3 DEF ShellInv, FolderInv
  <2>7. \A k \in S!Folders : earlier'[k] # None => Gone(k)' BY <1>1, <2>2 DEF ShellInv, FolderInv
  <2>8. \A F \in SUBSET S!Folders :
          (lastRelease' # None => lastRelease' \in F) /\ (\A k \in F : earlier'[k] # None => earlier'[k] \in F)
          => \A k \in S!Folders : Gone(k)' => k \in F
    BY <1>1, <2>2 DEF ShellInv, FolderInv
  <2>9. current' # None => folder'[current'].stage = "open" BY <1>1 DEF ShellInv, FolderInv
  <2>10. QED BY <2>4, <2>5, <2>6, <2>7, <2>8, <2>9 DEF FolderInv
<1>9. /\ S!OpenDir' = S!OpenDir /\ S!RemoteOrigin' = S!RemoteOrigin
      /\ Newest' <=> Newest
      /\ FolderKept' <=> FolderKept
      /\ Switched' <=> Switched
      /\ Saved' = Saved
  BY <1>4, Same, SameText
<1>10. Quiet => Quiet' BY <1>5, <1>9 DEF Quiet, Switched
<1>11. ASSUME NEW c \in Callers, LoneCall(c) PROVE LoneCall(c)'
  <2>1. PICK t \in Jobs : t = job[c] BY CallIs
  <2>2. LoneRest(t) => LoneRest(t)' BY <1>4, <1>5, <1>9, <1>10 DEF LoneRest, Local, Before
  <2>3. LoneServer(t) => LoneServer(t)' BY <1>4, <1>9 DEF LoneServer, Writing
  <2>4. LoneText(c, t) => LoneText(c, t)' BY <1>4, <1>9, SameText DEF LoneText, Purpose
  <2>5. LoneFolder(t) => LoneFolder(t)' BY <1>4, <1>6, <1>9 DEF LoneFolder, Writing
  <2>6. LoneAs(c, t)' BY <1>11, <2>1, <2>2, <2>3, <2>4, <2>5 DEF LoneCall, LoneAs
  <2>7. QED BY <1>1, <2>1, <2>6 DEF LoneCall
<1>12. QED BY <1>1, <1>3, <1>7, <1>8, <1>10, <1>11, BackTurn

-----------------------------------------------------------------------------
(* How the questions are shared.                                             *)

(* Calls go on, and the library stays as it is.                              *)
LEMMA CallsTurn ==
  ASSUME ShellInv, NEW c \in Callers, Busy(c), JobsInv', FlightInv',
         UNCHANGED <<S!folderVars, S!serverVars, S!fileVars, stale, S!tallyVars>>,
         \A d \in Callers : job'[d].at \notin {"replace", "release", "adopt", "hangup", "bump", "take", "slot"}
                              \/ job'[d] = job[d],
         \A d \in Callers : d # c /\ job[d] = S!Idle => job'[d] = S!Idle,
         alone /\ LoneCall(c) => IF job'[c] = S!Idle THEN Quiet ELSE LoneAs(c, job'[c])
  PROVE  ShellInv'
<1>1. /\ UNCHANGED <<current, folder, adopting, earlier, lastRelease, generation>>
      /\ UNCHANGED <<remote, server, connectingTo, agreed, state, temp, handle, unwritten, stale, alone>>
  BY DEF S!folderVars, S!serverVars, S!fileVars, S!tallyVars
<1>2. FoldersTyped' BY <1>1 DEF ShellInv, FoldersTyped
<1>3. ServersTyped' BY <1>1 DEF ShellInv, ServersTyped
<1>4. FilesTyped' BY <1>1 DEF ShellInv, FilesTyped
<1>5. FolderInv'
  <2>1. \A d \in Callers : Holds(d)' => Holds(d) /\ job'[d] = job[d] BY DEF Holds
  <2>2. \A k \in S!Folders : Gone(k)' <=> Gone(k) BY <1>1 DEF Gone
  <2>3. \A k \in S!Folders : S!Done(earlier[k])' <=> S!Done(earlier[k]) BY <1>1 DEF S!Done
  <2>4. \A d \in Callers : Holds(d)' => /\ job'[d].inst # None /\ job'[d].inst # current'
                                        /\ folder'[job'[d].inst].stage = "open"
    BY <1>1, <2>1 DEF ShellInv, FolderInv
  <2>5. \A d, e \in Callers : Holds(d)' /\ Holds(e)' /\ job'[d].inst = job'[e].inst => d = e
    BY <2>1 DEF ShellInv, FolderInv
  <2>6. \A k \in S!Folders : folder'[k].stage = "closed" => S!Done(earlier[k])'
    BY <1>1, <2>3 DEF ShellInv, FolderInv
  <2>7. \A k \in S!Folders : earlier'[k] # None => Gone(k)' BY <1>1, <2>2 DEF ShellInv, FolderInv
  <2>8. \A F \in SUBSET S!Folders :
          (lastRelease' # None => lastRelease' \in F) /\ (\A k \in F : earlier'[k] # None => earlier'[k] \in F)
          => \A k \in S!Folders : Gone(k)' => k \in F
    BY <1>1, <2>2 DEF ShellInv, FolderInv
  <2>9. current' # None => folder'[current'].stage = "open" BY <1>1 DEF ShellInv, FolderInv
  <2>10. QED BY <2>4, <2>5, <2>6, <2>7, <2>8, <2>9 DEF FolderInv
<1>6. ServerInv'
  <2>1. S!NoServerLeftBehind' /\ S!ServerWasConfirmed'
    BY <1>1 DEF ShellInv, ServerInv, S!NoServerLeftBehind, S!ServerWasConfirmed, S!RemoteOrigin
  <2>2. ASSUME NEW d \in Callers PROVE MayConnect(job'[d], remote', agreed')
    <3>1. CASE job'[d] = job[d] BY <1>1, <3>1 DEF ShellInv, ServerInv, MayConnect
    <3>2. CASE job'[d].at \notin {"replace", "release", "adopt", "hangup", "bump", "take", "slot"}
      BY <3>2 DEF MayConnect
    <3>3. QED BY <3>1, <3>2
  <2>3. QED BY <2>1, <2>2 DEF ServerInv, MayConnect
<1>7. LoneInv'
  <2>1. SUFFICES ASSUME alone'
                 PROVE  /\ \A d, e \in Callers : Busy(d)' /\ Busy(e)' => d = e
                        /\ \A d \in Callers : Busy(d)' => LoneCall(d)'
                        /\ (\A d \in Callers : ~Busy(d)') => Quiet'
    BY DEF LoneInv
  <2>2. alone BY <1>1, <2>1
  <2>3. LoneCall(c) /\ \A d \in Callers : Busy(d) => d = c BY <2>2 DEF ShellInv, LoneInv
  <2>4. \A d \in Callers : Busy(d)' => d = c BY <2>3 DEF Busy
  <2>5. PICK r : r = job'[c] OBVIOUS
  <2>6. (Quiet' <=> Quiet) /\ (LoneAs(c, r)' <=> LoneAs(c, r)) BY <1>1, LoneStays
  <2>7. Busy(c)' <=> r # S!Idle BY <2>5 DEF Busy
  <2>8. LoneCall(c)' <=> LoneAs(c, r)' BY <2>5 DEF LoneCall
  <2>9. IF r = S!Idle THEN Quiet ELSE LoneAs(c, r) BY <2>2, <2>3, <2>5
  <2>10. QED BY <2>4, <2>6, <2>7, <2>8, <2>9
<1>8. QED BY <1>2, <1>3, <1>4, <1>5, <1>6, <1>7 DEF ShellInv

LEMMA BeginKeeps ==
  ASSUME S!ShellAssumption, ShellInv, NEW c \in Callers, NEW call \in S!Questions,
         NEW target \in Origins \cup {None}, S!Begin(c, call, target),
         call = "server" => target \in Origins /\ target # S!RemoteOrigin,
         connectingTo' \in Origins \cup {None}
  PROVE  ShellInv'
<1>1. /\ job[c].at = "idle" /\ alone' = (alone /\ \A d \in Callers : job[d] = S!Idle)
      /\ job' = [job EXCEPT ![c] =
           [S!Idle EXCEPT !.at = "join", !.call = call, !.asks = call, !.target = target]]
      /\ UNCHANGED <<flight, current, folder, adopting, earlier, lastRelease, generation>>
      /\ UNCHANGED <<state, temp, handle, unwritten, stale, remote, server, agreed>>
  BY DEF S!Begin, S!At, S!folderVars, S!fileVars
<1>2. PICK r : r = [S!Idle EXCEPT !.at = "join", !.call = call, !.asks = call, !.target = target] OBVIOUS
<1>3. Fields(r, "join", call, call, target, None, None, None, None) BY <1>2 DEF Fields, S!Idle
<1>4. r \in Jobs BY <1>2 DEF Jobs, S!Idle, S!Stages, S!Answers
<1>5. job' = [job EXCEPT ![c] = r] BY <1>1, <1>2
<1>6. Targets(r)
  <2>1. None \notin S!Questions BY DEF S!ShellAssumption
  <2>2. QED BY <1>3, <2>1 DEF Targets, Fields, Writing
<1>7. handle' \in [Callers -> Handles] BY <1>1 DEF ShellInv, JobsInv, Handles
<1>8. JobsInv' /\ job'[c] = r /\ \A d \in Callers : d # c => job'[d] = job[d]
  BY <1>4, <1>5, <1>6, <1>7, JobTurns DEF ShellInv
<1>9. job[c] = S!Idle BY <1>1, CallIs DEF Targets
<1>10. \A q \in S!Questions : Leads(r, q) <=> Leads(job[c], q)
  <2>1. None \notin S!Questions /\ None # "mode" BY DEF S!ShellAssumption, S!Questions
  <2>2. \A q \in S!Questions : ~Leads(r, q) BY <1>3, <2>1 DEF Leads, Fields, Leading
  <2>3. \A q \in S!Questions : ~Leads(S!Idle, q) BY <2>1, IdleIsAJob DEF Leads, Fields
  <2>4. QED BY <1>9, <2>2, <2>3
<1>11. r.at \notin {"wait", "clear", "replace", "release"} BY <1>3 DEF Fields
<1>12. FlightInv' BY <1>1, <1>4, <1>5, <1>10, <1>11, FlightTurns DEF ShellInv
<1>13. FolderInv' BY <1>1, <1>4, <1>5, <1>11, FolderTurns DEF ShellInv
<1>14. FoldersTyped' BY <1>1 DEF ShellInv, FoldersTyped
<1>15. MayConnect(r, remote, agreed') BY <1>3 DEF MayConnect, Fields
<1>16. ServerInv' BY <1>1, <1>4, <1>5, <1>15, ServerTurns DEF ShellInv
<1>17. ServersTyped' BY <1>1 DEF ShellInv, ServersTyped
<1>18. FilesTyped'
  <2>1. alone' \in BOOLEAN BY <1>1
  <2>2. QED BY <1>1, <2>1 DEF ShellInv, FilesTyped
<1>19. LoneInv'
  <2>1. SUFFICES ASSUME alone'
                 PROVE  /\ \A d, e \in Callers : Busy(d)' /\ Busy(e)' => d = e
                        /\ \A d \in Callers : Busy(d)' => LoneCall(d)'
                        /\ (\A d \in Callers : ~Busy(d)') => Quiet'
    BY DEF LoneInv
  <2>2. alone /\ \A d \in Callers : job[d] = S!Idle BY <1>1, <2>1
  <2>3. Quiet BY <2>2 DEF ShellInv, LoneInv, Busy
  <2>4. \A d \in Callers : Busy(d)' => d = c BY <1>8, <2>2 DEF Busy
  <2>5. LoneAs(c, r)
    <3>1. LoneRest(r) BY <1>3, <2>3 DEF LoneRest, Before, Local, Fields
    <3>2. LoneServer(r) BY <1>3 DEF LoneServer, Writing, Fields
    <3>3. LoneFolder(r) /\ LoneText(c, r) BY <1>3 DEF LoneFolder, LoneText, Writing, Fields
    <3>4. QED BY <3>1, <3>2, <3>3 DEF LoneAs
  <2>6. LoneAs(c, r)' /\ Quiet' BY <1>1, <2>3, <2>5, LoneStays
  <2>7. LoneCall(c)' BY <1>8, <2>6 DEF LoneCall
  <2>8. QED BY <2>4, <2>6, <2>7
<1>20. QED BY <1>8, <1>12, <1>13, <1>14, <1>16, <1>17, <1>18, <1>19 DEF ShellInv

LEMMA CallsBegin ==
  ASSUME S!ShellAssumption, ShellInv, NEW c \in Callers, S!Choose(c) \/ S!Pick(c) \/ S!Connect(c)
  PROVE  ShellInv'
<1>1. connectingTo \in Origins \cup {None} BY DEF ShellInv, ServersTyped
<1>2. {"mode", "folder", "server"} \subseteq S!Questions BY DEF S!Questions
<1>3. CASE S!Choose(c) BY <1>1, <1>2, <1>3, BeginKeeps DEF S!Choose
<1>4. CASE S!Pick(c) BY <1>1, <1>2, <1>4, BeginKeeps DEF S!Pick
<1>5. CASE S!Connect(c) BY <1>1, <1>2, <1>5, BeginKeeps DEF S!Connect
<1>6. QED BY <1>3, <1>4, <1>5

(* A caller that got an answer leads the same questions as before, but for   *)
(* the one that was answered.                                                *)
LEMMA AnsweredLeads ==
  ASSUME S!ShellAssumption, NEW t \in Jobs, Targets(t), NEW answer \in S!Answers, NEW r, r = S!AfterAnswer(t, answer)
  PROVE  \A q \in S!Questions :
           Leads(r, q) <=> (q = "mode" /\ t.call = "mode" /\ t.asks = "folder")
<1>1. CASE t.asks = "folder" /\ answer # None /\ Fields(r, "local", t.call, t.asks, t.target, t.inst, t.was, answer, t.doc)
  BY <1>1 DEF Leads, Leading, Fields
<1>2. CASE /\ t.asks = "folder" /\ answer = None /\ t.call = "mode"
           /\ Fields(r, "answer", t.call, "mode", t.target, t.inst, t.was, "local", t.doc)
  BY <1>2 DEF Leads, Leading, Fields, S!Stages
<1>3. CASE (t.asks # "folder" \/ (answer = None /\ t.call # "mode")) /\ r = S!Idle
  <2>1. None \notin S!Questions /\ None # "mode" BY DEF S!ShellAssumption, S!Questions
  <2>2. \A q \in S!Questions : ~Leads(r, q) BY <1>3, <2>1, IdleIsAJob DEF Leads, Fields
  <2>3. QED BY <1>3, <2>2
<1>4. QED BY <1>1, <1>2, <1>3, AfterAnswerIs

(* Nobody else asks a question while a lone call does.                       *)
LEMMA LoneAsks ==
  ASSUME S!ShellAssumption, ShellInv, NEW c \in Callers, job[c].at = "join", alone
  PROVE  flight[job[c].asks] = None
<1>1. PICK t \in Jobs : t = job[c] /\ Targets(t) BY CallIs
<1>2. t.asks \in S!Questions BY <1>1 DEF Targets
<1>3. SUFFICES ASSUME flight[t.asks] # None PROVE FALSE BY <1>1
<1>4. flight[t.asks].leader \in Callers BY <1>2, <1>3 DEF ShellInv, FlightInv, S!Flights
<1>5. Leads(job[flight[t.asks].leader], t.asks) BY <1>2, <1>3 DEF ShellInv, FlightInv
<1>6. Busy(c) BY <1>1 DEF Busy, S!Idle
<1>7. job[flight[t.asks].leader] # S!Idle
  <2>1. None \notin S!Questions /\ None # "mode" BY DEF S!ShellAssumption, S!Questions
  <2>2. ~Leads(S!Idle, t.asks) BY <1>2, <2>1, IdleIsAJob DEF Leads, Fields
  <2>3. QED BY <1>5, <2>2
<1>8. flight[t.asks].leader = c BY <1>4, <1>6, <1>7 DEF ShellInv, LoneInv, Busy
<1>9. Leads(t, t.asks) BY <1>1, <1>5, <1>8
<1>10. QED BY <1>1, <1>9 DEF Leads, Leading

LEMMA JoinKeeps ==
  ASSUME S!ShellAssumption, ShellInv, NEW c \in Callers, S!Join(c)
  PROVE  ShellInv'
<1>1. PICK t \in Jobs : t = job[c] /\ Targets(t) BY CallIs
<1>2. t.at = "join" /\ t.asks \in S!Questions BY <1>1 DEF S!Join, S!At, Targets
<1>3. PICK q \in S!Questions : q = t.asks BY <1>2
<1>4. UNCHANGED <<S!folderVars, S!serverVars, S!fileVars, stale, S!tallyVars>> BY DEF S!Join
<1>5. flight \in [S!Questions -> S!Flights \cup {None}] BY DEF ShellInv, FlightInv
<1>6. Busy(c) BY <1>1, <1>2 DEF Busy, S!Idle
<1>7. handle' \in [Callers -> Handles] BY <1>4 DEF S!fileVars, ShellInv, JobsInv, Handles
<1>8. ASSUME flight[q] = None, S!Go(c, "ask"),
             flight' = [flight EXCEPT ![q] = [leader |-> c, ready |-> FALSE, answer |-> None]]
      PROVE  ShellInv'
  <2>1. PICK r \in Jobs : /\ job' = [job EXCEPT ![c] = r]
                          /\ Fields(r, "ask", t.call, t.asks, t.target, t.inst, t.was, t.answer, t.doc)
    <3>1. "ask" \in S!Stages BY DEF S!Stages
    <3>2. QED BY <1>1, <1>8, <3>1, Going DEF Goes
  <2>2. Targets(r) BY <1>1, <1>2, <2>1 DEF Targets, Fields, Writing, S!Questions
  <2>3. JobsInv' /\ job'[c] = r /\ \A d \in Callers : d # c => job'[d] = job[d]
    BY <1>7, <2>1, <2>2, JobTurns DEF ShellInv
  <2>4. PICK new \in S!Flights : new = [leader |-> c, ready |-> FALSE, answer |-> None]
    <3>1. [leader |-> c, ready |-> FALSE, answer |-> None] \in S!Flights BY DEF S!Flights, S!Answers
    <3>2. QED BY <3>1
  <2>5. new.leader = c /\ new.ready = FALSE /\ new # None BY <2>4 DEF S!ShellAssumption
  <2>6. /\ flight' \in [S!Questions -> S!Flights \cup {None}] /\ flight'[q] = new
        /\ \A p \in S!Questions : p # q => flight'[p] = flight[p]
    BY <1>5, <1>8, <2>4
  <2>7. \A p \in S!Questions : Leads(r, p) <=> p = q \/ Leads(t, p)
    BY <1>2, <1>3, <2>1 DEF Leads, Fields, Leading, S!Stages
  <2>8. FlightInv'
    <3>1. ASSUME NEW p \in S!Questions, flight'[p] # None PROVE Leads(job'[flight'[p].leader], p)
      <4>1. CASE p = q BY <2>3, <2>5, <2>6, <2>7, <4>1
      <4>2. CASE p # q
        <5>1. flight'[p] = flight[p] /\ flight[p] # None BY <2>6, <3>1, <4>2
        <5>2. flight[p].leader \in Callers BY <1>5, <5>1 DEF S!Flights
        <5>3. Leads(job[flight[p].leader], p) BY <5>1 DEF ShellInv, FlightInv
        <5>4. QED BY <1>1, <2>3, <2>7, <5>1, <5>2, <5>3
      <4>3. QED BY <4>1, <4>2
    <3>2. ASSUME NEW d \in Callers, NEW p \in S!Questions, Leads(job'[d], p)
          PROVE  flight'[p] # None /\ flight'[p].leader = d
      <4>1. CASE Leads(job[d], p)
        <5>1. flight[p] # None /\ flight[p].leader = d BY <4>1 DEF ShellInv, FlightInv
        <5>2. QED BY <1>8, <2>6, <5>1
      <4>2. CASE ~Leads(job[d], p)
        <5>1. d = c /\ p = q BY <1>1, <2>3, <2>7, <3>2, <4>2
        <5>2. QED BY <2>5, <2>6, <5>1
      <4>3. QED BY <4>1, <4>2
    <3>3. ASSUME NEW d \in Callers
          PROVE  /\ job'[d].at = "wait" => flight'[job'[d].asks] # None /\ ~flight'[job'[d].asks].ready
                 /\ job'[d].at = "clear" => flight'[job'[d].asks].ready
      <4>1. CASE d = c BY <2>1, <2>3, <4>1 DEF Fields
      <4>2. CASE d # c
        <5>1. job'[d] = job[d] /\ (job[d].at # "idle" => job[d].asks \in S!Questions)
          BY <2>3, <4>2, CallIs DEF Targets
        <5>2. job[d].at = "wait" => flight[job[d].asks] # None /\ ~flight[job[d].asks].ready
          BY DEF ShellInv, FlightInv, S!At
        <5>3. job[d].at = "clear" => flight[job[d].asks] # None /\ flight[job[d].asks].ready
          <6>1. HAVE job[d].at = "clear"
          <6>2. Leads(job[d], job[d].asks) BY <6>1 DEF Leads, Leading, S!Stages
          <6>3. QED BY <5>1, <6>1, <6>2 DEF ShellInv, FlightInv, S!At
        <5>4. QED BY <1>8, <2>6, <5>1, <5>2, <5>3
      <4>3. QED BY <4>1, <4>2
    <3>4. QED BY <2>6, <3>1, <3>2, <3>3 DEF FlightInv, S!At
  <2>9. LoneAs(c, t) => LoneAs(c, r)
    BY <1>2, <2>1 DEF LoneAs, LoneRest, LoneFolder, LoneServer, LoneText, Before, Local, Writing, Fields
  <2>10. /\ \A d \in Callers : job'[d].at \notin {"replace", "release", "adopt", "hangup", "bump", "take", "slot"}
                                 \/ job'[d] = job[d]
         /\ \A d \in Callers : d # c /\ job[d] = S!Idle => job'[d] = S!Idle
         /\ job'[c] # S!Idle
    BY <2>1, <2>3 DEF Fields, S!Idle
  <2>11. QED BY <1>1, <1>4, <1>6, <2>3, <2>8, <2>9, <2>10, CallsTurn DEF LoneCall
<1>9. ASSUME flight[q] # None, ~flight[q].ready, S!Go(c, "wait"), UNCHANGED flight PROVE ShellInv'
  <2>1. PICK r \in Jobs : /\ job' = [job EXCEPT ![c] = r]
                          /\ Fields(r, "wait", t.call, t.asks, t.target, t.inst, t.was, t.answer, t.doc)
    <3>1. "wait" \in S!Stages BY DEF S!Stages
    <3>2. QED BY <1>1, <1>9, <3>1, Going DEF Goes
  <2>2. Targets(r) BY <1>1, <1>2, <2>1 DEF Targets, Fields, Writing, S!Questions
  <2>3. JobsInv' /\ job'[c] = r /\ \A d \in Callers : d # c => job'[d] = job[d]
    BY <1>7, <2>1, <2>2, JobTurns DEF ShellInv
  <2>4. \A p \in S!Questions : Leads(r, p) <=> Leads(t, p)
    BY <1>2, <2>1 DEF Leads, Fields, Leading, S!Stages
  <2>5. \A d \in Callers, p \in S!Questions : Leads(job'[d], p) <=> Leads(job[d], p) BY <1>1, <2>3, <2>4
  <2>6. FlightInv'
    <3>1. ASSUME NEW p \in S!Questions, flight'[p] # None PROVE Leads(job'[flight'[p].leader], p)
      <4>1. flight[p].leader \in Callers BY <1>5, <1>9, <3>1 DEF S!Flights
      <4>2. Leads(job[flight[p].leader], p) BY <1>9, <3>1 DEF ShellInv, FlightInv
      <4>3. QED BY <1>9, <2>5, <4>1, <4>2
    <3>2. \A d \in Callers, p \in S!Questions : Leads(job'[d], p) => flight'[p] # None /\ flight'[p].leader = d
      BY <1>9, <2>5 DEF ShellInv, FlightInv
    <3>3. ASSUME NEW d \in Callers
          PROVE  /\ job'[d].at = "wait" => flight'[job'[d].asks] # None /\ ~flight'[job'[d].asks].ready
                 /\ job'[d].at = "clear" => flight'[job'[d].asks].ready
      <4>1. CASE d = c BY <1>3, <1>9, <2>1, <2>3, <4>1 DEF Fields
      <4>2. CASE d # c BY <1>9, <2>3, <4>2 DEF ShellInv, FlightInv, S!At
      <4>3. QED BY <4>1, <4>2
    <3>4. QED BY <1>5, <1>9, <3>1, <3>2, <3>3 DEF FlightInv, S!At
  <2>7. ~alone BY <1>1, <1>2, <1>3, <1>9, LoneAsks
  <2>8. /\ \A d \in Callers : job'[d].at \notin {"replace", "release", "adopt", "hangup", "bump", "take", "slot"}
                                \/ job'[d] = job[d]
        /\ \A d \in Callers : d # c /\ job[d] = S!Idle => job'[d] = S!Idle
    BY <2>1, <2>3 DEF Fields
  <2>9. QED BY <1>4, <1>6, <2>3, <2>6, <2>7, <2>8, CallsTurn
<1>10. ASSUME flight[q] # None, flight[q].ready, UNCHANGED flight,
              job' = [job EXCEPT ![c] = S!AfterAnswer(job[c], flight[q].answer)]
       PROVE  ShellInv'
  <2>1. PICK answer \in S!Answers : answer = flight[q].answer
    <3>1. flight[q].answer \in S!Answers BY <1>5, <1>10 DEF S!Flights
    <3>2. QED BY <3>1
  <2>2. PICK r : r = S!AfterAnswer(t, answer) OBVIOUS
  <2>3. r \in Jobs /\ Targets(r) /\ r.at \in {"local", "answer", "idle"}
    BY <1>1, <2>2, AfterAnswerIs, IdleIsAJob DEF Fields
  <2>4. job' = [job EXCEPT ![c] = r] BY <1>1, <1>10, <2>1, <2>2
  <2>5. JobsInv' /\ job'[c] = r /\ \A d \in Callers : d # c => job'[d] = job[d]
    BY <1>7, <2>3, <2>4, JobTurns DEF ShellInv
  <2>6. \A p \in S!Questions : Leads(r, p) <=> Leads(job[c], p)
    <3>1. \A p \in S!Questions : Leads(t, p) <=> (p = "mode" /\ t.call = "mode" /\ t.asks = "folder")
      BY <1>2 DEF Leads, Leading
    <3>2. \A p \in S!Questions : Leads(r, p) <=> (p = "mode" /\ t.call = "mode" /\ t.asks = "folder")
      BY <1>1, <2>2, AnsweredLeads
    <3>3. QED BY <1>1, <3>1, <3>2
  <2>7. r.at \notin {"wait", "clear"} BY <2>3
  <2>8. FlightInv' BY <1>10, <2>3, <2>4, <2>6, <2>7, FlightTurns DEF ShellInv
  <2>9. ~alone BY <1>1, <1>2, <1>3, <1>10, LoneAsks
  <2>10. /\ \A d \in Callers : job'[d].at \notin {"replace", "release", "adopt", "hangup", "bump", "take", "slot"}
                                 \/ job'[d] = job[d]
         /\ \A d \in Callers : d # c /\ job[d] = S!Idle => job'[d] = S!Idle
    BY <2>3, <2>5
  <2>11. QED BY <1>4, <1>6, <2>5, <2>8, <2>9, <2>10, CallsTurn
<1>11. QED BY <1>1, <1>3, <1>8, <1>9, <1>10 DEF S!Join

LEMMA ClearKeeps ==
  ASSUME S!ShellAssumption, ShellInv, NEW c \in Callers, S!Clear(c)
  PROVE  ShellInv'
<1>1. PICK t \in Jobs : t = job[c] /\ Targets(t) BY CallIs
<1>2. /\ t.at = "clear" /\ t.asks \in S!Questions /\ flight' = [flight EXCEPT ![t.asks] = None]
      /\ job' = [job EXCEPT ![c] = S!AfterAnswer(t, t.answer)]
      /\ UNCHANGED <<S!folderVars, S!serverVars, S!fileVars, stale, S!tallyVars>>
  BY <1>1 DEF S!Clear, S!At, Targets
<1>3. PICK q \in S!Questions : q = t.asks BY <1>2
<1>4. flight \in [S!Questions -> S!Flights \cup {None}] BY DEF ShellInv, FlightInv
<1>5. Busy(c) BY <1>1, <1>2 DEF Busy, S!Idle
<1>6. handle' \in [Callers -> Handles] BY <1>2 DEF S!fileVars, ShellInv, JobsInv, Handles
<1>7. PICK answer \in S!Answers : answer = t.answer BY DEF Jobs
<1>8. PICK r : r = S!AfterAnswer(t, answer) OBVIOUS
<1>9. /\ r \in Jobs /\ Targets(r)
      /\ \/ /\ t.asks = "folder" /\ answer # None
            /\ Fields(r, "local", t.call, t.asks, t.target, t.inst, t.was, answer, t.doc)
         \/ /\ t.asks = "folder" /\ answer = None /\ t.call = "mode"
            /\ Fields(r, "answer", t.call, "mode", t.target, t.inst, t.was, "local", t.doc)
         \/ (t.asks # "folder" \/ (answer = None /\ t.call # "mode")) /\ r = S!Idle
  BY <1>1, <1>8, AfterAnswerIs
<1>10. r.at \in {"local", "answer", "idle"} BY <1>9, IdleIsAJob DEF Fields
<1>11. job' = [job EXCEPT ![c] = r] BY <1>2, <1>7, <1>8
<1>12. JobsInv' /\ job'[c] = r /\ \A d \in Callers : d # c => job'[d] = job[d]
  BY <1>6, <1>9, <1>11, JobTurns DEF ShellInv
<1>13. /\ flight' \in [S!Questions -> S!Flights \cup {None}] /\ flight'[q] = None
       /\ \A p \in S!Questions : p # q => flight'[p] = flight[p]
  BY <1>2, <1>3, <1>4
<1>14. \A p \in S!Questions : Leads(r, p) <=> Leads(t, p) /\ p # q
  <2>1. \A p \in S!Questions : Leads(r, p) <=> (p = "mode" /\ t.call = "mode" /\ t.asks = "folder")
    BY <1>1, <1>8, AnsweredLeads
  <2>2. \A p \in S!Questions : Leads(t, p) <=> p = q \/ (p = "mode" /\ t.call = "mode" /\ t.asks = "folder")
    BY <1>2, <1>3 DEF Leads, Leading, S!Stages
  <2>3. QED BY <1>3, <2>1, <2>2
<1>15. flight[q].leader = c /\ flight[q].ready
  <2>1. Leads(job[c], q) BY <1>1, <1>2, <1>3 DEF Leads, Leading, S!Stages
  <2>2. QED BY <1>1, <1>2, <1>3, <2>1 DEF ShellInv, FlightInv, S!At
<1>16. FlightInv'
  <2>1. ASSUME NEW p \in S!Questions, flight'[p] # None PROVE Leads(job'[flight'[p].leader], p)
    <3>1. p # q /\ flight'[p] = flight[p] /\ flight[p] # None BY <1>13, <2>1
    <3>2. flight[p].leader \in Callers BY <1>4, <3>1 DEF S!Flights
    <3>3. Leads(job[flight[p].leader], p) BY <3>1 DEF ShellInv, FlightInv
    <3>4. QED BY <1>1, <1>12, <1>14, <3>1, <3>2, <3>3
  <2>2. ASSUME NEW d \in Callers, NEW p \in S!Questions, Leads(job'[d], p)
        PROVE  flight'[p] # None /\ flight'[p].leader = d
    <3>1. Leads(job[d], p) BY <1>1, <1>12, <1>14, <2>2
    <3>2. flight[p] # None /\ flight[p].leader = d BY <3>1 DEF ShellInv, FlightInv
    <3>3. p # q BY <1>12, <1>14, <1>15, <2>2, <3>2
    <3>4. QED BY <1>13, <3>2, <3>3
  <2>3. ASSUME NEW d \in Callers
        PROVE  /\ job'[d].at = "wait" => flight'[job'[d].asks] # None /\ ~flight'[job'[d].asks].ready
               /\ job'[d].at = "clear" => flight'[job'[d].asks].ready
    <3>1. CASE d = c BY <1>10, <1>12, <3>1
    <3>2. CASE d # c
      <4>1. job'[d] = job[d] /\ (job[d].at # "idle" => job[d].asks \in S!Questions)
        BY <1>12, <3>2, CallIs DEF Targets
      <4>2. job[d].at = "wait" =>
              flight[job[d].asks] # None /\ ~flight[job[d].asks].ready /\ job[d].asks # q
        BY <1>15 DEF ShellInv, FlightInv, S!At
      <4>3. job[d].at = "clear" => flight[job[d].asks].ready /\ job[d].asks # q
        <5>1. HAVE job[d].at = "clear"
        <5>2. Leads(job[d], job[d].asks) BY <5>1 DEF Leads, Leading, S!Stages
        <5>3. flight[job[d].asks].leader = d BY <4>1, <5>1, <5>2 DEF ShellInv, FlightInv
        <5>4. QED BY <1>15, <3>2, <5>1, <5>3 DEF ShellInv, FlightInv, S!At
      <4>4. QED BY <1>13, <4>1, <4>2, <4>3
    <3>3. QED BY <3>1, <3>2
  <2>4. QED BY <1>13, <2>1, <2>2, <2>3 DEF FlightInv, S!At
<1>17. LoneAs(c, t) => IF r = S!Idle THEN Quiet ELSE LoneAs(c, r)
  <2>1. SUFFICES ASSUME LoneAs(c, t) PROVE IF r = S!Idle THEN Quiet ELSE LoneAs(c, r) OBVIOUS
  <2>2. (t.asks = "folder" /\ answer # None) <=> Local(t) BY <1>2, <1>7 DEF Local
  <2>3. ~Local(t) => Quiet BY <1>2, <2>1 DEF LoneAs, LoneRest, Before
  <2>4. Local(t) => FolderKept /\ Newest /\ ~stale BY <2>1 DEF LoneAs, LoneRest
  <2>5. CASE Fields(r, "local", t.call, t.asks, t.target, t.inst, t.was, answer, t.doc) /\ t.asks = "folder" /\ answer # None
    BY <2>2, <2>4, <2>5 DEF LoneAs, LoneRest, LoneFolder, LoneServer, LoneText, Before, Local, Writing, Fields, S!Idle
  <2>6. CASE /\ t.asks = "folder" /\ answer = None
             /\ Fields(r, "answer", t.call, "mode", t.target, t.inst, t.was, "local", t.doc)
    BY <2>2, <2>3, <2>6 DEF LoneAs, LoneRest, LoneFolder, LoneServer, LoneText, Before, Local, Writing, Fields, S!Idle
  <2>7. CASE (t.asks # "folder" \/ answer = None) /\ r = S!Idle BY <2>2, <2>3, <2>7
  <2>8. QED BY <1>9, <2>5, <2>6, <2>7
<1>18. /\ \A d \in Callers : job'[d].at \notin {"replace", "release", "adopt", "hangup", "bump", "take", "slot"}
                               \/ job'[d] = job[d]
       /\ \A d \in Callers : d # c /\ job[d] = S!Idle => job'[d] = S!Idle
  BY <1>10, <1>12
<1>19. QED BY <1>1, <1>2, <1>5, <1>12, <1>16, <1>17, <1>18, CallsTurn DEF LoneCall

LEMMA AnswerKeeps ==
  ASSUME S!ShellAssumption, ShellInv, NEW c \in Callers, S!Answer(c)
  PROVE  ShellInv'
<1>1. PICK t \in Jobs : t = job[c] /\ Targets(t) BY CallIs
<1>2. PICK answer \in S!Answers : answer = t.answer BY DEF Jobs
<1>3. PICK q : q = t.asks OBVIOUS
<1>4. /\ t.at = "answer" /\ q \in S!Questions
      /\ flight' = [flight EXCEPT ![q].ready = TRUE, ![q].answer = answer]
      /\ job' = [d \in Callers |->
           IF d = c THEN [t EXCEPT !.at = "clear"]
           ELSE IF job[d].at = "wait" /\ job[d].asks = q THEN S!AfterAnswer(job[d], answer)
           ELSE job[d]]
      /\ UNCHANGED <<S!folderVars, S!serverVars, S!fileVars, stale, S!tallyVars>>
  BY <1>1, <1>2, <1>3 DEF S!Answer, S!At, Targets
<1>5. flight \in [S!Questions -> S!Flights \cup {None}] BY DEF ShellInv, FlightInv
<1>6. Busy(c) BY <1>1, <1>4 DEF Busy, S!Idle
<1>7. handle' \in [Callers -> Handles] BY <1>4 DEF S!fileVars, ShellInv, JobsInv, Handles
<1>8. flight[q] # None /\ flight[q].leader = c
  <2>1. Leads(job[c], q) BY <1>1, <1>3, <1>4 DEF Leads, Leading, S!Stages
  <2>2. QED BY <1>4, <2>1 DEF ShellInv, FlightInv
<1>9. PICK old \in S!Flights : old = flight[q] BY <1>4, <1>5, <1>8
<1>10. PICK new : new = [old EXCEPT !.ready = TRUE, !.answer = answer] OBVIOUS
<1>11. new \in S!Flights /\ new.leader = c /\ new.ready /\ new # None
  BY <1>8, <1>9, <1>10 DEF S!Flights, S!ShellAssumption
<1>12. /\ flight' \in [S!Questions -> S!Flights \cup {None}] /\ flight'[q] = new
       /\ \A p \in S!Questions : p # q => flight'[p] = flight[p]
  BY <1>4, <1>5, <1>9, <1>10, <1>11
<1>13. PICK r : r = [t EXCEPT !.at = "clear"] OBVIOUS
<1>14. r \in Jobs /\ Fields(r, "clear", t.call, t.asks, t.target, t.inst, t.was, t.answer, t.doc)
  <2>1. "clear" \in S!Stages BY DEF S!Stages
  <2>2. QED BY <1>13, <2>1, GoTo
<1>15. Targets(r) BY <1>1, <1>3, <1>4, <1>14 DEF Targets, Fields, Writing, S!Questions
<1>16. job'[c] = r BY <1>4, <1>13
<1>17. ASSUME NEW d \in Callers, d # c, job[d].at = "wait", job[d].asks = q
       PROVE  /\ job'[d] \in Jobs /\ Targets(job'[d]) /\ job'[d].at \in {"local", "answer", "idle"}
              /\ \A p \in S!Questions : Leads(job'[d], p) <=> Leads(job[d], p)
  <2>1. PICK s \in Jobs : s = job[d] /\ Targets(s) BY CallIs
  <2>2. PICK u : u = S!AfterAnswer(s, answer) OBVIOUS
  <2>3. job'[d] = u BY <1>4, <1>17, <2>1, <2>2
  <2>4. u \in Jobs /\ Targets(u) /\ u.at \in {"local", "answer", "idle"}
    BY <2>1, <2>2, AfterAnswerIs, IdleIsAJob DEF Fields
  <2>5. \A p \in S!Questions : Leads(u, p) <=> (p = "mode" /\ s.call = "mode" /\ s.asks = "folder")
    BY <2>1, <2>2, AnsweredLeads
  <2>6. \A p \in S!Questions : Leads(s, p) <=> (p = "mode" /\ s.call = "mode" /\ s.asks = "folder")
    BY <1>17, <2>1 DEF Leads, Leading
  <2>7. QED BY <2>1, <2>3, <2>4, <2>5, <2>6
<1>18. \A d \in Callers : d # c /\ ~(job[d].at = "wait" /\ job[d].asks = q) => job'[d] = job[d] BY <1>4
<1>19. JobsInv'
  <2>1. \A d \in Callers : job'[d] \in Jobs /\ Targets(job'[d])
    <3>1. TAKE d \in Callers
    <3>2. CASE d = c BY <1>14, <1>15, <1>16, <3>2
    <3>3. CASE d # c /\ job[d].at = "wait" /\ job[d].asks = q BY <1>17, <3>3
    <3>4. CASE d # c /\ ~(job[d].at = "wait" /\ job[d].asks = q) BY <1>18, <3>4, CallIs
    <3>5. QED BY <3>2, <3>3, <3>4
  <2>2. job' = [d \in Callers |-> job'[d]] BY <1>4
  <2>3. QED BY <1>7, <2>1, <2>2 DEF JobsInv, Handles
<1>20. \A d \in Callers, p \in S!Questions : Leads(job'[d], p) <=> Leads(job[d], p)
  <2>1. TAKE d \in Callers, p \in S!Questions
  <2>2. CASE d = c
    <3>1. Leads(r, p) <=> Leads(t, p) BY <1>4, <1>14 DEF Leads, Fields, Leading, S!Stages
    <3>2. QED BY <1>1, <1>16, <2>2, <3>1
  <2>3. CASE d # c /\ job[d].at = "wait" /\ job[d].asks = q BY <1>17, <2>3
  <2>4. CASE d # c /\ ~(job[d].at = "wait" /\ job[d].asks = q) BY <1>18, <2>4
  <2>5. QED BY <2>2, <2>3, <2>4
<1>21. FlightInv'
  <2>1. ASSUME NEW p \in S!Questions, flight'[p] # None PROVE Leads(job'[flight'[p].leader], p)
    <3>1. flight[p] # None /\ flight'[p].leader = flight[p].leader BY <1>8, <1>11, <1>12, <2>1
    <3>2. flight[p].leader \in Callers BY <1>5, <3>1 DEF S!Flights
    <3>3. Leads(job[flight[p].leader], p) BY <3>1 DEF ShellInv, FlightInv
    <3>4. QED BY <1>20, <3>1, <3>2, <3>3
  <2>2. ASSUME NEW d \in Callers, NEW p \in S!Questions, Leads(job'[d], p)
        PROVE  flight'[p] # None /\ flight'[p].leader = d
    <3>1. Leads(job[d], p) BY <1>20, <2>2
    <3>2. flight[p] # None /\ flight[p].leader = d BY <3>1 DEF ShellInv, FlightInv
    <3>3. QED BY <1>8, <1>11, <1>12, <3>2
  <2>3. ASSUME NEW d \in Callers
        PROVE  /\ job'[d].at = "wait" => flight'[job'[d].asks] # None /\ ~flight'[job'[d].asks].ready
               /\ job'[d].at = "clear" => flight'[job'[d].asks].ready
    <3>1. CASE d = c
      <4>1. job'[d].at = "clear" /\ job'[d].asks = q BY <1>3, <1>14, <1>16, <3>1 DEF Fields
      <4>2. QED BY <1>11, <1>12, <4>1
    <3>2. CASE d # c /\ job[d].at = "wait" /\ job[d].asks = q BY <1>17, <3>2
    <3>3. CASE d # c /\ ~(job[d].at = "wait" /\ job[d].asks = q)
      <4>1. job'[d] = job[d] /\ (job[d].at # "idle" => job[d].asks \in S!Questions)
        BY <1>18, <3>3, CallIs DEF Targets
      <4>2. job[d].at = "wait" => flight[job[d].asks] # None /\ ~flight[job[d].asks].ready
        BY DEF ShellInv, FlightInv, S!At
      <4>3. job[d].at = "clear" => flight[job[d].asks].ready BY DEF ShellInv, FlightInv, S!At
      <4>4. QED BY <1>11, <1>12, <3>3, <4>1, <4>2, <4>3
    <3>4. QED BY <3>1, <3>2, <3>3
  <2>4. QED BY <1>12, <2>1, <2>2, <2>3 DEF FlightInv, S!At
<1>22. LoneAs(c, t) => LoneAs(c, r)
  BY <1>4, <1>14 DEF LoneAs, LoneRest, LoneFolder, LoneServer, LoneText, Before, Local, Writing, Fields
<1>23. \A d \in Callers : job'[d].at \notin {"replace", "release", "adopt", "hangup", "bump", "take", "slot"}
                            \/ job'[d] = job[d]
  <2>1. TAKE d \in Callers
  <2>2. CASE d = c BY <1>14, <1>16, <2>2 DEF Fields
  <2>3. CASE d # c /\ job[d].at = "wait" /\ job[d].asks = q BY <1>17, <2>3
  <2>4. CASE d # c /\ ~(job[d].at = "wait" /\ job[d].asks = q) BY <1>18, <2>4
  <2>5. QED BY <2>2, <2>3, <2>4
<1>24. \A d \in Callers : d # c /\ job[d] = S!Idle => job'[d] = S!Idle BY <1>18 DEF S!Idle
<1>25. r # S!Idle BY <1>14 DEF Fields, S!Idle
<1>26. QED BY <1>1, <1>4, <1>6, <1>16, <1>19, <1>21, <1>22, <1>23, <1>24, <1>25, CallsTurn DEF LoneCall

LEMMA PanicKeeps ==
  ASSUME S!ShellAssumption, ShellInv, NEW c \in Callers, S!Panic(c)
  PROVE  ShellInv'
<1>1. PICK t \in Jobs : t = job[c] /\ Targets(t) BY CallIs
<1>2. /\ t.at = "ask"
      /\ flight' = [q \in S!Questions |-> IF q \in S!Led(c) THEN None ELSE flight[q]]
      /\ job' = [d \in Callers |->
           IF d = c THEN S!Idle
           ELSE IF job[d].at = "wait" /\ job[d].asks \in S!Led(c) THEN [job[d] EXCEPT !.at = "join"]
           ELSE job[d]]
      /\ UNCHANGED <<S!folderVars, S!serverVars, S!fileVars, stale, S!tallyVars>>
  BY <1>1 DEF S!Panic, S!At
<1>3. flight \in [S!Questions -> S!Flights \cup {None}] BY DEF ShellInv, FlightInv
<1>4. Busy(c) BY <1>1, <1>2 DEF Busy, S!Idle
<1>5. handle' \in [Callers -> Handles] BY <1>2 DEF S!fileVars, ShellInv, JobsInv, Handles
<1>6. \A q \in S!Questions : q \in S!Led(c) <=> flight[q] # None /\ flight[q].leader = c BY DEF S!Led
<1>7. job'[c] = S!Idle BY <1>2
<1>8. ASSUME NEW d \in Callers, d # c, job[d].at = "wait", job[d].asks \in S!Led(c)
      PROVE  /\ job'[d] \in Jobs /\ Targets(job'[d]) /\ job'[d].at = "join"
             /\ \A p \in S!Questions : Leads(job'[d], p) <=> Leads(job[d], p)
  <2>1. PICK s \in Jobs : s = job[d] /\ Targets(s) BY CallIs
  <2>2. PICK u : u = [s EXCEPT !.at = "join"] OBVIOUS
  <2>3. job'[d] = u BY <1>2, <1>8, <2>1, <2>2
  <2>4. u \in Jobs /\ Fields(u, "join", s.call, s.asks, s.target, s.inst, s.was, s.answer, s.doc)
    <3>1. "join" \in S!Stages BY DEF S!Stages
    <3>2. QED BY <2>2, <3>1, GoTo
  <2>5. Targets(u) BY <1>8, <2>1, <2>4 DEF Targets, Fields, Writing, S!Questions
  <2>6. \A p \in S!Questions : Leads(u, p) <=> Leads(s, p) BY <1>8, <2>1, <2>4 DEF Leads, Fields, Leading
  <2>7. QED BY <2>1, <2>3, <2>4, <2>5, <2>6 DEF Fields
<1>9. \A d \in Callers : d # c /\ ~(job[d].at = "wait" /\ job[d].asks \in S!Led(c)) => job'[d] = job[d] BY <1>2
<1>10. JobsInv'
  <2>1. \A d \in Callers : job'[d] \in Jobs /\ Targets(job'[d])
    <3>1. TAKE d \in Callers
    <3>2. CASE d = c BY <1>7, <3>2, IdleIsAJob
    <3>3. CASE d # c /\ job[d].at = "wait" /\ job[d].asks \in S!Led(c) BY <1>8, <3>3
    <3>4. CASE d # c /\ ~(job[d].at = "wait" /\ job[d].asks \in S!Led(c)) BY <1>9, <3>4, CallIs
    <3>5. QED BY <3>2, <3>3, <3>4
  <2>2. job' = [d \in Callers |-> job'[d]] BY <1>2
  <2>3. QED BY <1>5, <2>1, <2>2 DEF JobsInv, Handles
<1>11. \A d \in Callers, p \in S!Questions : Leads(job'[d], p) => d # c /\ Leads(job[d], p)
  <2>1. TAKE d \in Callers, p \in S!Questions
  <2>2. CASE d = c
    <3>1. None \notin S!Questions /\ None # "mode" BY DEF S!ShellAssumption, S!Questions
    <3>2. ~Leads(S!Idle, p) BY <3>1, IdleIsAJob DEF Leads, Fields
    <3>3. QED BY <1>7, <2>2, <3>2
  <2>3. CASE d # c /\ job[d].at = "wait" /\ job[d].asks \in S!Led(c) BY <1>8, <2>3
  <2>4. CASE d # c /\ ~(job[d].at = "wait" /\ job[d].asks \in S!Led(c)) BY <1>9, <2>4
  <2>5. QED BY <2>2, <2>3, <2>4
<1>12. \A d \in Callers, p \in S!Questions : d # c /\ Leads(job[d], p) => Leads(job'[d], p)
  <2>1. TAKE d \in Callers, p \in S!Questions
  <2>2. CASE d # c /\ job[d].at = "wait" /\ job[d].asks \in S!Led(c) BY <1>8, <2>2
  <2>3. CASE d # c /\ ~(job[d].at = "wait" /\ job[d].asks \in S!Led(c)) BY <1>9, <2>3
  <2>4. QED BY <2>2, <2>3
<1>13. FlightInv'
  <2>1. ASSUME NEW p \in S!Questions, flight'[p] # None PROVE Leads(job'[flight'[p].leader], p)
    <3>1. p \notin S!Led(c) /\ flight'[p] = flight[p] BY <1>2, <2>1
    <3>2. flight[p] # None /\ flight[p].leader # c BY <1>6, <2>1, <3>1
    <3>3. flight[p].leader \in Callers BY <1>3, <3>2 DEF S!Flights
    <3>4. Leads(job[flight[p].leader], p) BY <3>2 DEF ShellInv, FlightInv
    <3>5. QED BY <1>12, <3>1, <3>2, <3>3, <3>4
  <2>2. ASSUME NEW d \in Callers, NEW p \in S!Questions, Leads(job'[d], p)
        PROVE  flight'[p] # None /\ flight'[p].leader = d
    <3>1. d # c /\ Leads(job[d], p) BY <1>11, <2>2
    <3>2. flight[p] # None /\ flight[p].leader = d BY <3>1 DEF ShellInv, FlightInv
    <3>3. QED BY <1>2, <1>6, <3>1, <3>2
  <2>3. ASSUME NEW d \in Callers
        PROVE  /\ job'[d].at = "wait" => flight'[job'[d].asks] # None /\ ~flight'[job'[d].asks].ready
               /\ job'[d].at = "clear" => flight'[job'[d].asks].ready
    <3>1. CASE d = c BY <1>7, <3>1, IdleIsAJob DEF Fields
    <3>2. CASE d # c /\ job[d].at = "wait" /\ job[d].asks \in S!Led(c) BY <1>8, <3>2
    <3>3. CASE d # c /\ ~(job[d].at = "wait" /\ job[d].asks \in S!Led(c))
      <4>1. job'[d] = job[d] /\ (job[d].at # "idle" => job[d].asks \in S!Questions)
        BY <1>9, <3>3, CallIs DEF Targets
      <4>2. job[d].at = "wait" => flight[job[d].asks] # None /\ ~flight[job[d].asks].ready
        BY DEF ShellInv, FlightInv, S!At
      <4>3. job[d].at = "clear" => flight[job[d].asks].ready /\ job[d].asks \notin S!Led(c)
        <5>1. HAVE job[d].at = "clear"
        <5>2. Leads(job[d], job[d].asks) BY <5>1 DEF Leads, Leading, S!Stages
        <5>3. flight[job[d].asks].leader = d BY <4>1, <5>1, <5>2 DEF ShellInv, FlightInv
        <5>4. QED BY <1>6, <3>3, <4>1, <5>1, <5>3 DEF ShellInv, FlightInv, S!At
      <4>4. QED BY <1>2, <3>3, <4>1, <4>2, <4>3
    <3>4. QED BY <3>1, <3>2, <3>3
  <2>4. flight' \in [S!Questions -> S!Flights \cup {None}] BY <1>2, <1>3
  <2>5. QED BY <2>1, <2>2, <2>3, <2>4 DEF FlightInv, S!At
<1>14. LoneAs(c, t) => Quiet BY <1>2 DEF LoneAs, LoneRest, Before
<1>15. \A d \in Callers : job'[d].at \notin {"replace", "release", "adopt", "hangup", "bump", "take", "slot"}
                            \/ job'[d] = job[d]
  <2>1. TAKE d \in Callers
  <2>2. CASE d = c BY <1>7, <2>2, IdleIsAJob DEF Fields
  <2>3. CASE d # c /\ job[d].at = "wait" /\ job[d].asks \in S!Led(c) BY <1>8, <2>3
  <2>4. CASE d # c /\ ~(job[d].at = "wait" /\ job[d].asks \in S!Led(c)) BY <1>9, <2>4
  <2>5. QED BY <2>2, <2>3, <2>4
<1>16. \A d \in Callers : d # c /\ job[d] = S!Idle => job'[d] = S!Idle BY <1>9 DEF S!Idle
<1>17. QED BY <1>1, <1>2, <1>4, <1>7, <1>10, <1>13, <1>14, <1>15, <1>16, CallsTurn DEF LoneCall

-----------------------------------------------------------------------------
(* The start of the app.                                                     *)

(* What there is when no call has been made.                                 *)
NoCalls ==
  /\ job = [c \in Callers |-> S!Idle] /\ flight = [q \in S!Questions |-> None]
  /\ handle = [c \in Callers |-> None] /\ temp = None
  /\ earlier = [i \in S!Folders |-> None] /\ lastRelease = None /\ adopting \subseteq S!Folders

Resting ==
  /\ NoCalls /\ FoldersTyped /\ ServersTyped /\ FilesTyped /\ Quiet
  /\ \A i \in S!Folders : folder[i].stage \in {"open", "unused"}
  /\ current # None => folder[current].stage = "open"
  /\ S!NoServerLeftBehind /\ S!ServerWasConfirmed

LEMMA AtRest == S!ShellAssumption => (Resting => ShellInv)
<1> SUFFICES ASSUME S!ShellAssumption, Resting PROVE ShellInv OBVIOUS
<1> USE DEF Resting
<1>1. \A c \in Callers : job[c] = S!Idle BY DEF NoCalls
<1>2. JobsInv
  <2>1. \A c \in Callers : job[c] \in Jobs /\ Targets(job[c]) BY <1>1, IdleIsAJob
  <2>2. job \in [Callers -> Jobs] BY <2>1 DEF NoCalls
  <2>3. handle \in [Callers -> {"temp", "target", "gone", None}] BY DEF NoCalls
  <2>4. QED BY <2>1, <2>2, <2>3 DEF JobsInv
<1>3. FlightInv
  <2>1. None \notin S!Questions /\ None # "mode" BY DEF S!ShellAssumption, S!Questions
  <2>2. \A q \in S!Questions : ~Leads(S!Idle, q) BY <2>1, IdleIsAJob DEF Leads, Fields
  <2>3. flight \in [S!Questions -> S!Flights \cup {None}] /\ \A q \in S!Questions : flight[q] = None
    BY DEF NoCalls
  <2>4. \A c \in Callers : job[c].at = "idle" BY <1>1, IdleIsAJob DEF Fields
  <2>5. QED BY <1>1, <2>2, <2>3, <2>4 DEF FlightInv, S!At
<1>4. FolderInv
  <2>1. \A c \in Callers : ~Holds(c) BY <1>1, IdleIsAJob DEF Holds, Fields
  <2>2. \A i \in S!Folders : ~Gone(i) /\ folder[i].stage # "closed" /\ earlier[i] = None
    BY DEF Gone, NoCalls
  <2>3. QED BY <2>1, <2>2 DEF FolderInv
<1>5. ServerInv
  <2>1. \A c \in Callers : job[c].at = "idle" BY <1>1, IdleIsAJob DEF Fields
  <2>2. QED BY <2>1 DEF ServerInv
<1>6. LoneInv BY <1>1 DEF LoneInv, Busy
<1>7. QED BY <1>2, <1>3, <1>4, <1>5, <1>6 DEF ShellInv

LEMMA PlanTypes ==
  ASSUME S!ShellAssumption, NEW text
  PROVE  LET plan == S!Plan(S!ReadState(text))
         IN  /\ plan = [dir |-> plan.dir, origin |-> plan.origin]
             /\ plan.dir \in Dirs \cup {None} /\ plan.origin \in Origins \cup {None}
             /\ plan.dir = None \/ plan.origin = None
<1>1. PICK doc \in S!Docs : doc = S!ReadState(text)
  <2>1. S!NoDoc \in S!Docs BY DEF S!NoDoc, S!Docs
  <2>2. S!ReadState(text) \in S!Docs BY <2>1 DEF S!ReadState
  <2>3. QED BY <2>2
<1>2. doc.dir \in Dirs \cup {None} /\ doc.origin \in Origins \cup {None} BY DEF S!Docs
<1>3. PICK plan : plan = S!Plan(doc) OBVIOUS
<1>4. \/ plan = [dir |-> None, origin |-> doc.origin]
      \/ plan = [dir |-> doc.dir, origin |-> None]
      \/ plan = [dir |-> None, origin |-> None]
  BY <1>3 DEF S!Plan
<1>5. QED BY <1>1, <1>2, <1>3, <1>4

LEMMA StartedKeeps ==
  ASSUME S!ShellAssumption, ShellInv, NEW plan, NEW remembered \in BOOLEAN,
         S!Started(plan, remembered, state),
         plan = [dir |-> plan.dir, origin |-> plan.origin],
         plan.dir \in Dirs \cup {None}, plan.origin \in Origins \cup {None},
         plan.dir = None \/ plan.origin = None,
         remembered /\ plan.origin # None => plan = S!Plan(S!ReadState(state))
  PROVE  ShellInv'
<1>1. 1 \in S!Folders /\ 1 \in S!Servers /\ 1 # None /\ {0, 1} \subseteq Nat
  BY DEF S!Folders, S!Servers, S!ShellAssumption
<1>2. NoCalls' BY <1>1 DEF S!Started, NoCalls
<1>3. plan # S!Nothing <=> plan.dir # None \/ plan.origin # None BY DEF S!Nothing
<1>4. \A i \in S!Folders : IF i = 1 /\ plan.dir # None
        THEN folder'[i] = [dir |-> plan.dir, gen |-> 1, stage |-> "open"] ELSE folder'[i] = S!Unused
  BY DEF S!Started
<1>5. /\ current' = (IF plan.dir # None THEN 1 ELSE None)
      /\ generation' = (IF plan = S!Nothing THEN 0 ELSE 1)
  BY DEF S!Started
<1>6. /\ folder' \in [S!Folders -> FolderRows]
      /\ \A i \in S!Folders : folder'[i].stage \in {"open", "unused"} /\ folder'[i].gen <= generation'
  <2>1. ASSUME NEW i \in S!Folders
        PROVE  /\ folder'[i] \in FolderRows /\ folder'[i].stage \in {"open", "unused"}
               /\ folder'[i].gen <= generation'
    <3>1. CASE i = 1 /\ plan.dir # None
      <4>1. folder'[i] = [dir |-> plan.dir, gen |-> 1, stage |-> "open"] BY <1>4, <3>1
      <4>2. generation' = 1 BY <1>3, <1>5, <3>1
      <4>3. QED BY <4>1, <4>2 DEF FolderRows
    <3>2. CASE ~(i = 1 /\ plan.dir # None)
      <4>1. folder'[i] = [dir |-> None, gen |-> 0, stage |-> "unused"] BY <1>4, <3>2 DEF S!Unused
      <4>2. generation' \in {0, 1} BY <1>5
      <4>3. QED BY <4>1, <4>2 DEF FolderRows
    <3>3. QED BY <3>1, <3>2
  <2>2. folder' = [i \in S!Folders |-> folder'[i]] BY DEF S!Started
  <2>3. QED BY <2>1, <2>2
<1>7. current' # None =>
        current' = 1 /\ folder'[1].stage = "open" /\ folder'[1].dir = plan.dir /\ folder'[1].gen = generation'
  <2>1. HAVE current' # None
  <2>2. plan.dir # None /\ current' = 1 BY <1>5, <2>1
  <2>3. folder'[1] = [dir |-> plan.dir, gen |-> 1, stage |-> "open"] BY <1>1, <1>4, <2>2
  <2>4. generation' = 1 BY <1>3, <1>5, <2>2
  <2>5. QED BY <2>2, <2>3, <2>4
<1>8. FoldersTyped'
  <2>1. generation' \in Nat /\ current' \in S!Folders \cup {None} BY <1>1, <1>5
  <2>2. QED BY <1>2, <1>6, <2>1 DEF FoldersTyped, NoCalls
<1>9. /\ remote' = (IF plan.origin # None THEN 1 ELSE None)
      /\ agreed' = {plan.origin} \ {None} /\ connectingTo' = None
      /\ \A h \in S!Servers : IF h = 1 /\ plan.origin # None
           THEN server'[h] = [origin |-> plan.origin, closed |-> FALSE] ELSE server'[h] = S!NoServer
  BY DEF S!Started
<1>10. server' \in [S!Servers -> Entries]
  <2>1. ASSUME NEW h \in S!Servers PROVE server'[h] \in Entries
    <3>1. CASE h = 1 /\ plan.origin # None
      <4>1. server'[h] = [origin |-> plan.origin, closed |-> FALSE] BY <1>9, <3>1
      <4>2. QED BY <4>1 DEF Entries
    <3>2. CASE ~(h = 1 /\ plan.origin # None)
      <4>1. server'[h] = [origin |-> None, closed |-> TRUE] BY <1>9, <3>2 DEF S!NoServer
      <4>2. QED BY <4>1 DEF Entries
    <3>3. QED BY <3>1, <3>2
  <2>2. server' = [h \in S!Servers |-> server'[h]] BY DEF S!Started
  <2>3. QED BY <2>1, <2>2
<1>11. ServersTyped' BY <1>1, <1>9, <1>10 DEF ServersTyped
<1>12. remote' # None => S!RemoteOrigin' = plan.origin /\ plan.origin # None
  <2>1. HAVE remote' # None
  <2>2. remote' = 1 /\ plan.origin # None BY <1>9, <2>1
  <2>3. server'[1] = [origin |-> plan.origin, closed |-> FALSE] BY <1>1, <1>9, <2>2
  <2>4. QED BY <2>1, <2>2, <2>3 DEF S!RemoteOrigin
<1>13. S!NoServerLeftBehind'
  <2>1. ASSUME NEW h \in S!Servers, ~server'[h].closed PROVE remote' = h
    <3>1. h = 1 /\ plan.origin # None BY <1>9, <2>1 DEF S!NoServer
    <3>2. QED BY <1>9, <3>1
  <2>2. QED BY <2>1 DEF S!NoServerLeftBehind
<1>14. S!ServerWasConfirmed' BY <1>9, <1>12 DEF S!ServerWasConfirmed
<1>15. PICK choice : choice = [asks |-> "folder", target |-> plan.dir] OBVIOUS
<1>16. state' = IF remembered /\ plan.dir # None THEN S!Chosen(S!ReadState(state), "local", plan.dir) ELSE state
  BY DEF S!Started
<1>17. FilesTyped'
  <2>1. plan.dir # None => S!Chosen(S!ReadState(state), "local", plan.dir) \in S!Docs BY ChosenIsADoc
  <2>2. state' \in S!Texts BY <1>16, <2>1 DEF ShellInv, FilesTyped, S!Texts
  <2>3. temp' = None /\ unwritten' = ~remembered /\ stale' = FALSE /\ alone' = TRUE BY DEF S!Started
  <2>4. QED BY <2>2, <2>3 DEF FilesTyped
<1>18. Quiet'
  <2>1. Newest' BY <1>7 DEF Newest
  <2>2. Saved' = S!Plan(S!ReadState(state'))
    BY DEF Saved, S!Plan, S!RememberedMode, S!ReadState, S!NoDoc, S!Docs
  <2>3. unwritten' = ~remembered /\ stale' = FALSE BY DEF S!Started
  <2>4. FolderKept'
    <3>1. SUFFICES ASSUME remembered, current' # None
                   PROVE  Saved' = [dir |-> S!OpenDir', origin |-> None]
      BY <2>3 DEF FolderKept
    <3>2. S!OpenDir' = plan.dir BY <1>7, <3>1 DEF S!OpenDir
    <3>3. plan.dir # None BY <1>5, <3>1
    <3>4. state' = S!Chosen(S!ReadState(state), "local", plan.dir) BY <1>16, <3>1, <3>3
    <3>5. choice.asks = "folder" /\ choice.target = plan.dir BY <1>15
    <3>6. Saved' = Purpose(choice) BY <2>2, <3>3, <3>4, <3>5, PlanIsDraft
    <3>7. QED BY <3>2, <3>5, <3>6 DEF Purpose
  <2>5. ServerKept'
    <3>1. SUFFICES ASSUME remembered, remote' # None
                   PROVE  Saved' = [dir |-> None, origin |-> S!RemoteOrigin']
      BY <2>3 DEF ServerKept
    <3>2. S!RemoteOrigin' = plan.origin /\ plan.origin # None BY <1>12, <3>1
    <3>3. plan = S!Plan(S!ReadState(state)) /\ plan.dir = None BY <3>1, <3>2
    <3>4. state' = state BY <1>16, <3>3
    <3>5. QED BY <2>2, <3>2, <3>3, <3>4
  <2>6. remote' # None => current' = None BY <1>5, <1>12
  <2>7. QED BY <2>1, <2>3, <2>4, <2>5, <2>6 DEF Quiet, Switched
<1>19. /\ \A i \in S!Folders : folder'[i].stage \in {"open", "unused"}
       /\ current' # None => folder'[current'].stage = "open"
  BY <1>6, <1>7
<1>20. Resting' BY <1>2, <1>8, <1>11, <1>13, <1>14, <1>17, <1>18, <1>19 DEF Resting
<1>21. QED BY <1>20, AtRest, PTL

LEMMA StartKeeps ==
  ASSUME S!ShellAssumption, ShellInv, S!Start
  PROVE  ShellInv'
<1>1. PICK plan : plan = S!Plan(S!ReadState(state)) OBVIOUS
<1>2. /\ plan = [dir |-> plan.dir, origin |-> plan.origin]
      /\ plan.dir \in Dirs \cup {None} /\ plan.origin \in Origins \cup {None}
      /\ plan.dir = None \/ plan.origin = None
  BY <1>1, PlanTypes
<1>3. CASE S!Started(plan, TRUE, state) BY <1>1, <1>2, <1>3, StartedKeeps
<1>4. CASE S!Started(S!Nothing, TRUE, state)
  <2>1. S!Nothing.dir = None /\ S!Nothing.origin = None BY DEF S!Nothing
  <2>2. S!Nothing = [dir |-> S!Nothing.dir, origin |-> S!Nothing.origin] BY DEF S!Nothing
  <2>3. QED BY <1>4, <2>1, <2>2, StartedKeeps
<1>5. ASSUME NEW env \in S!FromEnv, S!Started(env, FALSE, state) PROVE ShellInv'
  <2>1. /\ env = [dir |-> env.dir, origin |-> env.origin]
        /\ env.dir \in Dirs \cup {None} /\ env.origin \in Origins \cup {None}
        /\ env.dir = None \/ env.origin = None
    BY DEF S!FromEnv
  <2>2. QED BY <1>5, <2>1, StartedKeeps
<1>6. QED BY <1>1, <1>3, <1>4, <1>5 DEF S!Start

LEMMA InitIsShellInv ==
  ASSUME S!ShellAssumption, S!Init
  PROVE  ShellInv
<1>1. NoCalls BY DEF S!Init, NoCalls
<1>2. /\ folder = [i \in S!Folders |-> S!Unused] /\ current = None /\ generation = 0
      /\ server = [h \in S!Servers |-> S!NoServer] /\ remote = None /\ connectingTo = None /\ agreed = {}
      /\ temp = None /\ unwritten = FALSE /\ stale = FALSE /\ alone = TRUE
  BY DEF S!Init
<1>3. S!Unused \in FolderRows /\ S!Unused.gen = 0 /\ S!Unused.stage = "unused" BY DEF S!Unused, FolderRows
<1>4. FoldersTyped BY <1>1, <1>2, <1>3 DEF FoldersTyped, NoCalls
<1>5. S!NoServer \in Entries /\ S!NoServer.closed BY DEF S!NoServer, Entries
<1>6. ServersTyped BY <1>2, <1>5 DEF ServersTyped
<1>7. FilesTyped
  <2>1. S!NoDoc \in S!Docs /\ \A d \in Dirs : [S!NoDoc EXCEPT !.dir = d] \in S!Docs BY DEF S!NoDoc, S!Docs
  <2>2. \A d \in Dirs, o \in Origins : [mode |-> "remote", dir |-> d, origin |-> o] \in S!Docs BY DEF S!Docs
  <2>3. state \in S!Docs BY <2>1, <2>2 DEF S!Init
  <2>4. QED BY <1>2, <2>3 DEF FilesTyped, S!Texts
<1>8. Quiet BY <1>2 DEF Quiet, Switched, Newest, FolderKept, ServerKept
<1>9. S!NoServerLeftBehind /\ S!ServerWasConfirmed
  BY <1>2, <1>5 DEF S!NoServerLeftBehind, S!ServerWasConfirmed
<1>10. /\ \A i \in S!Folders : folder[i].stage \in {"open", "unused"}
       /\ current # None => folder[current].stage = "open"
  BY <1>2, <1>3
<1>11. Resting BY <1>1, <1>4, <1>6, <1>7, <1>8, <1>9, <1>10 DEF Resting
<1>12. QED BY <1>11, AtRest

-----------------------------------------------------------------------------
(* Every step.                                                               *)

LEMMA StepKeeps ==
  ASSUME S!ShellAssumption, ShellInv, NEW c \in Callers, S!Step(c)
  PROVE  ShellInv'
<1>1. ASSUME S!Join(c) \/ S!Answer(c) \/ S!Clear(c) PROVE ShellInv'
  BY <1>1, JoinKeeps, AnswerKeeps, ClearKeeps
<1>2. ASSUME S!AskMode(c) \/ S!AskFolder(c) \/ S!AskServer(c) PROVE ShellInv'
  BY <1>2, AskModeKeeps, AskFolderKeeps, AskServerKeeps
<1>3. ASSUME S!Open(c) \/ S!Replace(c) \/ S!Release(c) PROVE ShellInv'
  BY <1>3, OpenKeeps, ReplaceKeeps, ReleaseKeeps
<1>4. ASSUME S!Read(c) \/ S!OpenTemp(c) \/ S!Write(c) \/ S!Rename(c) \/ S!WriteFails(c) \/ S!Changed(c)
      PROVE  ShellInv'
  BY <1>4, ReadKeeps, OpenTempKeeps, WriteKeeps, RenameKeeps, WriteFailsKeeps, ChangedKeeps
<1>5. ASSUME S!BecomeLocal(c) \/ S!Home(c) \/ S!Leave(c) \/ S!ToConnectPage(c) PROVE ShellInv'
  BY <1>5, BecomeLocalKeeps, HomeKeeps, LeaveKeeps, ToConnectPageKeeps
<1>6. ASSUME \/ S!Adopt(c) \/ S!HangUp(c) \/ S!Bump(c) \/ S!Take(c)
             \/ S!Slot(c) \/ S!Navigate(c) \/ S!Unpend(c)
      PROVE  ShellInv'
  BY <1>6, AdoptKeeps, HangUpKeeps, BumpKeeps, TakeKeeps, SlotKeeps, NavigateKeeps, UnpendKeeps
<1>7. QED BY <1>1, <1>2, <1>3, <1>4, <1>5, <1>6 DEF S!Step

LEMMA StutterKeeps ==
  ASSUME ShellInv, UNCHANGED S!vars
  PROVE  ShellInv'
<1>1. /\ UNCHANGED <<flight, job, current, folder, adopting, earlier, lastRelease, generation>>
      /\ UNCHANGED <<S!serverVars, S!fileVars, stale, alone>>
  BY DEF S!vars, S!folderVars, S!tallyVars
<1>2. UNCHANGED <<remote, server, connectingTo, agreed, state, temp, handle, unwritten>>
  BY <1>1 DEF S!serverVars, S!fileVars
<1>3. stale' \in BOOLEAN BY <1>1 DEF ShellInv, FilesTyped
<1>4. FoldersTyped' BY <1>1 DEF ShellInv, FoldersTyped
<1>5. FolderInv' BY <1>1 DEF ShellInv, FolderInv, Holds, Gone, S!Done
<1>6. \A c \in Callers : LoneCall(c) => LoneCall(c)'
  <2>1. TAKE c \in Callers
  <2>2. PICK t : t = job[c] OBVIOUS
  <2>3. LoneAs(c, t)' <=> LoneAs(c, t) BY <1>1, <1>2, LoneStays
  <2>4. QED BY <1>1, <2>2, <2>3 DEF LoneCall
<1>7. Quiet => Quiet'
  <2>1. \A c : Quiet' <=> Quiet BY <1>1, <1>2, LoneStays
  <2>2. QED BY <2>1
<1>8. QED BY <1>1, <1>3, <1>4, <1>5, <1>6, <1>7, BackTurn

LEMMA ShellNextKeeps ==
  ASSUME S!ShellAssumption, ShellInv, [S!Next]_(S!vars)
  PROVE  ShellInv'
<1>1. ASSUME S!Next PROVE ShellInv'
  <2>1. CASE S!Start BY <2>1, StartKeeps
  <2>2. ASSUME NEW c \in Callers, S!Choose(c) \/ S!Pick(c) \/ S!Connect(c) PROVE ShellInv'
    BY <2>2, CallsBegin
  <2>3. ASSUME NEW c \in Callers, S!Panic(c) PROVE ShellInv' BY <2>3, PanicKeeps
  <2>4. ASSUME NEW c \in Callers, S!Step(c) PROVE ShellInv' BY <2>4, StepKeeps
  <2>5. ASSUME NEW i \in S!Folders, S!CloseFolder(i) \/ S!Adopted(i) PROVE ShellInv'
    BY <2>5, CloseFolderKeeps, AdoptedKeeps
  <2>6. QED BY <1>1, <2>1, <2>2, <2>3, <2>4, <2>5 DEF S!Next
<1>2. QED BY <1>1, StutterKeeps

(* The inductive invariant holds always: types, the flights and their        *)
(* leaders, who holds which folder and server, and, while calls do not       *)
(* overlap, what the one at work may take for granted (shell.rs, library.rs, *)
(* sync.rs, state.rs).                                                       *)
THEOREM ShellInvAlways ==
  ASSUME S!ShellAssumption PROVE S!Spec => []ShellInv
<1>1. (S!Init => ShellInv) /\ (ShellInv /\ [S!Next]_(S!vars) => ShellInv')
  BY InitIsShellInv, ShellNextKeeps
<1>2. QED BY <1>1, PTL DEF S!Spec

-----------------------------------------------------------------------------
(* The order in which folders are let go of.                                 *)

(* A release waits for one that began before it: there is no circle.         *)
OrderInv ==
  /\ lastRelease # None => Gone(lastRelease)
  /\ \A i \in S!Folders : earlier[i] # None => Gone(earlier[i])
  /\ \A F \in SUBSET S!Folders : F # {} /\ (\A i \in F : Gone(i)) => \E i \in F : earlier[i] \notin F

LEMMA OrderStays ==
  ASSUME FoldersTyped, OrderInv, UNCHANGED <<earlier, lastRelease>>, \A i \in S!Folders : Gone(i)' <=> Gone(i)
  PROVE  OrderInv'
<1>1. /\ \A i \in S!Folders : earlier[i] \in S!Folders \cup {None}
      /\ lastRelease \in S!Folders \cup {None}
  BY DEF FoldersTyped
<1>2. lastRelease' # None => Gone(lastRelease)' BY <1>1 DEF OrderInv, Gone
<1>3. \A i \in S!Folders : earlier'[i] # None => Gone(earlier[i])' BY <1>1 DEF OrderInv, Gone
<1>4. \A F \in SUBSET S!Folders : F # {} /\ (\A i \in F : Gone(i)') => \E i \in F : earlier'[i] \notin F
  BY DEF OrderInv
<1>5. QED BY <1>2, <1>3, <1>4 DEF OrderInv

LEMMA OrderAtRelease ==
  ASSUME ShellInv, OrderInv, NEW c \in Callers, S!Release(c)
  PROVE  OrderInv'
<1>1. PICK i : i = job[c].inst OBVIOUS
<1>2. PICK last \in {"released", "dropped"} :
        /\ folder' = [folder EXCEPT ![i].stage = last]
        /\ earlier' = [earlier EXCEPT ![i] = lastRelease] /\ lastRelease' = i
  BY <1>1 DEF S!Release
<1>3. i \in S!Folders /\ folder[i].stage = "open" /\ i # None
  <2>1. Holds(c) BY DEF S!Release, S!At, Holds
  <2>2. i # None /\ folder[i].stage = "open" BY <1>1, <2>1 DEF ShellInv, FolderInv
  <2>3. QED BY <1>1, <2>2 DEF ShellInv, JobsInv, Jobs
<1>4. /\ folder \in [S!Folders -> FolderRows] /\ earlier \in [S!Folders -> S!Folders \cup {None}]
      /\ lastRelease \in S!Folders \cup {None}
  BY DEF ShellInv, FoldersTyped
<1>5. /\ folder'[i].stage = last /\ \A k \in S!Folders : k # i => folder'[k] = folder[k]
      /\ earlier'[i] = lastRelease /\ \A k \in S!Folders : k # i => earlier'[k] = earlier[k]
  BY <1>2, <1>3, <1>4 DEF FolderRows
<1>6. ~Gone(i) /\ Gone(i)' /\ \A k \in S!Folders : k # i => (Gone(k)' <=> Gone(k))
  BY <1>3, <1>5 DEF Gone
<1>7. \A k \in S!Folders : earlier[k] # i BY <1>3, <1>6 DEF OrderInv
<1>8. lastRelease # i BY <1>3, <1>6 DEF OrderInv
<1>9. lastRelease' # None => Gone(lastRelease)' BY <1>2, <1>6 DEF Gone
<1>10. ASSUME NEW k \in S!Folders, earlier'[k] # None PROVE Gone(earlier[k])'
  <2>1. CASE k = i
    <3>1. earlier'[k] = lastRelease /\ lastRelease # None BY <1>5, <1>10, <2>1
    <3>2. Gone(lastRelease) BY <3>1 DEF OrderInv
    <3>3. folder'[lastRelease] = folder[lastRelease] BY <1>4, <1>5, <1>8, <3>1
    <3>4. QED BY <3>1, <3>2, <3>3 DEF Gone
  <2>2. CASE k # i
    <3>1. earlier'[k] = earlier[k] /\ Gone(earlier[k]) BY <1>5, <1>10, <2>2 DEF OrderInv
    <3>2. earlier[k] \in S!Folders /\ earlier[k] # i BY <1>4, <1>7, <1>10, <3>1
    <3>3. folder'[earlier[k]] = folder[earlier[k]] BY <1>5, <3>2
    <3>4. QED BY <3>1, <3>3 DEF Gone
  <2>3. QED BY <2>1, <2>2
<1>11. ASSUME NEW F \in SUBSET S!Folders, F # {}, \A k \in F : Gone(k)'
       PROVE  \E k \in F : earlier'[k] \notin F
  <2>1. CASE F \subseteq {i} BY <1>5, <1>8, <1>11, <2>1
  <2>2. CASE ~(F \subseteq {i})
    <3>1. PICK G \in SUBSET S!Folders : G = F \ {i} OBVIOUS
    <3>2. G # {} /\ \A k \in G : Gone(k) BY <1>6, <1>11, <2>2, <3>1
    <3>3. PICK k \in G : earlier[k] \notin G BY <3>2 DEF OrderInv
    <3>4. k \in F /\ earlier'[k] = earlier[k] /\ earlier[k] # i BY <1>5, <1>7, <3>1, <3>3
    <3>5. QED BY <3>1, <3>3, <3>4
  <2>3. QED BY <2>1, <2>2
<1>12. QED BY <1>9, <1>10, <1>11 DEF OrderInv

LEMMA OrderAtStart ==
  ASSUME S!Start
  PROVE  OrderInv'
<1>1. PICK plan, remembered : S!Started(plan, remembered, state) BY DEF S!Start
<1>2. /\ lastRelease' = None /\ \A i \in S!Folders : earlier'[i] = None
      /\ \A i \in S!Folders : folder'[i].stage \in {"open", "unused"}
  <2>1. ASSUME NEW i \in S!Folders PROVE folder'[i].stage \in {"open", "unused"}
    <3>1. CASE i = 1 /\ plan.dir # None
      <4>1. folder'[i] = [dir |-> plan.dir, gen |-> 1, stage |-> "open"] BY <1>1, <3>1 DEF S!Started
      <4>2. QED BY <4>1
    <3>2. CASE ~(i = 1 /\ plan.dir # None)
      <4>1. folder'[i] = S!Unused BY <1>1, <3>2 DEF S!Started
      <4>2. QED BY <4>1 DEF S!Unused
    <3>3. QED BY <3>1, <3>2
  <2>2. lastRelease' = None /\ \A i \in S!Folders : earlier'[i] = None BY <1>1 DEF S!Started
  <2>3. QED BY <2>1, <2>2
<1>3. \A i \in S!Folders : ~Gone(i)' BY <1>2 DEF Gone
<1>4. QED BY <1>2, <1>3 DEF OrderInv

(* Only Open, Release and the end of a release change a folder's stage.      *)
LEMMA OrderElsewhere ==
  ASSUME NEW c \in Callers,
         S!Choose(c) \/ S!Pick(c) \/ S!Connect(c) \/ S!Panic(c) \/ (S!Step(c) /\ ~S!Open(c) /\ ~S!Release(c))
  PROVE  UNCHANGED <<folder, earlier, lastRelease>>
<1> USE DEF S!folderVars
<1>1. ASSUME S!Choose(c) \/ S!Pick(c) \/ S!Connect(c) \/ S!Panic(c)
      PROVE  UNCHANGED <<folder, earlier, lastRelease>>
  BY <1>1 DEF S!Choose, S!Pick, S!Connect, S!Begin, S!Panic
<1>2. ASSUME S!Join(c) \/ S!Answer(c) \/ S!Clear(c) \/ S!AskMode(c) \/ S!AskFolder(c) \/ S!AskServer(c)
      PROVE  UNCHANGED <<folder, earlier, lastRelease>>
  BY <1>2 DEF S!Join, S!Answer, S!Clear, S!AskMode, S!AskFolder, S!AskServer
<1>3. ASSUME \/ S!Replace(c) \/ S!Read(c) \/ S!OpenTemp(c) \/ S!Write(c) \/ S!Rename(c)
             \/ S!WriteFails(c) \/ S!Changed(c)
      PROVE  UNCHANGED <<folder, earlier, lastRelease>>
  BY <1>3 DEF S!Replace, S!Read, S!OpenTemp, S!Write, S!Rename, S!WriteFails, S!Changed
<1>4. ASSUME S!BecomeLocal(c) \/ S!Home(c) \/ S!Leave(c) \/ S!ToConnectPage(c)
      PROVE  UNCHANGED <<folder, earlier, lastRelease>>
  BY <1>4 DEF S!BecomeLocal, S!Home, S!Leave, S!ToConnectPage
<1>5. ASSUME \/ S!Adopt(c) \/ S!HangUp(c) \/ S!Bump(c) \/ S!Take(c)
             \/ S!Slot(c) \/ S!Navigate(c) \/ S!Unpend(c)
      PROVE  UNCHANGED <<folder, earlier, lastRelease>>
  BY <1>5 DEF S!Adopt, S!HangUp, S!Bump, S!Take, S!Slot, S!Navigate, S!Unpend
<1>6. QED BY <1>1, <1>2, <1>3, <1>4, <1>5 DEF S!Step

LEMMA OrderNext ==
  ASSUME S!ShellAssumption, ShellInv, OrderInv, [S!Next]_(S!vars)
  PROVE  OrderInv'
<1>1. FoldersTyped BY DEF ShellInv
<1>2. ASSUME UNCHANGED <<folder, earlier, lastRelease>> PROVE OrderInv'
  <2>1. \A i \in S!Folders : Gone(i)' <=> Gone(i) BY <1>2 DEF Gone
  <2>2. QED BY <1>1, <1>2, <2>1, OrderStays
<1>3. CASE S!Start BY <1>3, OrderAtStart
<1>4. ASSUME NEW c \in Callers, S!Choose(c) \/ S!Pick(c) \/ S!Connect(c) \/ S!Panic(c) PROVE OrderInv'
  BY <1>2, <1>4, OrderElsewhere
<1>5. ASSUME NEW c \in Callers, S!Open(c) PROVE OrderInv'
  <2>1. UNCHANGED <<earlier, lastRelease>> BY <1>5 DEF S!Open
  <2>2. CASE UNCHANGED folder BY <1>2, <2>1, <2>2
  <2>3. CASE /\ S!FreeFolders # {}
             /\ folder' = [folder EXCEPT ![S!Least(S!FreeFolders)] =
                             [dir |-> job[c].target, gen |-> generation + 1, stage |-> "open"]]
    <3>1. PICK i \in S!Folders : i = S!Least(S!FreeFolders) /\ folder[i].stage = "unused"
      <4>1. S!FreeFolders # {} /\ S!FreeFolders \in SUBSET Nat BY <2>3 DEF S!FreeFolders, S!Folders
      <4>2. S!Least(S!FreeFolders) \in S!FreeFolders BY <4>1, LeastIsIn
      <4>3. QED BY <4>2 DEF S!FreeFolders
    <3>2. PICK row : row = [dir |-> job[c].target, gen |-> generation + 1, stage |-> "open"] OBVIOUS
    <3>3. row.stage = "open" /\ folder' = [folder EXCEPT ![i] = row] BY <2>3, <3>1, <3>2
    <3>4. folder'[i] = row /\ \A k \in S!Folders : k # i => folder'[k] = folder[k]
      BY <1>1, <3>1, <3>3 DEF FoldersTyped
    <3>5. \A k \in S!Folders : Gone(k)' <=> Gone(k) BY <3>1, <3>3, <3>4 DEF Gone
    <3>6. QED BY <1>1, <2>1, <3>5, OrderStays
  <2>4. QED BY <1>5, <2>2, <2>3 DEF S!Open
<1>6. ASSUME NEW c \in Callers, S!Release(c) PROVE OrderInv' BY <1>6, OrderAtRelease
<1>7. ASSUME NEW c \in Callers, S!Step(c), ~S!Open(c), ~S!Release(c) PROVE OrderInv'
  BY <1>2, <1>7, OrderElsewhere
<1>8. ASSUME NEW i \in S!Folders, S!CloseFolder(i) PROVE OrderInv'
  <2>1. /\ folder[i].stage = "released" /\ folder' = [folder EXCEPT ![i].stage = "closed"]
        /\ UNCHANGED <<earlier, lastRelease>>
    BY <1>8 DEF S!CloseFolder
  <2>2. folder'[i].stage = "closed" /\ \A k \in S!Folders : k # i => folder'[k] = folder[k]
    BY <1>1, <2>1 DEF FoldersTyped, FolderRows
  <2>3. \A k \in S!Folders : Gone(k)' <=> Gone(k) BY <2>1, <2>2 DEF Gone
  <2>4. QED BY <1>1, <2>1, <2>3, OrderStays
<1>9. ASSUME NEW i \in S!Folders, S!Adopted(i) PROVE OrderInv'
  <2>1. UNCHANGED <<folder, earlier, lastRelease>> BY <1>9 DEF S!Adopted
  <2>2. QED BY <1>2, <2>1
<1>10. CASE UNCHANGED S!vars
  <2>1. UNCHANGED <<folder, earlier, lastRelease>> BY <1>10 DEF S!vars, S!folderVars
  <2>2. QED BY <1>2, <2>1
<1>11. QED BY <1>3, <1>4, <1>5, <1>6, <1>7, <1>8, <1>9, <1>10 DEF S!Next

LEMMA OrderAtInit ==
  ASSUME S!Init
  PROVE  OrderInv
BY DEF S!Init, S!Unused, OrderInv, Gone

-----------------------------------------------------------------------------
(* What holds of the desktop app's library, for any threads, folders and     *)
(* servers, and however many calls and starts there are.                     *)

(* The types of the shell's state: what the threads of the app share, what   *)
(* each is doing, and what is in state.json (lib.rs, library.rs, state.rs).  *)
THEOREM ShellTypeCorrect ==
  ASSUME S!ShellAssumption PROVE S!Spec => []S!TypeOK
<1>1. ASSUME ShellInv PROVE S!TypeOK
  <2>1. \A q \in S!Questions : IF flight[q] = None THEN TRUE
          ELSE flight[q].leader \in Callers /\ flight[q].ready \in BOOLEAN
    BY <1>1 DEF ShellInv, FlightInv, S!Flights
  <2>2. ASSUME NEW c \in Callers
        PROVE  /\ job[c].at \in S!Stages
               /\ job[c].call \in S!Questions \cup {None} /\ job[c].asks \in S!Questions \cup {None}
               /\ job[c].inst \in S!Folders \cup {None}
               /\ job[c].target \in Dirs \cup Origins \cup {None}
               /\ job[c].was \in Origins \cup {None}
               /\ job[c].doc \in S!Docs \cup {None}
               /\ handle[c] \in {"temp", "target", "gone", None}
    BY <1>1, CallIs DEF Jobs, ShellInv, JobsInv
  <2>3. \A i \in S!Folders :
          /\ folder[i].dir \in Dirs \cup {None} /\ folder[i].gen \in 0 .. generation
          /\ folder[i].stage \in {"unused", "open", "released", "dropped", "closed"}
          /\ earlier[i] \in S!Folders \cup {None}
    BY <1>1 DEF ShellInv, FoldersTyped, FolderRows
  <2>4. /\ current \in S!Folders \cup {None} /\ lastRelease \in S!Folders \cup {None}
        /\ adopting \subseteq S!Folders /\ generation \in Nat
    BY <1>1 DEF ShellInv, FoldersTyped
  <2>5. /\ remote \in S!Servers \cup {None} /\ connectingTo \in Origins \cup {None}
        /\ server \in [S!Servers -> [origin : Origins \cup {None}, closed : BOOLEAN]] /\ agreed \subseteq Origins
    BY <1>1 DEF ShellInv, ServersTyped, Entries
  <2>6. /\ state \in S!Texts /\ temp \in S!Texts \cup {None}
        /\ {stale, alone, unwritten} \subseteq BOOLEAN
    BY <1>1 DEF ShellInv, FilesTyped
  <2>7. QED BY <2>1, <2>2, <2>3, <2>4, <2>5, <2>6 DEF S!TypeOK
<1>2. QED BY <1>1, ShellInvAlways, PTL

(* However calls, releases, panics and restarts overlap, once the last       *)
(* release is done every folder that was let go of is closed, unless one of  *)
(* them found no thread to be closed in (LibraryHost::settle_within); the    *)
(* only open connection to a server is the one in use, and that is to a      *)
(* server somebody agreed to (Shell::adopt_remote, release_remote,           *)
(* connect_remote).                                                          *)
THEOREM NothingIsLeaked ==
  ASSUME S!ShellAssumption
  PROVE  S!Spec => [](S!LastReleaseIsLast /\ S!NoServerLeftBehind /\ S!ServerWasConfirmed)
<1>1. ASSUME ShellInv PROVE S!LastReleaseIsLast /\ S!NoServerLeftBehind /\ S!ServerWasConfirmed
  <2>1. S!NoServerLeftBehind /\ S!ServerWasConfirmed BY <1>1 DEF ShellInv, ServerInv
  <2>2. ASSUME S!Done(lastRelease), \A k \in S!Folders : folder[k].stage # "dropped",
               NEW i \in S!Folders
        PROVE  folder[i].stage # "released"
    <3>1. PICK F \in SUBSET S!Folders : F = {k \in S!Folders : folder[k].stage = "closed"} OBVIOUS
    <3>2. lastRelease # None => lastRelease \in F
      BY <1>1, <2>2, <3>1 DEF S!Done, ShellInv, FoldersTyped
    <3>3. \A k \in F : earlier[k] # None => earlier[k] \in F
      BY <1>1, <2>2, <3>1 DEF ShellInv, FolderInv, FoldersTyped, S!Done
    <3>4. \A k \in S!Folders : Gone(k) => k \in F BY <1>1, <3>2, <3>3 DEF ShellInv, FolderInv
    <3>5. QED BY <3>1, <3>4 DEF Gone
  <2>3. QED BY <2>1, <2>2 DEF S!LastReleaseIsLast
<1>2. QED BY <1>1, ShellInvAlways, PTL

(* As long as calls do not overlap, once they are done at most one library   *)
(* is open, the next start opens it unless writing failed or the environment *)
(* chose, and the page has been told of every change of the library that     *)
(* answers it (Shell, remember_choice, plan_startup, ShellEvents).           *)
THEOREM ChoiceIsFollowedAlways ==
  ASSUME S!ShellAssumption PROVE S!Spec => []S!ChoiceIsFollowed
<1>1. ASSUME ShellInv PROVE S!ChoiceIsFollowed
  <2>1. SUFFICES ASSUME alone, S!Rest
                 PROVE  /\ remote # None => current = None
                        /\ ~unwritten /\ remote # None =>
                             S!Plan(S!ReadState(state)) = [dir |-> None, origin |-> S!RemoteOrigin]
                        /\ ~unwritten /\ current # None =>
                             S!Plan(S!ReadState(state)) = [dir |-> S!OpenDir, origin |-> None]
                        /\ ~stale
    BY DEF S!ChoiceIsFollowed, S!SwitchIsRemembered, S!PageIsFresh
  <2>2. \A c \in Callers : ~Busy(c)
    <3>1. TAKE c \in Callers
    <3>2. job[c].at = "idle" BY <2>1 DEF S!Rest, S!At
    <3>3. QED BY <1>1, <3>2, CallIs DEF Busy, Targets
  <2>3. Quiet BY <1>1, <2>1, <2>2 DEF ShellInv, LoneInv
  <2>4. QED BY <2>3 DEF Quiet, Switched, FolderKept, ServerKept, Saved
<1>2. QED BY <1>1, ShellInvAlways, PTL

(* While a caller waits for an answer, some caller is at a stage at which it *)
(* waits for nobody; while folders are let go of, one of them waits for no   *)
(* earlier one.                                                              *)
NoCircle ==
  /\ (\E c \in Callers : S!At(c, "wait")) => \E c \in Callers : job[c].at \notin {"idle", "wait"}
  /\ (\E i \in S!Folders : folder[i].stage = "released") =>
       \E i \in S!Folders : folder[i].stage = "released" /\ S!Done(earlier[i])

(* However many calls share questions, lead one while they wait for another, *)
(* panic or overlap with releases, neither the callers nor the releases wait *)
(* for one another in a circle (SingleFlight::run, LeaderGuard,              *)
(* LibraryHost::release).                                                    *)
THEOREM NobodyWaitsInACircle ==
  ASSUME S!ShellAssumption PROVE S!Spec => []NoCircle
<1>1. S!Init => OrderInv BY OrderAtInit
<1>2. ShellInv /\ OrderInv /\ [S!Next]_(S!vars) => OrderInv' BY OrderNext
<1>3. ASSUME ShellInv, OrderInv PROVE NoCircle
  <2>1. ASSUME NEW c \in Callers, S!At(c, "wait")
        PROVE  \E d \in Callers : job[d].at \notin {"idle", "wait"}
    <3>1. PICK t \in Jobs : t = job[c] /\ Targets(t) BY <1>3, CallIs
    <3>2. t.at = "wait" /\ t.asks \in S!Questions BY <2>1, <3>1 DEF S!At, Targets
    <3>3. ASSUME NEW q \in S!Questions, flight[q] # None
          PROVE  flight[q].leader \in Callers /\ Leads(job[flight[q].leader], q)
      BY <1>3, <3>3 DEF ShellInv, FlightInv, S!Flights
    <3>4. flight[t.asks] # None BY <1>3, <2>1, <3>1 DEF ShellInv, FlightInv
    <3>5. PICK d \in Callers : Leads(job[d], t.asks) BY <3>2, <3>3, <3>4
    <3>6. CASE job[d].at \notin {"idle", "wait"} BY <3>6
    <3>7. CASE job[d].at \in {"idle", "wait"}
      <4>1. job[d].asks = "folder" BY <3>5, <3>7 DEF Leads, Leading
      <4>2. job[d].at = "wait"
        <5>1. None # "folder" BY DEF S!ShellAssumption, S!Questions
        <5>2. job[d].at = "idle" => job[d] = S!Idle BY <1>3, CallIs DEF Targets
        <5>3. QED BY <3>7, <4>1, <5>1, <5>2, IdleIsAJob DEF Fields
      <4>3. flight["folder"] # None BY <1>3, <4>1, <4>2 DEF ShellInv, FlightInv, S!At
      <4>4. "folder" \in S!Questions BY DEF S!Questions
      <4>5. PICK e \in Callers : Leads(job[e], "folder") BY <3>3, <4>3, <4>4
      <4>6. job[e].at \in Leading BY <4>5 DEF Leads
      <4>7. QED BY <4>6 DEF Leading
    <3>8. QED BY <3>6, <3>7
  <2>2. ASSUME NEW k \in S!Folders, folder[k].stage = "released"
        PROVE  \E i \in S!Folders : folder[i].stage = "released" /\ S!Done(earlier[i])
    <3>1. PICK F \in SUBSET S!Folders : F = {i \in S!Folders : folder[i].stage = "released"} OBVIOUS
    <3>2. F # {} /\ \A i \in F : Gone(i) BY <2>2, <3>1 DEF Gone
    <3>3. PICK i \in F : earlier[i] \notin F BY <1>3, <3>2 DEF OrderInv
    <3>4. earlier[i] \in S!Folders \cup {None} BY <1>3 DEF ShellInv, FoldersTyped
    <3>5. earlier[i] # None => folder[earlier[i]].stage \in {"closed", "dropped"}
      <4>1. HAVE earlier[i] # None
      <4>2. Gone(earlier[i]) BY <1>3, <4>1 DEF OrderInv
      <4>3. QED BY <3>1, <3>3, <3>4, <4>1, <4>2 DEF Gone
    <3>6. S!Done(earlier[i]) BY <3>5 DEF S!Done
    <3>7. QED BY <3>1, <3>6
  <2>3. QED BY <2>1, <2>2 DEF NoCircle
<1>4. QED BY <1>1, <1>2, <1>3, ShellInvAlways, PTL DEF S!Spec
=============================================================================
