------------------------- MODULE PreviewQueue_proofs -------------------------
(* Proofs about PreviewQueue for every library: any files, contents, bounds, *)
(* classifier tables, and (where a theorem says so) any number of processes  *)
(* running the queue.                                                        *)
EXTENDS PreviewQueue, TLAPS

(* The records the actions write belong to their tables.                     *)
LEMMA RecordTypes ==
  /\ NoJob \in Jobs /\ IdleScan \in Scans
  /\ FreshPreview \in PreviewRows /\ NoPreview \in PreviewRows /\ Deleted \in PreviewRows
  /\ \A p \in PreviewRows : ResetPreview(p) \in PreviewRows
<1>1. 0 \in Versions /\ 0 \in 0 .. MaxAttempts
  BY BoundsAssumption DEF Versions
<1>2. NoJob \in Jobs /\ IdleScan \in Scans
  BY <1>1 DEF NoJob, Jobs, JobStates, IdleScan, Scans
<1>3. FreshPreview \in PreviewRows
  BY <1>1 DEF FreshPreview, PreviewRows
<1>4. NoPreview \in PreviewRows /\ Deleted \in PreviewRows
  BY <1>3 DEF NoPreview, Deleted, PreviewRows
<1>5. \A p \in PreviewRows : ResetPreview(p) \in PreviewRows
  BY <1>1 DEF ResetPreview, PreviewRows
<1>6. QED BY <1>2, <1>3, <1>4, <1>5

LEMMA FileRowType ==
  ASSUME NEW f \in Files, NEW m \in Versions, NEW h \in Versions
  PROVE  FileRow(f, m, h) \in FileRows
BY BoundsAssumption, TablesAssumption DEF FileRow, FileRows, Classifiers

LEMMA ClaimedType ==
  ASSUME NEW p \in PreviewRows, NEW t \in Instants, p.attempts < MaxAttempts
  PROVE  Claimed(p, t) \in PreviewRows
<1>1. p.attempts + 1 \in 0 .. MaxAttempts
  BY BoundsAssumption DEF PreviewRows
<1>2. QED BY <1>1 DEF PreviewRows, Claimed

LEMMA RecordedType ==
  ASSUME NEW p \in PreviewRows, NEW j \in Jobs, j.phase \in {"stored", "nothing", "broken"}
  PROVE  Recorded(p, j) \in PreviewRows
BY DEF Recorded, PreviewRows, Jobs, Outcomes

(* Where a rescan is about a file, the file is one of Files.                 *)
LEMMA ScanFile ==
  ASSUME NEW sc \in Scans, sc.at # "idle"
  PROVE  /\ sc.file \in Files /\ sc.seen \in Versions /\ sc.hashed \in Versions
         /\ \A a \in ScanStates \ {"idle"}, h \in Versions :
              [sc EXCEPT !.at = a, !.hashed = h] \in Scans
BY DEF Scans

LEMMA JobType ==
  ASSUME TypeOK, NEW r \in Runs, NEW f \in Files, NEW j \in Jobs, SetJob(r, f, j)
  PROVE  job' \in [Runs -> [Files -> Jobs]]
BY DEF TypeOK, SetJob

LEMMA ScanType ==
  ASSUME TypeOK, NEW s \in Scanners, NEW sc \in Scans, SetScan(s, sc)
  PROVE  scan' \in [Scanners -> Scans]
BY DEF TypeOK, SetScan

LEMMA PhaseType ==
  ASSUME NEW j \in Jobs, NEW p \in JobStates, NEW d \in Versions
  PROVE  /\ [j EXCEPT !.phase = p] \in Jobs
         /\ [j EXCEPT !.phase = p, !.drew = d] \in Jobs
BY DEF Jobs

(* TypeOK holds always: the two tables, the folder and the batches keep      *)
(* their shape, and no row is charged more than MAX_PREVIEW_ATTEMPTS claims. *)
THEOREM TypeCorrect == Spec => []TypeOK
<1>1. Init => TypeOK
  <2> SUFFICES ASSUME Init PROVE TypeOK
    OBVIOUS
  <2>1. row \in [Files -> FileRows]
    BY BoundsAssumption DEF Init, FileRows, Versions
  <2>2. 0 \in Versions /\ 0 \in Instants
    BY BoundsAssumption DEF Versions, Instants
  <2>3. QED BY <2>1, <2>2, RecordTypes DEF Init, TypeOK
<1>2. TypeOK /\ [Next]_vars => TypeOK'
  <2> SUFFICES ASSUME TypeOK, [Next]_vars PROVE TypeOK'
    OBVIOUS
  <2>1. CASE Tick
    BY <2>1, BoundsAssumption DEF TypeOK, Tick, Instants, dbVars, runVars, restVars
  <2>2. ASSUME NEW f \in Files, Save(f) PROVE TypeOK'
    <3>1. disk' \in [Files -> Versions]
      BY <2>2, BoundsAssumption DEF TypeOK, Save, Versions
    <3>2. QED BY <2>2, <3>1 DEF TypeOK, Save, dbVars, runVars, restVars
  <2>3. ASSUME NEW f \in Files, DeleteBytes(f) PROVE TypeOK'
    BY <2>3 DEF TypeOK, DeleteBytes, dbVars, runVars
  <2>4. ASSUME NEW f \in Files, DeleteRow(f) PROVE TypeOK'
    BY <2>4, RecordTypes DEF TypeOK, DeleteRow, runVars
  <2>5. ASSUME NEW r \in Runs, Run(r) PROVE TypeOK'
    <3>1. CASE BeginBatch(r)
      BY <3>1 DEF TypeOK, BeginBatch, dbVars, restVars
    <3>2. CASE ClaimBatch(r)
      <4>1. PICK batch \in SUBSET {f \in Files : Claimable(f, stamp[r])} :
              /\ pv' = [f \in Files |->
                      IF f \in batch
                      THEN Claimed(pv[f], stamp[r])
                      ELSE pv[f]]
              /\ job' = [job EXCEPT ![r] = [f \in Files |->
                      IF f \in batch
                      THEN QueuedJob(f)
                      ELSE NoJob]]
        BY <3>2 DEF ClaimBatch
      <4>2. \A f \in Files : QueuedJob(f) \in Jobs
        BY BoundsAssumption DEF TypeOK, QueuedJob, Jobs, JobStates, FileRows, Versions
      <4>3. \A f \in batch : Claimed(pv[f], stamp[r]) \in PreviewRows
        BY ClaimedType DEF TypeOK, Claimable
      <4>4. job' \in [Runs -> [Files -> Jobs]]
        BY <4>1, <4>2, RecordTypes DEF TypeOK
      <4>5. pv' \in [Files -> PreviewRows]
        BY <4>1, <4>3 DEF TypeOK
      <4>6. QED BY <3>2, <4>4, <4>5 DEF TypeOK, ClaimBatch, restVars
    <3>3. CASE Crash(r)
      BY <3>3, RecordTypes DEF TypeOK, Crash, dbVars, restVars
    <3>4. ASSUME NEW f \in Files, Work(r, f) PROVE TypeOK'
      <4> /\ job[r][f] \in Jobs /\ disk[f] \in Versions /\ pv[f] \in PreviewRows
          /\ Outcome[Content[f][disk[f]]] \in Outcomes
        BY TablesAssumption DEF TypeOK
      <4>1. CASE Draw(r, f)
        <5>1. Answered(Outcome[Content[f][disk[f]]]) \in JobStates
          BY DEF Answered, Outcomes, JobStates
        <5>2. [job[r][f] EXCEPT !.phase = Answered(Outcome[Content[f][disk[f]]]),
                                !.drew = disk[f]] \in Jobs
          BY <5>1, PhaseType
        <5>3. SetJob(r, f, [job[r][f] EXCEPT !.phase = Answered(Outcome[Content[f][disk[f]]]),
                                            !.drew = disk[f]])
          BY <4>1 DEF Draw
        <5>4. job' \in [Runs -> [Files -> Jobs]]
          BY <5>2, <5>3, JobType
        <5>5. QED BY <4>1, <5>4 DEF TypeOK, Draw, dbVars, restVars
      <4>2. CASE DrawFails(r, f) \/ StoreFails(r, f)
        <5>1. [job[r][f] EXCEPT !.phase = "broken"] \in Jobs
          BY PhaseType, BoundsAssumption DEF JobStates, Versions
        <5>2. job' \in [Runs -> [Files -> Jobs]]
          BY <4>2, <5>1, JobType DEF DrawFails, StoreFails
        <5>3. QED BY <4>2, <5>2 DEF TypeOK, DrawFails, StoreFails, dbVars, restVars
      <4>3. CASE StorePng(r, f)
        <5>1. [job[r][f] EXCEPT !.phase = "stored"] \in Jobs
          BY PhaseType, BoundsAssumption DEF JobStates, Versions
        <5>2. job' \in [Runs -> [Files -> Jobs]]
          BY <4>3, <5>1, JobType DEF StorePng
        <5>3. job[r][f].drew \in Versions
          BY DEF Jobs
        <5>4. QED BY <4>3, <5>2, <5>3 DEF TypeOK, StorePng, dbVars, restVars
      <4>4. CASE Finish(r, f)
        <5>1. job' \in [Runs -> [Files -> Jobs]]
          BY <4>4, JobType, RecordTypes DEF Finish
        <5>2. Recorded(pv[f], job[r][f]) \in PreviewRows
          BY <4>4, RecordedType DEF Finish
        <5>3. pv' \in [Files -> PreviewRows]
          BY <4>4, <5>2 DEF TypeOK, Finish
        <5>4. QED BY <4>4, <5>1, <5>3 DEF TypeOK, Finish, restVars
      <4>5. CASE FinishLost(r, f)
        <5>1. job' \in [Runs -> [Files -> Jobs]]
          BY <4>5, JobType, RecordTypes DEF FinishLost
        <5>2. QED BY <4>5, <5>1 DEF TypeOK, FinishLost, dbVars, restVars
      <4>6. QED BY <3>4, <4>1, <4>2, <4>3, <4>4, <4>5 DEF Work
    <3>5. QED BY <2>5, <3>1, <3>2, <3>3, <3>4 DEF Run
  <2>6. ASSUME NEW s \in Scanners, Scan(s) PROVE TypeOK'
    <3> scan[s] \in Scans /\ ScanStates \ {"idle"} = {"walked", "new", "changed", "stale",
                               "insert", "update", "restamp", "gone"}
      BY DEF TypeOK, ScanStates
    <3> USE DEF runVars, restVars
    <3>1. ASSUME NEW f \in Files, ScanWalk(s, f) PROVE TypeOK'
      <4>1. [at |-> IF f \in present THEN "walked" ELSE "gone",
             file |-> f, seen |-> disk[f], was |-> None, hashed |-> 0] \in Scans
        BY BoundsAssumption DEF TypeOK, Scans, Versions
      <4>2. QED BY <3>1, <4>1, ScanType DEF TypeOK, ScanWalk
    <3>2. CASE ScanMissing(s)
      BY <3>2 DEF TypeOK, ScanMissing
    <3>3. CASE ScanLookup(s)
      <4>0. \A a \in {"new", "changed"} : [scan[s] EXCEPT !.at = a] \in Scans
        BY <3>3 DEF ScanLookup, Scans
      <4>1. \A k \in Kinds : [scan[s] EXCEPT !.at = "stale", !.was = k] \in Scans
        BY <3>3 DEF ScanLookup, Scans
      <4>5. row[scan[s].file].kind \in Kinds
        BY <3>3, ScanFile DEF TypeOK, FileRows, ScanLookup
      <4>2. scan' \in [Scanners -> Scans]
        BY <3>3, <4>0, <4>1, <4>5, ScanType, RecordTypes DEF ScanLookup
      <4>3. QED BY <3>3, <4>2 DEF TypeOK, ScanLookup, dbVars
    <3>4. CASE ScanRead(s)
      <4>1. WriteOf(scan[s].at) \in ScanStates \ {"idle"} /\ scan[s].at # "idle"
        BY <3>4 DEF ScanRead, WriteOf
      <4>2. scan[s].file \in Files /\ disk[scan[s].file] \in Versions
        BY <4>1, ScanFile DEF TypeOK
      <4>3. [scan[s] EXCEPT !.at = WriteOf(scan[s].at), !.hashed = disk[scan[s].file]] \in Scans
        BY <4>1, <4>2, ScanFile
      <4>4. scan' \in [Scanners -> Scans]
        BY <3>4, <4>3, ScanType DEF ScanRead
      <4>5. QED BY <3>4, <4>4 DEF TypeOK, ScanRead, dbVars
    <3>5. CASE ScanSkip(s)
      BY <3>5, RecordTypes, ScanType DEF TypeOK, ScanSkip, dbVars
    <3> DEFINE f == scan[s].file
    <3>6. CASE ScanInsert(s)
      <4>1. f \in Files /\ FileRow(f, scan[s].seen, scan[s].hashed) \in FileRows
        BY <3>6, ScanFile, FileRowType DEF ScanInsert
      <4>5. \/ row' = row /\ pv' = pv
            \/ /\ \E k \in {FileRow(f, scan[s].seen, scan[s].hashed).kind} \cup Unopened[f] :
                    row' = [row EXCEPT ![f] =
                              [FileRow(f, scan[s].seen, scan[s].hashed) EXCEPT !.kind = k]]
               /\ pv' = [pv EXCEPT ![f] = FreshPreview]
        BY <3>6 DEF ScanInsert
      <4>6. \A k \in Kinds, new \in FileRows : [new EXCEPT !.kind = k] \in FileRows
        BY DEF FileRows
      <4>7. {FileRow(f, scan[s].seen, scan[s].hashed).kind} \cup Unopened[f] \subseteq Kinds
        BY <4>1, TablesAssumption DEF FileRows
      <4>2. row' \in [Files -> FileRows] /\ pv' \in [Files -> PreviewRows]
        <5>1. PICK new \in FileRows : new = FileRow(f, scan[s].seen, scan[s].hashed)
          BY <4>1
        <5>2. \/ row' = row /\ pv' = pv
              \/ /\ \E k \in Kinds : row' = [row EXCEPT ![f] = [new EXCEPT !.kind = k]]
                 /\ pv' = [pv EXCEPT ![f] = FreshPreview]
          BY <4>5, <4>7, <5>1
        <5>3. CASE row' = row /\ pv' = pv
          BY <5>3 DEF TypeOK
        <5>4. ASSUME NEW k \in Kinds, row' = [row EXCEPT ![f] = [new EXCEPT !.kind = k]],
                     pv' = [pv EXCEPT ![f] = FreshPreview]
              PROVE  row' \in [Files -> FileRows] /\ pv' \in [Files -> PreviewRows]
          <6>1. PICK n \in FileRows : n = [new EXCEPT !.kind = k]
            BY <4>6
          <6>2. row' = [row EXCEPT ![f] = n]
            BY <5>4, <6>1
          <6>3. QED BY <4>1, <5>4, <6>2, RecordTypes DEF TypeOK
        <5>5. QED BY <5>2, <5>3, <5>4
      <4>3. scan' \in [Scanners -> Scans]
        BY <3>6, RecordTypes, ScanType DEF ScanInsert
      <4>4. QED BY <3>6, <4>2, <4>3 DEF TypeOK, ScanInsert
    <3>7. CASE ScanUpdate(s)
      <4>1. f \in Files /\ FileRow(f, scan[s].seen, scan[s].hashed) \in FileRows
        BY <3>7, ScanFile, FileRowType DEF ScanUpdate
      <4>2. ResetPreview(pv[f]) \in PreviewRows
        BY <4>1, RecordTypes DEF TypeOK
      <4>3. \/ row' = row /\ pv' = pv
            \/ /\ row' = [row EXCEPT ![f] = FileRow(f, scan[s].seen, scan[s].hashed)]
               /\ pv' = pv \/ pv' = [pv EXCEPT ![f] = ResetPreview(@)]
        BY <3>7 DEF ScanUpdate
      <4>7. requeued' \in [Runs -> SUBSET Files]
        BY <3>7, <4>1 DEF TypeOK, ScanUpdate, Requeue
      <4>5. row' \in [Files -> FileRows] /\ pv' \in [Files -> PreviewRows]
        <5>1. CASE pv' = pv
          BY <4>1, <4>3, <5>1 DEF TypeOK
        <5>2. CASE pv' = [pv EXCEPT ![f] = ResetPreview(@)]
          BY <4>1, <4>2, <4>3, <5>2 DEF TypeOK
        <5>3. QED BY <4>3, <5>1, <5>2
      <4>4. scan' \in [Scanners -> Scans]
        BY <3>7, RecordTypes, ScanType DEF ScanUpdate
      <4>6. QED BY <3>7, <4>5, <4>4, <4>7 DEF TypeOK, ScanUpdate
    <3>8. CASE ScanRestamp(s)
      <4> DEFINE kind == Kind[ClassifierVersion][Content[f][scan[s].hashed]]
      <4>1. f \in Files /\ scan[s].hashed \in Versions
        BY <3>8, ScanFile DEF ScanRestamp
      <4>2. kind \in Kinds /\ ClassifierVersion \in Classifiers
        BY <4>1, BoundsAssumption, TablesAssumption DEF Classifiers
      <4>3. ResetPreview(pv[f]) \in PreviewRows /\ row[f] \in FileRows
        BY <4>1, RecordTypes DEF TypeOK
      <4> HIDE DEF kind
      <4>4. [row[f] EXCEPT !.kind = kind, !.by = ClassifierVersion] \in FileRows
        BY <4>2, <4>3 DEF FileRows
      <4> USE DEF kind
      <4>5. row' \in [Files -> FileRows] /\ pv' \in [Files -> PreviewRows]
        BY SMTT(60), <3>8, <4>1, <4>3, <4>4 DEF TypeOK, ScanRestamp
      <4>6. scan' \in [Scanners -> Scans]
        BY <3>8, RecordTypes, ScanType DEF ScanRestamp
      <4>7. requeued' \in [Runs -> SUBSET Files]
        BY <3>8, <4>1 DEF TypeOK, ScanRestamp, Requeue
      <4>8. QED BY <3>8, <4>5, <4>6, <4>7 DEF TypeOK, ScanRestamp
    <3>9. CASE ScanDrop(s)
      BY <3>9, RecordTypes, ScanType DEF TypeOK, ScanDrop
    <3>10. QED BY <2>6, <3>1, <3>2, <3>3, <3>4, <3>5, <3>6, <3>7, <3>8, <3>9 DEF Scan
  <2>7. CASE UNCHANGED vars
    BY <2>7 DEF TypeOK, vars, dbVars, runVars, restVars
  <2>8. QED BY <2>1, <2>2, <2>3, <2>4, <2>5, <2>6, <2>7 DEF Next, User
<1>3. QED BY <1>1, <1>2, PTL DEF Spec

-----------------------------------------------------------------------------
(* One writer per row, for any number of processes.                          *)

LEMMA JobAfter ==
  ASSUME TypeOK, NEW r \in Runs, NEW f \in Files, NEW j, SetJob(r, f, j)
  PROVE  \A q \in Runs, g \in Files :
           job'[q][g] = IF q = r /\ g = f THEN j ELSE job[q][g]
BY DEF TypeOK, SetJob

LEMMA Numbers ==
  ASSUME TypeOK
  PROVE  /\ \A f \in Files : /\ disk[f] \in Nat /\ row[f].hashed \in Nat /\ row[f].mtime \in Nat
                             /\ pv[f].source # None => pv[f].source \in Nat
         /\ \A r \in Runs : stamp[r] # None
         /\ \A r \in Runs, f \in Files : job[r][f].hashed \in Nat /\ job[r][f].drew \in Nat
         /\ \A s \in Scanners : scan[s].seen \in Nat /\ scan[s].hashed \in Nat
BY NoneAssumption, BoundsAssumption
   DEF TypeOK, FileRows, PreviewRows, Jobs, Scans, Versions, Instants

(* What a run has in flight, if its step only moves or ends jobs.            *)
LEMMA NoNewJob ==
  ASSUME TypeOK, NEW r \in Runs, NEW g \in Files, Work(r, g)
  PROVE  \A q \in Runs, f \in Files : InFlight(q, f)' => InFlight(q, f)
<1>1. job[r][g].phase # "none" /\ \E j : SetJob(r, g, j)
  BY DEF Work, Draw, DrawFails, StorePng, StoreFails, Finish, FinishLost
<1>2. QED BY <1>1, JobAfter DEF InFlight

(* A file whose row no step put back in the queue and whose jobs none began: *)
(* what TokenInv says of it still holds.                                     *)
LEMMA TokenFrame ==
  ASSUME NEW f \in Files, TokenInv(f),
         \A r \in Runs : InFlight(r, f)' => InFlight(r, f) /\ stamp'[r] = stamp[r],
         \A r \in Runs : f \in requeued[r] => f \in requeued'[r],
         pv'[f].state = "none" => pv[f].state = "none",
         pv'[f].state = "pending" => pv[f].state = "pending" /\ pv'[f].claimed = pv[f].claimed
  PROVE  TokenInv(f)'
BY DEF TokenInv, InFlight

(* And a row put back in the queue owes nothing to the jobs in flight.       *)
LEMMA TokenRequeue ==
  ASSUME NEW f \in Files, TokenInv(f), UNCHANGED <<job, stamp>>, pv'[f].state # "none",
         \A r \in Runs : InFlight(r, f) => f \in requeued'[r]
  PROVE  TokenInv(f)'
BY DEF TokenInv, InFlight

LEMMA TokenClaim ==
  ASSUME TypeOK, \A f \in Files : TokenInv(f), NEW r \in Runs, ClaimBatch(r)
  PROVE  \A f \in Files : TokenInv(f)'
<1>1. PICK batch \in SUBSET {f \in Files : Claimable(f, stamp[r])} :
        /\ pv' = [f \in Files |->
                IF f \in batch THEN Claimed(pv[f], stamp[r]) ELSE pv[f]]
        /\ job' = [job EXCEPT ![r] = [f \in Files |->
                IF f \in batch THEN QueuedJob(f) ELSE NoJob]]
  BY DEF ClaimBatch
<1>2. stamp' = stamp /\ requeued' = [requeued EXCEPT ![r] = {}]
  BY DEF ClaimBatch
<1> SUFFICES ASSUME NEW f \in Files PROVE TokenInv(f)'
  OBVIOUS
<1>3. /\ pv'[f].state = pv[f].state /\ (f \notin batch => pv'[f] = pv[f])
      /\ f \in batch => /\ pv[f].state = "pending" /\ pv'[f].claimed = stamp[r]
                        /\ pv[f].claimed = None \/ pv[f].claimed + Lease <= stamp[r]
  BY <1>1 DEF Claimable, Claimed, TypeOK, PreviewRows
<1>4. /\ \A q \in Runs \ {r} : job'[q] = job[q] /\ requeued'[q] = requeued[q]
      /\ InFlight(r, f)' => f \in batch
  BY <1>1, <1>2 DEF TypeOK, InFlight, NoJob
<1>5. CASE f \notin batch
  BY <1>2, <1>3, <1>4, <1>5 DEF TokenInv, InFlight
<1>6. CASE f \in batch
  <2>1. stamp \in [Runs -> Nat] /\ stamp[r] # None /\ Lease \in Nat \ {0}
    BY BoundsAssumption, Numbers DEF TypeOK, Instants
  <2>2. pv[f].claimed # None => pv[f].claimed \in Nat
    BY DEF TypeOK, PreviewRows, Instants
  <2>3. ASSUME NEW q \in Runs \ {r}, InFlight(q, f), f \notin requeued[q]
        PROVE  stamp[q] < stamp[r]
    <3>1. pv[f].claimed # None /\ stamp[q] <= pv[f].claimed
      BY <1>3, <1>6, <2>3 DEF TokenInv
    <3>2. QED BY <1>3, <1>6, <2>1, <2>2, <3>1
  <2>4. ASSUME NEW q \in Runs
        PROVE  /\ pv'[f].state # "none"
               /\ InFlight(q, f)' /\ f \notin requeued'[q] =>
                    pv'[f].claimed # None /\ stamp'[q] <= pv'[f].claimed
    <3>1. CASE q = r
      BY <1>2, <1>3, <1>6, <2>1, <3>1
    <3>2. CASE q # r
      <4>1. InFlight(q, f)' /\ f \notin requeued'[q] => stamp[q] < stamp[r]
        BY <1>4, <2>3, <3>2 DEF InFlight
      <4>2. QED BY <1>2, <1>3, <1>6, <2>1, <4>1
    <3>3. QED BY <3>1, <3>2
  <2>5. ASSUME NEW p \in Runs, NEW q \in Runs, stamp'[p] = stamp'[q], p # q,
               InFlight(p, f)', f \notin requeued'[p], InFlight(q, f)', f \notin requeued'[q]
        PROVE  FALSE
    <3>1. CASE p # r /\ q # r
      BY <1>2, <1>4, <2>5, <3>1 DEF TokenInv, InFlight
    <3>2. CASE p = r
      <4>1. stamp[q] < stamp[r]
        BY <1>4, <2>3, <2>5, <3>2 DEF InFlight
      <4>2. QED BY <1>2, <2>1, <2>5, <3>2, <4>1
    <3>3. CASE q = r
      <4>1. stamp[p] < stamp[r]
        BY <1>4, <2>3, <2>5, <3>3 DEF InFlight
      <4>2. QED BY <1>2, <2>1, <2>5, <3>3, <4>1
    <3>4. QED BY <3>1, <3>2, <3>3
  <2>6. QED BY <2>4, <2>5 DEF TokenInv
<1>7. QED BY <1>5, <1>6

LEMMA TokenScan ==
  ASSUME TypeOK, \A f \in Files : TokenInv(f), NEW s \in Scanners, Scan(s)
  PROVE  \A f \in Files : TokenInv(f)'
<1> SUFFICES ASSUME NEW f \in Files PROVE TokenInv(f)'
  OBVIOUS
<1>1. job' = job /\ stamp' = stamp
  BY DEF Scan, ScanWalk, ScanMissing, ScanLookup, ScanRead, ScanSkip, ScanInsert,
         ScanUpdate, ScanRestamp, ScanDrop, runVars
<1>2. CASE UNCHANGED <<pv, requeued>>
  BY <1>1, <1>2, TokenFrame DEF InFlight
<1>3. CASE ScanInsert(s)
  <2>1. requeued' = requeued
    BY <1>3 DEF ScanInsert, restVars
  <2>2. CASE f = scan[s].file /\ pv[f].state = "none"
    <3>1. \A r \in Runs : ~InFlight(r, f)
      BY <2>2 DEF TokenInv
    <3>2. pv'[f].state = "pending"
      BY <1>3, <2>2 DEF ScanInsert, FreshPreview, TypeOK
    <3>3. QED BY <1>1, <3>1, <3>2, TokenRequeue
  <2>3. CASE ~(f = scan[s].file /\ pv[f].state = "none")
    <3>1. pv'[f] = pv[f]
      BY <1>3, <2>3 DEF ScanInsert, TypeOK
    <3>2. QED BY <1>1, <2>1, <3>1, TokenFrame DEF InFlight
  <2>4. QED BY <2>2, <2>3
<1>4. CASE /\ ScanUpdate(s) \/ ScanRestamp(s)
           /\ pv' = [pv EXCEPT ![scan[s].file] = ResetPreview(@)] /\ Requeue(scan[s].file)
  <2>1. CASE f = scan[s].file
    <3>1. pv'[f].state = "pending"
      BY <1>4, <2>1 DEF TypeOK, ResetPreview, PreviewRows
    <3>2. \A r \in Runs : InFlight(r, f) => f \in requeued'[r]
      BY <1>4, <2>1 DEF Requeue, InFlight
    <3>3. QED BY <1>1, <3>1, <3>2, TokenRequeue
  <2>2. CASE f # scan[s].file
    <3>1. pv'[f] = pv[f] /\ \A r \in Runs : f \in requeued[r] => f \in requeued'[r]
      BY <1>4, <2>2 DEF Requeue, TypeOK
    <3>2. QED BY <1>1, <3>1, TokenFrame DEF InFlight
  <2>3. QED BY <2>1, <2>2
<1>5. CASE ScanDrop(s)
  <2>1. pv'[f] = pv[f] \/ pv'[f].state = "deleted"
    BY <1>5 DEF ScanDrop, Deleted, FreshPreview, TypeOK
  <2>2. requeued' = requeued
    BY <1>5 DEF ScanDrop, restVars
  <2>3. QED BY <1>1, <2>1, <2>2, TokenFrame DEF InFlight
<1>6. QED BY <1>2, <1>3, <1>4, <1>5
          DEF Scan, ScanWalk, ScanMissing, ScanLookup, ScanRead, ScanSkip,
              ScanUpdate, ScanRestamp, dbVars, restVars

LEMMA TokenStep ==
  ASSUME TypeOK, \A f \in Files : TokenInv(f), [Next]_vars
  PROVE  \A f \in Files : TokenInv(f)'
<1>1. ASSUME UNCHANGED <<pv, stamp, job, requeued>> PROVE \A f \in Files : TokenInv(f)'
  BY <1>1, TokenFrame DEF InFlight
<1>2. CASE Tick \/ UNCHANGED vars
  BY <1>1, <1>2 DEF Tick, vars, dbVars, runVars, restVars
<1>3. ASSUME NEW g \in Files, User(g) PROVE \A f \in Files : TokenInv(f)'
  <2>1. CASE Save(g) \/ DeleteBytes(g)
    BY <1>1, <2>1 DEF Save, DeleteBytes, dbVars, runVars, restVars
  <2>2. CASE DeleteRow(g)
    <3>1. UNCHANGED <<stamp, job, requeued>>
      BY <2>2 DEF DeleteRow, runVars
    <3>2. \A f \in Files : pv'[f] = pv[f] \/ pv'[f].state = "deleted"
      BY <2>2 DEF DeleteRow, Deleted, FreshPreview, TypeOK
    <3>3. QED BY <3>1, <3>2, TokenFrame DEF InFlight
  <2>3. QED BY <1>3, <2>1, <2>2 DEF User
<1>4. ASSUME NEW r \in Runs, Run(r) PROVE \A f \in Files : TokenInv(f)'
  <2>1. CASE BeginBatch(r)
    <3>1. /\ UNCHANGED <<pv, job, requeued>>
          /\ \A f \in Files, q \in Runs : InFlight(q, f) => stamp'[q] = stamp[q]
      BY <2>1 DEF BeginBatch, JobsOf, InFlight, TypeOK, dbVars, restVars
    <3>2. QED BY <3>1, TokenFrame DEF InFlight
  <2>2. CASE ClaimBatch(r)
    BY <2>2, TokenClaim
  <2>3. CASE Crash(r)
    <3>1. /\ UNCHANGED <<pv, stamp, requeued>>
          /\ \A f \in Files, q \in Runs : InFlight(q, f)' => InFlight(q, f)
      BY <2>3 DEF Crash, InFlight, NoJob, TypeOK, dbVars, restVars
    <3>2. QED BY <3>1, TokenFrame
  <2>4. ASSUME NEW g \in Files, Work(r, g) PROVE \A f \in Files : TokenInv(f)'
    <3>1. UNCHANGED <<stamp, requeued>>
      BY <2>4 DEF Work, Draw, DrawFails, StorePng, StoreFails, Finish, FinishLost, restVars
    <3>2. \A f \in Files : pv'[f] = pv[f] \/ pv'[f].state \in Outcomes
      <4>1. CASE pv' = pv
        BY <4>1
      <4>2. CASE pv' # pv
        <5>1. /\ pv' = [pv EXCEPT ![g] = Recorded(@, job[r][g])]
              /\ job[r][g].phase \in {"stored", "nothing", "broken"}
          BY <2>4, <4>2 DEF Work, Draw, DrawFails, StorePng, StoreFails, Finish, FinishLost, dbVars
        <5>2. Recorded(pv[g], job[r][g]).state \in Outcomes
          BY <5>1 DEF Recorded, TypeOK, PreviewRows, Outcomes
        <5>3. QED BY <5>1, <5>2 DEF TypeOK
      <4>3. QED BY <4>1, <4>2
    <3>3. \A f \in Files : pv'[f] = pv[f] \/ pv'[f].state \notin {"none", "pending"}
      BY <3>2 DEF Outcomes
    <3>4. QED BY <2>4, <3>1, <3>3, NoNewJob, TokenFrame
  <2>5. QED BY <1>4, <2>1, <2>2, <2>3, <2>4 DEF Run
<1>5. QED BY <1>2, <1>3, <1>4, TokenScan DEF Next

(* OneOwner: of the jobs claimed since a row was last queued at most one     *)
(* still owns it, for any number of processes and rescans, any clock and any *)
(* lease: a claim never takes a stamp that such a job already holds.         *)
THEOREM OneOwnerAlways == Spec => []OneOwner
<1>1. Init => \A f \in Files : TokenInv(f)
  BY DEF Init, TokenInv, InFlight, NoJob
<1>2. TypeOK /\ (\A f \in Files : TokenInv(f)) /\ [Next]_vars => (\A f \in Files : TokenInv(f))'
  BY TokenStep
<1>3. (\A f \in Files : TokenInv(f)) => OneOwner
  BY DEF TokenInv, OneOwner, Owns
<1>4. QED BY <1>1, <1>2, <1>3, TypeCorrect, PTL DEF Spec

-----------------------------------------------------------------------------
(* The recorded hash, for any number of processes, one rescan at a time and  *)
(* files that never go back to bytes they had.                               *)

OneScanner == \A s, t \in Scanners : s = t
QueueData ==
  /\ \A f \in Files : RowInv(f) /\ OutcomeInv(f) /\ \A r \in Runs : JobInv(r, f)
  /\ \A s \in Scanners : ScanInv(s)

LEMMA ScanAfter ==
  ASSUME TypeOK, NEW s \in Scanners, NEW sc, SetScan(s, sc)
  PROVE  \A t \in Scanners : scan'[t] = IF t = s THEN sc ELSE scan[t]
BY DEF TypeOK, SetScan

(* What an idle or walking rescan must satisfy is little.                    *)
LEMMA IdleScanInv ==
  ASSUME NEW s \in Scanners, scan'[s].at \in {"idle", "gone"}
  PROVE  ScanInv(s)'
BY DEF ScanInv

(* Steps that touch none of the variables QueueData speaks of.               *)
LEMMA DataFrame ==
  ASSUME QueueData, UNCHANGED <<disk, row, pv, stamp, job, scan>>
  PROVE  QueueData'
BY DEF QueueData, RowInv, OutcomeInv, JobInv, ScanInv, DrawnSince, HasRow, Owns, SameBytes

LEMMA SaveStep ==
  ASSUME TypeOK, QueueData, NEW f \in Files, Save(f)
  PROVE  QueueData'
<1>1. /\ UNCHANGED <<row, pv, stamp, job, scan>>
      /\ \A g \in Files : disk[g] <= disk'[g] /\ disk'[g] \in Nat
  BY Numbers DEF Save, dbVars, runVars, TypeOK
<1>2. \A g \in Files, h, d \in Nat : DrawnSince(g, h, d) => DrawnSince(g, h, d)'
  BY <1>1, Numbers DEF DrawnSince, SameBytes
<1>3. ASSUME NEW g \in Files PROVE RowInv(g)'
  BY <1>1, Numbers DEF QueueData, RowInv, HasRow
<1>4. ASSUME NEW g \in Files PROVE OutcomeInv(g)'
  BY <1>1, <1>2, BoundsAssumption DEF QueueData, OutcomeInv, SameBytes, Versions
<1>5. ASSUME NEW g \in Files, NEW r \in Runs PROVE JobInv(r, g)'
  BY <1>1, <1>2, Numbers DEF QueueData, JobInv, Owns, SameBytes
<1>6. ASSUME NEW s \in Scanners PROVE ScanInv(s)'
  <2>1. scan[s].at # "idle" => scan[s].file \in Files
    BY ScanFile DEF TypeOK
  <2>2. QED BY <1>1, <2>1, Numbers DEF QueueData, ScanInv, HasRow
<1>7. QED BY <1>3, <1>4, <1>5, <1>6 DEF QueueData

(* A row that goes away takes its obligations with it.                       *)
LEMMA DropStep ==
  ASSUME TypeOK, QueueData, NEW f \in Files,
         pv' = [pv EXCEPT ![f] = Deleted], UNCHANGED <<disk, row, stamp, job>>,
         \A s \in Scanners : scan'[s] = scan[s] \/ scan'[s].at = "idle"
  PROVE  QueueData'
<1>1. pv'[f].state = "deleted" /\ \A g \in Files \ {f} : pv'[g] = pv[g]
  BY DEF TypeOK, Deleted, FreshPreview
<1>2. ASSUME NEW g \in Files PROVE RowInv(g)' /\ OutcomeInv(g)'
  BY <1>1 DEF QueueData, RowInv, OutcomeInv, DrawnSince, HasRow, SameBytes
<1>3. ASSUME NEW g \in Files, NEW r \in Runs PROVE JobInv(r, g)'
  BY <1>1 DEF QueueData, JobInv, DrawnSince, Owns, SameBytes
<1>4. ASSUME NEW s \in Scanners PROVE ScanInv(s)'
  <2>1. CASE scan'[s].at = "idle"
    BY <2>1, IdleScanInv
  <2>2. CASE scan'[s] = scan[s] /\ scan[s].at # "idle"
    <3>1. scan[s].file \in Files
      BY <2>2, ScanFile DEF TypeOK
    <3>2. QED BY <1>1, <2>2, <3>1 DEF QueueData, ScanInv, HasRow
  <2>3. QED BY <2>1, <2>2
<1>5. QED BY <1>2, <1>3, <1>4 DEF QueueData

LEMMA BeginStep ==
  ASSUME TypeOK, QueueData, NEW r \in Runs, BeginBatch(r)
  PROVE  QueueData'
<1>1. /\ UNCHANGED <<disk, row, pv, job, scan>>
      /\ \A f \in Files : job[r][f].phase = "none"
      /\ \A q \in Runs : q # r => stamp'[q] = stamp[q]
  BY DEF BeginBatch, JobsOf, dbVars, TypeOK
<1>2. ASSUME NEW f \in Files, NEW q \in Runs PROVE JobInv(q, f)'
  BY <1>1 DEF QueueData, JobInv, DrawnSince, Owns, SameBytes
<1>3. QED BY <1>1, <1>2
          DEF QueueData, RowInv, OutcomeInv, ScanInv, DrawnSince, HasRow, SameBytes

LEMMA ClaimStep ==
  ASSUME TypeOK, TokensApart', QueueData, NEW r \in Runs, ClaimBatch(r)
  PROVE  QueueData'
<1>1. PICK batch \in SUBSET {f \in Files : Claimable(f, stamp[r])} :
        /\ pv' = [f \in Files |->
                IF f \in batch THEN Claimed(pv[f], stamp[r]) ELSE pv[f]]
        /\ job' = [job EXCEPT ![r] = [f \in Files |->
                IF f \in batch THEN QueuedJob(f) ELSE NoJob]]
  BY DEF ClaimBatch
<1>2. UNCHANGED <<disk, row, stamp, scan>>
  BY DEF ClaimBatch
<1>3. \A f \in Files : /\ pv'[f].state = pv[f].state /\ pv'[f].source = pv[f].source
                       /\ f \in batch => pv[f].state = "pending" /\ pv'[f].claimed = stamp[r]
                       /\ f \notin batch => pv'[f] = pv[f]
  <2> SUFFICES ASSUME NEW f \in Files
               PROVE  /\ pv'[f].state = pv[f].state /\ pv'[f].source = pv[f].source
                      /\ f \in batch => pv[f].state = "pending" /\ pv'[f].claimed = stamp[r]
                      /\ f \notin batch => pv'[f] = pv[f]
    OBVIOUS
  <2>1. CASE f \notin batch
    BY <1>1, <2>1
  <2>2. CASE f \in batch
    BY <1>1, <2>2 DEF Claimable, Claimed, TypeOK, PreviewRows
  <2>3. QED BY <2>1, <2>2
<1>4. ASSUME NEW f \in Files PROVE RowInv(f)' /\ OutcomeInv(f)'
  BY <1>2, <1>3 DEF QueueData, RowInv, OutcomeInv, DrawnSince, HasRow, SameBytes
<1>5. ASSUME NEW s \in Scanners PROVE ScanInv(s)'
  <2>1. CASE scan[s].at = "idle"
    BY <2>1, <1>2 DEF ScanInv
  <2>2. CASE scan[s].at # "idle"
    <3>1. scan[s].file \in Files
      BY <2>2, ScanFile DEF TypeOK
    <3>2. QED BY <1>2, <1>3, <3>1 DEF QueueData, ScanInv, HasRow
  <2>3. QED BY <2>1, <2>2
<1>6. ASSUME NEW f \in Files, NEW q \in Runs PROVE JobInv(q, f)'
  <2>1. CASE q = r
    <3>1. job'[r][f] = IF f \in batch THEN QueuedJob(f) ELSE NoJob
      BY <1>1 DEF TypeOK
    <3>2. QED BY <1>2, <2>1, <3>1, Numbers DEF JobInv, QueuedJob, NoJob, SameBytes
  <2>2. CASE q # r /\ f \notin batch
    BY <1>1, <1>2, <1>3, <2>2 DEF QueueData, JobInv, DrawnSince, Owns, SameBytes, TypeOK
  <2>3. CASE q # r /\ f \in batch
    <3>1. job'[q][f] = job[q][f]
      BY <1>1, <2>3 DEF TypeOK
    <3>4. InFlight(r, f)'
      BY <1>1, <2>3 DEF InFlight, QueuedJob, TypeOK
    <3>2. job[q][f].phase # "none" => stamp[q] # stamp[r]
      BY <1>2, <2>3, <3>1, <3>4 DEF TokensApart, InFlight
    <3>3. QED BY <1>2, <1>3, <2>3, <3>1, <3>2 DEF JobInv, Owns
  <2>4. QED BY <2>1, <2>2, <2>3
<1>7. QED BY <1>4, <1>5, <1>6 DEF QueueData

(* A job that moves on without touching the tables: what it must satisfy is  *)
(* said of its own record only.                                              *)
LEMMA JobStep ==
  ASSUME TypeOK, QueueData, NEW r \in Runs, NEW f \in Files, NEW j, SetJob(r, f, j),
         UNCHANGED <<disk, row, pv, stamp, scan>>, JobInv(r, f)'
  PROVE  QueueData'
<1>1. ASSUME NEW g \in Files, NEW q \in Runs PROVE JobInv(q, g)'
  <2>1. CASE q = r /\ g = f
    BY <2>1
  <2>2. CASE ~(q = r /\ g = f)
    <3>1. job'[q][g] = job[q][g]
      BY <2>2, JobAfter
    <3>2. QED BY <3>1 DEF QueueData, JobInv, DrawnSince, Owns, SameBytes
  <2>3. QED BY <2>1, <2>2
<1>2. QED BY <1>1
          DEF QueueData, RowInv, OutcomeInv, ScanInv, DrawnSince, HasRow, SameBytes

LEMMA FinishStep ==
  ASSUME TypeOK, QueueData, NEW r \in Runs, NEW f \in Files, Finish(r, f)
  PROVE  QueueData'
<1>1. /\ job[r][f].phase \in {"stored", "nothing", "broken"}
      /\ UNCHANGED <<disk, row, stamp, scan>> /\ SetJob(r, f, NoJob)
      /\ \A q \in Runs, g \in Files :
           job'[q][g].phase # "none" => job'[q][g] = job[q][g]
  BY JobAfter DEF Finish, NoJob
<1>2. CASE ~Owns(r, f)
  <2>1. pv' = pv
    BY <1>2 DEF Finish
  <2>2. JobInv(r, f)'
    BY <1>1, JobAfter DEF JobInv, NoJob
  <2>3. QED BY <1>1, <2>1, <2>2, JobStep
<1>3. CASE Owns(r, f)
  <2>0. PICK phase \in JobStates, h \in Versions, d \in Versions :
          job[r][f] = [phase |-> phase, hashed |-> h, drew |-> d]
    BY DEF TypeOK, Jobs
  <2>1. /\ pv'[f] = Recorded(pv[f], job[r][f]) /\ \A g \in Files \ {f} : pv'[g] = pv[g]
    BY <1>3 DEF Finish, TypeOK
  <2>2. /\ pv[f].state = "pending" /\ HasRow(f)
        /\ h <= row[f].hashed /\ SameBytes(f, h, row[f].hashed)
        /\ phase = "nothing" => DrawnSince(f, h, d) /\ Outcome[Content[f][d]] = "unsupported"
    BY <1>1, <1>3, <2>0 DEF QueueData, JobInv, Owns, HasRow
  <2>3. /\ phase \in {"stored", "nothing", "broken"}
        /\ phase = "stored" => pv'[f].state = "ready" /\ pv'[f].source = h
        /\ phase = "nothing" => pv'[f].state = "unsupported" /\ pv'[f].source = pv[f].source
        /\ phase = "broken" => pv'[f].state = "failed" /\ pv'[f].source = pv[f].source
    BY <1>1, <2>0, <2>1 DEF Recorded, TypeOK, PreviewRows
  <2>4. pv'[f].state # "pending"
    BY <2>3
  <2>5. ASSUME NEW g \in Files PROVE RowInv(g)' /\ OutcomeInv(g)'
    <3>1. CASE g # f
      BY <1>1, <2>1, <3>1 DEF QueueData, RowInv, OutcomeInv, DrawnSince, HasRow, SameBytes
    <3>2. CASE g = f
      <4>0. row' = row /\ disk' = disk
        BY <1>1
      <4>1. RowInv(f)'
        BY <4>0, <2>2, <2>3, Numbers DEF QueueData, RowInv, HasRow
      <4>2. ASSUME phase = "stored" PROVE OutcomeInv(f)'
        <5>1. h # None
          BY BoundsAssumption, NoneAssumption DEF Versions
        <5>2. QED BY <2>2, <2>3, <4>0, <4>2, <5>1 DEF OutcomeInv, SameBytes
      <4>3. ASSUME phase = "nothing" PROVE OutcomeInv(f)'
        <5>1. pv'[f].state = "unsupported"
          BY <2>3, <4>3
        <5>2. DrawnSince(f, h, d)' /\ Outcome[Content[f][d]] = "unsupported"
          BY <2>2, <4>0, <4>3 DEF DrawnSince, SameBytes
        <5>3. QED BY <5>1, <5>2 DEF OutcomeInv
      <4>4. ASSUME phase = "broken" PROVE OutcomeInv(f)'
        BY <2>3, <4>4 DEF OutcomeInv
      <4>5. QED BY <2>3, <3>2, <4>1, <4>2, <4>3, <4>4
    <3>3. QED BY <3>1, <3>2
  <2>6. ASSUME NEW g \in Files, NEW q \in Runs PROVE JobInv(q, g)'
    <3>1. CASE g # f
      BY <1>1, <2>1, <3>1 DEF QueueData, JobInv, DrawnSince, Owns, SameBytes
    <3>2. CASE g = f
      BY <2>4, <3>2 DEF JobInv, Owns
    <3>3. QED BY <3>1, <3>2
  <2>7. ASSUME NEW s \in Scanners PROVE ScanInv(s)'
    <3>1. CASE scan[s].at = "idle"
      BY <1>1, <3>1 DEF ScanInv
    <3>2. CASE scan[s].at # "idle"
      <4>1. scan[s].file \in Files
        BY <3>2, ScanFile DEF TypeOK
      <4>2. HasRow(scan[s].file)' => HasRow(scan[s].file)
        <5>1. CASE scan[s].file = f
          BY <2>2, <5>1
        <5>2. CASE scan[s].file # f
          BY <1>1, <2>1, <4>1, <5>2 DEF HasRow
        <5>3. QED BY <5>1, <5>2
      <4>3. QED BY <1>1, <3>2, <4>1, <4>2 DEF QueueData, ScanInv
    <3>3. QED BY <3>1, <3>2
  <2>8. QED BY <2>5, <2>6, <2>7 DEF QueueData
<1>4. QED BY <1>2, <1>3

LEMMA WorkStep ==
  ASSUME TypeOK, QueueData, NEW r \in Runs, NEW f \in Files, Work(r, f)
  PROVE  QueueData'
<1> USE DEF dbVars
<1>0. job[r][f] \in Jobs /\ disk[f] \in Versions
  BY DEF TypeOK
<1>1. CASE Draw(r, f)
  <2> DEFINE j == [job[r][f] EXCEPT !.phase = Answered(Outcome[Content[f][disk[f]]]),
                                    !.drew = disk[f]]
  <2>1. SetJob(r, f, j) /\ UNCHANGED <<disk, row, pv, stamp, scan>> /\ job[r][f].phase = "queued"
    BY <1>1 DEF Draw
  <2>2. job'[r][f] = j
    BY <2>1, JobAfter
  <2>3. j.hashed = job[r][f].hashed /\ j.drew = disk[f]
        /\ j.phase = Answered(Outcome[Content[f][disk[f]]])
    BY <1>0 DEF Jobs
  <2>4. Outcome[Content[f][disk[f]]] \in Outcomes
    BY <1>0, TablesAssumption
  <2>5. j.phase = "nothing" => Outcome[Content[f][disk[f]]] = "unsupported"
    BY <2>3, <2>4 DEF Answered, Outcomes
  <2>6. Owns(r, f) => /\ job[r][f].hashed <= row[f].hashed /\ row[f].hashed <= disk[f]
                      /\ SameBytes(f, job[r][f].hashed, row[f].hashed)
    BY <2>1 DEF QueueData, JobInv, RowInv, HasRow, Owns
  <2> HIDE DEF j
  <2>7. JobInv(r, f)'
    BY <2>1, <2>2, <2>3, <2>5, <2>6, Numbers DEF JobInv, DrawnSince, Owns, SameBytes
  <2>8. QED BY <2>1, <2>7, JobStep
<1>2. CASE DrawFails(r, f) \/ StoreFails(r, f)
  <2> DEFINE j == [job[r][f] EXCEPT !.phase = "broken"]
  <2>1. SetJob(r, f, j) /\ UNCHANGED <<disk, row, pv, stamp, scan>> /\ job[r][f].phase # "none"
    BY <1>2 DEF DrawFails, StoreFails
  <2>2. job'[r][f] = j /\ j.hashed = job[r][f].hashed /\ j.phase = "broken"
    BY <1>0, <2>1, JobAfter DEF Jobs
  <2>3. JobInv(r, f)'
    BY <2>1, <2>2 DEF QueueData, JobInv, Owns, SameBytes
  <2>4. QED BY <2>1, <2>3, JobStep
<1>3. CASE StorePng(r, f)
  <2> DEFINE j == [job[r][f] EXCEPT !.phase = "stored"]
  <2>1. SetJob(r, f, j) /\ UNCHANGED <<disk, row, pv, stamp, scan>> /\ job[r][f].phase = "drawn"
    BY <1>3 DEF StorePng
  <2>2. /\ job'[r][f] = j /\ j.hashed = job[r][f].hashed /\ j.phase = "stored"
        /\ j.drew = job[r][f].drew
    BY <1>0, <2>1, JobAfter DEF Jobs
  <2>3. JobInv(r, f)'
    BY <2>1, <2>2 DEF QueueData, JobInv, DrawnSince, Owns, SameBytes
  <2>4. QED BY <2>1, <2>3, JobStep
<1>4. CASE Finish(r, f)
  BY <1>4, FinishStep
<1>5. CASE FinishLost(r, f)
  <2>1. SetJob(r, f, NoJob) /\ UNCHANGED <<disk, row, pv, stamp, scan>>
    BY <1>5 DEF FinishLost
  <2>2. JobInv(r, f)'
    BY <2>1, JobAfter DEF JobInv, NoJob
  <2>3. QED BY <2>1, <2>2, JobStep
<1>6. QED BY <1>1, <1>2, <1>3, <1>4, <1>5 DEF Work

LEMMA CrashStep ==
  ASSUME TypeOK, QueueData, NEW r \in Runs, Crash(r)
  PROVE  QueueData'
<1>1. /\ UNCHANGED <<disk, row, pv, stamp, scan>>
      /\ \A q \in Runs, f \in Files : job'[q][f].phase # "none" => job'[q][f] = job[q][f]
  BY DEF Crash, NoJob, dbVars, TypeOK
<1>2. ASSUME NEW f \in Files, NEW q \in Runs PROVE JobInv(q, f)'
  BY <1>1 DEF QueueData, JobInv, DrawnSince, Owns, SameBytes
<1>3. QED BY <1>1, <1>2
          DEF QueueData, RowInv, OutcomeInv, ScanInv, DrawnSince, HasRow, SameBytes

-----------------------------------------------------------------------------
(* The rescan's steps.                                                       *)

(* A step of the one rescan that leaves the tables alone.                    *)
LEMMA LookStep ==
  ASSUME TypeOK, QueueData, NEW s \in Scanners, NEW sc, SetScan(s, sc),
         UNCHANGED <<disk, row, pv, stamp, job>>, ScanInv(s)'
  PROVE  QueueData'
<1>1. ASSUME NEW t \in Scanners PROVE ScanInv(t)'
  <2>1. CASE t = s
    BY <2>1
  <2>2. CASE t # s
    <3>1. scan'[t] = scan[t]
      BY <2>2, ScanAfter
    <3>2. QED BY <3>1 DEF QueueData, ScanInv, HasRow
  <2>3. QED BY <2>1, <2>2
<1>2. QED BY <1>1 DEF QueueData, RowInv, OutcomeInv, JobInv, DrawnSince, HasRow, Owns, SameBytes

(* A write of the one rescan: it changes f's row and preview, then ends.     *)
LEMMA WriteStep ==
  ASSUME OneScanner, TypeOK, QueueData, NEW s \in Scanners, SetScan(s, IdleScan),
         UNCHANGED <<disk, stamp, job>>, NEW f \in Files,
         \A g \in Files \ {f} : row'[g] = row[g] /\ pv'[g] = pv[g],
         RowInv(f)', OutcomeInv(f)', \A r \in Runs : JobInv(r, f)'
  PROVE  QueueData'
<1>1. ASSUME NEW g \in Files \ {f}
      PROVE  RowInv(g)' /\ OutcomeInv(g)' /\ \A r \in Runs : JobInv(r, g)'
  BY DEF QueueData, RowInv, OutcomeInv, JobInv, DrawnSince, HasRow, Owns, SameBytes
<1>2. ASSUME NEW t \in Scanners PROVE ScanInv(t)'
  <2>1. t = s
    BY DEF OneScanner
  <2>2. scan'[t].at = "idle"
    BY <2>1, ScanAfter DEF IdleScan
  <2>3. QED BY <2>2, IdleScanInv
<1>3. QED BY <1>1, <1>2 DEF QueueData

LEMMA InsertStep ==
  ASSUME OneScanner, TypeOK, QueueData, NEW s \in Scanners, ScanInsert(s)
  PROVE  QueueData'
<1>1. PICK f \in Files : f = scan[s].file /\ scan[s].at = "insert"
  BY ScanFile DEF TypeOK, ScanInsert
<1>2. UNCHANGED <<disk, stamp, job>> /\ SetScan(s, IdleScan)
  BY DEF ScanInsert, runVars
<1>3. CASE pv[f].state # "none"
  BY <1>1, <1>2, <1>3, LookStep, ScanAfter, IdleScanInv DEF ScanInsert, IdleScan
<1>4. CASE pv[f].state = "none"
  <2>1. /\ \E k : row' = [row EXCEPT ![f] =
                            [FileRow(f, scan[s].seen, scan[s].hashed) EXCEPT !.kind = k]]
        /\ pv' = [pv EXCEPT ![f] = FreshPreview]
    BY <1>1, <1>4 DEF ScanInsert
  <2>2. /\ row'[f].mtime = scan[s].seen /\ row'[f].hashed = scan[s].hashed
        /\ pv'[f].state = "pending" /\ pv'[f].source = None /\ pv'[f].claimed = None
        /\ \A g \in Files \ {f} : row'[g] = row[g] /\ pv'[g] = pv[g]
    BY <2>1 DEF TypeOK, FileRow, FreshPreview
  <2>3. scan[s].seen <= scan[s].hashed /\ scan[s].hashed <= disk[f]
    BY <1>1 DEF QueueData, ScanInv
  <2>4. RowInv(f)' /\ OutcomeInv(f)'
    BY <1>2, <2>2, <2>3 DEF RowInv, OutcomeInv
  <2>5. \A r \in Runs : JobInv(r, f)'
    BY <1>2, <2>2, Numbers DEF JobInv, Owns
  <2>6. QED BY <1>2, <2>2, <2>4, <2>5, WriteStep
<1>5. QED BY <1>3, <1>4

LEMMA RestampStep ==
  ASSUME OneScanner, TypeOK, QueueData, NEW s \in Scanners, ScanRestamp(s)
  PROVE  QueueData'
<1>1. PICK f \in Files : f = scan[s].file
  BY ScanFile DEF TypeOK, ScanRestamp
<1>2. UNCHANGED <<disk, stamp, job>> /\ SetScan(s, IdleScan)
  BY DEF ScanRestamp, runVars
<1>3. /\ \A g \in Files \ {f} : row'[g] = row[g] /\ pv'[g] = pv[g]
      /\ row'[f].mtime = row[f].mtime /\ row'[f].hashed = row[f].hashed
      /\ \/ pv'[f] = pv[f]
         \/ /\ HasRow(f)
            /\ pv'[f].state = "pending" /\ pv'[f].claimed = None /\ pv'[f].source = pv[f].source
  <2>1. row[f] \in FileRows /\ pv[f] \in PreviewRows
    BY DEF TypeOK
  <2>2. CASE ~HasRow(f)
    BY <1>1, <2>2 DEF ScanRestamp
  <2>3. CASE HasRow(f)
    <3>1. PICK kind : /\ row' = [row EXCEPT ![f] = [@ EXCEPT !.kind = kind, !.by = ClassifierVersion]]
                      /\ pv' = pv \/ pv' = [pv EXCEPT ![f] = ResetPreview(@)]
      BY <1>1, <2>3 DEF ScanRestamp
    <3>2. row'[f].mtime = row[f].mtime /\ row'[f].hashed = row[f].hashed
      BY <2>1, <3>1 DEF TypeOK, FileRows
    <3>3. \A g \in Files \ {f} : row'[g] = row[g] /\ pv'[g] = pv[g]
      BY <3>1 DEF TypeOK
    <3>4. LET reset == ResetPreview(pv[f])
          IN  reset.state = "pending" /\ reset.claimed = None /\ reset.source = pv[f].source
      BY <2>1 DEF PreviewRows, ResetPreview
    <3>5. pv'[f] = pv[f] \/ pv'[f] = ResetPreview(pv[f])
      BY <3>1 DEF TypeOK
    <3>6. QED BY <2>3, <3>2, <3>3, <3>4, <3>5
  <2>4. QED BY <2>2, <2>3
<1>4. RowInv(f)' /\ OutcomeInv(f)'
  BY <1>2, <1>3 DEF QueueData, RowInv, OutcomeInv, DrawnSince, HasRow, SameBytes
<1>5. \A r \in Runs : JobInv(r, f)'
  BY <1>2, <1>3, Numbers DEF QueueData, JobInv, DrawnSince, Owns, SameBytes
<1>6. QED BY <1>2, <1>3, <1>4, <1>5, WriteStep

(* The one step that needs NoReverts: a picture drawn at or after a claim of *)
(* the very bytes the rescan now records shows those bytes.                  *)
LEMMA UpdateStep ==
  ASSUME NoReverts, OneScanner, TypeOK, QueueData, NEW s \in Scanners, ScanUpdate(s)
  PROVE  QueueData'
<1>1. PICK f \in Files : f = scan[s].file /\ scan[s].at = "update"
  BY ScanFile DEF TypeOK, ScanUpdate
<1>2. UNCHANGED <<disk, stamp, job>> /\ SetScan(s, IdleScan)
  BY DEF ScanUpdate, runVars
<1>3. CASE ~HasRow(f)
  BY <1>1, <1>2, <1>3, LookStep, ScanAfter, IdleScanInv DEF ScanUpdate, IdleScan
<1>4. CASE HasRow(f)
  <2> DEFINE same == SameSource(f, scan[s].hashed)
  <2>1. /\ row' = [row EXCEPT ![f] = FileRow(f, scan[s].seen, scan[s].hashed)]
        /\ pv' = IF same THEN pv ELSE [pv EXCEPT ![f] = ResetPreview(@)]
    BY <1>1, <1>4 DEF ScanUpdate
  <2>2. /\ row'[f].mtime = scan[s].seen /\ row'[f].hashed = scan[s].hashed
        /\ \A g \in Files \ {f} : row'[g] = row[g] /\ pv'[g] = pv[g]
    BY <2>1 DEF TypeOK, FileRow
  <2>3. /\ scan[s].seen <= scan[s].hashed /\ scan[s].hashed <= disk[f]
        /\ row[f].hashed <= scan[s].hashed
        /\ pv[f].source # None => pv[f].source <= row[f].hashed
    BY <1>1, <1>4 DEF QueueData, ScanInv, RowInv
  <2>4. disk[f] \in Versions /\ row[f].hashed \in Versions /\ scan[s].hashed \in Versions
        /\ pv[f].source \in Versions \cup {None} /\ pv[f] \in PreviewRows
    BY <1>1, ScanFile DEF TypeOK, FileRows, PreviewRows
  <2>5. pv'[f].source = pv[f].source
    BY <2>1, <2>4 DEF TypeOK, ResetPreview, PreviewRows
  <2>6. RowInv(f)'
    BY <1>2, <2>2, <2>3, <2>4, <2>5, Numbers DEF RowInv, Versions
  <2>7. CASE ~same
    <3>1. pv'[f].state = "pending" /\ pv'[f].claimed = None
      BY <2>1, <2>4, <2>7 DEF TypeOK, ResetPreview, PreviewRows
    <3>2. OutcomeInv(f)' /\ \A r \in Runs : JobInv(r, f)'
      BY <1>2, <3>1, Numbers DEF OutcomeInv, JobInv, Owns
    <3>3. QED BY <1>2, <2>2, <2>6, <3>2, WriteStep
  <2>8. CASE same
    <3>1. pv' = pv
      BY <2>1, <2>8
    <3>2. SameBytes(f, row[f].hashed, scan[s].hashed)
      <4>1. SameBytes(f, pv[f].source, row[f].hashed)
        BY <2>3, <2>4, <2>8, NoReverts DEF NoReverts, SameSource
      <4>2. QED BY <2>8, <4>1 DEF SameBytes, SameSource
    <3>3. OutcomeInv(f)'
      BY <1>2, <2>2, <3>1, <3>2, <2>8 DEF QueueData, OutcomeInv, DrawnSince, SameBytes, SameSource
    <3>4. \A r \in Runs : JobInv(r, f)'
      BY <1>2, <2>2, <2>3, <2>4, <3>1, <3>2, Numbers
         DEF QueueData, JobInv, DrawnSince, Owns, SameBytes
    <3>5. QED BY <1>2, <2>2, <2>6, <3>3, <3>4, WriteStep
  <2>9. QED BY <2>7, <2>8
<1>5. QED BY <1>3, <1>4

LEMMA ScanStep ==
  ASSUME NoReverts, OneScanner, TypeOK, QueueData, NEW s \in Scanners, Scan(s)
  PROVE  QueueData'
<1> USE DEF runVars, dbVars
<1>0. scan[s] \in Scans
  BY DEF TypeOK
<1>1. ASSUME NEW f \in Files, ScanWalk(s, f) PROVE QueueData'
  <2>1. PICK at \in {"walked", "gone"} :
          SetScan(s, [at |-> at, file |-> f, seen |-> disk[f], was |-> None, hashed |-> 0])
    BY <1>1 DEF ScanWalk
  <2>2. ScanInv(s)'
    BY <1>1, <2>1, ScanAfter, Numbers DEF ScanInv, ScanWalk
  <2>3. QED BY <1>1, <2>1, <2>2, LookStep DEF ScanWalk
<1>2. CASE ScanMissing(s)
  BY <1>2, DataFrame DEF ScanMissing
<1>3. CASE ScanLookup(s)
  <2>1. PICK sc : SetScan(s, sc) /\ (sc.at = "idle" \/
                    (\E at \in {"new", "changed"} : sc = [scan[s] EXCEPT !.at = at])
                    \/ sc = [scan[s] EXCEPT !.at = "stale", !.was = row[scan[s].file].kind])
    BY <1>3 DEF ScanLookup, IdleScan
  <2>2. scan'[s] = sc /\ disk' = disk /\ row' = row /\ pv' = pv
    BY <1>3, <2>1, ScanAfter DEF ScanLookup
  <2>3. CASE sc.at = "idle"
    BY <1>3, <2>1, <2>2, <2>3, IdleScanInv, LookStep DEF ScanLookup
  <2>4. CASE sc.at # "idle"
    <3>1. sc.at \in {"new", "changed", "stale"} /\ sc.seen = scan[s].seen
          /\ sc.file = scan[s].file /\ scan[s].at = "walked"
      BY <1>0, <1>3, <2>1, <2>4 DEF Scans, ScanLookup
    <3>2. ScanInv(s)'
      BY <2>2, <3>1 DEF QueueData, ScanInv
    <3>3. QED BY <1>3, <2>1, <3>2, LookStep DEF ScanLookup
  <2>5. QED BY <2>3, <2>4
<1>4. CASE ScanRead(s)
  <2>1. PICK f \in Files : f = scan[s].file /\ scan[s].at \in {"new", "changed", "stale"}
    BY <1>0, <1>4, ScanFile DEF ScanRead
  <2>2. PICK sc : sc = [scan[s] EXCEPT !.at = WriteOf(scan[s].at), !.hashed = disk[f]]
    OBVIOUS
  <2>3. SetScan(s, sc) /\ disk' = disk /\ row' = row /\ pv' = pv
    BY <1>4, <2>1, <2>2 DEF ScanRead
  <2>4. sc.at # "idle" /\ sc.seen = scan[s].seen /\ sc.file = f /\ sc.hashed = disk[f]
    BY <1>0, <2>1, <2>2 DEF Scans, WriteOf
  <2>5. scan[s].seen <= disk[f] /\ (HasRow(f) => row[f].hashed <= disk[f])
    BY <2>1 DEF QueueData, ScanInv, RowInv
  <2>6. ScanInv(s)'
    BY <2>3, <2>4, <2>5, ScanAfter, Numbers DEF ScanInv, HasRow
  <2>7. QED BY <1>4, <2>3, <2>6, LookStep DEF ScanRead
<1>5. CASE ScanSkip(s)
  BY <1>5, ScanAfter, IdleScanInv, LookStep DEF ScanSkip, IdleScan
<1>6. CASE ScanInsert(s)
  BY <1>6, InsertStep
<1>7. CASE ScanUpdate(s)
  BY <1>7, UpdateStep
<1>8. CASE ScanRestamp(s)
  BY <1>8, RestampStep
<1>9. CASE ScanDrop(s)
  <2>1. PICK f \in Files : f = scan[s].file
    BY <1>0, <1>9, ScanFile DEF ScanDrop
  <2>2. /\ UNCHANGED <<disk, row, stamp, job>> /\ SetScan(s, IdleScan)
        /\ pv' = pv \/ pv' = [pv EXCEPT ![f] = Deleted]
    BY <1>9, <2>1 DEF ScanDrop, TypeOK
  <2>3. \A t \in Scanners : scan'[t] = scan[t] \/ scan'[t].at = "idle"
    BY <2>2, ScanAfter DEF IdleScan
  <2>4. CASE pv' = pv
    BY <2>2, <2>4, ScanAfter, IdleScanInv, LookStep DEF IdleScan
  <2>5. QED BY <2>2, <2>3, <2>4, DropStep
<1>10. QED BY <1>1, <1>2, <1>3, <1>4, <1>5, <1>6, <1>7, <1>8, <1>9 DEF Scan

LEMMA QueueDataInit == Init => QueueData
<1> SUFFICES ASSUME Init PROVE QueueData
  OBVIOUS
<1>1. ASSUME NEW f \in Files PROVE RowInv(f) /\ OutcomeInv(f)
  BY DEF Init, RowInv, OutcomeInv, FreshPreview, NoPreview
<1>2. ASSUME NEW f \in Files, NEW r \in Runs PROVE JobInv(r, f)
  BY DEF Init, JobInv, NoJob
<1>3. ASSUME NEW s \in Scanners PROVE ScanInv(s)
  BY DEF Init, ScanInv, IdleScan
<1>4. QED BY <1>1, <1>2, <1>3 DEF QueueData

LEMMA QueueDataStep ==
  ASSUME NoReverts, OneScanner, TypeOK, TokensApart', QueueData, [Next]_vars
  PROVE  QueueData'
<1>1. CASE Tick \/ UNCHANGED vars
  BY <1>1, DataFrame DEF Tick, vars, dbVars, runVars
<1>2. ASSUME NEW f \in Files, User(f) PROVE QueueData'
  <2>1. CASE Save(f)
    BY <2>1, SaveStep
  <2>2. CASE DeleteBytes(f)
    BY <2>2, DataFrame DEF DeleteBytes, dbVars, runVars
  <2>3. CASE DeleteRow(f)
    BY <2>3, DropStep DEF DeleteRow, runVars
  <2>4. QED BY <1>2, <2>1, <2>2, <2>3 DEF User
<1>3. ASSUME NEW r \in Runs, Run(r) PROVE QueueData'
  BY <1>3, BeginStep, ClaimStep, CrashStep, WorkStep DEF Run
<1>4. ASSUME NEW s \in Scanners, Scan(s) PROVE QueueData'
  BY <1>4, ScanStep
<1>5. QED BY <1>1, <1>2, <1>3, <1>4 DEF Next

(* The inductive invariant behind the recorded hash and the final            *)
(* `unsupported`: QueueInv holds always.                                     *)
LEMMA QueueInvAlways ==
  NoReverts /\ OneScanner => (Spec /\ []TokensApart => []QueueInv)
<1> SUFFICES ASSUME NoReverts, OneScanner PROVE Spec /\ []TokensApart => []QueueInv
  OBVIOUS
<1>1. TypeOK /\ QueueData /\ TokensApart' /\ [Next]_vars => QueueData'
  BY QueueDataStep
<1>2. QueueData => QueueInv
  BY DEF QueueInv, QueueData
<1>3. QED BY <1>1, <1>2, QueueDataInit, TypeCorrect, PTL DEF Spec

(* RecordedHashIsCurrent: for any number of processes, a ready row that is   *)
(* in step with the disk names the hash of the bytes on disk, as long as no  *)
(* two jobs in flight for a file were claimed in one millisecond (without    *)
(* that it is not so: OwnerIsUntouched); it rests on one rescan at a time    *)
(* and files that never return to bytes they had before.                     *)
THEOREM RecordedHashAlways ==
  NoReverts /\ OneScanner => (Spec /\ []TokensApart => []RecordedHashIsCurrent)
<1> SUFFICES ASSUME NoReverts, OneScanner
             PROVE  Spec /\ []TokensApart => []RecordedHashIsCurrent
  OBVIOUS
<1>1. TypeOK /\ QueueInv => RecordedHashIsCurrent
  <2> SUFFICES ASSUME TypeOK, QueueInv, NEW f \in Files, InStep(f), pv[f].state = "ready"
               PROVE  SameBytes(f, pv[f].source, disk[f])
    BY DEF RecordedHashIsCurrent
  <2>1. row[f].hashed = disk[f]
    BY Numbers DEF InStep, QueueInv, RowInv
  <2>2. QED BY <2>1 DEF QueueInv, OutcomeInv
<1>2. QED BY <1>1, QueueInvAlways, TypeCorrect, PTL

(* UnsupportedIsDeserved: under the same assumptions, a row given up as      *)
(* unsupported and in step with the disk is one whose bytes have nothing to  *)
(* render.                                                                   *)
THEOREM UnsupportedAlways ==
  NoReverts /\ OneScanner => (Spec /\ []TokensApart => []UnsupportedIsDeserved)
<1> SUFFICES ASSUME NoReverts, OneScanner
             PROVE  Spec /\ []TokensApart => []UnsupportedIsDeserved
  OBVIOUS
<1>1. TypeOK /\ QueueInv => UnsupportedIsDeserved
  <2> SUFFICES ASSUME TypeOK, QueueInv, NEW f \in Files, InStep(f), pv[f].state = "unsupported"
               PROVE  Outcome[Content[f][disk[f]]] = "unsupported"
    BY DEF UnsupportedIsDeserved
  <2>1. row[f].hashed = disk[f]
    BY Numbers DEF InStep, QueueInv, RowInv
  <2>2. PICK h \in Versions, d \in Versions :
          DrawnSince(f, h, d) /\ Outcome[Content[f][d]] = "unsupported"
    BY DEF QueueInv, OutcomeInv
  <2>3. disk[f] \in Versions
    BY DEF TypeOK
  <2>4. SameBytes(f, h, d)
    BY <2>1, <2>2, <2>3, NoReverts DEF DrawnSince, NoReverts
  <2>5. QED BY <2>1, <2>2, <2>4 DEF DrawnSince, SameBytes
<1>2. QED BY <1>1, QueueInvAlways, TypeCorrect, PTL

-----------------------------------------------------------------------------
(* The pictures, for one process: the desktop application, or one server.    *)

OneRun == \A r, q \in Runs : r = q

(* PictureInv, one file at a time.                                           *)
PictureOf(f) ==
  /\ \A r \in Runs :
       /\ job[r][f].phase # "none" => ~Settled(f)
       /\ job[r][f].phase = "stored" /\ f \in present => png[f] = job[r][f].drew
  /\ pv[f].state = "ready" /\ f \in present =>
       png[f] # None /\ \E hashed \in Versions : DrawnSince(f, hashed, png[f])

LEMMA PictureInvIsOf == PictureInv <=> \A f \in Files : PictureOf(f)
BY DEF PictureInv, PictureOf

LEMMA DrawnMonotone ==
  ASSUME TypeOK, NEW f \in Files, row'[f].hashed = row[f].hashed,
         disk[f] <= disk'[f], disk'[f] \in Nat, NEW h \in Versions, NEW d \in Versions,
         DrawnSince(f, h, d)
  PROVE  DrawnSince(f, h, d)'
BY Numbers DEF DrawnSince, SameBytes, Versions

(* A step that leaves a file's picture, row and jobs alone, or ends its job.  *)
LEMMA PictureFrame ==
  ASSUME TypeOK, NEW f \in Files, PictureOf(f),
         row'[f].hashed = row[f].hashed, png'[f] = png[f],
         disk[f] <= disk'[f], disk'[f] \in Nat, f \in present' => f \in present,
         pv'[f].state = pv[f].state \/ pv'[f].state \in {"pending", "deleted"},
         \A r \in Runs :
           \/ job'[r][f].phase = "none" \/ job'[r][f] = job[r][f]
           \/ job[r][f].phase # "none" /\ job'[r][f].phase # "stored"
  PROVE  PictureOf(f)'
<1>1. Settled(f)' => Settled(f) /\ pv'[f].state = pv[f].state
  BY DEF Settled, Outcomes
<1>2. png[f] \in Versions \cup {None}
  BY DEF TypeOK
<1>3. ASSUME NEW r \in Runs
      PROVE  /\ job'[r][f].phase # "none" => ~Settled(f)'
             /\ job'[r][f].phase = "stored" /\ f \in present' => png'[f] = job'[r][f].drew
  BY <1>1 DEF PictureOf
<1>4. ASSUME pv'[f].state = "ready", f \in present'
      PROVE  png'[f] # None /\ (\E hashed \in Versions : DrawnSince(f, hashed, png[f])')
  <2>1. pv[f].state = "ready" /\ f \in present
    BY <1>4
  <2>2. png[f] # None
    BY <2>1 DEF PictureOf
  <2>3. PICK h \in Versions : DrawnSince(f, h, png[f])
    BY <2>1 DEF PictureOf
  <2>4. png[f] \in Versions
    BY <1>2, <2>2
  <2>5. PICK d \in Versions : d = png[f]
    BY <2>4
  <2>6. DrawnSince(f, h, d)'
    BY <2>3, <2>5, DrawnMonotone
  <2>7. DrawnSince(f, h, png[f])'
    BY <2>5, <2>6 DEF DrawnSince
  <2>8. QED BY <2>2, <2>7
<1>5. QED BY <1>3, <1>4 DEF PictureOf

LEMMA PictureSave ==
  ASSUME TypeOK, PictureInv, NEW g \in Files, Save(g)
  PROVE  PictureInv'
<1>1. /\ UNCHANGED <<row, pv, job, png, present>>
      /\ \A f \in Files : disk[f] <= disk'[f] /\ disk'[f] \in Nat
  BY Numbers DEF Save, dbVars, runVars, restVars, TypeOK
<1>2. ASSUME NEW f \in Files PROVE PictureOf(f)'
  BY <1>1, PictureInvIsOf, PictureFrame
<1>3. QED BY <1>2 DEF PictureInv, PictureOf

LEMMA PictureDelete ==
  ASSUME TypeOK, PictureInv, NEW g \in Files, DeleteBytes(g) \/ DeleteRow(g)
  PROVE  PictureInv'
<1>1. /\ UNCHANGED <<row, job, disk>> /\ present' \subseteq present
      /\ \A f \in Files : f # g => png'[f] = png[f] /\ pv'[f] = pv[f]
  BY DEF DeleteBytes, DeleteRow, dbVars, runVars, TypeOK
<1>2. ASSUME NEW f \in Files PROVE PictureOf(f)'
  <2>0. disk[f] \in Nat
    BY Numbers
  <2>1. CASE f # g
    BY <1>1, <2>0, <2>1, PictureInvIsOf, PictureFrame
  <2>2. CASE f = g /\ DeleteBytes(g)
    <3>1. f \notin present' /\ pv' = pv
      BY <2>2 DEF DeleteBytes, dbVars
    <3>2. QED BY <1>1, <3>1 DEF PictureInv, PictureOf, Settled
  <2>3. CASE f = g /\ DeleteRow(g)
    <3>1. pv'[f].state = "deleted" /\ png' = png
      BY <2>3 DEF DeleteRow, Deleted, FreshPreview, TypeOK
    <3>2. QED BY <1>1, <2>0, <3>1, PictureInvIsOf, PictureFrame
  <2>4. QED BY <2>1, <2>2, <2>3
<1>3. QED BY <1>2 DEF PictureInv, PictureOf

LEMMA PictureClaim ==
  ASSUME OneRun, TypeOK, PictureInv, NEW r \in Runs, ClaimBatch(r)
  PROVE  PictureInv'
<1>1. PICK batch \in SUBSET {f \in Files : Claimable(f, stamp[r])} :
        /\ pv' = [f \in Files |->
                IF f \in batch THEN Claimed(pv[f], stamp[r]) ELSE pv[f]]
        /\ job' = [job EXCEPT ![r] = [f \in Files |->
                IF f \in batch THEN QueuedJob(f) ELSE NoJob]]
  BY DEF ClaimBatch
<1>2. UNCHANGED <<disk, row, png, present>>
  BY DEF ClaimBatch, restVars
<1>3. ASSUME NEW f \in Files PROVE PictureOf(f)'
  <2>1. pv'[f].state = pv[f].state /\ (f \in batch => pv[f].state = "pending")
    BY <1>1 DEF Claimable, Claimed, TypeOK, PreviewRows
  <2>2. \A q \in Runs : job'[q][f] = IF f \in batch THEN QueuedJob(f) ELSE NoJob
    BY <1>1 DEF OneRun, TypeOK
  <2>3. \A q \in Runs : /\ job'[q][f].phase # "stored"
                        /\ (job'[q][f].phase # "none" => f \in batch)
    BY <2>2 DEF QueuedJob, NoJob
  <2>4. pv[f].state = "pending" => ~Settled(f)'
    BY <2>1 DEF Settled, Outcomes
  <2>5. ASSUME NEW q \in Runs
        PROVE  /\ job'[q][f].phase # "none" => ~Settled(f)'
               /\ job'[q][f].phase = "stored" /\ f \in present' => png'[f] = job'[q][f].drew
    <3>1. job'[q][f].phase # "none" => pv[f].state = "pending"
      BY <2>1, <2>3
    <3>2. job'[q][f].phase # "stored"
      BY <2>3
    <3>3. QED BY <2>4, <3>1, <3>2
  <2>6. \A h \in Versions : DrawnSince(f, h, png[f]) => DrawnSince(f, h, png[f])'
    BY <1>2 DEF DrawnSince, SameBytes
  <2>7. ASSUME pv'[f].state = "ready", f \in present'
        PROVE  png'[f] # None /\ (\E hashed \in Versions : DrawnSince(f, hashed, png[f])')
    <3>1. png[f] # None /\ \E hashed \in Versions : DrawnSince(f, hashed, png[f])
      BY <1>2, <2>1, <2>7 DEF PictureInv
    <3>2. PICK h \in Versions : DrawnSince(f, h, png[f])
      BY <3>1
    <3>3. QED BY <1>2, <2>6, <3>1, <3>2
  <2>8. QED BY <2>5, <2>7 DEF PictureOf
<1>4. QED BY <1>3 DEF PictureInv, PictureOf

LEMMA PictureWork ==
  ASSUME OneRun, TypeOK, QueueData, PictureInv, NEW r \in Runs, NEW g \in Files, Work(r, g)
  PROVE  PictureInv'
<1> USE DEF dbVars, restVars
<1>0. /\ job[r][g] \in Jobs /\ row' = row /\ disk' = disk /\ present' = present
      /\ job[r][g].phase # "none"
      /\ \A f \in Files : disk[f] \in Nat
  BY Numbers DEF TypeOK, Work, Draw, DrawFails, StorePng, StoreFails, Finish, FinishLost
<1>1. ASSUME NEW f \in Files, f # g PROVE PictureOf(f)'
  <2>1. \E j : SetJob(r, g, j)
    BY DEF Work, Draw, DrawFails, StorePng, StoreFails, Finish, FinishLost
  <2>2. \A q \in Runs : job'[q][f] = job[q][f]
    BY <1>1, <2>1, JobAfter
  <2>3. png'[f] = png[f] /\ pv'[f] = pv[f]
    BY <1>1 DEF TypeOK, Work, Draw, DrawFails, StorePng, StoreFails, Finish, FinishLost
  <2>4. QED BY <1>0, <2>2, <2>3, PictureInvIsOf, PictureFrame
<1>2. CASE Draw(r, g) \/ DrawFails(r, g) \/ StoreFails(r, g)
  <2>1. PICK j : SetJob(r, g, j) /\ j.phase # "stored"
    <3>1. CASE Draw(r, g)
      <4>1. Outcome[Content[g][disk[g]]] \in Outcomes
        BY TablesAssumption DEF TypeOK
      <4> DEFINE j == [job[r][g] EXCEPT !.phase = Answered(Outcome[Content[g][disk[g]]]),
                                        !.drew = disk[g]]
      <4>2. j.phase = Answered(Outcome[Content[g][disk[g]]])
        BY <1>0 DEF Jobs
      <4>3. j.phase # "stored"
        BY <4>1, <4>2 DEF Answered, Outcomes
      <4>4. QED BY <3>1, <4>3 DEF Draw
    <3>2. CASE DrawFails(r, g) \/ StoreFails(r, g)
      <4>1. [job[r][g] EXCEPT !.phase = "broken"].phase = "broken"
        BY <1>0 DEF Jobs
      <4>2. QED BY <3>2, <4>1 DEF DrawFails, StoreFails
    <3>3. QED BY <1>2, <3>1, <3>2
  <2>2. pv' = pv /\ png' = png
    BY <1>2 DEF Draw, DrawFails, StoreFails
  <2>3. \A q \in Runs : job[q][g].phase # "none" /\ job'[q][g].phase # "stored"
    BY <1>0, <2>1, JobAfter DEF OneRun
  <2>4. PictureOf(g)'
    BY <1>0, <2>2, <2>3, PictureInvIsOf, PictureFrame
  <2>5. QED BY <1>1, <2>4 DEF PictureInv, PictureOf
<1>3. CASE StorePng(r, g)
  <2> DEFINE j == [job[r][g] EXCEPT !.phase = "stored"]
  <2>1. SetJob(r, g, j) /\ pv' = pv /\ png'[g] = job[r][g].drew
    BY <1>3 DEF StorePng, TypeOK
  <2>2. j.phase = "stored" /\ j.drew = job[r][g].drew
    BY <1>0 DEF Jobs
  <2>3. \A q \in Runs : job'[q][g] = j
    BY <2>1, JobAfter DEF OneRun
  <2>4. ~Settled(g)
    BY <1>0 DEF PictureInv
  <2> HIDE DEF j
  <2>5. PictureOf(g)'
    BY <2>1, <2>2, <2>3, <2>4 DEF PictureOf, Settled, Outcomes
  <2>6. QED BY <1>1, <2>5 DEF PictureInv, PictureOf
<1>4. CASE Finish(r, g) \/ FinishLost(r, g)
  <2>1. SetJob(r, g, NoJob) /\ png' = png
    BY <1>4 DEF Finish, FinishLost
  <2>2. \A q \in Runs : job'[q][g].phase = "none"
    BY <2>1, JobAfter DEF OneRun, NoJob
  <2>3. CASE pv' = pv
    BY <1>0, <1>1, <2>1, <2>2, <2>3, PictureInvIsOf, PictureFrame DEF PictureInv, PictureOf
  <2>4. CASE pv' # pv
    <3>1. /\ Owns(r, g) /\ pv' = [pv EXCEPT ![g] = Recorded(@, job[r][g])]
          /\ job[r][g].phase \in {"stored", "nothing", "broken"}
      BY <1>4, <2>4 DEF Finish, FinishLost
    <3>2. pv'[g] = Recorded(pv[g], job[r][g]) /\ pv[g] \in PreviewRows
      BY <3>1 DEF TypeOK
    <3>3. pv'[g].state = "ready" => job[r][g].phase = "stored"
      <4>1. CASE job[r][g].phase = "nothing"
        BY <3>2, <4>1 DEF Recorded, PreviewRows
      <4>2. CASE job[r][g].phase = "broken"
        BY <3>2, <4>2 DEF Recorded, PreviewRows
      <4>3. QED BY <3>1, <4>1, <4>2
    <3>4. ASSUME pv'[g].state = "ready", g \in present'
          PROVE  png'[g] # None /\ (\E hashed \in Versions : DrawnSince(g, hashed, png[g])')
      <4>1. job[r][g].phase = "stored" /\ png[g] = job[r][g].drew
        BY <1>0, <3>3, <3>4 DEF PictureInv
      <4>2. job[r][g].drew \in Versions /\ job[r][g].hashed \in Versions
        BY <1>0 DEF Jobs
      <4>3. png[g] # None
        BY <4>1, <4>2, NoneAssumption, BoundsAssumption DEF Versions
      <4>4. DrawnSince(g, job[r][g].hashed, job[r][g].drew)
        BY <1>0, <3>1, <4>1 DEF QueueData, JobInv
      <4>5. PICK h \in Versions : h = job[r][g].hashed
        BY <4>2
      <4>6. DrawnSince(g, h, png[g])'
        BY <1>0, <2>1, <4>1, <4>4, <4>5 DEF DrawnSince, SameBytes
      <4>7. QED BY <2>1, <4>3, <4>6
    <3>5. PictureOf(g)'
      BY <2>2, <3>4 DEF PictureOf
    <3>6. QED BY <1>1, <3>5 DEF PictureInv, PictureOf
  <2>5. QED BY <2>3, <2>4
<1>5. QED BY <1>2, <1>3, <1>4 DEF Work

(* A rescan's write gives f's row a hash of the same bytes, or puts its       *)
(* preview back in the queue, or takes the row away.                          *)
LEMMA PictureWrite ==
  ASSUME TypeOK, PictureInv, NEW f \in Files, UNCHANGED <<disk, job, png, present>>,
         \A g \in Files \ {f} : row'[g] = row[g] /\ pv'[g] = pv[g],
         \/ pv'[f].state \in {"none", "pending", "deleted"}
         \/ /\ pv'[f].state = pv[f].state
            /\ SameBytes(f, row[f].hashed, row'[f].hashed)
  PROVE  PictureInv'
<1>1. ASSUME NEW g \in Files, g # f PROVE PictureOf(g)'
  <2>1. row'[g] = row[g] /\ pv'[g] = pv[g] /\ disk[g] \in Nat
    BY <1>1, Numbers
  <2>2. QED BY <2>1, PictureInvIsOf, PictureFrame
<1>2. CASE pv'[f].state \in {"none", "pending", "deleted"}
  <2>1. ~Settled(f)'
    BY <1>2 DEF Settled, Outcomes
  <2>2. PictureOf(f)'
    BY <2>1 DEF PictureInv, PictureOf, Settled, Outcomes
  <2>3. QED BY <1>1, <2>2 DEF PictureInv, PictureOf
<1>3. CASE pv'[f].state = pv[f].state /\ SameBytes(f, row[f].hashed, row'[f].hashed)
  <2>1. \A h \in Versions : DrawnSince(f, h, png[f]) => DrawnSince(f, h, png[f])'
    BY <1>3 DEF DrawnSince, SameBytes
  <2>2. ASSUME pv'[f].state = "ready", f \in present'
        PROVE  png'[f] # None /\ (\E hashed \in Versions : DrawnSince(f, hashed, png[f])')
    <3>1. png[f] # None /\ \E hashed \in Versions : DrawnSince(f, hashed, png[f])
      BY <1>3, <2>2 DEF PictureInv
    <3>2. PICK h \in Versions : DrawnSince(f, h, png[f])
      BY <3>1
    <3>3. QED BY <2>1, <3>1, <3>2
  <2>3. ASSUME NEW r \in Runs
        PROVE  /\ job'[r][f].phase # "none" => ~Settled(f)'
               /\ job'[r][f].phase = "stored" /\ f \in present' => png'[f] = job'[r][f].drew
    BY <1>3 DEF PictureInv, Settled
  <2>4. PictureOf(f)'
    BY <2>2, <2>3 DEF PictureOf
  <2>5. QED BY <1>1, <2>4 DEF PictureInv, PictureOf
<1>4. QED BY <1>2, <1>3

LEMMA PictureStays ==
  ASSUME TypeOK, PictureInv, UNCHANGED <<disk, row, pv, job, png, present>>
  PROVE  PictureInv'
BY DEF PictureInv, Settled, DrawnSince, SameBytes

LEMMA PictureUpdate ==
  ASSUME NoReverts, TypeOK, QueueData, PictureInv, NEW s \in Scanners, ScanUpdate(s)
  PROVE  PictureInv'
<1>1. PICK f \in Files : f = scan[s].file /\ scan[s].at = "update"
  BY ScanFile DEF TypeOK, ScanUpdate
<1>2. UNCHANGED <<disk, job, png, present>>
  BY DEF ScanUpdate, runVars, restVars
<1>3. CASE ~HasRow(f)
  BY <1>1, <1>2, <1>3, PictureStays DEF ScanUpdate
<1>4. CASE HasRow(f)
  <2> DEFINE same == SameSource(f, scan[s].hashed)
  <2>1. /\ row' = [row EXCEPT ![f] = FileRow(f, scan[s].seen, scan[s].hashed)]
        /\ pv' = IF same THEN pv ELSE [pv EXCEPT ![f] = ResetPreview(@)]
    BY <1>1, <1>4 DEF ScanUpdate
  <2>2. /\ row'[f].hashed = scan[s].hashed
        /\ \A g \in Files \ {f} : row'[g] = row[g] /\ pv'[g] = pv[g]
    BY <2>1 DEF TypeOK, FileRow
  <2>3. /\ row[f].hashed <= scan[s].hashed
        /\ pv[f].source # None => pv[f].source <= row[f].hashed
    BY <1>1, <1>4 DEF QueueData, ScanInv, RowInv
  <2>4. /\ row[f].hashed \in Versions /\ scan[s].hashed \in Versions
        /\ pv[f].source \in Versions \cup {None} /\ pv[f] \in PreviewRows
    BY <1>1, ScanFile DEF TypeOK, FileRows, PreviewRows
  <2>5. CASE ~same
    <3>1. pv'[f].state = "pending"
      BY <2>1, <2>4, <2>5 DEF TypeOK, ResetPreview, PreviewRows
    <3>2. QED BY <1>2, <2>2, <3>1, PictureWrite
  <2>6. CASE same
    <3>1. SameBytes(f, pv[f].source, row[f].hashed)
      BY <2>3, <2>4, <2>6, NoReverts DEF NoReverts, SameSource
    <3>2. SameBytes(f, row[f].hashed, row'[f].hashed)
      BY <2>2, <2>6, <3>1 DEF SameBytes, SameSource
    <3>3. pv' = pv
      BY <2>1, <2>6
    <3>4. QED BY <1>2, <2>2, <3>2, <3>3, PictureWrite
  <2>7. QED BY <2>5, <2>6
<1>5. QED BY <1>3, <1>4

LEMMA PictureScan ==
  ASSUME NoReverts, TypeOK, QueueData, PictureInv, NEW s \in Scanners, Scan(s)
  PROVE  PictureInv'
<1> USE DEF runVars, dbVars, restVars
<1>1. CASE (\E f \in Files : ScanWalk(s, f)) \/ ScanMissing(s) \/ ScanLookup(s)
             \/ ScanRead(s) \/ ScanSkip(s)
  BY <1>1, PictureStays DEF ScanWalk, ScanMissing, ScanLookup, ScanRead, ScanSkip
<1>2. CASE ScanUpdate(s)
  BY <1>2, PictureUpdate
<1>3. CASE ScanInsert(s)
  <2>1. PICK f \in Files : f = scan[s].file
    BY <1>3, ScanFile DEF TypeOK, ScanInsert
  <2>2. UNCHANGED <<disk, job, png, present>>
    BY <1>3 DEF ScanInsert
  <2>3. CASE pv[f].state # "none"
    BY <1>3, <2>1, <2>2, <2>3, PictureStays DEF ScanInsert
  <2>4. CASE pv[f].state = "none"
    <3>1. /\ \E n : row' = [row EXCEPT ![f] = n]
          /\ pv' = [pv EXCEPT ![f] = FreshPreview]
      BY <1>3, <2>1, <2>4 DEF ScanInsert
    <3>2. /\ pv'[f].state = "pending"
          /\ \A g \in Files \ {f} : row'[g] = row[g] /\ pv'[g] = pv[g]
      BY <3>1 DEF TypeOK, FreshPreview
    <3>3. QED BY <2>2, <3>2, PictureWrite
  <2>5. QED BY <2>3, <2>4
<1>4. CASE ScanRestamp(s)
  <2>1. PICK f \in Files : f = scan[s].file
    BY <1>4, ScanFile DEF TypeOK, ScanRestamp
  <2>2. UNCHANGED <<disk, job, png, present>>
    BY <1>4 DEF ScanRestamp
  <2>3. CASE ~HasRow(f)
    BY <1>4, <2>1, <2>2, <2>3, PictureStays DEF ScanRestamp
  <2>4. CASE HasRow(f)
    <3>1. PICK kind :
            /\ row' = [row EXCEPT ![f] = [@ EXCEPT !.kind = kind, !.by = ClassifierVersion]]
            /\ pv' = pv \/ pv' = [pv EXCEPT ![f] = ResetPreview(@)]
      BY <1>4, <2>1, <2>4 DEF ScanRestamp
    <3>2. row'[f].hashed = row[f].hashed
      BY <3>1 DEF TypeOK, FileRows
    <3>3. \A g \in Files \ {f} : row'[g] = row[g] /\ pv'[g] = pv[g]
      BY <3>1 DEF TypeOK
    <3>4. pv'[f].state = pv[f].state \/ pv'[f].state = "pending"
      <4>1. pv[f] \in PreviewRows
        BY DEF TypeOK
      <4>2. ResetPreview(pv[f]).state = "pending"
        BY <4>1 DEF PreviewRows, ResetPreview
      <4>3. pv'[f] = pv[f] \/ pv'[f] = ResetPreview(pv[f])
        BY <3>1 DEF TypeOK
      <4>4. QED BY <4>2, <4>3
    <3>5. SameBytes(f, row[f].hashed, row'[f].hashed)
      BY <3>2 DEF SameBytes
    <3>6. QED BY <2>2, <3>3, <3>4, <3>5, PictureWrite
  <2>5. QED BY <2>3, <2>4
<1>5. CASE ScanDrop(s)
  <2>1. PICK f \in Files : f = scan[s].file
    BY <1>5, ScanFile DEF TypeOK, ScanDrop
  <2>2. /\ UNCHANGED <<disk, row, job, png, present>>
        /\ pv' = pv \/ pv' = [pv EXCEPT ![f] = Deleted]
    BY <1>5, <2>1 DEF ScanDrop, TypeOK
  <2>3. CASE pv' = pv
    BY <2>2, <2>3, PictureStays
  <2>4. CASE pv' = [pv EXCEPT ![f] = Deleted]
    <3>1. pv'[f].state = "deleted" /\ \A g \in Files \ {f} : row'[g] = row[g] /\ pv'[g] = pv[g]
      BY <2>2, <2>4 DEF TypeOK, Deleted, FreshPreview
    <3>2. QED BY <2>2, <3>1, PictureWrite
  <2>5. QED BY <2>2, <2>3, <2>4
<1>6. QED BY <1>1, <1>2, <1>3, <1>4, <1>5 DEF Scan

LEMMA PictureInit == Init => PictureInv
BY DEF Init, PictureInv, NoJob, FreshPreview, NoPreview, Settled, Outcomes

LEMMA PictureStep ==
  ASSUME OneRun, NoReverts, TypeOK, QueueData, PictureInv, [Next]_vars
  PROVE  PictureInv'
<1> USE DEF runVars, dbVars, restVars
<1>1. CASE Tick \/ UNCHANGED vars
  BY <1>1, PictureStays DEF Tick, vars
<1>2. ASSUME NEW f \in Files, User(f) PROVE PictureInv'
  BY <1>2, PictureSave, PictureDelete DEF User
<1>3. ASSUME NEW r \in Runs, Run(r) PROVE PictureInv'
  <2>1. CASE BeginBatch(r)
    BY <2>1, PictureStays DEF BeginBatch
  <2>2. CASE ClaimBatch(r)
    BY <2>2, PictureClaim
  <2>3. CASE Crash(r)
    <3>1. UNCHANGED <<disk, row, pv, png, present>>
      BY <2>3 DEF Crash
    <3>2. \A q \in Runs, f \in Files : job'[q][f].phase = "none"
      BY <2>3 DEF Crash, OneRun, TypeOK, NoJob
    <3>3. QED BY <3>1, <3>2 DEF PictureInv, Settled, DrawnSince, SameBytes
  <2>4. ASSUME NEW f \in Files, Work(r, f) PROVE PictureInv'
    BY <2>4, PictureWork
  <2>5. QED BY <1>3, <2>1, <2>2, <2>3, <2>4 DEF Run
<1>4. ASSUME NEW s \in Scanners, Scan(s) PROVE PictureInv'
  BY <1>4, PictureScan
<1>5. QED BY <1>1, <1>2, <1>3, <1>4 DEF Next

(* ServedPictureIsCurrent: where one process runs the queue, the picture     *)
(* served for a row that is ready and in step with the disk shows the bytes  *)
(* on disk, whatever crashes, expired leases, saves, rescans and deletions   *)
(* come between; claims may fall in one instant.  It rests on one rescan at  *)
(* a time and on files that never return to bytes they had before.           *)
THEOREM ServedPictureOfOneRun ==
  OneRun /\ NoReverts /\ OneScanner => (Spec => []ServedPictureIsCurrent)
<1> SUFFICES ASSUME OneRun, NoReverts, OneScanner PROVE Spec => []ServedPictureIsCurrent
  OBVIOUS
<1>1. TokensApart'
  BY DEF TokensApart, OneRun
<1>2. TypeOK /\ QueueData /\ [Next]_vars => QueueData'
  BY <1>1, QueueDataStep
<1>3. TypeOK /\ QueueData /\ PictureInv /\ [Next]_vars => PictureInv'
  BY PictureStep
<1>4. TypeOK /\ QueueData /\ PictureInv => ServedPictureIsCurrent
  <2> SUFFICES ASSUME TypeOK, QueueData, PictureInv, NEW f \in Files, InStep(f),
                      pv[f].state = "ready"
               PROVE  png[f] # None /\ SameBytes(f, png[f], disk[f])
    BY DEF ServedPictureIsCurrent
  <2>1. row[f].hashed = disk[f] /\ f \in present
    BY Numbers DEF InStep, QueueData, RowInv
  <2>2. png[f] # None
    BY <2>1 DEF PictureInv
  <2>3. PICK h \in Versions : DrawnSince(f, h, png[f])
    BY <2>1 DEF PictureInv
  <2>4. disk[f] \in Versions /\ png[f] \in Versions
    BY <2>2 DEF TypeOK
  <2>5. SameBytes(f, h, png[f])
    BY <2>1, <2>3, <2>4, NoReverts DEF DrawnSince, NoReverts
  <2>6. QED BY <2>1, <2>2, <2>3, <2>5 DEF DrawnSince, SameBytes
<1>5. QED BY <1>2, <1>3, <1>4, QueueDataInit, PictureInit, TypeCorrect, PTL DEF Spec

-----------------------------------------------------------------------------
(* What puts a ready row back in the queue.                                  *)

(* A ready row names a source, and the one rescan that found a row's kind     *)
(* stale still knows the kind the row has.                                    *)
ReadyInv ==
  /\ \A f \in Files : pv[f].state = "ready" => pv[f].source # None
  /\ \A s \in Scanners : scan[s].at \in {"stale", "restamp"} =>
       scan[s].was = row[scan[s].file].kind

(* A row that is ready after a step was so before, or a job has just ended.   *)
LEMMA ReadyNames ==
  ASSUME TypeOK, ReadyInv, [Next]_vars, NEW f \in Files, pv'[f].state = "ready"
  PROVE  pv'[f].source # None
<1>0. pv[f] \in PreviewRows
  BY DEF TypeOK
<1>1. CASE pv'[f] = pv[f]
  BY <1>1 DEF ReadyInv
<1>2. ASSUME NEW r \in Runs, ClaimBatch(r) PROVE pv'[f].source # None
  <2>1. pv'[f] = pv[f] \/ pv'[f] = Claimed(pv[f], stamp[r])
    BY <1>2 DEF ClaimBatch
  <2>2. CASE pv'[f] = Claimed(pv[f], stamp[r])
    BY <1>0, <2>2 DEF Claimed, PreviewRows, ReadyInv
  <2>3. QED BY <1>1, <2>1, <2>2
<1>3. ASSUME NEW r \in Runs, NEW g \in Files, Work(r, g) PROVE pv'[f].source # None
  <2>1. pv' = pv \/ (/\ pv' = [pv EXCEPT ![g] = Recorded(@, job[r][g])]
                    /\ job[r][g].phase \in {"stored", "nothing", "broken"})
    BY <1>3 DEF Work, Draw, DrawFails, StorePng, StoreFails, Finish, FinishLost, dbVars
  <2>2. CASE pv'[f] # pv[f]
    <3>1. pv'[f] = Recorded(pv[f], job[r][f]) /\ job[r][f] \in Jobs
          /\ job[r][f].phase \in {"stored", "nothing", "broken"}
      BY <2>1, <2>2 DEF TypeOK
    <3>2. CASE job[r][f].phase = "nothing"
      BY <1>0, <3>1, <3>2 DEF Recorded, PreviewRows
    <3>3. CASE job[r][f].phase = "broken"
      BY <1>0, <3>1, <3>3 DEF Recorded, PreviewRows
    <3>4. CASE job[r][f].phase = "stored"
      <4>1. pv'[f].source = job[r][f].hashed /\ job[r][f].hashed \in Nat
        BY <1>0, <3>1, <3>4, Numbers DEF Recorded, PreviewRows
      <4>2. QED BY <4>1, NoneAssumption
    <3>5. QED BY <3>1, <3>2, <3>3, <3>4
  <2>3. QED BY <1>1, <2>2
<1>4. ASSUME NEW s \in Scanners, Scan(s), pv'[f] # pv[f] PROVE pv'[f].state # "ready"
  <2>1. \/ pv'[f] = FreshPreview \/ pv'[f] = ResetPreview(pv[f]) \/ pv'[f] = Deleted
    <3>1. \/ pv' = pv
          \/ pv' = [pv EXCEPT ![scan[s].file] = FreshPreview]
          \/ pv' = [pv EXCEPT ![scan[s].file] = ResetPreview(pv[scan[s].file])]
          \/ pv' = [pv EXCEPT ![scan[s].file] = Deleted]
          \/ pv' = [pv EXCEPT ![scan[s].file] = pv[scan[s].file]]
      <4>1. CASE ScanInsert(s) \/ ScanDrop(s)
        BY <4>1 DEF ScanInsert, ScanDrop
      <4>2. CASE ScanUpdate(s) \/ ScanRestamp(s)
        BY <4>2 DEF ScanUpdate, ScanRestamp
      <4>3. QED BY <1>4, <4>1, <4>2
                DEF Scan, ScanWalk, ScanMissing, ScanLookup, ScanRead, ScanSkip, dbVars
    <3>2. QED BY <1>4, <3>1 DEF TypeOK
  <2>2. ResetPreview(pv[f]).state = "pending"
    BY <1>0 DEF ResetPreview, PreviewRows
  <2>3. FreshPreview.state = "pending" /\ Deleted.state = "deleted"
    BY DEF FreshPreview, Deleted
  <2>4. QED BY <2>1, <2>2, <2>3
<1>5. ASSUME NEW g \in Files, User(g), pv'[f] # pv[f] PROVE pv'[f].state # "ready"
  BY <1>5 DEF TypeOK, User, Save, DeleteBytes, DeleteRow, dbVars, Deleted, FreshPreview
<1>6. CASE Tick \/ (\E r \in Runs : BeginBatch(r) \/ Crash(r)) \/ UNCHANGED vars
  BY <1>1, <1>6 DEF Tick, BeginBatch, Crash, vars, dbVars
<1>7. QED BY <1>1, <1>2, <1>3, <1>4, <1>5, <1>6 DEF Next, Run

LEMMA ReadyStep ==
  ASSUME OneScanner, TypeOK, ReadyInv, [Next]_vars
  PROVE  ReadyInv'
<1>1. ASSUME NEW f \in Files, pv'[f].state = "ready" PROVE pv'[f].source # None
  BY <1>1, ReadyNames
<1>2. ASSUME NEW s \in Scanners, scan'[s].at \in {"stale", "restamp"}
      PROVE  scan'[s].was = row'[scan'[s].file].kind
  <2>1. CASE UNCHANGED <<row, scan>>
    BY <1>2, <2>1 DEF ReadyInv
  <2>2. CASE Scan(s)
    <3>0. scan[s] \in Scans
      BY DEF TypeOK
    <3>1. CASE \/ (\E f \in Files : ScanWalk(s, f)) \/ ScanSkip(s) \/ ScanInsert(s) \/ ScanUpdate(s)
               \/ ScanRestamp(s) \/ ScanDrop(s)
      <4>1. PICK sc : SetScan(s, sc) /\ sc.at \in {"idle", "walked", "gone"}
        <5>1. CASE \E f \in Files : ScanWalk(s, f)
          BY <5>1 DEF ScanWalk
        <5>2. CASE ~\E f \in Files : ScanWalk(s, f)
          <6>1. SetScan(s, IdleScan)
            BY <3>1, <5>2 DEF ScanSkip, ScanInsert, ScanUpdate, ScanRestamp, ScanDrop
          <6>2. QED BY <6>1 DEF IdleScan
        <5>3. QED BY <5>1, <5>2
      <4>2. scan'[s].at \in {"idle", "walked", "gone"}
        BY <4>1, ScanAfter
      <4>3. QED BY <1>2, <4>2
    <3>2. CASE ScanLookup(s)
      <4>1. PICK sc : /\ SetScan(s, sc)
                      /\ \/ sc = IdleScan
                         \/ \E at \in {"new", "changed"} : sc = [scan[s] EXCEPT !.at = at]
                         \/ sc = [scan[s] EXCEPT !.at = "stale", !.was = row[scan[s].file].kind]
        BY <3>2 DEF ScanLookup
      <4>2. scan'[s] = sc /\ row' = row
        BY <3>2, <4>1, ScanAfter DEF ScanLookup, dbVars
      <4>3. CASE sc = IdleScan \/ \E at \in {"new", "changed"} : sc = [scan[s] EXCEPT !.at = at]
        <5>1. sc.at \in {"idle", "new", "changed"}
          BY <3>0, <4>3 DEF Scans, IdleScan
        <5>2. QED BY <1>2, <4>2, <5>1
      <4>4. CASE sc = [scan[s] EXCEPT !.at = "stale", !.was = row[scan[s].file].kind]
        <5>1. sc.was = row[scan[s].file].kind /\ sc.file = scan[s].file
          BY <3>0, <4>4 DEF Scans
        <5>2. QED BY <4>2, <5>1
      <4>5. QED BY <4>1, <4>3, <4>4
    <3>3. CASE ScanRead(s)
      <4>1. PICK sc : sc = [scan[s] EXCEPT !.at = WriteOf(scan[s].at), !.hashed = disk[scan[s].file]]
        OBVIOUS
      <4>2. scan'[s] = sc /\ row' = row /\ scan[s].at \in {"new", "changed", "stale"}
        BY <3>3, <4>1, ScanAfter DEF ScanRead, dbVars
      <4>3. sc.at = WriteOf(scan[s].at) /\ sc.was = scan[s].was /\ sc.file = scan[s].file
        BY <3>0, <4>1 DEF Scans
      <4>4. scan[s].at = "stale"
        BY <1>2, <4>2, <4>3 DEF WriteOf
      <4>5. QED BY <4>2, <4>3, <4>4 DEF ReadyInv
    <3>4. CASE ScanMissing(s)
      BY <3>4, <1>2 DEF ScanMissing, ReadyInv
    <3>5. QED BY <2>2, <3>1, <3>2, <3>3, <3>4 DEF Scan
  <2>3. ~(\E t \in Scanners : Scan(t)) => UNCHANGED <<row, scan>>
    BY ZenonT(90) DEF Next, Tick, User, Save, DeleteBytes, DeleteRow, Run, BeginBatch, ClaimBatch, Crash, Work,
           Draw, DrawFails, StorePng, StoreFails, Finish, FinishLost, vars, dbVars
  <2>4. QED BY <2>1, <2>2, <2>3 DEF OneScanner
<1>3. QED BY <1>1, <1>2 DEF ReadyInv

LEMMA ReadyInit == Init => ReadyInv
BY DEF Init, ReadyInv, FreshPreview, NoPreview, IdleScan

(* ReadyIsKeptForSameBytes: with one rescan at a time, for any number of     *)
(* processes and whatever they are saved back to, a ready row returns to the *)
(* queue only because the index now names other bytes or another kind than   *)
(* those it was drawn from.                                                  *)
THEOREM ReadyIsKeptAlways == OneScanner => (Spec => ReadyIsKeptForSameBytes)
<1> SUFFICES ASSUME OneScanner PROVE Spec => ReadyIsKeptForSameBytes
  OBVIOUS
<1> DEFINE Kept ==
      \A f \in Files :
        pv[f].state = "ready" /\ pv'[f].state = "pending" =>
          \/ ~SameBytes(f, pv[f].source, row'[f].hashed)
          \/ row'[f].kind # row[f].kind
<1>1. TypeOK /\ ReadyInv /\ [Next]_vars => ReadyInv'
  BY ReadyStep
<1>2. TypeOK /\ ReadyInv /\ [Next]_vars => [Kept]_vars
  <2> SUFFICES ASSUME TypeOK, ReadyInv, Next, NEW f \in Files,
                      pv[f].state = "ready", pv'[f].state = "pending"
               PROVE  \/ ~SameBytes(f, pv[f].source, row'[f].hashed)
                      \/ row'[f].kind # row[f].kind
    OBVIOUS
  <2>0. pv[f] \in PreviewRows /\ row[f] \in FileRows
    BY DEF TypeOK
  <2>1. ASSUME NEW r \in Runs, Run(r) PROVE FALSE
    <3>1. ASSUME NEW g \in Files, Work(r, g) PROVE pv'[f] = pv[f]
      BY <3>1 DEF TypeOK, Work, Draw, DrawFails, StorePng, StoreFails, Finish, FinishLost, dbVars,
                  Owns
    <3>2. ASSUME ClaimBatch(r) PROVE pv'[f] = pv[f]
      BY <3>2 DEF ClaimBatch, Claimable
    <3>3. QED BY <2>1, <3>1, <3>2 DEF Run, BeginBatch, Crash, dbVars
  <2>2. ASSUME NEW s \in Scanners, Scan(s)
        PROVE  \/ ~SameBytes(f, pv[f].source, row'[f].hashed)
               \/ row'[f].kind # row[f].kind
    <3>1. HasRow(f) /\ pv[f].source # None
      BY DEF HasRow, ReadyInv
    <3>2. CASE ScanUpdate(s)
      <4>1. scan[s].file = f /\ ~SameSource(f, scan[s].hashed)
            /\ row'[f] = FileRow(f, scan[s].seen, scan[s].hashed)
        BY <3>1, <3>2 DEF TypeOK, ScanUpdate
      <4>2. row'[f].hashed = scan[s].hashed
        BY <4>1 DEF FileRow
      <4>3. QED BY <3>1, <4>1, <4>2 DEF SameSource
    <3>3. CASE ScanRestamp(s)
      <4>1. PICK kind :
              /\ scan[s].file = f /\ kind # scan[s].was /\ scan[s].at = "restamp"
              /\ row' = [row EXCEPT ![f] = [@ EXCEPT !.kind = kind, !.by = ClassifierVersion]]
        BY <3>1, <3>3 DEF TypeOK, ScanRestamp
      <4>2. row'[f].kind = kind
        BY <2>0, <4>1 DEF TypeOK, FileRows
      <4>3. QED BY <4>1, <4>2 DEF ReadyInv
    <3>4. CASE ScanInsert(s)
      BY <3>1, <3>4 DEF TypeOK, ScanInsert, FreshPreview
    <3>5. CASE ScanDrop(s)
      BY <3>5 DEF TypeOK, ScanDrop, Deleted, FreshPreview
    <3>6. QED BY <2>2, <3>2, <3>3, <3>4, <3>5
              DEF Scan, ScanWalk, ScanMissing, ScanLookup, ScanRead, ScanSkip, dbVars
  <2>3. ASSUME NEW g \in Files, User(g) PROVE FALSE
    BY <2>3 DEF TypeOK, User, Save, DeleteBytes, DeleteRow, dbVars, Deleted, FreshPreview
  <2>4. CASE Tick
    BY <2>4 DEF Tick, dbVars
  <2>5. QED BY <2>1, <2>2, <2>3, <2>4 DEF Next
<1>3. QED BY <1>1, <1>2, ReadyInit, TypeCorrect, PTL DEF Spec, ReadyIsKeptForSameBytes
=============================================================================
