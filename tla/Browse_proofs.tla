---------------------------- MODULE Browse_proofs ----------------------------
(* Proofs about the model browser, for any number of commands' threads,      *)
(* downloads, views and restarts, any sizes and any limits (BrowseAssumption). *)
(*                                                                           *)
(* The invariant has four parts: what a variable holds (TypeOK), what a      *)
(* download, its entry and its directory say of each other (Downloads), how  *)
(* much is staged (Bounded), and what the view, its slot and the one call at *)
(* work say of each other while calls do not overlap (Undisturbed).          *)
EXTENDS Browse, FiniteSetTheorems, NaturalsInduction, WellFoundedInduction, TLAPS

-----------------------------------------------------------------------------
(* The invariant.                                                            *)

Ending == {"settle", "rewrite", "remove", "retain", "measure", "upload"}
Opening == {"mkdir", "record", "push"}

(* A download that has not been asked for has left nothing, one that has no  *)
(* entry yet has none, and one still being written is listed and recorded as *)
(* unfinished; its view lives.                                               *)
TransferInv(d) ==
  /\ transfer[d].at = "none" => transfer[d] = NoTransfer /\ disk[d] = None
  /\ transfer[d].at # "none" => transfer[d].whole > 0
  /\ transfer[d].at \in {"none", "asked"} => entry[d] = None
  /\ transfer[d].at = "coming" =>
       /\ Running(d) /\ Live(transfer[d].view)
       /\ disk[d] # None /\ disk[d].record # None /\ disk[d].record.state = "progressing"

(* What vouches for the bytes vouches for the whole file.                    *)
VouchInv(d) ==
  /\ entry[d] # None /\ entry[d].verifiable =>
       entry[d].rec.state = "completed" /\ entry[d].bytes = transfer[d].whole
  /\ disk[d] # None /\ disk[d].record # None /\ disk[d].record.state = "completed" =>
       disk[d].record.total = transfer[d].whole

(* What a call knows of the download it is about.                            *)
JobInv(a) ==
  LET j == job[a]
      d == j.id IN
  /\ j.at \in Opening => a = Main /\ d \in Ids /\ transfer[d].at = "asked"
  /\ j.at \in {"record", "push"} => disk[d] # None
  /\ j.at = "push" => disk[d].record = Started
  /\ j.at \in Ending => d \in Ids /\ transfer[d].at \in {"cut", "over"}
  /\ j.at \in {"settle", "rewrite"} =>
       a = Main /\ j.then = "release" /\ (j.ok => j.size = transfer[d].whole)
  /\ j.at = "settle" => (entry[d] # None => Running(d)) /\ (j.ok => j.size <= MaxSingle)
  /\ j.at \in {"measure", "upload"} => a # Main /\ j.then = "idle" /\ j.size = transfer[d].whole
  /\ j.at \in {"measure", "upload"} \/ (j.at \in {"remove", "retain"} /\ j.then = "idle") =>
       ~Running(d)
  /\ j.at = "upload" => Bytes(d) \in {0, transfer[d].whole}
  /\ j.then = "create" => j.at \in {"take", "close", "create", "store"} /\ a # Main
  /\ j.at \in {"take", "close", "keep", "release now"} => j.then # "release"

LandedInv ==
  \A f \in landed : f.bytes = transfer[f.id].whole /\ transfer[f.id].at \in {"cut", "over"}

Downloads ==
  /\ \A d \in Ids : TransferInv(d) /\ VouchInv(d)
  /\ \A a \in Actors : JobInv(a)
  /\ LandedInv

(* A download on its way in has room for a file of its own.                  *)
Claims == Total([d \in Ids |-> Claim(d)])
Room == MaxStaged + MaxConcurrent * MaxSingle
Bounded ==
  /\ Claims <= Room
  /\ job[Main].at \in Opening => Claims + MaxSingle <= Room

ViewInv ==
  /\ \A v \in Views : view[v].visible => view[v].alive
  /\ slot.parked => ~slot.bounds

(* What a call j at work may take for granted as long as it is alone.        *)
OnScreen(j) ==
  \A v \in Views : view[v].visible =>
    /\ j.at # "create"
    /\ j.at \in {"cover", "close", "store"} => v = j.view
    /\ j.at \notin {"cover", "close", "store"} =>
         slot.view = v /\ ~slot.hidden /\ ~slot.parked

Releases(j) ==
  \/ j.at \in {"settle", "rewrite", "remove", "retain"} /\ j.then = "release"
  \/ j.at \in {"release", "release now"} \/ (j.at = "take" /\ j.then # "create")

Surroundings(j) ==
  /\ OnScreen(j)
  /\ slot.parked /\ Live(slot.view) => AnyRunning \/ Releases(j)
  /\ j.at \in {"close", "create", "store"} => slot = NoSlot
  /\ j.at \in {"keep", "park"} => AnyRunning
  /\ j.at = "take" =>
       IF j.then = "create" THEN ~(slot.parked /\ Live(slot.view))
       ELSE ~AnyRunning \/ ~Live(slot.view)
  /\ j.at = "place" => slot.view = j.view /\ slot.hidden = j.hidden /\ slot.bounds

Undisturbed ==
  alone =>
    /\ \A a, b \in Actors : At(a, "idle") \/ At(b, "idle") \/ a = b
    /\ Rest => Surroundings(Idle)
    /\ \A a \in Actors : ~At(a, "idle") => Surroundings(job[a])

Inv == TypeOK /\ Downloads /\ Bounded /\ ViewInv /\ Undisturbed

-----------------------------------------------------------------------------
(* Sums over the downloads.                                                  *)

(* A set of numbers that is not empty has a least one.                       *)
LEMMA LeastOf ==
  ASSUME NEW S \in SUBSET Nat, S # {}
  PROVE  \E m \in S : \A n \in S : m <= n
<1>1. PICK m \in S : \A n \in S : ~(<<n, m>> \in OpToRel(<, Nat))
  BY NatLessThanWellFounded, WFMin
<1>2. \A n \in S : ~(n < m)
  BY <1>1 DEF OpToRel
<1>3. QED BY <1>2

SumsUpTo(c, n, s) ==
  /\ s \in [0 .. n -> Nat] /\ s[0] = 0
  /\ \A m \in 1 .. n : s[m] = s[m - 1] + c[m]

(* The sums of the first numbers exist, and the last of them is the total.   *)
LEMMA PartialSums ==
  ASSUME BrowseAssumption, NEW c \in [Ids -> Nat]
  PROVE  \E s : SumsUpTo(c, MaxDownloads, s) /\ Total(c) = s[MaxDownloads]
<1>1. MaxDownloads \in Nat
  BY DEF BrowseAssumption
<1> DEFINE Bad == {n \in 0 .. MaxDownloads : ~\E s : SumsUpTo(c, n, s)}
<1>2. Bad = {}
  <2> SUFFICES ASSUME Bad # {} PROVE FALSE
    OBVIOUS
  <2>1. PICK m \in Bad : \A n \in Bad : m <= n
    <3>1. Bad \in SUBSET Nat
      BY <1>1
    <3> HIDE DEF Bad
    <3>2. QED BY <3>1, LeastOf
  <2>2. m # 0
    <3>1. SumsUpTo(c, 0, [n \in 0 .. 0 |-> 0])
      BY DEF SumsUpTo
    <3>2. QED BY <2>1, <3>1
  <2>3. m \in Nat /\ m - 1 \in 0 .. MaxDownloads /\ m - 1 < m /\ m \in Ids
    BY <1>1, <2>1, <2>2 DEF Ids
  <2>4. PICK s : SumsUpTo(c, m - 1, s)
    BY <2>1, <2>3
  <2> DEFINE t == [n \in 0 .. m |-> IF n = m THEN s[m - 1] + c[m] ELSE s[n]]
  <2>5. s[m - 1] \in Nat /\ c[m] \in Nat /\ \A n \in 0 .. m : n # m => n \in 0 .. m - 1
    BY <2>3, <2>4 DEF SumsUpTo
  <2>6. t \in [0 .. m -> Nat] /\ t[0] = 0
    BY <2>2, <2>3, <2>4, <2>5 DEF SumsUpTo
  <2>7. ASSUME NEW n \in 1 .. m PROVE t[n] = t[n - 1] + c[n]
    <3>1. n - 1 \in 0 .. m /\ n - 1 # m /\ n \in 0 .. m
      BY <2>3
    <3>2. CASE n = m
      BY <2>3, <3>1, <3>2
    <3>3. CASE n # m
      BY <2>3, <2>4, <3>1, <3>3 DEF SumsUpTo
    <3>4. QED BY <3>2, <3>3
  <2>8. SumsUpTo(c, m, t)
    BY <2>6, <2>7 DEF SumsUpTo
  <2>9. QED BY <2>1, <2>8
<1>3. PICK s : SumsUpTo(c, MaxDownloads, s)
  BY <1>1, <1>2
<1> DEFINE upTo == CHOOSE f :
             f = [n \in 0 .. MaxDownloads |-> IF n = 0 THEN 0 ELSE f[n - 1] + c[n]]
<1>4. s = [n \in 0 .. MaxDownloads |-> IF n = 0 THEN 0 ELSE s[n - 1] + c[n]]
  <2>1. \A n \in 0 .. MaxDownloads : s[n] = IF n = 0 THEN 0 ELSE s[n - 1] + c[n]
    BY <1>1, <1>3 DEF SumsUpTo
  <2>2. QED BY <1>3, <2>1 DEF SumsUpTo
<1>5. upTo = [n \in 0 .. MaxDownloads |-> IF n = 0 THEN 0 ELSE upTo[n - 1] + c[n]]
  BY <1>4
<1>6. Total(c) = upTo[MaxDownloads]
  BY DEF Total
<1> HIDE DEF upTo
<1>7. \A n \in 0 .. MaxDownloads : upTo[n] = s[n]
  <2> DEFINE Off == {n \in 0 .. MaxDownloads : upTo[n] # s[n]}
  <2> SUFFICES ASSUME Off # {} PROVE FALSE
    OBVIOUS
  <2>1. PICK m \in Off : \A n \in Off : m <= n
    <3>1. Off \in SUBSET Nat
      BY <1>1
    <3> HIDE DEF Off
    <3>2. QED BY <3>1, LeastOf
  <2>2. m # 0
    BY <1>1, <1>3, <1>5, <2>1 DEF SumsUpTo
  <2>3. m \in 1 .. MaxDownloads /\ m - 1 \in 0 .. MaxDownloads /\ ~(m <= m - 1)
    BY <1>1, <2>1, <2>2
  <2>4. upTo[m - 1] = s[m - 1]
    BY <2>1, <2>3
  <2>5. upTo[m] = upTo[m - 1] + c[m]
    BY <1>5, <2>1, <2>2
  <2>6. s[m] = s[m - 1] + c[m]
    BY <1>3, <2>3 DEF SumsUpTo
  <2>7. QED BY <2>1, <2>4, <2>5, <2>6
<1>8. QED BY <1>1, <1>3, <1>6, <1>7

(* Adding up to k for each of the downloads in R adds k for each of them.    *)
LEMMA TotalBound ==
  ASSUME BrowseAssumption, NEW c \in [Ids -> Nat], NEW b \in [Ids -> Nat],
         NEW R \in SUBSET Ids, NEW k \in Nat,
         \A d \in Ids : b[d] <= c[d] + (IF d \in R THEN k ELSE 0)
  PROVE  /\ Total(b) \in Nat /\ Total(c) \in Nat
         /\ IsFiniteSet(R) /\ Cardinality(R) \in Nat /\ Total(b) <= Total(c) + Cardinality(R) * k
<1>1. MaxDownloads \in Nat
  BY DEF BrowseAssumption
<1>2. PICK s : SumsUpTo(c, MaxDownloads, s) /\ Total(c) = s[MaxDownloads]
  BY PartialSums
<1>3. PICK t : SumsUpTo(b, MaxDownloads, t) /\ Total(b) = t[MaxDownloads]
  BY PartialSums
<1> DEFINE Some(n) == R \cap (1 .. n)
           Over == {n \in 0 .. MaxDownloads : ~(t[n] <= s[n] + Cardinality(Some(n)) * k)}
<1>4. \A n \in 0 .. MaxDownloads : IsFiniteSet(Some(n)) /\ Cardinality(Some(n)) \in Nat
  <2> SUFFICES ASSUME NEW n \in 0 .. MaxDownloads
               PROVE  IsFiniteSet(Some(n)) /\ Cardinality(Some(n)) \in Nat
    OBVIOUS
  <2>1. 1 \in Int /\ n \in Int
    BY <1>1
  <2>2. IsFiniteSet(1 .. n)
    BY <2>1, FS_Interval
  <2>3. Some(n) \in SUBSET (1 .. n)
    OBVIOUS
  <2>4. QED BY <2>2, <2>3, FS_Subset, FS_CardinalityType
<1>5. Over = {}
  <2> SUFFICES ASSUME Over # {} PROVE FALSE
    OBVIOUS
  <2>1. PICK m \in Over : \A n \in Over : m <= n
    <3>1. Over \in SUBSET Nat
      BY <1>1
    <3> HIDE DEF Over
    <3>2. QED BY <3>1, LeastOf
  <2>2. m # 0
    <3>1. Some(0) = {} /\ Cardinality(Some(0)) = 0
      BY FS_EmptySet
    <3>2. t[0] = 0 /\ s[0] = 0 /\ 0 * k = 0
      BY <1>2, <1>3 DEF SumsUpTo
    <3>3. t[0] <= s[0] + Cardinality(Some(0)) * k
      BY <3>1, <3>2
    <3>4. QED BY <2>1, <3>3
  <2>3. m \in Ids /\ m \in 1 .. MaxDownloads /\ m - 1 \in 0 .. MaxDownloads /\ ~(m <= m - 1)
    BY <1>1, <2>1, <2>2 DEF Ids
  <2> DEFINE p == Cardinality(Some(m - 1))
             q == Cardinality(Some(m))
  <2>4. t[m - 1] <= s[m - 1] + p * k
    BY <2>1, <2>3
  <2>5. t[m] = t[m - 1] + b[m] /\ s[m] = s[m - 1] + c[m]
    BY <1>2, <1>3, <2>3 DEF SumsUpTo
  <2>6. /\ t[m] \in Nat /\ s[m] \in Nat /\ t[m - 1] \in Nat /\ s[m - 1] \in Nat
        /\ b[m] \in Nat /\ c[m] \in Nat /\ p \in Nat /\ q \in Nat
    BY <1>2, <1>3, <1>4, <2>1, <2>3 DEF SumsUpTo
  <2>7. b[m] <= c[m] + (IF m \in R THEN k ELSE 0)
    BY <2>3
  <2>8. q = p + (IF m \in R THEN 1 ELSE 0)
    <3>1. CASE m \in R
      <4>1. Some(m) = Some(m - 1) \cup {m} /\ m \notin Some(m - 1)
        BY <2>3, <3>1 DEF Ids
      <4>2. QED BY <1>4, <2>3, <3>1, <4>1, FS_AddElement
    <3>2. CASE m \notin R
      <4>1. Some(m) = Some(m - 1)
        BY <2>3, <3>2 DEF Ids
      <4>2. q = p
        BY <4>1
      <4> HIDE DEF p, q
      <4>3. QED BY <2>6, <3>2, <4>2
    <3>3. QED BY <3>1, <3>2
  <2> HIDE DEF p, q
  <2>9. q * k = p * k + (IF m \in R THEN k ELSE 0)
    BY <2>6, <2>8
  <2>10. t[m] <= s[m] + q * k
    <3>1. p * k \in Nat /\ q * k \in Nat
      BY <2>6
    <3>2. QED BY <2>4, <2>5, <2>6, <2>7, <2>9, <3>1
  <2>11. QED BY <2>1, <2>10 DEF q
<1>6. Some(MaxDownloads) = R
  BY <1>1 DEF Ids
<1>7. t[MaxDownloads] <= s[MaxDownloads] + Cardinality(R) * k
  BY <1>1, <1>5, <1>6
<1>8. t[MaxDownloads] \in Nat /\ s[MaxDownloads] \in Nat
  BY <1>1, <1>2, <1>3 DEF SumsUpTo
<1>9. IsFiniteSet(R) /\ Cardinality(R) \in Nat
  BY <1>1, <1>4, <1>6
<1>10. QED BY <1>2, <1>3, <1>7, <1>8, <1>9

-----------------------------------------------------------------------------
(* What a step does to the job of its actor.                                 *)

Others(a) == \A b \in Actors \ {a} : job'[b] = job[b]

LEMMA IdleIsAJob ==
  ASSUME BrowseAssumption
  PROVE  Idle \in Jobs /\ \A s \in Stages : [Idle EXCEPT !.at = s] \in Jobs
<1>1. 0 \in Sizes
  BY DEF BrowseAssumption, Sizes
<1>2. Idle \in Jobs
  BY <1>1 DEF Idle, Jobs, Stages
<1>3. QED BY <1>2 DEF Jobs

(* A job with another value in one of its fields is a job.                   *)
LEMMA JobEdits ==
  ASSUME NEW j \in Jobs
  PROVE  /\ \A x \in {"idle", "create", "release"} : [j EXCEPT !.then = x] \in Jobs
         /\ \A x \in Ids : [j EXCEPT !.id = x] \in Jobs
         /\ \A x \in Sizes : [j EXCEPT !.size = x] \in Jobs
         /\ \A x \in BOOLEAN : [j EXCEPT !.ok = x] \in Jobs /\ [j EXCEPT !.hidden = x] \in Jobs
         /\ \A x \in Views \cup {None} : [j EXCEPT !.view = x] \in Jobs
<1>1. \A x \in {"idle", "create", "release"} : [j EXCEPT !.then = x] \in Jobs
  BY DEF Jobs
<1>2. \A x \in Ids : [j EXCEPT !.id = x] \in Jobs
  BY DEF Jobs
<1>3. \A x \in Sizes : [j EXCEPT !.size = x] \in Jobs
  BY DEF Jobs
<1>4. \A x \in BOOLEAN : [j EXCEPT !.ok = x] \in Jobs /\ [j EXCEPT !.hidden = x] \in Jobs
  BY DEF Jobs
<1>5. \A x \in Views \cup {None} : [j EXCEPT !.view = x] \in Jobs
  BY DEF Jobs
<1>6. QED BY <1>1, <1>2, <1>3, <1>4, <1>5

(* A job's own fields, whatever it goes to next.                             *)
LEMMA Goes ==
  ASSUME TypeOK, NEW a \in Actors, NEW s \in Stages, Go(a, s)
  PROVE  /\ job' \in [Actors -> Jobs] /\ Others(a) /\ job'[a].at = s
         /\ job'[a].then = job[a].then /\ job'[a].id = job[a].id /\ job'[a].size = job[a].size
         /\ job'[a].ok = job[a].ok /\ job'[a].view = job[a].view
         /\ job'[a].hidden = job[a].hidden
<1>1. job[a] \in Jobs
  BY DEF TypeOK
<1>2. [job[a] EXCEPT !.at = s] \in Jobs
  BY <1>1 DEF Jobs
<1>3. job' = [job EXCEPT ![a] = [job[a] EXCEPT !.at = s]]
  BY DEF Go, TypeOK
<1>4. job' \in [Actors -> Jobs] /\ Others(a) /\ job'[a] = [job[a] EXCEPT !.at = s]
  BY <1>2, <1>3 DEF TypeOK, Others
<1>5. QED BY <1>1, <1>4 DEF Jobs

LEMMA GoesWith ==
  ASSUME TypeOK, NEW a \in Actors, NEW s \in Stages, NEW v \in Views \cup {None},
         GoWith(a, s, [job[a] EXCEPT !.view = v])
  PROVE  /\ job' \in [Actors -> Jobs] /\ Others(a) /\ job'[a].at = s
         /\ job'[a].then = job[a].then /\ job'[a].view = v
<1>1. job[a] \in Jobs
  BY DEF TypeOK
<1>2. PICK j \in Jobs : j = [job[a] EXCEPT !.view = v]
  BY <1>1 DEF Jobs
<1>3. j.view = v /\ j.then = job[a].then
  BY <1>1, <1>2 DEF Jobs
<1>4. PICK k \in Jobs : k = [j EXCEPT !.at = s]
  BY <1>2 DEF Jobs
<1>5. k.at = s /\ k.view = v /\ k.then = job[a].then
  BY <1>2, <1>3, <1>4 DEF Jobs
<1>6. job' = [job EXCEPT ![a] = k]
  BY <1>2, <1>4 DEF GoWith
<1>7. job' \in [Actors -> Jobs] /\ Others(a) /\ job'[a] = k
  BY <1>4, <1>6 DEF TypeOK, Others
<1>8. QED BY <1>5, <1>7

LEMMA Becomes ==
  ASSUME TypeOK, NEW a \in Actors, NEW j \in Jobs, job' = [job EXCEPT ![a] = j]
  PROVE  job' \in [Actors -> Jobs] /\ Others(a) /\ job'[a] = j
BY DEF TypeOK, Others

LEMMA Ends ==
  ASSUME BrowseAssumption, TypeOK, NEW a \in Actors, End(a)
  PROVE  job' \in [Actors -> Jobs] /\ Others(a) /\ job'[a] = Idle
BY Becomes, IdleIsAJob DEF End

LEMMA GoesThen ==
  ASSUME BrowseAssumption, TypeOK, NEW a \in Actors, Then(a)
  PROVE  /\ job' \in [Actors -> Jobs] /\ Others(a) /\ job'[a].at = job[a].then
         /\ job'[a].then = "idle" /\ job'[a] = [Idle EXCEPT !.at = job[a].then]
         /\ job[a].then \in {"idle", "create", "release"}
<1>1. job[a].then \in {"idle", "create", "release"} /\ job[a].then \in Stages
  BY DEF TypeOK, Jobs, Stages
<1>2. PICK j \in Jobs : j = [Idle EXCEPT !.at = job[a].then]
  BY <1>1, IdleIsAJob
<1>3. j.at = job[a].then /\ j.then = "idle"
  BY <1>2 DEF Idle
<1>4. job' \in [Actors -> Jobs] /\ Others(a) /\ job'[a] = j
  BY <1>2, Becomes DEF Then
<1>5. QED BY <1>1, <1>2, <1>3, <1>4

LEMMA Begun ==
  ASSUME TypeOK, NEW a \in Actors, NEW j \in Jobs, Begins(a, j)
  PROVE  /\ job' \in [Actors -> Jobs] /\ Others(a) /\ job'[a] = j
         /\ alone' = (alone /\ Rest) /\ starts' = starts /\ alone' \in BOOLEAN
BY Becomes DEF Begins, Rest, TypeOK

-----------------------------------------------------------------------------
(* What a step must show of each part of the invariant.                      *)

(* A call that goes on, or one that begins, sees what it takes for granted,  *)
(* and no other is at work.                                                  *)
LEMMA StillUndisturbed ==
  ASSUME Undisturbed, NEW a \in Actors, Others(a),
         alone' => alone /\ (Rest \/ ~At(a, "idle")),
         alone' => Surroundings(job[a])'
  PROVE  Undisturbed'
<1> SUFFICES ASSUME alone'
    PROVE  /\ \A b, c \in Actors : At(b, "idle")' \/ At(c, "idle")' \/ b = c
           /\ Rest' => Surroundings(Idle)'
           /\ \A b \in Actors : ~At(b, "idle")' => Surroundings(job[b])'
  BY DEF Undisturbed
<1>1. \A b \in Actors \ {a} : job'[b].at = "idle"
  BY DEF Undisturbed, Others, At, Rest
<1>2. \A b, c \in Actors : At(b, "idle")' \/ At(c, "idle")' \/ b = c
  BY <1>1 DEF At
<1>3. \A b \in Actors : ~At(b, "idle")' => Surroundings(job[b])'
  BY <1>1 DEF At
<1>4. ASSUME job'[a].at = "idle" PROVE Surroundings(Idle)'
  BY <1>4 DEF Surroundings, OnScreen, Releases, Idle
<1>5. QED BY <1>2, <1>3, <1>4 DEF Rest, At

(* A call that opens a download knows nothing but what it has done so far.   *)
LEMMA OpeningJob ==
  ASSUME NEW b \in Actors, NEW d \in Ids, job'[b].id = d, b = Main, transfer'[d].at = "asked",
         job'[b].at \in Opening, job'[b].then # "create",
         job'[b].at \notin Ending \cup {"take", "close", "keep", "release now"},
         job'[b].at \in {"record", "push"} => disk'[d] # None,
         job'[b].at = "push" => disk'[d].record = Started
  PROVE  JobInv(b)'
<1>1. job'[b].at \notin {"settle", "rewrite", "remove", "retain", "measure", "upload"}
  BY DEF Ending
<1>2. QED BY <1>1 DEF JobInv

(* What one call knows of its download outlives the step of another.         *)
LEMMA JobStays ==
  ASSUME NEW b \in Actors, JobInv(b), job'[b] = job[b],
         \A d \in Ids : transfer[d].at # "none" =>
           /\ transfer'[d].whole = transfer[d].whole
           /\ transfer[d].at \in {"cut", "over"} => transfer'[d].at \in {"cut", "over"},
         \A d \in Ids : job[b].at \in Opening /\ d = job[b].id /\ transfer[d].at = "asked" =>
           transfer'[d].at = "asked" /\ disk'[d] = disk[d],
         \A d \in Ids : job[b].at \in Ending /\ d = job[b].id /\ transfer[d].at \in {"cut", "over"} =>
           /\ Running(d)' => Running(d)
           /\ job[b].at = "settle" /\ entry'[d] # None => entry'[d] = entry[d]
           /\ Bytes(d)' \in {0, Bytes(d)}
  PROVE  JobInv(b)'
<1> DEFINE d == job[b].id
<1>1. CASE job[b].at \in Opening
  <2>1. d \in Ids /\ transfer[d].at = "asked" /\ b = Main
    BY <1>1 DEF JobInv
  <2>2. transfer'[d].at = "asked" /\ disk'[d] = disk[d]
    BY <1>1, <2>1
  <2>3. /\ job[b].at \in {"record", "push"} => disk[d] # None
        /\ job[b].at = "push" => disk[d].record = Started
        /\ job[b].then # "create"
    BY <1>1 DEF JobInv, Opening
  <2>4. job[b].at \notin Ending \cup {"take", "close", "keep", "release now"}
    BY <1>1 DEF Opening, Ending
  <2>5. QED BY <1>1, <2>1, <2>2, <2>3, <2>4, OpeningJob
<1>2. CASE job[b].at \in Ending
  <2>1. d \in Ids /\ transfer[d].at \in {"cut", "over"}
    BY <1>2 DEF JobInv
  <2>2. /\ transfer'[d].at \in {"cut", "over"} /\ transfer'[d].whole = transfer[d].whole
        /\ Running(d)' => Running(d)
        /\ Bytes(d)' \in {0, Bytes(d)}
    BY <1>2, <2>1
  <2>3. job[b].at = "settle" /\ entry'[d] # None => entry'[d] = entry[d] /\ (Running(d) => Running(d)')
    BY <1>2, <2>1 DEF Running
  <2>4. job[b].at \in {"settle", "rewrite"} =>
          /\ b = Main /\ job[b].then = "release"
          /\ job[b].ok => job[b].size = transfer'[d].whole
    BY <2>2 DEF JobInv
  <2>5. job[b].at = "settle" =>
          (entry'[d] # None => Running(d)') /\ (job[b].ok => job[b].size <= MaxSingle)
    BY <2>3 DEF JobInv
  <2>6. job[b].at \in {"measure", "upload"} =>
          b # Main /\ job[b].then = "idle" /\ job[b].size = transfer'[d].whole
    BY <2>2 DEF JobInv
  <2>7. job[b].at \in {"measure", "upload"}
          \/ (job[b].at \in {"remove", "retain"} /\ job[b].then = "idle") => ~Running(d)'
    BY <2>2 DEF JobInv
  <2>8. job[b].at = "upload" => Bytes(d)' \in {0, transfer'[d].whole}
    BY <2>2 DEF JobInv
  <2>9. job[b].then # "create"
    BY <1>2 DEF JobInv, Ending
  <2>10. job[b].at \notin Opening \cup {"take", "close", "keep", "release now"}
    BY <1>2 DEF Opening, Ending
  <2>11. QED
    BY <1>2, <2>1, <2>2, <2>4, <2>5, <2>6, <2>7, <2>8, <2>9, <2>10 DEF JobInv, Opening
<1>3. CASE job[b].at \notin Opening \cup Ending
  BY <1>3 DEF JobInv, Opening, Ending
<1>4. QED BY <1>1, <1>2, <1>3

(* A step that leaves the downloads alone has only its own job to show.      *)
LEMMA DownloadsAreKept ==
  ASSUME TypeOK, Downloads, NEW a \in Actors, Others(a), UNCHANGED <<stageVars, landed>>,
         \A v \in Views : view[v].alive => view'[v].alive, JobInv(a)'
  PROVE  Downloads'
<1>1. \A d \in Ids : (Running(d)' <=> Running(d)) /\ Bytes(d)' = Bytes(d)
  BY DEF Running, Bytes, stageVars
<1>2. \A d \in Ids : TransferInv(d)' /\ VouchInv(d)'
  <2> SUFFICES ASSUME NEW d \in Ids PROVE TransferInv(d)' /\ VouchInv(d)'
    OBVIOUS
  <2>1. TransferInv(d) /\ VouchInv(d) /\ transfer[d].view \in Views \cup {None}
    BY DEF Downloads, TypeOK, Transfers
  <2>2. VouchInv(d)'
    BY <2>1 DEF VouchInv, stageVars
  <2>3. Live(transfer[d].view) => Live(transfer[d].view)'
    BY <2>1 DEF Live, stageVars
  <2>4. TransferInv(d)'
    BY <1>1, <2>1, <2>3 DEF TransferInv, stageVars
  <2>5. QED BY <2>2, <2>4
<1>3. \A b \in Actors : JobInv(b)'
  <2> SUFFICES ASSUME NEW b \in Actors, b # a PROVE JobInv(b)'
    OBVIOUS
  <2>1. JobInv(b) /\ job'[b] = job[b]
    BY DEF Downloads, Others
  <2>2. transfer' = transfer /\ entry' = entry /\ disk' = disk
    BY DEF stageVars
  <2>3. QED BY <1>1, <2>1, <2>2, JobStays
<1>4. LandedInv'
  BY DEF LandedInv, Downloads, stageVars
<1>5. QED BY <1>2, <1>3, <1>4 DEF Downloads

(* A step that makes no entry and asks for none takes no room.               *)
LEMMA ClaimTypes ==
  ASSUME BrowseAssumption, TypeOK
  PROVE  [d \in Ids |-> Claim(d)] \in [Ids -> Nat]
BY DEF TypeOK, BrowseAssumption, Claim, Entries, Sizes

LEMMA BoundedIsKept ==
  ASSUME BrowseAssumption, TypeOK, TypeOK', Bounded,
         \A d \in Ids : Claim(d)' <= Claim(d),
         job'[Main].at \in Opening => job[Main].at \in Opening
  PROVE  Bounded'
<1> DEFINE c == [d \in Ids |-> Claim(d)]
           b == [d \in Ids |-> Claim(d)']
<1>1. c \in [Ids -> Nat]
  BY ClaimTypes
<1>2. b \in [Ids -> Nat]
  BY DEF TypeOK, BrowseAssumption, Claim, Entries, Sizes
<1>3. \A d \in Ids : b[d] <= c[d] + (IF d \in {} THEN 0 ELSE 0)
  BY <1>1
<1> HIDE DEF b, c
<1>4. Total(b) \in Nat /\ Total(c) \in Nat /\ Total(b) <= Total(c) + Cardinality({}) * 0
  BY <1>1, <1>2, <1>3, TotalBound
<1>5. Total(b) <= Total(c)
  BY <1>4, FS_EmptySet
<1>6. Claims = Total(c) /\ Claims' = Total(b)
  BY DEF Claims, b, c, Total
<1>7. Room \in Int /\ Room' = Room /\ MaxSingle \in Nat
  BY DEF Room, BrowseAssumption
<1>8. QED BY <1>4, <1>5, <1>6, <1>7 DEF Bounded

LEMMA SameRunning ==
  ASSUME UNCHANGED entry
  PROVE  (AnyRunning' <=> AnyRunning) /\ \A d \in Ids : Running(d)' <=> Running(d)
BY DEF AnyRunning, Running

LEMMA BoundedStays ==
  ASSUME Bounded, UNCHANGED entry, job'[Main].at \in Opening => job[Main].at \in Opening
  PROVE  Bounded'
<1>1. Claims' = Claims /\ Room' = Room
  BY DEF Claims, Room, Claim, Running
<1>2. QED BY <1>1 DEF Bounded

(* A step of the view leaves the downloads alone.                            *)
LEMMA HostStep ==
  ASSUME BrowseAssumption, Inv, NEW a \in Actors,
         job' \in [Actors -> Jobs], Others(a), UNCHANGED <<stageVars, landed>>,
         slot' \in [view : Views \cup {None}, bounds : BOOLEAN, hidden : BOOLEAN,
                    parked : BOOLEAN],
         view' \in [Views -> [alive : BOOLEAN, visible : BOOLEAN, used : BOOLEAN]],
         \A v \in Views : view[v].alive => view'[v].alive,
         alone' \in BOOLEAN, ViewInv', job'[a].at \notin Opening \cup Ending,
         job'[a].then = "create" => job'[a].at \in {"take", "close", "create", "store"} /\ a # Main,
         job'[a].at \in {"take", "close", "keep", "release now"} => job'[a].then # "release",
         alone' => alone /\ (Rest \/ ~At(a, "idle")),
         alone' => Surroundings(job[a])'
  PROVE  Inv'
<1>1. TypeOK'
  BY DEF Inv, TypeOK, stageVars
<1>2. JobInv(a)'
  BY DEF JobInv, Opening, Ending
<1>3. Downloads'
  BY <1>2, DownloadsAreKept DEF Inv
<1>4. job'[Main].at \in Opening => job[Main].at \in Opening
  BY DEF Others, Actors
<1>5. Bounded'
  BY <1>4, BoundedStays DEF Inv, stageVars
<1>6. Undisturbed'
  BY StillUndisturbed DEF Inv
<1>7. QED BY <1>1, <1>3, <1>5, <1>6 DEF Inv

LEMMA Facts ==
  ASSUME Inv, NEW a \in Actors
  PROVE  /\ TypeOK /\ ViewInv /\ JobInv(a) /\ job[a] \in Jobs
         /\ slot \in [view : Views \cup {None}, bounds : BOOLEAN, hidden : BOOLEAN,
                      parked : BOOLEAN]
         /\ view \in [Views -> [alive : BOOLEAN, visible : BOOLEAN, used : BOOLEAN]]
         /\ alone \in BOOLEAN /\ (alone /\ ~At(a, "idle") => Surroundings(job[a]))
         /\ (alone /\ Rest => Surroundings(Idle))
BY DEF Inv, TypeOK, Downloads, Undisturbed

LEMMA TakeKeeps ==
  ASSUME BrowseAssumption, Inv, NEW a \in Actors, Take(a)
  PROVE  Inv'
<1>1. /\ job' \in [Actors -> Jobs] /\ Others(a) /\ job'[a].at = "close"
      /\ job'[a].then = job[a].then /\ job'[a].view = slot.view
  <2>1. slot.view \in Views \cup {None} /\ "close" \in Stages
    BY Facts DEF Stages
  <2>2. GoWith(a, "close", [job[a] EXCEPT !.view = slot.view])
    BY DEF Take
  <2>3. QED BY <2>1, <2>2, Facts, GoesWith
<1>2. /\ job[a].at = "take" /\ ~At(a, "idle") /\ slot' = NoSlot /\ view' = view /\ alone' = alone
      /\ UNCHANGED <<stageVars, landed>>
  BY DEF Take, At, tallyVars
<1>3. slot' \in [view : Views \cup {None}, bounds : BOOLEAN, hidden : BOOLEAN, parked : BOOLEAN]
  BY <1>2 DEF NoSlot
<1>4. ViewInv' /\ job'[a].at \notin Opening \cup Ending
  BY <1>1, <1>2, Facts DEF ViewInv, NoSlot, Opening, Ending
<1>5. ASSUME alone PROVE Surroundings(job[a])'
  <2>1. OnScreen(job[a]) /\ OnScreen(job[a])'
    BY <1>1, <1>2, <1>5, Facts DEF Surroundings, OnScreen
  <2>2. QED BY <1>1, <1>2, <2>1 DEF Surroundings, NoSlot
<1>6. job[a].then # "release" /\ (job[a].then = "create" => a # Main)
  BY <1>2, Facts DEF JobInv
<1>7. QED BY <1>1, <1>2, <1>3, <1>4, <1>5, <1>6, Facts, HostStep

LEMMA CreateKeeps ==
  ASSUME BrowseAssumption, Inv, NEW a \in Threads, Create(a)
  PROVE  Inv'
<1>1. /\ a \in Actors /\ a # Main /\ job[a].at = "create" /\ ~At(a, "idle") /\ slot' = slot
      /\ alone' = alone /\ UNCHANGED <<stageVars, landed>>
  BY DEF Create, At, Actors, tallyVars, BrowseAssumption
<1>2. CASE UNCHANGED view /\ End(a)
  <2>1. job' \in [Actors -> Jobs] /\ Others(a) /\ job'[a] = Idle
    BY <1>1, <1>2, Facts, Ends
  <2>2. ViewInv' /\ Idle.at \notin Opening \cup Ending /\ Idle.then = "idle" /\ Idle.at = "idle"
    BY <1>1, <1>2, Facts DEF ViewInv, Idle, Opening, Ending
  <2>3. ASSUME alone PROVE Surroundings(job[a])'
    <3>1. Surroundings(job[a])
      BY <1>1, <2>3, Facts
    <3>2. QED BY <1>1, <1>2, <2>1, <2>2, <3>1 DEF Surroundings, OnScreen, NoSlot
  <2>4. QED BY <1>1, <1>2, <2>1, <2>2, <2>3, Facts, HostStep
<1>3. CASE \E v \in Views :
             /\ \A w \in Views : ~view[w].alive
             /\ view' = [view EXCEPT ![v] = [alive |-> TRUE, visible |-> TRUE, used |-> TRUE]]
             /\ GoWith(a, "store", [job[a] EXCEPT !.view = v])
  <2>1. PICK v \in Views :
             /\ \A w \in Views : ~view[w].alive
             /\ view' = [view EXCEPT ![v] = [alive |-> TRUE, visible |-> TRUE, used |-> TRUE]]
             /\ GoWith(a, "store", [job[a] EXCEPT !.view = v])
    BY <1>3
  <2>2. /\ job' \in [Actors -> Jobs] /\ Others(a) /\ job'[a].at = "store"
        /\ job'[a].then = job[a].then /\ job'[a].view = v
    BY <1>1, <2>1, Facts, GoesWith DEF Stages
  <2>3. /\ view' \in [Views -> [alive : BOOLEAN, visible : BOOLEAN, used : BOOLEAN]]
        /\ view'[v].visible /\ view'[v].alive
        /\ \A w \in Views : w # v => view'[w] = view[w]
    BY <1>1, <2>1, Facts
  <2>4. ViewInv' /\ \A w \in Views : view'[w].visible => w = v
    BY <1>1, <2>1, <2>3, Facts DEF ViewInv
  <2>5. job'[a].at \notin Opening \cup Ending
    BY <2>2 DEF Opening, Ending
  <2>6. ASSUME alone PROVE Surroundings(job[a])'
    <3>1. slot = NoSlot
      BY <1>1, <2>6, Facts DEF Surroundings
    <3>2. QED BY <1>1, <2>2, <2>4, <3>1 DEF Surroundings, OnScreen, NoSlot
  <2>7. QED BY <1>1, <2>1, <2>2, <2>3, <2>4, <2>5, <2>6, Facts, HostStep
<1>4. QED BY <1>2, <1>3 DEF Create

LEMMA StoreKeeps ==
  ASSUME BrowseAssumption, Inv, NEW a \in Threads, Store(a)
  PROVE  Inv'
<1>1. /\ a \in Actors /\ job[a].at = "store" /\ ~At(a, "idle") /\ view' = view
      /\ alone' = alone /\ UNCHANGED <<stageVars, landed>>
      /\ slot' = [view |-> job[a].view, bounds |-> TRUE, hidden |-> FALSE, parked |-> FALSE]
      /\ job' = [job EXCEPT ![a] = [Idle EXCEPT !.at = "apply"]]
  BY DEF Store, At, Actors, tallyVars
<1>2. PICK j \in Jobs : j = [Idle EXCEPT !.at = "apply"]
  BY IdleIsAJob DEF Stages
<1>3. j.at = "apply" /\ j.then = "idle"
  BY <1>2 DEF Idle
<1>4. job' \in [Actors -> Jobs] /\ Others(a) /\ job'[a] = j
  BY <1>1, <1>2, Facts, Becomes
<1>5. slot' \in [view : Views \cup {None}, bounds : BOOLEAN, hidden : BOOLEAN, parked : BOOLEAN]
  BY <1>1, Facts DEF Jobs
<1>6. ViewInv' /\ j.at \notin Opening \cup Ending
  BY <1>1, <1>3, Facts DEF ViewInv, Opening, Ending
<1>7. ASSUME alone PROVE Surroundings(job[a])'
  <2>1. OnScreen(job[a])
    BY <1>1, <1>7, Facts DEF Surroundings
  <2>2. QED BY <1>1, <1>3, <1>4, <2>1 DEF Surroundings, OnScreen
<1>8. QED BY <1>1, <1>3, <1>4, <1>5, <1>6, <1>7, Facts, HostStep

LEMMA ApplyKeeps ==
  ASSUME BrowseAssumption, Inv, NEW a \in Actors, Apply(a)
  PROVE  Inv'
<1>1. /\ job[a].at = "apply" /\ ~At(a, "idle") /\ slot' = slot /\ view' = view
      /\ alone' = alone /\ UNCHANGED <<stageVars, landed>>
  BY DEF Apply, At, tallyVars, hostVars
<1>2. ViewInv'
  BY <1>1, Facts DEF ViewInv
<1>3. ASSUME alone PROVE Surroundings(job[a])
  BY <1>1, <1>3, Facts
<1>4. (AnyRunning' <=> AnyRunning)
  BY <1>1, SameRunning DEF stageVars
<1>5. CASE End(a)
  <2>1. job' \in [Actors -> Jobs] /\ Others(a) /\ job'[a] = Idle
    BY <1>5, Facts, Ends
  <2>2. Idle.at \notin Opening \cup Ending /\ Idle.then = "idle" /\ Idle.at = "idle"
    BY DEF Idle, Opening, Ending
  <2>3. ASSUME alone PROVE Surroundings(job[a])'
    BY <1>1, <1>3, <1>4, <2>1, <2>2, <2>3 DEF Surroundings, OnScreen, Releases, Live
  <2>4. QED BY <1>1, <1>2, <2>1, <2>2, <2>3, Facts, HostStep
<1>6. CASE /\ slot.bounds
           /\ job' = [job EXCEPT ![a] =
                [Idle EXCEPT !.at = "place", !.view = slot.view, !.hidden = slot.hidden]]
  <2>1. PICK i \in Jobs : i = [Idle EXCEPT !.at = "place"]
    BY IdleIsAJob DEF Stages
  <2>2. PICK k \in Jobs : k = [i EXCEPT !.view = slot.view]
    BY <2>1, Facts, JobEdits
  <2>3. PICK j \in Jobs : j = [k EXCEPT !.hidden = slot.hidden]
    BY <2>2, Facts, JobEdits
  <2>4. i.at = "place" /\ i.then = "idle"
    BY <2>1 DEF Idle
  <2>5. k.at = "place" /\ k.then = "idle" /\ k.view = slot.view
    BY <2>1, <2>2, <2>4 DEF Jobs
  <2>6. j.at = "place" /\ j.then = "idle" /\ j.view = slot.view /\ j.hidden = slot.hidden
    BY <2>2, <2>3, <2>5 DEF Jobs
  <2>7. job' = [job EXCEPT ![a] = j]
    BY <1>6, <2>1, <2>2, <2>3
  <2>8. job' \in [Actors -> Jobs] /\ Others(a) /\ job'[a] = j
    BY <2>7, Facts, Becomes
  <2>9. ASSUME alone PROVE Surroundings(job[a])'
    BY <1>1, <1>3, <1>4, <1>6, <2>6, <2>8, <2>9 DEF Surroundings, OnScreen, Releases, Live
  <2>10. j.at \notin Opening \cup Ending
    BY <2>6 DEF Opening, Ending
  <2>11. QED BY <1>1, <1>2, <2>6, <2>8, <2>9, <2>10, Facts, HostStep
<1>7. QED BY <1>5, <1>6 DEF Apply

(* The view is shown or hidden as the call was told.                         *)
LEMMA PlaceKeeps ==
  ASSUME BrowseAssumption, Inv, NEW a \in Actors, Place(a)
  PROVE  Inv'
<1>1. /\ job[a].at = "place" /\ ~At(a, "idle") /\ slot' = slot /\ End(a)
      /\ alone' = alone /\ UNCHANGED <<stageVars, landed>>
  BY DEF Place, At, tallyVars
<1>2. job' \in [Actors -> Jobs] /\ Others(a) /\ job'[a] = Idle
  BY <1>1, Facts, Ends
<1>3. Idle.at \notin Opening \cup Ending /\ Idle.then = "idle" /\ Idle.at = "idle"
  BY DEF Idle, Opening, Ending
<1>4. ASSUME alone PROVE Surroundings(job[a])
  BY <1>1, <1>4, Facts
<1>5. (AnyRunning' <=> AnyRunning)
  BY <1>1, SameRunning DEF stageVars
<1>6. /\ view' \in [Views -> [alive : BOOLEAN, visible : BOOLEAN, used : BOOLEAN]]
      /\ \A v \in Views : view'[v].alive = view[v].alive
      /\ \A v \in Views : view'[v].visible =>
           view[v].visible \/ (v = job[a].view /\ ~job[a].hidden /\ view[v].alive)
  <2>1. CASE UNCHANGED view
    BY <2>1, Facts
  <2>2. CASE Live(job[a].view) /\ \E seen \in BOOLEAN :
               /\ job[a].hidden => ~seen
               /\ view' = [view EXCEPT ![job[a].view].visible = seen]
    BY <2>2, Facts DEF Live, Jobs
  <2>3. QED BY <2>1, <2>2 DEF Place
<1>7. ViewInv'
  BY <1>1, <1>6, Facts DEF ViewInv
<1>8. \A v : v \in Views \cup {None} /\ Live(v)' => Live(v)
  BY <1>6 DEF Live
<1>9. ASSUME alone PROVE Surroundings(job[a])'
  <2>1. OnScreen(job[a])'
    BY <1>1, <1>2, <1>3, <1>4, <1>6, <1>9, Facts DEF Surroundings, OnScreen, ViewInv
  <2>2. slot'.parked /\ Live(slot.view)' => AnyRunning'
    BY <1>1, <1>4, <1>5, <1>8, <1>9, Facts DEF Surroundings, Releases
  <2>3. QED BY <1>2, <1>3, <2>1, <2>2 DEF Surroundings
<1>10. QED BY <1>1, <1>2, <1>3, <1>6, <1>7, <1>9, Facts, HostStep

LEMMA CoverKeeps ==
  ASSUME BrowseAssumption, Inv, NEW a \in Threads, Cover(a)
  PROVE  Inv'
<1>1. /\ a \in Actors /\ job[a].at = "cover" /\ ~At(a, "idle") /\ slot' = slot /\ End(a)
      /\ alone' = alone /\ UNCHANGED <<stageVars, landed>>
  BY DEF Cover, At, Actors, tallyVars
<1>2. job' \in [Actors -> Jobs] /\ Others(a) /\ job'[a] = Idle
  BY <1>1, Facts, Ends
<1>3. Idle.at \notin Opening \cup Ending /\ Idle.then = "idle" /\ Idle.at = "idle"
  BY DEF Idle, Opening, Ending
<1>4. ASSUME alone PROVE Surroundings(job[a])
  BY <1>1, <1>4, Facts
<1>5. (AnyRunning' <=> AnyRunning)
  BY <1>1, SameRunning DEF stageVars
<1>6. /\ view' \in [Views -> [alive : BOOLEAN, visible : BOOLEAN, used : BOOLEAN]]
      /\ \A v \in Views : view'[v].alive = view[v].alive
      /\ \A v \in Views : view'[v].visible =>
           view[v].visible /\ (v = job[a].view => ~view[v].alive)
  <2>1. CASE ~Live(job[a].view) /\ UNCHANGED view
    <3>1. None \notin Views
      BY DEF BrowseAssumption, Views
    <3>2. view \in [Views -> [alive : BOOLEAN, visible : BOOLEAN, used : BOOLEAN]]
      BY <1>1, Facts
    <3>3. QED BY <2>1, <3>1, <3>2 DEF Live
  <2>2. CASE Live(job[a].view) /\ view' = [view EXCEPT ![job[a].view].visible = FALSE]
    <3>1. /\ job[a].view \in Views
          /\ view \in [Views -> [alive : BOOLEAN, visible : BOOLEAN, used : BOOLEAN]]
      BY <1>1, <2>2, Facts DEF Live, Jobs
    <3>2. /\ view' \in [Views -> [alive : BOOLEAN, visible : BOOLEAN, used : BOOLEAN]]
          /\ ~view'[job[a].view].visible
          /\ view'[job[a].view].alive = view[job[a].view].alive
      BY <2>2, <3>1
    <3>3. \A v \in Views : v # job[a].view => view'[v] = view[v]
      BY <2>2, <3>1
    <3>4. QED BY <3>2, <3>3
  <2>3. QED BY <2>1, <2>2 DEF Cover
<1>7. ViewInv'
  BY <1>1, <1>6, Facts DEF ViewInv
<1>8. \A v : v \in Views \cup {None} /\ Live(v)' => Live(v)
  BY <1>6 DEF Live
<1>9. ASSUME alone PROVE Surroundings(job[a])'
  <2>1. OnScreen(job[a])'
    BY <1>1, <1>2, <1>3, <1>4, <1>6, <1>9, Facts DEF Surroundings, OnScreen, ViewInv
  <2>2. slot'.parked /\ Live(slot.view)' => AnyRunning'
    BY <1>1, <1>4, <1>5, <1>8, <1>9, Facts DEF Surroundings, Releases
  <2>3. QED BY <1>2, <1>3, <2>1, <2>2 DEF Surroundings
<1>10. QED BY <1>1, <1>2, <1>3, <1>6, <1>7, <1>9, Facts, HostStep

(* The steps that only read, or move the slot.                               *)
LEMMA KeepKeeps ==
  ASSUME BrowseAssumption, Inv, NEW a \in Threads, Keep(a)
  PROVE  Inv'
<1>1. /\ a \in Actors /\ a # Main /\ job[a].at = "keep" /\ ~At(a, "idle")
      /\ slot' = slot /\ view' = view /\ alone' = alone /\ UNCHANGED <<stageVars, landed>>
  BY DEF Keep, At, Actors, tallyVars, hostVars, BrowseAssumption
<1> DEFINE s == IF Live(slot.view) THEN "park" ELSE "take"
<1>2. /\ job' \in [Actors -> Jobs] /\ Others(a) /\ job'[a].at = s /\ job'[a].then = job[a].then
  <2>1. s \in Stages
    BY DEF Stages
  <2>2. QED BY <1>1, <2>1, Facts, Goes DEF Keep
<1>3. job[a].then \notin {"create", "release"} /\ s \notin Opening \cup Ending
  BY <1>1, Facts DEF JobInv, Opening, Ending
<1>4. ViewInv' /\ (AnyRunning' <=> AnyRunning) /\ (Live(slot.view)' <=> Live(slot.view))
  BY <1>1, Facts, SameRunning DEF ViewInv, stageVars, Live
<1>5. ASSUME alone PROVE Surroundings(job[a])'
  <2>1. Surroundings(job[a])
    BY <1>1, <1>5, Facts
  <2>2. QED BY <1>1, <1>2, <1>3, <1>4, <2>1 DEF Surroundings, OnScreen, Releases
<1>6. QED BY <1>1, <1>2, <1>3, <1>4, <1>5, Facts, HostStep

LEMMA ParkKeeps ==
  ASSUME BrowseAssumption, Inv, NEW a \in Threads, Park(a)
  PROVE  Inv'
<1>1. /\ a \in Actors /\ a # Main /\ job[a].at = "park" /\ ~At(a, "idle")
      /\ slot' = [slot EXCEPT !.parked = TRUE, !.bounds = FALSE]
      /\ view' = view /\ alone' = alone /\ UNCHANGED <<stageVars, landed>>
  BY DEF Park, At, Actors, tallyVars, BrowseAssumption
<1>2. /\ job' \in [Actors -> Jobs] /\ Others(a) /\ job'[a].at = "cover"
      /\ job'[a].then = job[a].then /\ job'[a].view = slot.view
  <2>1. slot.view \in Views \cup {None} /\ "cover" \in Stages
    BY <1>1, Facts DEF Stages
  <2>2. GoWith(a, "cover", [job[a] EXCEPT !.view = slot.view])
    BY DEF Park
  <2>3. QED BY <1>1, <2>1, <2>2, Facts, GoesWith
<1>3. /\ job[a].then # "create" /\ job'[a].at \notin Opening \cup Ending
      /\ slot' \in [view : Views \cup {None}, bounds : BOOLEAN, hidden : BOOLEAN,
                    parked : BOOLEAN]
      /\ slot'.view = slot.view /\ ~slot'.bounds
  BY <1>1, <1>2, Facts DEF JobInv, Opening, Ending
<1>4. ViewInv' /\ (AnyRunning' <=> AnyRunning)
  BY <1>1, <1>3, Facts, SameRunning DEF ViewInv, stageVars
<1>5. ASSUME alone PROVE Surroundings(job[a])'
  <2>1. Surroundings(job[a])
    BY <1>1, <1>5, Facts
  <2>2. QED BY <1>1, <1>2, <1>3, <1>4, <2>1 DEF Surroundings, OnScreen
<1>6. QED BY <1>1, <1>2, <1>3, <1>4, <1>5, Facts, HostStep

LEMMA ReleaseParkedKeeps ==
  ASSUME BrowseAssumption, Inv, NEW a \in Actors, ReleaseParked(a)
  PROVE  Inv'
<1>1. /\ job[a].at = "release" /\ ~At(a, "idle")
      /\ slot' = slot /\ view' = view /\ alone' = alone /\ UNCHANGED <<stageVars, landed>>
  BY DEF ReleaseParked, At, tallyVars, hostVars
<1> DEFINE s == IF slot.parked THEN "release now" ELSE "idle"
<1>2. PICK j \in Jobs : j = [Idle EXCEPT !.at = s]
  BY IdleIsAJob DEF Stages
<1>3. j.at = s /\ j.then = "idle"
  BY <1>2 DEF Idle
<1>4. PICK k \in Jobs : /\ k = (IF slot.parked THEN j ELSE Idle)
                        /\ k.at = s /\ k.then = "idle"
  <2>1. Idle \in Jobs /\ Idle.at = "idle" /\ Idle.then = "idle"
    BY IdleIsAJob DEF Idle
  <2>2. QED BY <1>2, <1>3, <2>1
<1>5. job' \in [Actors -> Jobs] /\ Others(a) /\ job'[a] = k
  <2>1. job' = [job EXCEPT ![a] = k]
    BY <1>2, <1>4 DEF ReleaseParked, End
  <2>2. QED BY <2>1, Facts, Becomes
<1>6. s \notin Opening \cup Ending
  BY DEF Opening, Ending
<1>7. ViewInv' /\ (AnyRunning' <=> AnyRunning) /\ (Live(slot.view)' <=> Live(slot.view))
  BY <1>1, Facts, SameRunning DEF ViewInv, stageVars, Live
<1>8. ASSUME alone PROVE Surroundings(job[a])'
  <2>1. Surroundings(job[a])
    BY <1>1, <1>8, Facts
  <2>2. QED BY <1>1, <1>4, <1>5, <1>7, <2>1 DEF Surroundings, OnScreen, Releases
<1>9. QED BY <1>1, <1>4, <1>5, <1>6, <1>7, <1>8, Facts, HostStep

LEMMA ReleaseNowKeeps ==
  ASSUME BrowseAssumption, Inv, NEW a \in Actors, ReleaseNow(a)
  PROVE  Inv'
<1>1. /\ job[a].at = "release now" /\ ~At(a, "idle")
      /\ slot' = slot /\ view' = view /\ alone' = alone /\ UNCHANGED <<stageVars, landed>>
  BY DEF ReleaseNow, At, tallyVars, hostVars
<1>2. job[a].then \notin {"create", "release"}
  BY <1>1, Facts DEF JobInv
<1>3. ViewInv' /\ (AnyRunning' <=> AnyRunning) /\ (Live(slot.view)' <=> Live(slot.view))
  BY <1>1, Facts, SameRunning DEF ViewInv, stageVars, Live
<1>4. /\ job' \in [Actors -> Jobs] /\ Others(a)
      /\ job'[a].at = IF AnyRunning THEN "idle" ELSE "take"
      /\ job'[a].then \notin {"create", "release"}
  <2>1. CASE AnyRunning
    <3>1. job' \in [Actors -> Jobs] /\ Others(a) /\ job'[a] = Idle
      BY <2>1, Facts, Ends DEF ReleaseNow
    <3>2. QED BY <2>1, <3>1 DEF Idle
  <2>2. CASE ~AnyRunning
    <3>1. "take" \in Stages /\ Go(a, "take")
      BY <2>2 DEF Stages, ReleaseNow
    <3>2. QED BY <1>2, <2>2, <3>1, Facts, Goes
  <2>3. QED BY <2>1, <2>2
<1>5. job'[a].at \notin Opening \cup Ending
  BY <1>4 DEF Opening, Ending
<1>6. ASSUME alone PROVE Surroundings(job[a])'
  <2>1. Surroundings(job[a])
    BY <1>1, <1>6, Facts
  <2>2. QED BY <1>1, <1>3, <1>4, <2>1 DEF Surroundings, OnScreen, Releases
<1>7. QED BY <1>1, <1>3, <1>4, <1>5, <1>6, Facts, HostStep

(* The commands and the hook that begin on the view.                         *)
LEMMA AttachKeeps ==
  ASSUME BrowseAssumption, Inv, NEW a \in Threads, At(a, "idle"), Attach(a)
  PROVE  Inv'
<1>1. a \in Actors /\ a # Main /\ view' = view /\ UNCHANGED <<stageVars, landed>>
  BY DEF Attach, Actors, BrowseAssumption
<1>2. (AnyRunning' <=> AnyRunning) /\ (Live(slot.view)' <=> view[slot'.view].alive /\ slot'.view # None)
  BY <1>1, SameRunning DEF stageVars, Live
<1>3. CASE /\ slot.parked /\ Live(slot.view)
           /\ slot' = [slot EXCEPT !.parked = FALSE, !.hidden = FALSE, !.bounds = TRUE]
           /\ Begins(a, [Idle EXCEPT !.at = "apply"])
  <2>1. PICK j \in Jobs : j = [Idle EXCEPT !.at = "apply"]
    BY IdleIsAJob DEF Stages
  <2>2. j.at = "apply" /\ j.then = "idle"
    BY <2>1 DEF Idle
  <2>3. /\ job' \in [Actors -> Jobs] /\ Others(a) /\ job'[a] = j
        /\ alone' = (alone /\ Rest) /\ alone' \in BOOLEAN
    BY <1>1, <1>3, <2>1, Facts, Begun
  <2>4. /\ slot' \in [view : Views \cup {None}, bounds : BOOLEAN, hidden : BOOLEAN,
                      parked : BOOLEAN]
        /\ slot'.view = slot.view /\ ~slot'.parked
    BY <1>1, <1>3, Facts
  <2>5. ViewInv' /\ j.at \notin Opening \cup Ending
    BY <1>1, <2>2, <2>4, Facts DEF ViewInv, Opening, Ending
  <2>6. ASSUME alone /\ Rest PROVE Surroundings(job[a])'
    <3>1. Surroundings(Idle) /\ Idle.at = "idle"
      BY <1>1, <2>6, Facts DEF Idle
    <3>2. QED BY <1>1, <1>3, <2>2, <2>3, <2>4, <3>1 DEF Surroundings, OnScreen
  <2>7. QED BY <1>1, <2>2, <2>3, <2>4, <2>5, <2>6, Facts, HostStep
<1>4. CASE /\ ~(slot.parked /\ Live(slot.view)) /\ UNCHANGED slot
           /\ Begins(a, [Idle EXCEPT !.at = "take", !.then = "create"])
  <2>1. PICK i \in Jobs : i = [Idle EXCEPT !.at = "take"]
    BY IdleIsAJob DEF Stages
  <2>2. PICK j \in Jobs : j = [i EXCEPT !.then = "create"]
    BY <2>1, JobEdits
  <2>3. j.at = "take" /\ j.then = "create"
    <3>1. i.at = "take"
      BY <2>1 DEF Idle
    <3>2. QED BY <2>1, <2>2, <3>1 DEF Jobs
  <2>4. Begins(a, j)
    BY <1>4, <2>1, <2>2
  <2>5. /\ job' \in [Actors -> Jobs] /\ Others(a) /\ job'[a] = j
        /\ alone' = (alone /\ Rest) /\ alone' \in BOOLEAN
    BY <1>1, <2>4, Facts, Begun
  <2>6. ViewInv' /\ j.at \notin Opening \cup Ending
    BY <1>1, <1>4, <2>3, Facts DEF ViewInv, Opening, Ending
  <2>7. ASSUME alone /\ Rest PROVE Surroundings(job[a])'
    <3>1. Surroundings(Idle) /\ Idle.at = "idle"
      BY <1>1, <2>7, Facts DEF Idle
    <3>2. QED BY <1>1, <1>4, <2>3, <2>5, <3>1 DEF Surroundings, OnScreen, Live
  <2>8. QED BY <1>1, <1>4, <2>3, <2>5, <2>6, <2>7, Facts, HostStep
<1>5. QED BY <1>3, <1>4 DEF Attach

LEMMA DetachKeeps ==
  ASSUME BrowseAssumption, Inv, NEW a \in Threads, At(a, "idle"), Detach(a)
  PROVE  Inv'
<1>1. /\ a \in Actors /\ a # Main /\ view' = view /\ slot' = slot
      /\ UNCHANGED <<stageVars, landed>>
  BY DEF Detach, Actors, BrowseAssumption, hostVars
<1>2. (AnyRunning' <=> AnyRunning) /\ (Live(slot.view)' <=> Live(slot.view)) /\ ViewInv'
  BY <1>1, SameRunning, Facts DEF stageVars, Live, ViewInv
<1> DEFINE s == IF AnyRunning THEN "keep" ELSE "take"
<1>3. PICK j \in Jobs : j = [Idle EXCEPT !.at = s]
  BY IdleIsAJob DEF Stages
<1>4. j.at = s /\ j.then = "idle"
  BY <1>3 DEF Idle
<1>5. Begins(a, j)
  BY <1>3 DEF Detach
<1>6. /\ job' \in [Actors -> Jobs] /\ Others(a) /\ job'[a] = j
      /\ alone' = (alone /\ Rest) /\ alone' \in BOOLEAN
  BY <1>1, <1>5, Facts, Begun
<1>7. j.at \notin Opening \cup Ending
  BY <1>4 DEF Opening, Ending
<1>8. ASSUME alone /\ Rest PROVE Surroundings(job[a])'
  <2>1. Surroundings(Idle) /\ Idle.at = "idle"
    BY <1>1, <1>8, Facts DEF Idle
  <2>2. QED BY <1>1, <1>2, <1>4, <1>6, <2>1 DEF Surroundings, OnScreen, Releases
<1>9. QED BY <1>1, <1>2, <1>4, <1>6, <1>7, <1>8, Facts, HostStep

LEMMA HideKeeps ==
  ASSUME BrowseAssumption, Inv, NEW a \in Threads, At(a, "idle"), Hide(a)
  PROVE  Inv'
<1>1. /\ a \in Actors /\ a # Main /\ view' = view /\ slot' = [slot EXCEPT !.hidden = TRUE]
      /\ UNCHANGED <<stageVars, landed>>
  BY DEF Hide, Actors, BrowseAssumption
<1>2. PICK i \in Jobs : i = [Idle EXCEPT !.at = "cover"]
  BY IdleIsAJob DEF Stages
<1>3. PICK j \in Jobs : j = [i EXCEPT !.view = slot.view]
  BY <1>1, <1>2, Facts, JobEdits
<1>4. j.at = "cover" /\ j.then = "idle" /\ j.view = slot.view
  <2>1. i.at = "cover" /\ i.then = "idle"
    BY <1>2 DEF Idle
  <2>2. QED BY <1>2, <1>3, <2>1 DEF Jobs
<1>5. Begins(a, j)
  BY <1>2, <1>3 DEF Hide
<1>6. /\ job' \in [Actors -> Jobs] /\ Others(a) /\ job'[a] = j
      /\ alone' = (alone /\ Rest) /\ alone' \in BOOLEAN
  BY <1>1, <1>5, Facts, Begun
<1>7. /\ slot' \in [view : Views \cup {None}, bounds : BOOLEAN, hidden : BOOLEAN,
                    parked : BOOLEAN]
      /\ slot'.view = slot.view /\ slot'.parked = slot.parked /\ slot'.bounds = slot.bounds
  BY <1>1, Facts
<1>8. (AnyRunning' <=> AnyRunning) /\ (Live(slot.view)' <=> Live(slot.view)) /\ ViewInv'
  BY <1>1, <1>7, SameRunning, Facts DEF stageVars, Live, ViewInv
<1>9. j.at \notin Opening \cup Ending
  BY <1>4 DEF Opening, Ending
<1>10. ASSUME alone /\ Rest PROVE Surroundings(job[a])'
  <2>1. Surroundings(Idle) /\ Idle.at = "idle"
    BY <1>1, <1>10, Facts DEF Idle
  <2>2. ~Releases(Idle)
    BY DEF Releases, Idle
  <2>3. QED BY <1>1, <1>4, <1>6, <1>7, <1>8, <2>1, <2>2 DEF Surroundings, OnScreen
<1>11. QED BY <1>1, <1>4, <1>6, <1>7, <1>8, <1>9, <1>10, Facts, HostStep

(* A call that goes on to place the view: it may change what the slot says   *)
(* of hiding and of the rectangle, but not which view it holds.              *)
LEMMA ApplyBegins ==
  ASSUME BrowseAssumption, Inv, NEW a \in Actors, At(a, "idle"),
         Begins(a, [Idle EXCEPT !.at = "apply"]), view' = view, UNCHANGED <<stageVars, landed>>,
         slot' \in [view : Views \cup {None}, bounds : BOOLEAN, hidden : BOOLEAN,
                    parked : BOOLEAN],
         slot'.view = slot.view, slot'.parked = slot.parked, slot'.hidden => slot.hidden,
         slot'.parked => ~slot'.bounds
  PROVE  Inv'
<1>1. PICK j \in Jobs : j = [Idle EXCEPT !.at = "apply"]
  BY IdleIsAJob DEF Stages
<1>2. j.at = "apply" /\ j.then = "idle"
  BY <1>1 DEF Idle
<1>3. /\ job' \in [Actors -> Jobs] /\ Others(a) /\ job'[a] = j
      /\ alone' = (alone /\ Rest) /\ alone' \in BOOLEAN
  BY <1>1, Facts, Begun
<1>4. (AnyRunning' <=> AnyRunning) /\ (Live(slot.view)' <=> Live(slot.view)) /\ ViewInv'
  BY SameRunning, Facts DEF stageVars, Live, ViewInv
<1>5. j.at \notin Opening \cup Ending
  BY <1>2 DEF Opening, Ending
<1>6. ASSUME alone /\ Rest PROVE Surroundings(job[a])'
  <2>1. Surroundings(Idle) /\ Idle.at = "idle" /\ ~Releases(Idle)
    BY <1>6, Facts DEF Idle, Releases
  <2>2. QED BY <1>2, <1>3, <1>4, <2>1 DEF Surroundings, OnScreen
<1>7. QED BY <1>2, <1>3, <1>4, <1>5, <1>6, Facts, HostStep

LEMMA PlacingKeeps ==
  ASSUME BrowseAssumption, Inv, NEW a \in Actors, At(a, "idle"),
         (a \in Threads /\ (Show(a) \/ SetBounds(a))) \/ (a = Main /\ Resized)
  PROVE  Inv'
<1>1. slot \in [view : Views \cup {None}, bounds : BOOLEAN, hidden : BOOLEAN, parked : BOOLEAN]
  BY Facts
<1>2. slot.parked => ~slot.bounds
  BY Facts DEF ViewInv
<1>3. CASE Show(a)
  BY <1>1, <1>2, <1>3, ApplyBegins DEF Show
<1>4. CASE SetBounds(a)
  BY <1>1, <1>2, <1>4, ApplyBegins DEF SetBounds
<1>5. CASE a = Main /\ Resized
  BY <1>1, <1>2, <1>5, ApplyBegins DEF Resized, hostVars
<1>6. QED BY <1>3, <1>4, <1>5

(* Closing a view cuts off its downloads.                                    *)
LEMMA CloseKeeps ==
  ASSUME BrowseAssumption, Inv, NEW a \in Actors, Close(a)
  PROVE  Inv'
<1> DEFINE v == job[a].view
<1>1. /\ job[a].at = "close" /\ ~At(a, "idle") /\ slot' = slot /\ Then(a)
      /\ alone' = alone /\ UNCHANGED <<entry, disk, landed>>
  BY DEF Close, At, tallyVars
<1>2. /\ job' \in [Actors -> Jobs] /\ Others(a) /\ job'[a].at = job[a].then
      /\ job'[a].then = "idle" /\ job[a].then \in {"idle", "create"}
  BY <1>1, Facts, GoesThen DEF JobInv
<1>3. None \notin Views /\ v \in Views \cup {None}
  BY Facts DEF BrowseAssumption, Views, Jobs
<1>4. /\ view' \in [Views -> [alive : BOOLEAN, visible : BOOLEAN, used : BOOLEAN]]
      /\ \A w \in Views : w # v => view'[w] = view[w]
      /\ v \in Views => ~view'[v].alive /\ (view'[v].visible => view[v].visible /\ ~view[v].alive)
  <2>1. view \in [Views -> [alive : BOOLEAN, visible : BOOLEAN, used : BOOLEAN]]
    BY Facts
  <2>2. CASE ~Live(v) /\ UNCHANGED view
    BY <1>3, <2>1, <2>2 DEF Live
  <2>3. CASE Live(v) /\ view' = [view EXCEPT ![v].alive = FALSE, ![v].visible = FALSE]
    <3>1. v \in Views
      BY <1>3, <2>3 DEF Live
    <3>2. /\ view' \in [Views -> [alive : BOOLEAN, visible : BOOLEAN, used : BOOLEAN]]
          /\ ~view'[v].alive /\ ~view'[v].visible
      BY <2>1, <2>3, <3>1
    <3>3. \A w \in Views : w # v => view'[w] = view[w]
      BY <2>1, <2>3, <3>1
    <3>4. QED BY <3>2, <3>3
  <2>4. QED BY <2>2, <2>3 DEF Close
<1>5. /\ transfer' \in [Ids -> Transfers]
      /\ \A d \in Ids : transfer'[d] = transfer[d] \/
           (transfer[d].at = "coming" /\ transfer'[d].at = "cut" /\ transfer'[d].whole = transfer[d].whole)
      /\ \A d \in Ids : transfer'[d].at = "coming" => transfer[d].view # v
  <2>1. transfer \in [Ids -> Transfers]
    BY Facts DEF TypeOK
  <2>2. CASE ~Live(v) /\ UNCHANGED transfer
    <3>1. \A d \in Ids : transfer[d].at = "coming" => Live(transfer[d].view)
      BY DEF Inv, Downloads, TransferInv
    <3>2. QED BY <2>1, <2>2, <3>1
  <2>3. CASE transfer' = [d \in Ids |-> IF transfer[d].view = v /\ transfer[d].at = "coming"
                            THEN [transfer[d] EXCEPT !.at = "cut"] ELSE transfer[d]]
    <3>1. \A d \in Ids : /\ [transfer[d] EXCEPT !.at = "cut"] \in Transfers
                         /\ [transfer[d] EXCEPT !.at = "cut"].at = "cut"
                         /\ [transfer[d] EXCEPT !.at = "cut"].whole = transfer[d].whole
      BY <2>1 DEF Transfers
    <3>2. QED BY <2>1, <2>3, <3>1
  <2>4. QED BY <2>2, <2>3 DEF Close
<1> HIDE DEF v
<1>6. TypeOK'
  BY <1>1, <1>2, <1>4, <1>5, Facts DEF TypeOK
<1>7. (AnyRunning' <=> AnyRunning) /\ \A d \in Ids : (Running(d)' <=> Running(d)) /\ Bytes(d)' = Bytes(d)
  BY <1>1, SameRunning DEF Bytes
<1>8. Downloads'
  <2>1. ASSUME NEW d \in Ids PROVE TransferInv(d)' /\ VouchInv(d)'
    <3>1. TransferInv(d) /\ VouchInv(d) /\ transfer[d].view \in Views \cup {None}
      BY Facts DEF Inv, Downloads, TypeOK, Transfers
    <3>2. transfer'[d].at = "coming" => transfer'[d] = transfer[d] /\ transfer[d].view # v
      BY <1>5
    <3>3. transfer'[d].at = "coming" => Live(transfer[d].view)'
      BY <1>4, <1>5, <3>1, <3>2 DEF TransferInv, Live
    <3>4. TransferInv(d)'
      BY <1>1, <1>5, <1>7, <3>1, <3>3 DEF TransferInv
    <3>5. VouchInv(d)'
      BY <1>1, <1>5, <3>1 DEF VouchInv
    <3>6. QED BY <3>4, <3>5
  <2>2. ASSUME NEW b \in Actors PROVE JobInv(b)'
    <3>1. CASE b = a
      BY <1>1, <1>2, <3>1, Facts DEF JobInv, Opening, Ending
    <3>2. CASE b # a
      <4>1. JobInv(b) /\ job'[b] = job[b]
        BY <1>2, <3>2, Facts DEF Others
      <4>2. \A d \in Ids : /\ transfer'[d].whole = transfer[d].whole /\ disk'[d] = disk[d]
                           /\ transfer[d].at = "asked" => transfer'[d].at = "asked"
                           /\ transfer[d].at \in {"cut", "over"} => transfer'[d].at \in {"cut", "over"}
                           /\ entry'[d] = entry[d]
        BY <1>1, <1>5
      <4>3. QED BY <1>7, <4>1, <4>2, JobStays
    <3>3. QED BY <3>1, <3>2
  <2>3. LandedInv'
    <3>1. LandedInv /\ \A f \in landed : f.id \in Ids
      BY Facts DEF Inv, Downloads, TypeOK
    <3>2. QED BY <1>1, <1>5, <3>1 DEF LandedInv
  <2>4. QED BY <2>1, <2>2, <2>3 DEF Downloads
<1>9. Bounded'
  <2>1. job'[Main].at \in Opening => job[Main].at \in Opening
    BY <1>2 DEF Others, Actors, Opening
  <2>2. QED BY <1>1, <2>1, BoundedStays DEF Inv
<1>10. ViewInv'
  BY <1>1, <1>4, Facts DEF ViewInv
<1>11. ASSUME alone PROVE Surroundings(job[a])'
  <2>1. Surroundings(job[a])
    BY <1>1, <1>11, Facts
  <2>2. \A w \in Views : ~view'[w].visible
    BY <1>1, <1>4, <2>1, Facts DEF Surroundings, OnScreen, ViewInv, v
  <2>3. slot = NoSlot
    BY <1>1, <2>1 DEF Surroundings
  <2>4. QED BY <1>1, <1>2, <2>2, <2>3 DEF Surroundings, OnScreen, NoSlot
<1>12. Undisturbed'
  BY <1>1, <1>2, <1>11, StillUndisturbed DEF Inv
<1>13. QED BY <1>6, <1>8, <1>9, <1>10, <1>12 DEF Inv

-----------------------------------------------------------------------------
(* The steps of the downloads.                                               *)

Plain == {"idle", "release"} \cup Opening \cup Ending

LEMMA PlainJobs ==
  ASSUME Inv, NEW a \in Actors, Others(a), UNCHANGED hostVars,
         job[a].at \in Plain, job'[a].at \in Plain,
         alone' => alone /\ (Rest \/ ~At(a, "idle")),
         AnyRunning \/ Releases(job[a]) => AnyRunning' \/ Releases(job[a])'
  PROVE  Undisturbed' /\ ViewInv'
<1>1. slot' = slot /\ view' = view
  BY DEF hostVars
<1>2. ASSUME alone' PROVE Surroundings(job[a])'
  <2>1. Surroundings(job[a])
    <3>1. CASE Rest
      <4>1. Surroundings(Idle) /\ job[a].at = "idle"
        BY <1>2, <3>1, Facts DEF Rest, At
      <4>2. QED BY <4>1 DEF Surroundings, OnScreen, Releases, Idle
    <3>2. CASE ~Rest
      BY <1>2, <3>2, Facts
    <3>3. QED BY <3>1, <3>2
  <2>2. Live(slot.view)' <=> Live(slot.view)
    BY <1>1 DEF Live
  <2>3. QED BY <1>1, <2>1, <2>2 DEF Surroundings, OnScreen, Plain, Opening, Ending
<1>3. Undisturbed'
  BY <1>2, StillUndisturbed DEF Inv
<1>4. QED BY <1>1, <1>3, Facts DEF ViewInv

(* A step that is about one download leaves what is known of the others.     *)
LEMMA OneDownload ==
  ASSUME Inv, NEW a \in Actors, NEW i \in Ids, Others(a), UNCHANGED hostVars,
         \A e \in Ids \ {i} :
           transfer'[e] = transfer[e] /\ entry'[e] = entry[e] /\ disk'[e] = disk[e],
         TransferInv(i)', VouchInv(i)', JobInv(a)', LandedInv',
         transfer[i].at # "none" => transfer'[i].whole = transfer[i].whole,
         transfer[i].at = "asked" /\ a # Main => transfer'[i].at = "asked" /\ disk'[i] = disk[i],
         transfer[i].at \in {"cut", "over"} =>
           /\ transfer'[i].at \in {"cut", "over"}
           /\ Running(i)' => Running(i)
           /\ a # Main /\ entry'[i] # None => entry'[i] = entry[i]
           /\ Bytes(i)' \in {0, Bytes(i)}
  PROVE  Downloads'
<1>1. \A e \in Ids \ {i} : (Running(e)' <=> Running(e)) /\ Bytes(e)' = Bytes(e)
  BY DEF Running, Bytes
<1>2. ASSUME NEW e \in Ids PROVE TransferInv(e)' /\ VouchInv(e)'
  <2>1. CASE e # i
    <3>1. TransferInv(e) /\ VouchInv(e)
      BY DEF Inv, Downloads
    <3>2. Live(transfer[e].view)' <=> Live(transfer[e].view)
      BY <2>1 DEF Live, hostVars
    <3>3. QED BY <1>1, <2>1, <3>1, <3>2 DEF TransferInv, VouchInv
  <2>2. QED BY <2>1
<1>3. ASSUME NEW b \in Actors, b # a PROVE JobInv(b)'
  <2>1. JobInv(b) /\ job'[b] = job[b]
    BY <1>3, Facts DEF Others
  <2>2. job[b].at \in Opening \cup {"settle"} => a # Main
    BY <1>3, <2>1 DEF JobInv
  <2>3. \A d \in Ids : transfer[d].at # "none" =>
           /\ transfer'[d].whole = transfer[d].whole
           /\ transfer[d].at \in {"cut", "over"} => transfer'[d].at \in {"cut", "over"}
    OBVIOUS
  <2>4. \A d \in Ids : job[b].at \in Opening /\ d = job[b].id /\ transfer[d].at = "asked" =>
           transfer'[d].at = "asked" /\ disk'[d] = disk[d]
    BY <2>2
  <2>5. \A d \in Ids : job[b].at \in Ending /\ d = job[b].id /\ transfer[d].at \in {"cut", "over"} =>
           /\ Running(d)' => Running(d)
           /\ job[b].at = "settle" /\ entry'[d] # None => entry'[d] = entry[d]
           /\ Bytes(d)' \in {0, Bytes(d)}
    BY <1>1, <2>2
  <2>6. QED BY <2>1, <2>3, <2>4, <2>5, JobStays
<1>4. QED BY <1>2, <1>3 DEF Downloads

LEMMA OfDownload ==
  ASSUME Inv, NEW d \in Ids
  PROVE  /\ TransferInv(d) /\ VouchInv(d) /\ transfer[d] \in Transfers
         /\ entry[d] \in Entries \cup {None} /\ disk[d] \in Dirs \cup {None} /\ LandedInv
         /\ \A f \in landed : f.id \in Ids
BY DEF Inv, Downloads, TypeOK

LEMMA MakeDirKeeps ==
  ASSUME BrowseAssumption, Inv, MakeDir
  PROVE  Inv'
<1> DEFINE dir == [record |-> None, bytes |-> 0]
<1>1. /\ Main \in Actors /\ job[Main].at = "mkdir" /\ ~At(Main, "idle") /\ Go(Main, "record")
      /\ disk' = [disk EXCEPT ![job[Main].id] = dir] /\ alone' = alone
      /\ UNCHANGED <<transfer, entry, hostVars, landed>>
  BY DEF MakeDir, At, Actors, tallyVars
<1>2. PICK d \in Ids : d = job[Main].id /\ transfer[d].at = "asked"
  BY <1>1, Facts DEF JobInv, Opening
<1>3. dir \in Dirs /\ dir # None /\ dir.record = None
  BY DEF BrowseAssumption, Dirs, Sizes
<1> HIDE DEF dir
<1>4. job' \in [Actors -> Jobs] /\ Others(Main) /\ job'[Main].at = "record"
      /\ job'[Main].id = d /\ job'[Main].then = job[Main].then
  BY <1>1, <1>2, Facts, Goes DEF Stages
<1>5. TypeOK' /\ disk'[d] = dir /\ \A e \in Ids \ {d} : disk'[e] = disk[e]
  BY <1>1, <1>2, <1>3, <1>4, Facts DEF TypeOK, hostVars
<1>6. TransferInv(d)' /\ VouchInv(d)'
  BY <1>1, <1>2, <1>3, <1>5, OfDownload DEF TransferInv, VouchInv
<1>7. JobInv(Main)'
  <2>1. job[Main].then # "create"
    BY <1>1, Facts DEF JobInv
  <2>2. QED BY <1>1, <1>2, <1>3, <1>4, <1>5, <2>1 DEF JobInv, Opening, Ending
<1>8. LandedInv'
  BY <1>1, <1>2, OfDownload DEF LandedInv
<1>9. Downloads'
  BY <1>1, <1>2, <1>4, <1>5, <1>6, <1>7, <1>8, OneDownload
<1>10. Bounded'
  BY <1>1, BoundedStays DEF Inv, Opening
<1>11. Undisturbed' /\ ViewInv'
  BY <1>1, <1>4, SameRunning, PlainJobs DEF Plain, Opening, Ending, Releases
<1>12. QED BY <1>5, <1>9, <1>10, <1>11 DEF Inv

LEMMA RecordFailsKeeps ==
  ASSUME BrowseAssumption, Inv, RecordFails
  PROVE  Inv'
<1>1. /\ Main \in Actors /\ job[Main].at = "record" /\ ~At(Main, "idle") /\ End(Main)
      /\ disk' = [disk EXCEPT ![job[Main].id] = None] /\ alone' = alone
      /\ transfer' = [transfer EXCEPT ![job[Main].id].at = "over"]
      /\ UNCHANGED <<entry, hostVars, landed>>
  BY DEF RecordFails, At, Actors, tallyVars
<1>2. PICK d \in Ids : /\ d = job[Main].id /\ transfer[d].at = "asked"
                      /\ transfer[d] \in Transfers
  BY <1>1, Facts, OfDownload DEF JobInv, Opening
<1>3. job' \in [Actors -> Jobs] /\ Others(Main) /\ job'[Main] = Idle
  BY <1>1, Facts, Ends
<1>4. /\ transfer'[d] \in Transfers /\ transfer'[d].at = "over"
      /\ transfer'[d].whole = transfer[d].whole
      /\ transfer' \in [Ids -> Transfers] /\ \A e \in Ids \ {d} : transfer'[e] = transfer[e]
  <2>1. transfer \in [Ids -> Transfers]
    BY <1>1, Facts DEF TypeOK
  <2>2. PICK r \in Transfers : r = [transfer[d] EXCEPT !.at = "over"]
    BY <1>2 DEF Transfers
  <2>3. r.at = "over" /\ r.whole = transfer[d].whole
    BY <1>2, <2>2 DEF Transfers
  <2>4. QED BY <1>1, <1>2, <2>1, <2>2, <2>3
<1>5. TypeOK' /\ disk'[d] = None /\ \A e \in Ids \ {d} : disk'[e] = disk[e]
  BY <1>1, <1>2, <1>3, <1>4, Facts DEF TypeOK, hostVars
<1>6. TransferInv(d)' /\ VouchInv(d)'
  BY <1>1, <1>2, <1>4, <1>5, OfDownload DEF TransferInv, VouchInv
<1>7. JobInv(Main)'
  BY <1>3 DEF JobInv, Opening, Ending, Idle
<1>8. LandedInv'
  BY <1>1, <1>2, <1>4, OfDownload DEF LandedInv
<1>9. Downloads'
  BY <1>1, <1>2, <1>3, <1>4, <1>5, <1>6, <1>7, <1>8, OneDownload
<1>10. Bounded'
  BY <1>1, BoundedStays DEF Inv, Opening
<1>11. Undisturbed' /\ ViewInv'
  <2>1. AnyRunning \/ Releases(job[Main]) => AnyRunning'
    BY <1>1, SameRunning DEF Releases
  <2>2. job[Main].at \in Plain /\ job'[Main].at \in Plain
    BY <1>1, <1>3 DEF Plain, Opening, Idle
  <2>3. QED BY <1>1, <1>3, <2>1, <2>2, PlainJobs
<1>12. QED BY <1>5, <1>9, <1>10, <1>11 DEF Inv

LEMMA RecordKeeps ==
  ASSUME BrowseAssumption, Inv, Record
  PROVE  Inv'
<1>1. /\ Main \in Actors /\ job[Main].at = "record" /\ ~At(Main, "idle") /\ Go(Main, "push")
      /\ disk' = [disk EXCEPT ![job[Main].id].record = Started] /\ alone' = alone
      /\ UNCHANGED <<transfer, entry, hostVars, landed>>
  BY DEF Record, At, Actors, tallyVars
<1>2. PICK d \in Ids : d = job[Main].id /\ transfer[d].at = "asked" /\ disk[d] \in Dirs
  BY <1>1, Facts, OfDownload DEF JobInv, Opening
<1>3. Started \in Records /\ Started.state = "progressing"
  BY DEF BrowseAssumption, Started, Records, Sizes
<1>4. PICK dir \in Dirs : dir = [disk[d] EXCEPT !.record = Started]
  BY <1>2, <1>3 DEF Dirs
<1>5. dir # None /\ dir.record = Started
  BY <1>2, <1>4 DEF BrowseAssumption, Dirs
<1>6. job' \in [Actors -> Jobs] /\ Others(Main) /\ job'[Main].at = "push"
      /\ job'[Main].id = d /\ job'[Main].then = job[Main].then
  BY <1>1, <1>2, Facts, Goes DEF Stages
<1>7. TypeOK' /\ disk'[d] = dir /\ \A e \in Ids \ {d} : disk'[e] = disk[e]
  <2>1. disk' = [disk EXCEPT ![job[Main].id] = dir]
    BY <1>1, <1>2, <1>4, Facts DEF TypeOK
  <2>2. QED BY <1>1, <1>2, <1>4, <1>6, <2>1, Facts DEF TypeOK, hostVars
<1>8. TransferInv(d)' /\ VouchInv(d)'
  BY <1>1, <1>2, <1>3, <1>5, <1>7, OfDownload DEF TransferInv, VouchInv
<1>9. JobInv(Main)'
  <2>1. job[Main].then # "create"
    BY <1>1, Facts DEF JobInv
  <2>2. QED BY <1>1, <1>2, <1>5, <1>6, <1>7, <2>1 DEF JobInv, Opening, Ending
<1>10. LandedInv'
  BY <1>1, <1>2, OfDownload DEF LandedInv
<1>11. Downloads'
  BY <1>1, <1>2, <1>6, <1>7, <1>8, <1>9, <1>10, OneDownload
<1>12. Bounded'
  BY <1>1, BoundedStays DEF Inv, Opening
<1>13. Undisturbed' /\ ViewInv'
  BY <1>1, <1>6, SameRunning, PlainJobs DEF Plain, Opening, Ending, Releases
<1>14. QED BY <1>7, <1>11, <1>12, <1>13 DEF Inv

(* The entry takes the room that was left for it.                            *)
LEMMA PushKeeps ==
  ASSUME BrowseAssumption, Inv, Push
  PROVE  Inv'
<1>1. /\ Main \in Actors /\ job[Main].at = "push" /\ ~At(Main, "idle") /\ End(Main)
      /\ alone' = alone /\ UNCHANGED <<disk, hostVars, landed>>
  BY DEF Push, At, Actors, tallyVars
<1>2. PICK d \in Ids : /\ d = job[Main].id /\ transfer[d].at = "asked"
                       /\ disk[d] # None /\ disk[d].record = Started
  BY <1>1, Facts DEF JobInv, Opening
<1>3. job' \in [Actors -> Jobs] /\ Others(Main) /\ job'[Main] = Idle
  BY <1>1, Facts, Ends
<1>4. Idle.at = "idle"
  BY DEF Idle
<1> DEFINE e == [rec |-> Started, orphan |-> FALSE, bytes |-> 0, verifiable |-> FALSE]
           s == IF Live(transfer[d].view) THEN "coming" ELSE "cut"
<1>5. Started \in Records /\ Started.state = "progressing" /\ Started # None
  BY DEF BrowseAssumption, Started, Records, Sizes
<1>6. /\ e \in Entries /\ e # None /\ e.rec = Started /\ ~e.orphan /\ ~e.verifiable
  <2>1. 0 \in Sizes
    BY DEF BrowseAssumption, Sizes
  <2>2. e \in Entries
    BY <1>5, <2>1 DEF Entries
  <2>3. e # None
    BY <2>2 DEF BrowseAssumption
  <2>4. QED BY <2>2, <2>3
<1>7. entry' = [entry EXCEPT ![d] = e] /\ transfer' = [transfer EXCEPT ![d].at = s]
  BY <1>2 DEF Push
<1> HIDE DEF e
<1>8. /\ transfer' \in [Ids -> Transfers] /\ transfer'[d].at = s
      /\ transfer'[d].whole = transfer[d].whole /\ transfer'[d].view = transfer[d].view
      /\ \A c \in Ids \ {d} : transfer'[c] = transfer[c]
  <2>1. transfer \in [Ids -> Transfers]
    BY <1>1, Facts DEF TypeOK
  <2>2. PICK r \in Transfers : r = [transfer[d] EXCEPT !.at = s]
    BY <2>1 DEF Transfers
  <2>3. r.at = s /\ r.whole = transfer[d].whole /\ r.view = transfer[d].view
    BY <2>1, <2>2 DEF Transfers
  <2>4. QED BY <1>7, <2>1, <2>2, <2>3
<1>9. TypeOK' /\ entry'[d] = e /\ \A c \in Ids \ {d} : entry'[c] = entry[c]
  <2>1. entry' \in [Ids -> Entries \cup {None}]
    BY <1>1, <1>6, <1>7, Facts DEF TypeOK
  <2>2. QED BY <1>1, <1>3, <1>7, <1>8, <2>1, Facts DEF TypeOK, hostVars
<1>10. entry[d] = None /\ transfer[d].whole > 0
  BY <1>2, OfDownload DEF TransferInv
<1>11. Running(d)'
  BY <1>5, <1>6, <1>9 DEF Running
<1>12. TransferInv(d)' /\ VouchInv(d)'
  <2>1. Live(transfer[d].view)' <=> Live(transfer[d].view)
    BY <1>1, <1>8 DEF Live, hostVars
  <2>2. TransferInv(d)'
    BY <1>1, <1>2, <1>5, <1>8, <1>9, <1>10, <1>11, <2>1 DEF TransferInv
  <2>3. VouchInv(d)'
    BY <1>1, <1>2, <1>5, <1>6, <1>9 DEF VouchInv
  <2>4. QED BY <2>2, <2>3
<1>13. JobInv(Main)'
  BY <1>3 DEF JobInv, Opening, Ending, Idle
<1>14. LandedInv'
  BY <1>1, <1>2, <1>8, OfDownload DEF LandedInv
<1>15. Downloads'
  BY <1>1, <1>2, <1>3, <1>8, <1>9, <1>12, <1>13, <1>14, OneDownload
<1>16. Bounded'
  <2> DEFINE c == [b \in Ids |-> Claim(b)]
             f == [b \in Ids |-> Claim(b)']
  <2>1. c \in [Ids -> Nat] /\ f \in [Ids -> Nat]
    BY <1>1, <1>9, Facts DEF TypeOK, BrowseAssumption, Claim, Entries, Sizes
  <2>2. \A b \in Ids : f[b] <= c[b] + (IF b \in {d} THEN MaxSingle ELSE 0)
    <3>1. f[d] = MaxSingle /\ MaxSingle \in Nat
      BY <1>6, <1>9, <1>11 DEF Claim, BrowseAssumption
    <3>2. ASSUME NEW b \in Ids, b # d PROVE f[b] = c[b]
      BY <1>9, <3>2 DEF Claim, Running
    <3> HIDE DEF c, f
    <3>3. QED BY <2>1, <3>1, <3>2
  <2> HIDE DEF c, f
  <2>3. MaxSingle \in Nat /\ {d} \in SUBSET Ids
    BY DEF BrowseAssumption
  <2>4. Total(f) \in Nat /\ Total(c) \in Nat /\ Total(f) <= Total(c) + Cardinality({d}) * MaxSingle
    BY <2>1, <2>2, <2>3, TotalBound
  <2>5. Cardinality({d}) = 1
    BY FS_Singleton
  <2>6. Claims = Total(c) /\ Claims' = Total(f)
    BY DEF Claims, c, f, Total
  <2>7. Claims + MaxSingle <= Room /\ Room' = Room /\ Room \in Int
    BY <1>1 DEF Inv, Bounded, Opening, Room, BrowseAssumption
  <2>8. job'[Main].at \notin Opening
    BY <1>3, <1>4 DEF Opening
  <2>9. QED BY <2>3, <2>4, <2>5, <2>6, <2>7, <2>8 DEF Bounded
<1>17. Undisturbed' /\ ViewInv'
  <2>1. AnyRunning \/ Releases(job[Main]) => AnyRunning'
    BY <1>11 DEF AnyRunning
  <2>2. job[Main].at \in Plain /\ job'[Main].at \in Plain
    BY <1>1, <1>3, <1>4 DEF Plain, Opening
  <2>3. QED BY <1>1, <1>3, <2>1, <2>2, PlainJobs
<1>18. QED BY <1>9, <1>15, <1>16, <1>17 DEF Inv

(* Whoever is one of fewer than m, has a share of k of m * k left.           *)
LEMMA OneMore ==
  ASSUME NEW n \in Nat, NEW m \in Nat, NEW k \in Nat, n < m
  PROVE  n * k + k <= m * k
<1>1. PICK x \in Nat : m = n + 1 + x
  <2>1. m - (n + 1) \in Nat
    OBVIOUS
  <2>2. QED BY <2>1
<1>2. m * k = n * k + k + x * k /\ x * k \in Nat /\ n * k \in Nat
  BY <1>1
<1>3. QED BY <1>2

(* Whoever is let in leaves room for what it may come to.                    *)
LEMMA RefusedInTime ==
  ASSUME BrowseAssumption, Inv, ~Refuses
  PROVE  Claims + MaxSingle <= Room
<1> DEFINE c == [d \in Ids |-> Claim(d)]
           g == [d \in Ids |-> Staged(d)]
           R == {d \in Ids : Running(d)}
<1>1. c \in [Ids -> Nat] /\ g \in [Ids -> Nat] /\ MaxSingle \in Nat
  BY DEF Inv, TypeOK, BrowseAssumption, Claim, Staged, Entries, Records, Sizes
<1>2. \A d \in Ids : c[d] <= g[d] + (IF d \in R THEN MaxSingle ELSE 0)
  <2> SUFFICES ASSUME NEW d \in Ids PROVE Claim(d) <= Staged(d) + (IF Running(d) THEN MaxSingle ELSE 0)
    OBVIOUS
  <2>1. Claim(d) \in Nat /\ Staged(d) \in Nat
    BY <1>1
  <2>2. CASE Running(d)
    <3>1. Claim(d) = MaxSingle
      BY <2>2 DEF Running, Claim
    <3>2. QED BY <1>1, <2>1, <2>2, <3>1
  <2>3. CASE ~Running(d)
    <3>1. Claim(d) = 0 \/ Claim(d) = Staged(d)
      BY <2>3 DEF Claim, Staged
    <3>2. QED BY <2>1, <2>3, <3>1
  <2>4. QED BY <2>2, <2>3
<1>3. Claims = Total(c) /\ StagedBytes = Total(g)
  BY DEF Claims, StagedBytes
<1>4. Cardinality(R) < MaxConcurrent \/ ~(Cardinality(R) \in Nat)
  BY DEF Refuses, BrowseAssumption
<1> HIDE DEF c, g
<1>5. R \in SUBSET Ids
  OBVIOUS
<1> HIDE DEF R
<1>6. /\ Total(c) \in Nat /\ Total(g) \in Nat /\ Cardinality(R) \in Nat
      /\ Total(c) <= Total(g) + Cardinality(R) * MaxSingle
  BY <1>1, <1>2, <1>5, TotalBound
<1>7. Total(g) <= MaxStaged /\ MaxStaged \in Nat /\ MaxConcurrent \in Nat
  BY <1>3, <1>6 DEF Refuses, BrowseAssumption
<1>8. Cardinality(R) * MaxSingle + MaxSingle <= MaxConcurrent * MaxSingle
  BY <1>1, <1>4, <1>6, <1>7, OneMore
<1>9. Cardinality(R) * MaxSingle \in Nat /\ MaxConcurrent * MaxSingle \in Nat
  BY <1>1, <1>6, <1>7
<1>10. QED BY <1>1, <1>3, <1>6, <1>7, <1>8, <1>9 DEF Room

LEMMA RequestedKeeps ==
  ASSUME BrowseAssumption, Inv, At(Main, "idle"), Requested
  PROVE  Inv'
<1>1. Main \in Actors /\ UNCHANGED <<entry, disk, hostVars, landed>>
  BY DEF Requested, Actors
<1>2. PICK d \in Ids : d = Least(Fresh) /\ d \in Fresh
  <2>1. Fresh \in SUBSET Nat /\ Fresh # {} /\ Fresh \subseteq Ids
    BY DEF Requested, Fresh, Ids
  <2>2. \E m \in Fresh : \A n \in Fresh : m <= n
    BY <2>1, LeastOf
  <2>3. Least(Fresh) \in Fresh
    BY <2>2 DEF Least
  <2>4. QED BY <2>1, <2>3
<1>3. PICK r \in Transfers : r.at = "asked" /\ r.whole > 0 /\ transfer' = [transfer EXCEPT ![d] = r]
  <2>1. PICK v \in Views, url \in Urls, whole \in Sizes \ {0} :
          transfer' = [transfer EXCEPT ![d] =
            [at |-> "asked", whole |-> whole, url |-> url, view |-> v]]
    BY <1>2 DEF Requested
  <2>2. whole > 0
    BY DEF Sizes, BrowseAssumption
  <2>3. QED BY <2>1, <2>2 DEF Transfers
<1>4. /\ transfer[d].at = "none" /\ entry[d] = None /\ disk[d] = None
  <2>1. transfer[d] = NoTransfer
    BY <1>2 DEF Fresh
  <2>2. transfer[d].at = "none"
    BY <2>1 DEF NoTransfer
  <2>3. QED BY <2>2, OfDownload DEF TransferInv
<1>5. PICK i \in Jobs : i = [Idle EXCEPT !.at = "mkdir"]
  BY IdleIsAJob DEF Stages
<1>6. PICK j \in Jobs : j = [i EXCEPT !.id = d]
  BY <1>2, <1>5, JobEdits
<1>7. j.at = "mkdir" /\ j.id = d /\ j.then = "idle"
  <2>1. i.at = "mkdir" /\ i.then = "idle"
    BY <1>5 DEF Idle
  <2>2. QED BY <1>5, <1>6, <2>1 DEF Jobs
<1>8. Begins(Main, j)
  BY <1>2, <1>5, <1>6 DEF Requested
<1>9. /\ job' \in [Actors -> Jobs] /\ Others(Main) /\ job'[Main] = j
      /\ alone' = (alone /\ Rest) /\ alone' \in BOOLEAN
  BY <1>1, <1>8, Facts, Begun
<1>10. TypeOK' /\ transfer'[d] = r /\ \A c \in Ids \ {d} : transfer'[c] = transfer[c]
  BY <1>1, <1>2, <1>3, <1>9, Facts DEF TypeOK, hostVars
<1>11. TransferInv(d)' /\ VouchInv(d)'
  BY <1>1, <1>3, <1>4, <1>10 DEF TransferInv, VouchInv
<1>12. JobInv(Main)'
  BY <1>3, <1>7, <1>9, <1>10 DEF JobInv, Opening, Ending
<1>13. LandedInv'
  BY <1>1, <1>4, <1>10, OfDownload DEF LandedInv
<1>14. Downloads'
  BY <1>1, <1>2, <1>4, <1>9, <1>10, <1>11, <1>12, <1>13, OneDownload
<1>15. Bounded'
  <2>1. Claims' = Claims /\ Room' = Room
    BY <1>1 DEF Claims, Room, Claim, Running
  <2>2. Claims + MaxSingle <= Room
    BY RefusedInTime DEF Requested
  <2>3. QED BY <2>1, <2>2 DEF Inv, Bounded
<1>16. Undisturbed' /\ ViewInv'
  <2>1. AnyRunning \/ Releases(job[Main]) => AnyRunning'
    BY <1>1, SameRunning DEF Releases, At
  <2>2. job[Main].at \in Plain /\ job'[Main].at \in Plain
    BY <1>7, <1>9 DEF Plain, Opening, At
  <2>3. QED BY <1>1, <1>9, <2>1, <2>2, PlainJobs
<1>17. QED BY <1>10, <1>14, <1>15, <1>16 DEF Inv

(* A download that comes in changes what is on disk.                         *)
LEMMA ArriveKeeps ==
  ASSUME BrowseAssumption, Inv, NEW d \in Ids, Arrive(d)
  PROVE  Inv'
<1>1. /\ Main \in Actors /\ transfer[d].at = "coming" /\ disk[d] # None
      /\ disk[d].bytes < transfer[d].whole
      /\ disk' = [disk EXCEPT ![d].bytes = disk[d].bytes + 1]
      /\ UNCHANGED <<transfer, entry, hostVars, job, landed, tallyVars>>
  BY DEF Arrive, Actors
<1>2. disk[d] \in Dirs /\ transfer[d].whole \in Sizes
  BY <1>1, OfDownload DEF Transfers
<1>3. disk[d].bytes + 1 \in Sizes
  BY <1>1, <1>2 DEF Dirs, Sizes, BrowseAssumption
<1>4. PICK dir \in Dirs : dir = [disk[d] EXCEPT !.bytes = disk[d].bytes + 1]
  BY <1>2, <1>3 DEF Dirs
<1>5. dir # None /\ dir.record = disk[d].record
  BY <1>2, <1>4 DEF BrowseAssumption, Dirs
<1>6. TypeOK' /\ disk'[d] = dir /\ \A c \in Ids \ {d} : disk'[c] = disk[c]
  <2>1. disk' = [disk EXCEPT ![d] = dir]
    BY <1>1, <1>4
  <2>2. QED BY <1>1, <2>1, Facts DEF TypeOK, hostVars, tallyVars
<1>7. Running(d)' <=> Running(d)
  BY <1>1 DEF Running
<1>8. TransferInv(d)' /\ VouchInv(d)'
  <2>1. Live(transfer[d].view)' <=> Live(transfer[d].view)
    BY <1>1 DEF Live, hostVars
  <2>2. QED BY <1>1, <1>5, <1>6, <1>7, <2>1, OfDownload DEF TransferInv, VouchInv
<1>9. JobInv(Main)'
  <2>1. \A c \in Ids : transfer[c].at # "coming" => disk'[c] = disk[c] /\ Bytes(c)' = Bytes(c)
    BY <1>1, <1>6 DEF Bytes
  <2>2. \A c \in Ids : entry'[c] = entry[c] /\ (Running(c)' <=> Running(c))
    BY <1>1, SameRunning
  <2>3. JobInv(Main) /\ job'[Main] = job[Main]
    BY <1>1, Facts
  <2>4. QED BY <1>1, <2>1, <2>2, <2>3, JobStays
<1>10. LandedInv' /\ Others(Main)
  BY <1>1, OfDownload DEF LandedInv, Others
<1>11. Downloads'
  BY <1>1, <1>6, <1>8, <1>9, <1>10, OneDownload
<1>12. Bounded'
  BY <1>1, BoundedStays DEF Inv
<1>13. Undisturbed' /\ ViewInv'
  <2>1. slot' = slot /\ view' = view /\ job' = job /\ alone' = alone /\ entry' = entry
    BY <1>1 DEF hostVars, tallyVars
  <2>2. (AnyRunning' <=> AnyRunning) /\ (Live(slot.view)' <=> Live(slot.view))
    BY <2>1, SameRunning DEF Live
  <2>3. \A a \in Actors : (At(a, "idle")' <=> At(a, "idle")) /\ (Surroundings(job[a])' <=> Surroundings(job[a]))
    <3> SUFFICES ASSUME NEW a \in Actors
                 PROVE  /\ At(a, "idle")' <=> At(a, "idle")
                        /\ Surroundings(job[a])' <=> Surroundings(job[a])
      OBVIOUS
    <3>1. (OnScreen(job[a])' <=> OnScreen(job[a])) /\ (Releases(job[a])' <=> Releases(job[a]))
      BY <2>1 DEF OnScreen, Releases
    <3>2. QED BY <2>1, <2>2, <3>1 DEF Surroundings, At
  <2>4. (Surroundings(Idle)' <=> Surroundings(Idle)) /\ (Rest' <=> Rest)
    BY <2>1, <2>2 DEF Surroundings, OnScreen, Releases, Rest, At, Idle
  <2>5. Undisturbed'
    BY <2>1, <2>3, <2>4 DEF Inv, Undisturbed
  <2>6. QED BY <2>1, <2>5 DEF Inv, ViewInv
<1>14. QED BY <1>6, <1>11, <1>12, <1>13 DEF Inv

(* The browser says that a download is over, one way or the other.           *)
LEMMA FinishedKeeps ==
  ASSUME BrowseAssumption, Inv, At(Main, "idle"), NEW d \in Ids, NEW ok \in BOOLEAN,
         NEW withPath \in BOOLEAN, Finished(d, ok, withPath)
  PROVE  Inv'
<1>1. /\ Main \in Actors /\ UNCHANGED <<entry, disk, hostVars, landed>>
      /\ transfer[d].at \in {"coming", "cut"} /\ (ok => Bytes(d) = transfer[d].whole)
      /\ transfer' = [transfer EXCEPT ![d].at = "over"]
  BY DEF Finished, Actors
<1>2. Bytes(d) \in Sizes
  BY OfDownload DEF Bytes, Dirs, Sizes, BrowseAssumption
<1> DEFINE s == IF ~Located(d, withPath) THEN "release"
                ELSE IF ok /\ Bytes(d) > MaxSingle THEN "remove" ELSE "settle"
<1>3. PICK j \in Jobs :
        /\ Begins(Main, j) /\ j.at = s /\ j.then \in {"idle", "release"}
        /\ s # "release" => j.id = d /\ j.then = "release" /\ j.ok = ok /\ j.size = Bytes(d)
  <2>1. "settle" \in Stages /\ "remove" \in Stages /\ "release" \in Stages
    BY DEF Stages
  <2>2. PICK i \in Jobs : i = [Idle EXCEPT !.at = s]
    BY <2>1, IdleIsAJob
  <2>3. i.at = s /\ i.then = "idle"
    BY <2>2 DEF Idle
  <2>4. CASE s = "release"
    <3>1. Begins(Main, i)
      BY <2>2, <2>4 DEF Finished
    <3>2. QED BY <2>3, <2>4, <3>1
  <2>5. CASE s # "release"
    <3>1. Begins(Main, [Idle EXCEPT !.at = s, !.then = "release", !.id = d, !.ok = ok, !.size = Bytes(d)])
      BY <2>5 DEF Finished
    <3>2. PICK k1 \in Jobs : k1 = [i EXCEPT !.then = "release"]
      BY <2>2, JobEdits
    <3>3. k1.at = s /\ k1.then = "release"
      BY <2>2, <2>3, <3>2 DEF Jobs
    <3>4. PICK k2 \in Jobs : k2 = [k1 EXCEPT !.id = d]
      BY <3>2, JobEdits
    <3>5. k2.at = s /\ k2.then = "release" /\ k2.id = d
      BY <3>2, <3>3, <3>4 DEF Jobs
    <3>6. PICK k3 \in Jobs : k3 = [k2 EXCEPT !.ok = ok]
      BY <3>4, JobEdits
    <3>7. k3.at = s /\ k3.then = "release" /\ k3.id = d /\ k3.ok = ok
      BY <3>4, <3>5, <3>6 DEF Jobs
    <3>8. PICK k4 \in Jobs : k4 = [k3 EXCEPT !.size = Bytes(d)]
      BY <1>2, <3>6, JobEdits
    <3>9. k4.at = s /\ k4.then = "release" /\ k4.id = d /\ k4.ok = ok /\ k4.size = Bytes(d)
      BY <3>6, <3>7, <3>8 DEF Jobs
    <3>10. Begins(Main, k4)
      BY <2>2, <3>1, <3>2, <3>4, <3>6, <3>8
    <3>11. QED BY <3>9, <3>10
  <2>6. QED BY <2>4, <2>5
<1>4. /\ job' \in [Actors -> Jobs] /\ Others(Main) /\ job'[Main] = j
      /\ alone' = (alone /\ Rest) /\ alone' \in BOOLEAN
  BY <1>1, <1>3, Facts, Begun
<1>5. /\ transfer' \in [Ids -> Transfers] /\ transfer'[d].at = "over"
      /\ transfer'[d].whole = transfer[d].whole /\ \A e \in Ids \ {d} : transfer'[e] = transfer[e]
  <2>1. transfer \in [Ids -> Transfers]
    BY <1>1, Facts DEF TypeOK
  <2>2. PICK r \in Transfers : r = [transfer[d] EXCEPT !.at = "over"]
    BY <2>1 DEF Transfers
  <2>3. r.at = "over" /\ r.whole = transfer[d].whole
    BY <2>1, <2>2 DEF Transfers
  <2>4. QED BY <1>1, <2>1, <2>2, <2>3
<1>6. TypeOK'
  BY <1>1, <1>4, <1>5, Facts DEF TypeOK, hostVars
<1>7. (Running(d)' <=> Running(d)) /\ Bytes(d)' = Bytes(d)
  BY <1>1 DEF Running, Bytes
<1>8. TransferInv(d)' /\ VouchInv(d)'
  BY <1>1, <1>5, OfDownload DEF TransferInv, VouchInv
<1>9. s # "release" => Running(d)
  BY DEF Located, SameUrl
<1>10. s = "settle" /\ ok => Bytes(d) <= MaxSingle
  BY <1>2 DEF Sizes, BrowseAssumption
<1>11. JobInv(Main)'
  <2>1. s \in {"release", "remove", "settle"}
    OBVIOUS
  <2> HIDE DEF s
  <2>2. CASE s = "release"
    BY <1>3, <1>4, <2>2 DEF JobInv, Opening, Ending
  <2>3. CASE s = "remove"
    BY <1>3, <1>4, <1>5, <2>3 DEF JobInv, Opening, Ending
  <2>4. CASE s = "settle"
    BY <1>1, <1>3, <1>4, <1>5, <1>7, <1>9, <1>10, <2>4 DEF JobInv, Opening, Ending
  <2>5. QED BY <2>1, <2>2, <2>3, <2>4
<1>12. LandedInv'
  BY <1>1, <1>5, OfDownload DEF LandedInv
<1>13. Downloads'
  BY <1>1, <1>4, <1>5, <1>7, <1>8, <1>11, <1>12, OneDownload
<1>14. Bounded'
  <2>1. job'[Main].at \notin Opening
    BY <1>3, <1>4 DEF Opening
  <2>2. QED BY <1>1, <2>1, BoundedStays DEF Inv
<1>15. Undisturbed' /\ ViewInv'
  <2>1. Releases(job[Main])'
    BY <1>3, <1>4 DEF Releases
  <2>2. job[Main].at \in Plain /\ job'[Main].at \in Plain
    BY <1>3, <1>4 DEF Plain, Ending, At
  <2>3. QED BY <1>1, <1>4, <2>1, <2>2, PlainJobs
<1>16. QED BY <1>6, <1>13, <1>14, <1>15 DEF Inv

(* How a download ended goes to its entry, if it is still there.             *)
LEMMA EndedIsARecord ==
  ASSUME NEW rec \in Records, NEW ok \in BOOLEAN, NEW size \in Sizes
  PROVE  /\ Ended(rec, ok, size) \in Records
         /\ Ended(rec, ok, size).state = IF ok THEN "completed" ELSE "interrupted"
         /\ ok /\ rec.total = 0 => Ended(rec, ok, size).total = size
BY DEF Ended, Records

LEMMA SettleKeeps ==
  ASSUME BrowseAssumption, Inv, Settle
  PROVE  Inv'
<1>1. /\ Main \in Actors /\ job[Main].at = "settle" /\ ~At(Main, "idle")
      /\ UNCHANGED <<transfer, disk, hostVars, landed>> /\ alone' = alone
  BY DEF Settle, At, Actors, tallyVars
<1>2. PICK d \in Ids :
        /\ d = job[Main].id /\ transfer[d].at \in {"cut", "over"} /\ job[Main].then = "release"
        /\ job[Main].ok => job[Main].size = transfer[d].whole /\ job[Main].size <= MaxSingle
        /\ entry[d] # None => Running(d)
  BY <1>1, Facts DEF JobInv, Ending
<1>3. job[Main].size \in Sizes /\ job[Main].ok \in BOOLEAN
  BY <1>1, Facts DEF Jobs
<1>4. CASE entry[d] = None
  <2>1. Then(Main) /\ UNCHANGED entry
    BY <1>2, <1>4 DEF Settle
  <2>2. /\ job' \in [Actors -> Jobs] /\ Others(Main) /\ job'[Main].at = "release"
        /\ job'[Main].then = "idle"
    BY <1>1, <1>2, <2>1, Facts, GoesThen
  <2>3. TypeOK'
    BY <1>1, <2>1, <2>2, Facts DEF TypeOK, hostVars
  <2>4. JobInv(Main)'
    BY <2>2 DEF JobInv, Opening, Ending
  <2>5. Downloads'
    BY <1>1, <2>1, <2>2, <2>4, Facts, DownloadsAreKept DEF Inv, stageVars, hostVars
  <2>6. Bounded'
    BY <2>1, <2>2, BoundedStays DEF Inv, Opening
  <2>7. Undisturbed' /\ ViewInv'
    <3>1. Releases(job[Main])'
      BY <2>2 DEF Releases
    <3>2. job[Main].at \in Plain /\ job'[Main].at \in Plain
      BY <1>1, <2>2 DEF Plain, Ending
    <3>3. QED BY <1>1, <2>2, <3>1, <3>2, PlainJobs
  <2>8. QED BY <2>3, <2>5, <2>6, <2>7 DEF Inv
<1>5. CASE entry[d] # None
  <2>1. entry[d] \in Entries /\ entry[d].rec \in Records /\ Running(d)
    BY <1>2, <1>5, OfDownload DEF Entries
  <2>2. PICK rec \in Records : /\ rec = Ended(entry[d].rec, job[Main].ok, job[Main].size)
                               /\ rec.state = IF job[Main].ok THEN "completed" ELSE "interrupted"
    BY <1>3, <2>1, EndedIsARecord
  <2>3. PICK e \in Entries : /\ entry' = [entry EXCEPT ![d] = e] /\ e.rec = rec /\ ~e.orphan
                             /\ e.bytes = job[Main].size /\ (e.verifiable => rec.state = "completed")
    <3>1. Vouches(rec, job[Main].size, TRUE) \in BOOLEAN
      BY DEF Vouches
    <3>2. Vouches(rec, job[Main].size, TRUE) => rec.state = "completed"
      BY DEF Vouches
    <3>3. entry' = [entry EXCEPT ![d] = [rec |-> rec, orphan |-> FALSE, bytes |-> job[Main].size,
                      verifiable |-> Vouches(rec, job[Main].size, TRUE)]]
      BY <1>2, <1>5, <2>2 DEF Settle
    <3>4. PICK sure \in BOOLEAN : sure = Vouches(rec, job[Main].size, TRUE)
      BY <3>1
    <3>5. PICK e : e = [rec |-> rec, orphan |-> FALSE, bytes |-> job[Main].size, verifiable |-> sure]
      OBVIOUS
    <3>6. /\ e \in Entries /\ e.rec = rec /\ ~e.orphan /\ e.bytes = job[Main].size
          /\ e.verifiable = sure
      BY <1>3, <3>5 DEF Entries
    <3>7. QED BY <3>2, <3>3, <3>4, <3>5, <3>6
  <2>4. e # None
    BY <2>3 DEF BrowseAssumption
  <2>5. /\ job' \in [Actors -> Jobs] /\ Others(Main) /\ job'[Main].at = "rewrite"
        /\ job'[Main].then = job[Main].then /\ job'[Main].id = job[Main].id
        /\ job'[Main].ok = job[Main].ok /\ job'[Main].size = job[Main].size
    <3>1. Go(Main, "rewrite") /\ "rewrite" \in Stages
      BY <1>2, <1>5 DEF Settle, Stages
    <3>2. QED BY <1>1, <3>1, Facts, Goes
  <2>6. TypeOK' /\ entry'[d] = e /\ \A c \in Ids \ {d} : entry'[c] = entry[c]
    <3>1. entry \in [Ids -> Entries \cup {None}]
      BY <1>1, Facts DEF TypeOK
    <3>2. entry' \in [Ids -> Entries \cup {None}] /\ entry'[d] = e
      BY <2>3, <3>1
    <3>3. \A c \in Ids \ {d} : entry'[c] = entry[c]
      BY <2>3, <3>1
    <3>4. QED BY <1>1, <2>5, <3>2, <3>3, Facts DEF TypeOK, hostVars
  <2>7. ~Running(d)'
    BY <2>2, <2>3, <2>6 DEF Running
  <2>8. VouchInv(d)'
    <3>1. e.verifiable => e.rec.state = "completed" /\ e.bytes = transfer[d].whole
      BY <1>2, <1>3, <2>2, <2>3
    <3>2. VouchInv(d) /\ disk' = disk /\ transfer' = transfer
      BY <1>1, OfDownload
    <3>3. QED BY <2>6, <3>1, <3>2 DEF VouchInv
  <2>9. TransferInv(d)'
    BY <1>1, <1>2, <2>6, OfDownload DEF TransferInv
  <2>10. JobInv(Main)'
    BY <1>1, <1>2, <2>5 DEF JobInv, Opening, Ending
  <2>11. LandedInv'
    BY <1>1, OfDownload DEF LandedInv
  <2>12. Bytes(d)' = Bytes(d)
    BY <1>1 DEF Bytes
  <2>13. Downloads'
    BY <1>1, <1>2, <2>5, <2>6, <2>7, <2>8, <2>9, <2>10, <2>11, <2>12, OneDownload
  <2>14. Bounded'
    <3>1. ASSUME NEW c \in Ids PROVE Claim(c)' <= Claim(c)
      <4>1. Claim(c) \in Nat /\ MaxSingle \in Nat
        BY <1>1, Facts DEF TypeOK, BrowseAssumption, Claim, Entries, Sizes
      <4>2. CASE c = d
        <5>1. Claim(d) = MaxSingle
          BY <2>1 DEF Claim, Running
        <5>2. Claim(d)' = IF job[Main].ok THEN job[Main].size ELSE 0
          BY <2>2, <2>3, <2>4, <2>6, <2>7 DEF Claim
        <5>3. QED BY <1>2, <4>1, <4>2, <5>1, <5>2
      <4>3. CASE c # d
        <5>1. Claim(c)' = Claim(c)
          BY <2>6, <4>3 DEF Claim, Running
        <5>2. QED BY <4>1, <5>1
      <4>4. QED BY <4>2, <4>3
    <3>2. job'[Main].at \notin Opening
      BY <2>5 DEF Opening
    <3>3. QED BY <2>6, <3>1, <3>2, BoundedIsKept DEF Inv
  <2>15. Undisturbed' /\ ViewInv'
    <3>1. Releases(job[Main])'
      BY <1>2, <2>5 DEF Releases
    <3>2. job[Main].at \in Plain /\ job'[Main].at \in Plain
      BY <1>1, <2>5 DEF Plain, Ending
    <3>3. QED BY <1>1, <2>5, <3>1, <3>2, PlainJobs
  <2>16. QED BY <2>6, <2>13, <2>14, <2>15 DEF Inv
<1>6. QED BY <1>4, <1>5

(* The record is written beside the bytes, wherever they are by then.        *)
LEMMA RewriteKeeps ==
  ASSUME BrowseAssumption, Inv, Rewrite
  PROVE  Inv'
<1>1. /\ Main \in Actors /\ job[Main].at = "rewrite" /\ ~At(Main, "idle") /\ Then(Main)
      /\ UNCHANGED <<transfer, entry, hostVars, landed>> /\ alone' = alone
  BY DEF Rewrite, At, Actors, tallyVars
<1>2. PICK d \in Ids :
        /\ d = job[Main].id /\ transfer[d].at \in {"cut", "over"} /\ job[Main].then = "release"
        /\ job[Main].ok => job[Main].size = transfer[d].whole
  BY <1>1, Facts DEF JobInv, Ending
<1>3. /\ job' \in [Actors -> Jobs] /\ Others(Main) /\ job'[Main].at = "release"
      /\ job'[Main].then = "idle"
  BY <1>1, <1>2, Facts, GoesThen
<1>4. PICK dir \in Dirs \cup {None} :
        /\ disk' = [disk EXCEPT ![d] = dir]
        /\ dir # None => dir.bytes = Bytes(d)
        /\ dir # None /\ dir # disk[d] =>
             dir.record # None /\ (dir.record.state = "completed" => dir.record.total = transfer[d].whole)
  <2>1. CASE UNCHANGED disk
    BY <2>1, OfDownload, Facts, <1>1 DEF TypeOK, Bytes
  <2>2. CASE disk' = [disk EXCEPT ![job[Main].id] =
               [record |-> Ended(Started, job[Main].ok, job[Main].size), bytes |-> Bytes(job[Main].id)]]
    <3>1. Started \in Records /\ Started.total = 0
      BY DEF BrowseAssumption, Started, Records, Sizes
    <3>2. job[Main].size \in Sizes /\ job[Main].ok \in BOOLEAN
      BY <1>1, Facts DEF Jobs
    <3>3. PICK rec \in Records : /\ rec = Ended(Started, job[Main].ok, job[Main].size)
                                 /\ rec.state = IF job[Main].ok THEN "completed" ELSE "interrupted"
                                 /\ job[Main].ok => rec.total = job[Main].size
      BY <3>1, <3>2, EndedIsARecord
    <3>4. PICK n \in Sizes : n = Bytes(d)
      BY OfDownload DEF Bytes, Dirs, Sizes, BrowseAssumption
    <3>5. PICK dir : dir = [record |-> rec, bytes |-> n]
      OBVIOUS
    <3>6. dir \in Dirs /\ dir.record = rec /\ dir.bytes = n
      BY <3>5 DEF Dirs
    <3>7. rec # None
      BY DEF BrowseAssumption
    <3>8. rec.state = "completed" => rec.total = transfer[d].whole
      BY <1>2, <3>3
    <3>9. disk' = [disk EXCEPT ![d] = dir]
      BY <1>2, <2>2, <3>3, <3>4, <3>5
    <3>10. QED BY <3>4, <3>6, <3>7, <3>8, <3>9
  <2>3. QED BY <2>1, <2>2 DEF Rewrite
<1>5. TypeOK' /\ disk'[d] = dir /\ \A c \in Ids \ {d} : disk'[c] = disk[c]
  <2>1. disk \in [Ids -> Dirs \cup {None}]
    BY <1>1, Facts DEF TypeOK
  <2>2. disk' \in [Ids -> Dirs \cup {None}] /\ disk'[d] = dir
    BY <1>4, <2>1
  <2>3. \A c \in Ids \ {d} : disk'[c] = disk[c]
    BY <1>4, <2>1
  <2>4. QED BY <1>1, <1>3, <2>2, <2>3, Facts DEF TypeOK, hostVars
<1>6. Bytes(d)' \in {0, Bytes(d)} /\ (Running(d)' <=> Running(d))
  BY <1>1, <1>4, <1>5 DEF Bytes, Running
<1>7. TransferInv(d)'
  BY <1>1, <1>2, OfDownload DEF TransferInv
<1>8. VouchInv(d)'
  <2>1. VouchInv(d) /\ entry' = entry /\ transfer' = transfer
    BY <1>1, OfDownload
  <2>2. QED BY <1>4, <1>5, <2>1 DEF VouchInv
<1>9. JobInv(Main)'
  BY <1>3 DEF JobInv, Opening, Ending
<1>10. LandedInv'
  BY <1>1, OfDownload DEF LandedInv
<1>11. Downloads'
  BY <1>1, <1>2, <1>3, <1>5, <1>6, <1>7, <1>8, <1>9, <1>10, OneDownload
<1>12. Bounded'
  BY <1>1, <1>3, BoundedStays DEF Inv, Opening
<1>13. Undisturbed' /\ ViewInv'
  <2>1. Releases(job[Main])'
    BY <1>3 DEF Releases
  <2>2. job[Main].at \in Plain /\ job'[Main].at \in Plain
    BY <1>1, <1>3 DEF Plain, Ending
  <2>3. QED BY <1>1, <1>3, <2>1, <2>2, PlainJobs
<1>14. QED BY <1>5, <1>11, <1>12, <1>13 DEF Inv

(* A download that no longer runs is over, whatever becomes of its view.     *)
LEMMA NoLongerRuns ==
  ASSUME Inv, NEW d \in Ids, entry[d] # None, ~Running(d)
  PROVE  transfer[d].at \in {"cut", "over"}
BY OfDownload DEF TransferInv, Transfers

(* A step that leaves the downloads and the view, and goes on to another     *)
(* plain stage.                                                              *)
LEMMA PlainStep ==
  ASSUME BrowseAssumption, Inv, NEW a \in Actors, job' \in [Actors -> Jobs], Others(a),
         UNCHANGED <<stageVars, hostVars, landed>>, JobInv(a)',
         job[a].at \in Plain, job'[a].at \in Plain \ Opening,
         alone' => alone /\ (Rest \/ ~At(a, "idle")), alone' \in BOOLEAN,
         Releases(job[a]) => Releases(job[a])'
  PROVE  Inv'
<1>1. TypeOK'
  BY Facts DEF TypeOK, stageVars, hostVars
<1>2. Downloads'
  BY Facts, DownloadsAreKept DEF Inv, hostVars
<1>3. Bounded'
  <2>1. job'[Main].at \in Opening => job[Main].at \in Opening
    BY DEF Others, Actors
  <2>2. QED BY <2>1, BoundedStays DEF Inv, stageVars
<1>4. Undisturbed' /\ ViewInv'
  <2>1. AnyRunning' <=> AnyRunning
    BY SameRunning DEF stageVars
  <2>2. AnyRunning \/ Releases(job[a]) => AnyRunning' \/ Releases(job[a])'
    BY <2>1
  <2>3. QED BY <2>2, PlainJobs
<1>5. QED BY <1>1, <1>2, <1>3, <1>4 DEF Inv

LEMMA LandKeeps ==
  ASSUME BrowseAssumption, Inv, NEW a \in Threads, At(a, "idle"), NEW d \in Ids, Land(a, d)
  PROVE  Inv'
<1>1. /\ a \in Actors /\ a # Main /\ entry[d] # None /\ entry[d].verifiable
      /\ UNCHANGED <<stageVars, hostVars, landed>>
  BY DEF Land, Actors, BrowseAssumption
<1>2. entry[d] \in Entries /\ entry[d].rec.state = "completed" /\ entry[d].bytes = transfer[d].whole
  BY <1>1, OfDownload DEF VouchInv
<1>3. ~Running(d) /\ transfer[d].at \in {"cut", "over"} /\ entry[d].bytes \in Sizes
  <2>1. ~Running(d)
    BY <1>2 DEF Running
  <2>2. QED BY <1>1, <1>2, <2>1, NoLongerRuns DEF Entries
<1>4. PICK i \in Jobs : i = [Idle EXCEPT !.at = "measure"]
  BY IdleIsAJob DEF Stages
<1>5. PICK k \in Jobs : k = [i EXCEPT !.id = d]
  BY <1>4, JobEdits
<1>6. PICK j \in Jobs : j = [k EXCEPT !.size = entry[d].bytes]
  BY <1>3, <1>5, JobEdits
<1>7. i.at = "measure" /\ i.then = "idle"
  BY <1>4 DEF Idle
<1>8. k.at = "measure" /\ k.then = "idle" /\ k.id = d
  BY <1>4, <1>5, <1>7 DEF Jobs
<1>9. j.at = "measure" /\ j.then = "idle" /\ j.id = d /\ j.size = entry[d].bytes
  BY <1>5, <1>6, <1>8 DEF Jobs
<1>10. Begins(a, j)
  BY <1>4, <1>5, <1>6 DEF Land
<1>11. /\ job' \in [Actors -> Jobs] /\ Others(a) /\ job'[a] = j
       /\ alone' = (alone /\ Rest) /\ alone' \in BOOLEAN
  BY <1>1, <1>10, Facts, Begun
<1>12. ~Running(d)' /\ transfer' = transfer
  BY <1>1, <1>3, SameRunning DEF stageVars
<1>13. JobInv(a)'
  BY <1>1, <1>2, <1>3, <1>9, <1>11, <1>12 DEF JobInv, Opening, Ending
<1>14. ~Releases(job[a]) /\ job[a].at \in Plain /\ job'[a].at \in Plain \ Opening
  BY <1>9, <1>11 DEF Releases, At, Plain, Opening, Ending
<1>15. QED BY <1>1, <1>11, <1>13, <1>14, PlainStep

LEMMA DiscardKeeps ==
  ASSUME BrowseAssumption, Inv, NEW a \in Threads, At(a, "idle"), NEW d \in Ids, Discard(a, d)
  PROVE  Inv'
<1>1. /\ a \in Actors /\ a # Main /\ entry[d] # None /\ ~Running(d)
      /\ UNCHANGED <<stageVars, hostVars, landed>>
  BY DEF Discard, Actors, BrowseAssumption
<1>2. transfer[d].at \in {"cut", "over"}
  BY <1>1, NoLongerRuns
<1>3. PICK i \in Jobs : i = [Idle EXCEPT !.at = "remove"]
  BY IdleIsAJob DEF Stages
<1>4. PICK k \in Jobs : k = [i EXCEPT !.then = "release"]
  BY <1>3, JobEdits
<1>5. PICK j \in Jobs : j = [k EXCEPT !.id = d]
  BY <1>4, JobEdits
<1>6. i.at = "remove"
  BY <1>3 DEF Idle
<1>7. k.at = "remove" /\ k.then = "release"
  BY <1>3, <1>4, <1>6 DEF Jobs
<1>8. j.at = "remove" /\ j.then = "release" /\ j.id = d
  BY <1>4, <1>5, <1>7 DEF Jobs
<1>9. Begins(a, j)
  BY <1>3, <1>4, <1>5 DEF Discard
<1>10. /\ job' \in [Actors -> Jobs] /\ Others(a) /\ job'[a] = j
       /\ alone' = (alone /\ Rest) /\ alone' \in BOOLEAN
  BY <1>1, <1>9, Facts, Begun
<1>11. JobInv(a)'
  BY <1>1, <1>2, <1>8, <1>10 DEF JobInv, Opening, Ending, stageVars
<1>12. ~Releases(job[a]) /\ job[a].at \in Plain /\ job'[a].at \in Plain \ Opening
  BY <1>8, <1>10 DEF Releases, At, Plain, Opening, Ending
<1>13. QED BY <1>1, <1>10, <1>11, <1>12, PlainStep

LEMMA MeasureKeeps ==
  ASSUME BrowseAssumption, Inv, NEW a \in Threads, Measure(a)
  PROVE  Inv'
<1>1. /\ a \in Actors /\ a # Main /\ job[a].at = "measure" /\ ~At(a, "idle")
      /\ UNCHANGED <<stageVars, hostVars, landed>> /\ alone' = alone
  BY DEF Measure, At, Actors, BrowseAssumption, tallyVars
<1>2. PICK d \in Ids :
        /\ d = job[a].id /\ transfer[d].at \in {"cut", "over"} /\ job[a].then = "idle"
        /\ job[a].size = transfer[d].whole /\ ~Running(d)
  BY <1>1, Facts DEF JobInv, Ending
<1>3. CASE End(a)
  <2>1. job' \in [Actors -> Jobs] /\ Others(a) /\ job'[a] = Idle
    BY <1>1, <1>3, Facts, Ends
  <2>2. JobInv(a)'
    BY <2>1 DEF JobInv, Idle, Opening, Ending
  <2>3. ~Releases(job[a]) /\ job[a].at \in Plain /\ job'[a].at \in Plain \ Opening
    BY <1>1, <2>1 DEF Releases, Plain, Opening, Ending, Idle
  <2>4. QED BY <1>1, <2>1, <2>2, <2>3, PlainStep, Facts
<1>4. CASE disk[d] # None /\ disk[d].bytes = job[a].size /\ Go(a, "upload")
  <2>1. /\ job' \in [Actors -> Jobs] /\ Others(a) /\ job'[a].at = "upload"
        /\ job'[a].then = job[a].then /\ job'[a].id = job[a].id /\ job'[a].size = job[a].size
    BY <1>1, <1>4, Facts, Goes DEF Stages
  <2>2. Bytes(d)' = transfer[d].whole /\ ~Running(d)' /\ transfer' = transfer
    BY <1>1, <1>2, <1>4, SameRunning DEF Bytes, stageVars
  <2>3. JobInv(a)'
    BY <1>1, <1>2, <2>1, <2>2 DEF JobInv, Opening, Ending
  <2>4. ~Releases(job[a]) /\ job[a].at \in Plain /\ job'[a].at \in Plain \ Opening
    BY <1>1, <2>1 DEF Releases, Plain, Opening, Ending
  <2>5. QED BY <1>1, <2>1, <2>3, <2>4, PlainStep, Facts
<1>5. QED BY <1>2, <1>3, <1>4 DEF Measure

(* What is uploaded is what is on disk, and that is all of it.               *)
LEMMA UploadKeeps ==
  ASSUME BrowseAssumption, Inv, NEW a \in Threads, Upload(a)
  PROVE  Inv'
<1>1. /\ a \in Actors /\ a # Main /\ job[a].at = "upload" /\ ~At(a, "idle")
      /\ UNCHANGED <<stageVars, hostVars>> /\ alone' = alone
  BY DEF Upload, At, Actors, BrowseAssumption, tallyVars
<1>2. PICK d \in Ids :
        /\ d = job[a].id /\ transfer[d].at \in {"cut", "over"} /\ job[a].then = "idle"
        /\ ~Running(d) /\ Bytes(d) \in {0, transfer[d].whole}
  BY <1>1, Facts DEF JobInv, Ending
<1>3. CASE UNCHANGED landed /\ End(a)
  <2>1. job' \in [Actors -> Jobs] /\ Others(a) /\ job'[a] = Idle
    BY <1>1, <1>3, Facts, Ends
  <2>2. JobInv(a)'
    BY <2>1 DEF JobInv, Idle, Opening, Ending
  <2>3. ~Releases(job[a]) /\ job[a].at \in Plain /\ job'[a].at \in Plain \ Opening
    BY <1>1, <2>1 DEF Releases, Plain, Opening, Ending, Idle
  <2>4. QED BY <1>1, <1>3, <2>1, <2>2, <2>3, PlainStep, Facts
<1>4. CASE /\ Bytes(d) > 0 /\ Go(a, "remove")
           /\ landed' = landed \cup {[id |-> d, bytes |-> disk[d].bytes]}
  <2>1. /\ job' \in [Actors -> Jobs] /\ Others(a) /\ job'[a].at = "remove"
        /\ job'[a].then = job[a].then /\ job'[a].id = job[a].id
    BY <1>1, <1>4, Facts, Goes DEF Stages
  <2>2. /\ disk[d].bytes = transfer[d].whole /\ disk[d].bytes \in Sizes
    BY <1>2, <1>4, OfDownload DEF Bytes, Dirs
  <2>3. TypeOK'
    <3>1. landed' \subseteq [id : Ids, bytes : Sizes]
      BY <1>1, <1>4, <2>2, Facts DEF TypeOK
    <3>2. QED BY <1>1, <2>1, <3>1, Facts DEF TypeOK, stageVars, hostVars
  <2>4. LandedInv'
    <3>1. LandedInv /\ transfer' = transfer
      BY <1>1, OfDownload DEF stageVars
    <3>2. QED BY <1>2, <1>4, <2>2, <3>1 DEF LandedInv
  <2>5. (Running(d)' <=> Running(d)) /\ Bytes(d)' = Bytes(d)
    BY <1>1 DEF Running, Bytes, stageVars
  <2>6. JobInv(a)'
    BY <1>1, <1>2, <2>1, <2>5 DEF JobInv, Opening, Ending, stageVars
  <2>7. TransferInv(d)' /\ VouchInv(d)'
    <3>1. Live(transfer[d].view)' <=> Live(transfer[d].view)
      BY <1>1 DEF Live, hostVars, stageVars
    <3>2. TransferInv(d) /\ VouchInv(d) /\ transfer' = transfer /\ disk' = disk /\ entry' = entry
      BY <1>1, OfDownload DEF stageVars
    <3>3. QED BY <2>5, <3>1, <3>2 DEF TransferInv, VouchInv
  <2>8. Downloads'
    <3>1. transfer' = transfer /\ disk' = disk /\ entry' = entry
      BY <1>1 DEF stageVars
    <3>2. QED BY <1>1, <1>2, <2>1, <2>4, <2>5, <2>6, <2>7, <3>1, OneDownload
  <2>9. Bounded'
    BY <1>1, <2>1, BoundedStays DEF Inv, stageVars, Others, Actors
  <2>10. Undisturbed' /\ ViewInv'
    <3>1. AnyRunning \/ Releases(job[a]) => AnyRunning'
      BY <1>1, SameRunning DEF Releases, stageVars
    <3>2. job[a].at \in Plain /\ job'[a].at \in Plain
      BY <1>1, <2>1 DEF Plain, Ending
    <3>3. QED BY <1>1, <2>1, <3>1, <3>2, PlainJobs
  <2>11. QED BY <2>3, <2>8, <2>9, <2>10 DEF Inv
<1>5. QED BY <1>2, <1>3, <1>4 DEF Upload

LEMMA RemoveDirKeeps ==
  ASSUME BrowseAssumption, Inv, NEW a \in Actors, RemoveDir(a)
  PROVE  Inv'
<1>1. /\ job[a].at = "remove" /\ ~At(a, "idle")
      /\ UNCHANGED <<transfer, entry, hostVars, landed>> /\ alone' = alone
  BY DEF RemoveDir, At, tallyVars
<1>2. PICK d \in Ids :
        /\ d = job[a].id /\ transfer[d].at \in {"cut", "over"} /\ job[a].then # "create"
        /\ job[a].then = "idle" => ~Running(d)
  BY <1>1, Facts DEF JobInv, Ending
<1>3. job[a].then \in {"idle", "release"}
  BY <1>2, Facts DEF Jobs
<1>4. CASE entry[d] = None
  <2>1. UNCHANGED disk /\ Then(a)
    BY <1>2, <1>4 DEF RemoveDir
  <2>2. /\ job' \in [Actors -> Jobs] /\ Others(a) /\ job'[a].at = job[a].then
        /\ job'[a].then = "idle"
    BY <2>1, Facts, GoesThen
  <2>3. JobInv(a)'
    BY <1>3, <2>2 DEF JobInv, Opening, Ending
  <2>4. /\ Releases(job[a]) => Releases(job[a])'
        /\ job[a].at \in Plain /\ job'[a].at \in Plain \ Opening
    BY <1>1, <1>3, <2>2 DEF Releases, Plain, Opening, Ending
  <2>5. alone' \in BOOLEAN /\ UNCHANGED <<stageVars, hostVars, landed>>
    BY <1>1, <2>1, Facts DEF stageVars
  <2>6. QED BY <1>1, <2>2, <2>3, <2>4, <2>5, PlainStep
<1>5. CASE entry[d] # None
  <2>1. /\ job' \in [Actors -> Jobs] /\ Others(a) /\ job'[a].at = "retain"
        /\ job'[a].then = job[a].then /\ job'[a].id = job[a].id
    <3>1. Go(a, "retain")
      BY <1>2, <1>5 DEF RemoveDir
    <3>2. QED BY <3>1, Facts, Goes DEF Stages
  <2>2. PICK dir \in Dirs \cup {None} :
          /\ disk' = [disk EXCEPT ![d] = dir]
          /\ dir # None => dir.bytes = Bytes(d)
          /\ dir = disk[d] \/ dir = None \/ dir.record = None
    <3>1. disk \in [Ids -> Dirs \cup {None}]
      BY Facts DEF TypeOK
    <3>2. CASE disk' = [disk EXCEPT ![d] = None]
      BY <3>2
    <3>3. CASE disk[d] # None /\ disk' = [disk EXCEPT ![d].record = None]
      <4>1. PICK dir \in Dirs : dir = [disk[d] EXCEPT !.record = None]
        BY <3>1, <3>3 DEF Dirs
      <4>2. dir.bytes = disk[d].bytes /\ dir.record = None
        BY <3>1, <3>3, <4>1 DEF Dirs
      <4>3. disk' = [disk EXCEPT ![d] = dir]
        BY <3>1, <3>3, <4>1
      <4>4. QED BY <3>3, <4>2, <4>3 DEF Bytes
    <3>4. CASE UNCHANGED disk
      <4>1. disk' = [disk EXCEPT ![d] = disk[d]]
        BY <3>1, <3>4
      <4>2. QED BY <3>1, <4>1 DEF Bytes
    <3>5. QED BY <1>2, <1>5, <3>2, <3>3, <3>4 DEF RemoveDir
  <2>3. TypeOK' /\ disk'[d] = dir /\ \A c \in Ids \ {d} : disk'[c] = disk[c]
    <3>1. disk \in [Ids -> Dirs \cup {None}]
      BY Facts DEF TypeOK
    <3>2. disk' \in [Ids -> Dirs \cup {None}] /\ disk'[d] = dir
      BY <2>2, <3>1
    <3>3. \A c \in Ids \ {d} : disk'[c] = disk[c]
      BY <2>2, <3>1
    <3>4. QED BY <1>1, <2>1, <3>2, <3>3, Facts DEF TypeOK, hostVars
  <2>4. Bytes(d)' \in {0, Bytes(d)} /\ (Running(d)' <=> Running(d))
    BY <1>1, <2>2, <2>3 DEF Bytes, Running
  <2>5. TransferInv(d)'
    BY <1>1, <1>2, OfDownload DEF TransferInv
  <2>6. VouchInv(d)'
    <3>1. VouchInv(d) /\ entry' = entry /\ transfer' = transfer
      BY <1>1, OfDownload
    <3>2. QED BY <2>2, <2>3, <3>1 DEF VouchInv
  <2>7. JobInv(a)'
    BY <1>1, <1>2, <2>1, <2>4 DEF JobInv, Opening, Ending
  <2>8. LandedInv'
    BY <1>1, OfDownload DEF LandedInv
  <2>9. Downloads'
    BY <1>1, <1>2, <2>1, <2>3, <2>4, <2>5, <2>6, <2>7, <2>8, OneDownload
  <2>10. Bounded'
    <3>1. job'[Main].at \in Opening => job[Main].at \in Opening
      BY <2>1 DEF Others, Actors, Opening
    <3>2. QED BY <1>1, <3>1, BoundedStays DEF Inv
  <2>11. Undisturbed' /\ ViewInv'
    <3>1. AnyRunning \/ Releases(job[a]) => AnyRunning' \/ Releases(job[a])'
      BY <1>1, <2>1, SameRunning DEF Releases
    <3>2. job[a].at \in Plain /\ job'[a].at \in Plain
      BY <1>1, <2>1 DEF Plain, Ending
    <3>3. QED BY <1>1, <2>1, <3>1, <3>2, PlainJobs
  <2>12. QED BY <2>3, <2>9, <2>10, <2>11 DEF Inv
<1>6. QED BY <1>4, <1>5

LEMMA RetainKeeps ==
  ASSUME BrowseAssumption, Inv, NEW a \in Actors, Retain(a)
  PROVE  Inv'
<1>1. /\ job[a].at = "retain" /\ ~At(a, "idle") /\ Then(a)
      /\ UNCHANGED <<transfer, disk, hostVars, landed>> /\ alone' = alone
  BY DEF Retain, At, tallyVars
<1>2. PICK d \in Ids :
        /\ d = job[a].id /\ transfer[d].at \in {"cut", "over"} /\ job[a].then # "create"
        /\ job[a].then = "idle" => ~Running(d)
  BY <1>1, Facts DEF JobInv, Ending
<1>3. job[a].then \in {"idle", "release"}
  BY <1>2, Facts DEF Jobs
<1>4. /\ job' \in [Actors -> Jobs] /\ Others(a) /\ job'[a].at = job[a].then
      /\ job'[a].then = "idle"
  BY <1>1, Facts, GoesThen
<1>5. TypeOK' /\ entry'[d] = None /\ \A c \in Ids \ {d} : entry'[c] = entry[c]
  <2>1. entry \in [Ids -> Entries \cup {None}] /\ entry' = [entry EXCEPT ![d] = None]
    BY <1>2, Facts DEF TypeOK, Retain
  <2>2. entry' \in [Ids -> Entries \cup {None}]
    BY <2>1
  <2>3. entry'[d] = None /\ \A c \in Ids \ {d} : entry'[c] = entry[c]
    BY <2>1
  <2>4. QED BY <1>1, <1>4, <2>2, <2>3, Facts DEF TypeOK, hostVars
<1>6. ~Running(d)' /\ Bytes(d)' = Bytes(d) /\ \A c \in Ids \ {d} : Running(c)' <=> Running(c)
  BY <1>1, <1>5 DEF Bytes, Running
<1>7. TransferInv(d)' /\ VouchInv(d)'
  BY <1>1, <1>2, <1>5, OfDownload DEF TransferInv, VouchInv
<1>8. JobInv(a)'
  BY <1>3, <1>4 DEF JobInv, Opening, Ending
<1>9. LandedInv'
  BY <1>1, OfDownload DEF LandedInv
<1>10. Downloads'
  BY <1>1, <1>2, <1>4, <1>5, <1>6, <1>7, <1>8, <1>9, OneDownload
<1>11. Bounded'
  <2>1. ASSUME NEW c \in Ids PROVE Claim(c)' <= Claim(c)
    <3>1. Claim(c) \in Nat
      BY Facts DEF TypeOK, BrowseAssumption, Claim, Entries, Sizes
    <3>2. Claim(c)' = 0 \/ Claim(c)' = Claim(c)
      BY <1>5, <1>6 DEF Claim
    <3>3. QED BY <3>1, <3>2
  <2>2. job'[Main].at \in Opening => job[Main].at \in Opening
    BY <1>3, <1>4 DEF Others, Actors, Opening
  <2>3. QED BY <1>5, <2>1, <2>2, Facts, BoundedIsKept DEF Inv
<1>12. Undisturbed' /\ ViewInv'
  <2>1. AnyRunning \/ Releases(job[a]) => AnyRunning' \/ Releases(job[a])'
    <3>1. CASE job[a].then = "release"
      BY <1>4, <3>1 DEF Releases
    <3>2. CASE job[a].then = "idle"
      <4>1. AnyRunning => AnyRunning'
        BY <1>2, <1>6, <3>2 DEF AnyRunning
      <4>2. QED BY <1>1, <3>2, <4>1 DEF Releases
    <3>3. QED BY <1>3, <3>1, <3>2
  <2>2. job[a].at \in Plain /\ job'[a].at \in Plain
    BY <1>1, <1>3, <1>4 DEF Plain, Ending
  <2>3. QED BY <1>1, <1>4, <2>1, <2>2, PlainJobs
<1>13. QED BY <1>5, <1>10, <1>11, <1>12 DEF Inv

-----------------------------------------------------------------------------
(* The first state, a start, and every other step.                           *)

(* A state with nothing at work and no view.                                 *)
LEMMA NothingAtWork ==
  ASSUME slot = NoSlot, view = [v \in Views |-> NoView], job = [t \in Actors |-> Idle]
  PROVE  Undisturbed /\ ViewInv /\ \A a \in Actors : JobInv(a)
<1>1. \A a \in Actors : job[a] = Idle
  OBVIOUS
<1>2. \A v \in Views : ~view[v].visible
  BY DEF NoView
<1>3. \A a \in Actors : JobInv(a)
  BY <1>1 DEF JobInv, Idle, Opening, Ending
<1>4. Surroundings(Idle)
  BY <1>2 DEF Surroundings, OnScreen, Idle, NoSlot
<1>5. \A a \in Actors : At(a, "idle")
  BY <1>1 DEF At, Idle
<1>6. QED BY <1>2, <1>3, <1>4, <1>5 DEF Undisturbed, ViewInv, NoSlot

LEMMA NothingTypes ==
  ASSUME BrowseAssumption
  PROVE  /\ NoSlot \in [view : Views \cup {None}, bounds : BOOLEAN, hidden : BOOLEAN,
                        parked : BOOLEAN]
         /\ [v \in Views |-> NoView] \in
              [Views -> [alive : BOOLEAN, visible : BOOLEAN, used : BOOLEAN]]
         /\ [t \in Actors |-> Idle] \in [Actors -> Jobs]
         /\ NoTransfer \in Transfers /\ NoTransfer.at = "none" /\ Idle.at = "idle" /\ 0 \in Sizes
<1>1. 0 \in Sizes
  BY DEF BrowseAssumption, Sizes
<1>2. QED BY <1>1, IdleIsAJob DEF NoSlot, NoView, NoTransfer, Transfers, Idle

LEMMA InvAtFirst ==
  ASSUME BrowseAssumption, Init
  PROVE  Inv
<1>1. Main \in Actors
  BY DEF Actors
<1>2. TypeOK
  BY NothingTypes DEF Init, TypeOK
<1>3. Undisturbed /\ ViewInv /\ \A a \in Actors : JobInv(a)
  BY NothingAtWork DEF Init
<1>4. \A d \in Ids : transfer[d] = NoTransfer /\ entry[d] = None /\ disk[d] = None
  BY DEF Init
<1>5. Downloads
  BY <1>3, <1>4, NothingTypes DEF Downloads, TransferInv, VouchInv, LandedInv, Init
<1>6. Bounded
  <2> DEFINE c == [d \in Ids |-> Claim(d)]
             z == [d \in Ids |-> 0]
  <2>1. c = z
    BY <1>4 DEF Claim
  <2>2. Claims = Total(z)
    BY <2>1 DEF Claims
  <2> HIDE DEF z
  <2>3. Room \in Nat
    <3>1. MaxConcurrent * MaxSingle \in Nat
      BY DEF BrowseAssumption
    <3>2. QED BY <3>1 DEF Room, BrowseAssumption
  <2>4. Total(z) <= Room
    <3>1. MaxDownloads \in Nat /\ z \in [Ids -> Nat]
      BY DEF BrowseAssumption, z
    <3>2. PICK s : SumsUpTo(z, MaxDownloads, s) /\ Total(z) = s[MaxDownloads]
      BY <3>1, PartialSums
    <3> DEFINE Up == {n \in 0 .. MaxDownloads : s[n] # 0}
    <3>3. Up = {}
      <4> SUFFICES ASSUME Up # {} PROVE FALSE
        OBVIOUS
      <4>1. PICK m \in Up : \A n \in Up : m <= n
        <5>1. Up \in SUBSET Nat
          BY <3>1
        <5> HIDE DEF Up
        <5>2. QED BY <5>1, LeastOf
      <4>2. m # 0
        BY <3>2, <4>1 DEF SumsUpTo
      <4>3. m \in 1 .. MaxDownloads /\ m - 1 \in 0 .. MaxDownloads /\ ~(m <= m - 1)
        BY <3>1, <4>1, <4>2
      <4>4. s[m - 1] = 0 /\ z[m] = 0
        BY <4>1, <4>3 DEF z, Ids
      <4>5. s[m] = s[m - 1] + z[m]
        BY <3>2, <4>3 DEF SumsUpTo
      <4>6. QED BY <4>1, <4>4, <4>5
    <3>4. QED BY <2>3, <3>1, <3>2, <3>3
  <2>5. job[Main].at \notin Opening
    BY <1>1, NothingTypes DEF Init, Opening
  <2>6. QED BY <2>2, <2>4, <2>5 DEF Bounded
<1>7. QED BY <1>2, <1>3, <1>5, <1>6 DEF Inv

(* A start finds what was whole, and what was cut short it does not trust.   *)
LEMMA RestartKeeps ==
  ASSUME BrowseAssumption, Inv, Restart
  PROVE  Inv'
<1>1. /\ Main \in Actors /\ landed' = landed /\ alone' = TRUE
      /\ slot' = NoSlot /\ view' = [v \in Views |-> NoView] /\ job' = [t \in Actors |-> Idle]
  BY DEF Restart, Actors
<1>2. disk \in [Ids -> Dirs \cup {None}] /\ transfer \in [Ids -> Transfers]
  BY <1>1, Facts DEF TypeOK
<1>3. /\ disk' \in [Ids -> Dirs \cup {None}]
      /\ \A d \in Ids : disk'[d] = disk[d] \/
           (disk[d] # None /\ disk'[d] # None /\ disk'[d].record = disk[d].record)
  <2>1. PICK d \in Ids, n \in Sizes :
          disk' = [disk EXCEPT ![d] =
            IF disk[d] # None /\ n < disk[d].bytes THEN [disk[d] EXCEPT !.bytes = n] ELSE disk[d]]
    BY DEF Restart
  <2>2. CASE disk[d] # None /\ n < disk[d].bytes
    <3>1. PICK dir \in Dirs : dir = [disk[d] EXCEPT !.bytes = n]
      BY <1>2, <2>2 DEF Dirs
    <3>2. dir.record = disk[d].record /\ dir # None
      BY <1>2, <2>2, <3>1 DEF Dirs, BrowseAssumption
    <3>3. disk' = [disk EXCEPT ![d] = dir]
      BY <2>1, <2>2, <3>1
    <3>4. QED BY <1>2, <2>2, <3>2, <3>3
  <2>3. CASE ~(disk[d] # None /\ n < disk[d].bytes)
    BY <1>2, <2>1, <2>3
  <2>4. QED BY <2>2, <2>3
<1>4. /\ transfer' \in [Ids -> Transfers]
      /\ \A d \in Ids : /\ transfer'[d].whole = transfer[d].whole
                        /\ transfer[d].at = "none" => transfer'[d] = NoTransfer
                        /\ transfer[d].at # "none" => transfer'[d].at = "over"
  <2>1. \A d \in Ids : transfer'[d] = IF transfer[d] = NoTransfer THEN NoTransfer
          ELSE [transfer[d] EXCEPT !.at = "over", !.view = None]
    BY DEF Restart
  <2>2. transfer' = [d \in Ids |-> transfer'[d]]
    BY DEF Restart
  <2>3. ASSUME NEW d \in Ids
        PROVE  /\ transfer'[d] \in Transfers
               /\ transfer'[d].whole = transfer[d].whole
               /\ transfer[d].at = "none" => transfer'[d] = NoTransfer
               /\ transfer[d].at # "none" => transfer'[d].at = "over"
    <3>1. TransferInv(d) /\ transfer[d] \in Transfers
      BY OfDownload
    <3>2. CASE transfer[d] = NoTransfer
      BY <2>1, <3>2, NothingTypes
    <3>3. CASE transfer[d] # NoTransfer
      <4>1. PICK r \in Transfers : r = [transfer[d] EXCEPT !.at = "over"]
        BY <3>1 DEF Transfers
      <4>2. r.at = "over" /\ r.whole = transfer[d].whole
        BY <3>1, <4>1 DEF Transfers
      <4>3. PICK q \in Transfers : q = [r EXCEPT !.view = None]
        BY <4>1 DEF Transfers
      <4>4. q.at = "over" /\ q.whole = transfer[d].whole
        BY <4>1, <4>2, <4>3 DEF Transfers
      <4>5. transfer'[d] = q
        BY <2>1, <3>3, <4>1, <4>3
      <4>6. transfer[d].at # "none"
        BY <3>1, <3>3 DEF TransferInv
      <4>7. QED BY <4>3, <4>4, <4>5, <4>6
    <3>4. QED BY <3>2, <3>3
  <2>4. QED BY <2>2, <2>3
<1>5. /\ entry' \in [Ids -> Entries \cup {None}]
      /\ \A d \in Ids : disk'[d] = None => entry'[d] = None
      /\ \A d \in Ids : entry'[d] # None =>
           /\ entry'[d].orphan /\ disk'[d] # None
           /\ entry'[d].verifiable =>
                /\ disk'[d].record # None /\ entry'[d].rec = disk'[d].record
                /\ entry'[d].bytes = disk'[d].bytes /\ disk'[d].record.state = "completed"
                /\ disk'[d].record.total # 0 => disk'[d].bytes = disk'[d].record.total
  <2>1. entry' = [d \in Ids |-> Swept(disk'[d])]
    BY DEF Restart
  <2>2. ASSUME NEW d \in Ids, disk'[d] # None
        PROVE  /\ Swept(disk'[d]) \in Entries
               /\ Swept(disk'[d]).orphan
               /\ Swept(disk'[d]).verifiable =>
                /\ disk'[d].record # None /\ Swept(disk'[d]).rec = disk'[d].record
                /\ Swept(disk'[d]).bytes = disk'[d].bytes /\ disk'[d].record.state = "completed"
                /\ disk'[d].record.total # 0 => disk'[d].bytes = disk'[d].record.total
    <3>1. PICK dir \in Dirs : dir = disk'[d] /\ dir # None
      BY <1>3, <2>2
    <3>2. PICK rec \in Records : rec = IF dir.record = None THEN Unrecorded(dir.bytes) ELSE dir.record
      BY <3>1, NothingTypes DEF Unrecorded, Records, Dirs
    <3>3. dir.bytes \in Sizes
      BY <3>1 DEF Dirs
    <3>4. PICK sure \in BOOLEAN :
            sure = (dir.record # None /\ Vouches(rec, dir.bytes, FALSE))
      BY DEF Vouches
    <3>5. PICK e : e = [rec |-> rec, orphan |-> TRUE, bytes |-> dir.bytes, verifiable |-> sure]
      OBVIOUS
    <3>6. /\ e \in Entries /\ e.rec = rec /\ e.orphan /\ e.bytes = dir.bytes
          /\ e.verifiable = sure
      BY <3>3, <3>5 DEF Entries
    <3>7. Swept(dir) = e
      BY <3>1, <3>2, <3>4, <3>5 DEF Swept
    <3>8. sure => /\ dir.record # None /\ rec = dir.record /\ rec.state = "completed"
                  /\ rec.total # 0 => dir.bytes = rec.total
      BY <3>2, <3>4 DEF Vouches
    <3>9. QED BY <3>1, <3>6, <3>7, <3>8
  <2>3. \A d \in Ids : disk'[d] = None => Swept(disk'[d]) = None
    BY DEF Swept
  <2>4. QED BY <1>3, <2>1, <2>2, <2>3
<1>6. TypeOK'
  BY <1>1, <1>3, <1>4, <1>5, Facts, NothingTypes DEF TypeOK
<1>7. Undisturbed' /\ ViewInv' /\ \A a \in Actors : JobInv(a)'
  <2>1. \A a \in Actors : job'[a] = Idle
    BY <1>1
  <2>2. \A v \in Views : ~view'[v].visible
    BY <1>1 DEF NoView
  <2>3. ASSUME NEW a \in Actors PROVE JobInv(a)'
    <3>1. job'[a].at = "idle" /\ job'[a].then = "idle"
      BY <2>1 DEF Idle
    <3>2. QED BY <3>1 DEF JobInv, Opening, Ending
  <2>4. Surroundings(Idle)'
    BY <1>1, <2>2 DEF Surroundings, OnScreen, Idle, NoSlot
  <2>5. \A a \in Actors : At(a, "idle")'
    BY <2>1 DEF At, Idle
  <2>6. QED BY <1>1, <2>2, <2>3, <2>4, <2>5 DEF Undisturbed, ViewInv, NoSlot
<1>8. Downloads'
  <2>1. ASSUME NEW d \in Ids PROVE TransferInv(d)' /\ VouchInv(d)'
    <3>1. /\ TransferInv(d) /\ VouchInv(d) /\ transfer[d] \in Transfers
      BY OfDownload
    <3>2. disk'[d] # None /\ disk'[d].record # None /\ disk'[d].record.state = "completed" =>
            disk'[d].record.total = transfer[d].whole /\ transfer[d].whole > 0
      BY <1>3, <3>1 DEF VouchInv, TransferInv
    <3>3. transfer[d].at = "none" => disk'[d] = None /\ entry'[d] = None
      BY <1>3, <1>5, <3>1 DEF TransferInv
    <3>4. TransferInv(d)'
      <4>1. CASE transfer[d].at = "none"
        BY <1>4, <3>3, <4>1, NothingTypes DEF TransferInv
      <4>2. CASE transfer[d].at # "none"
        BY <1>4, <3>1, <4>2 DEF TransferInv
      <4>3. QED BY <4>1, <4>2
    <3>5. transfer[d].whole > 0 => transfer[d].whole # 0
      BY <3>1 DEF Transfers, Sizes
    <3>6. VouchInv(d)'
      BY <1>4, <1>5, <3>2, <3>5 DEF VouchInv
    <3>7. QED BY <3>4, <3>6
  <2>2. LandedInv'
    <3>1. LandedInv /\ \A f \in landed : f.id \in Ids
      BY <1>1, Facts DEF Inv, Downloads, TypeOK
    <3>2. QED BY <1>1, <1>4, <3>1 DEF LandedInv
  <2>3. QED BY <1>7, <2>1, <2>2 DEF Downloads
<1>9. Bounded'
  <2>1. ASSUME NEW d \in Ids PROVE Claim(d)' <= Claim(d)
    <3>1. Claim(d) \in Nat
      BY <1>1, Facts DEF TypeOK, BrowseAssumption, Claim, Entries, Sizes
    <3>2. Claim(d)' = 0
      BY <1>5 DEF Claim
    <3>3. QED BY <3>1, <3>2
  <2>2. job'[Main].at \notin Opening
    BY <1>1, NothingTypes DEF Opening
  <2>3. QED BY <1>1, <1>6, <2>1, <2>2, Facts, BoundedIsKept DEF Inv
<1>10. QED BY <1>6, <1>7, <1>8, <1>9 DEF Inv

LEMMA StepKeeps ==
  ASSUME BrowseAssumption, Inv, NEW a \in Actors, Step(a)
  PROVE  Inv'
BY RemoveDirKeeps, RetainKeeps, TakeKeeps, CloseKeeps, ApplyKeeps, PlaceKeeps,
   ReleaseParkedKeeps, ReleaseNowKeeps DEF Step

LEMMA InvStays ==
  ASSUME BrowseAssumption, Inv, [Next]_vars
  PROVE  Inv'
<1>1. Main \in Actors /\ \A t \in Threads : t \in Actors
  BY DEF Actors
<1>2. CASE Restart
  BY <1>2, RestartKeeps
<1>3. CASE \E d \in Ids : Arrive(d)
  BY <1>3, ArriveKeeps
<1>4. CASE HookBegins
  BY <1>1, <1>4, RequestedKeeps, PlacingKeeps, FinishedKeeps DEF HookBegins
<1>5. CASE HookStep
  BY <1>1, <1>5, MakeDirKeeps, RecordKeeps, RecordFailsKeeps, PushKeeps, SettleKeeps,
     RewriteKeeps, StepKeeps DEF HookStep
<1>6. ASSUME NEW t \in Threads, CommandBegins(t)
      PROVE  Inv'
  BY <1>1, <1>6, AttachKeeps, DetachKeeps, HideKeeps, PlacingKeeps, LandKeeps, DiscardKeeps
     DEF CommandBegins
<1>7. ASSUME NEW t \in Threads, CommandStep(t)
      PROVE  Inv'
  BY <1>1, <1>7, MeasureKeeps, UploadKeeps, CreateKeeps, StoreKeeps, KeepKeeps, ParkKeeps,
     CoverKeeps, StepKeeps DEF CommandStep
<1>8. CASE UNCHANGED vars
  <2>1. /\ transfer' = transfer /\ entry' = entry /\ disk' = disk /\ slot' = slot /\ view' = view
        /\ job' = job /\ landed' = landed /\ alone' = alone
    BY <1>8 DEF vars, stageVars, hostVars, tallyVars
  <2>2. TypeOK' /\ Downloads' /\ ViewInv'
    <3>1. Main \in Actors /\ TypeOK /\ Downloads /\ JobInv(Main) /\ ViewInv
      BY <1>1, Facts DEF Inv
    <3>2. TypeOK' /\ ViewInv'
      BY <2>1, <3>1 DEF TypeOK, ViewInv
    <3>3. \A d \in Ids : (Running(d)' => Running(d)) /\ Bytes(d)' = Bytes(d)
      BY <2>1 DEF Running, Bytes
    <3>4. JobInv(Main)'
      BY <2>1, <3>1, <3>3, JobStays
    <3>5. Others(Main) /\ UNCHANGED <<stageVars, landed>>
      BY <2>1 DEF Others, stageVars
    <3>6. \A v \in Views : view[v].alive => view'[v].alive
      BY <2>1
    <3>7. Downloads'
      BY <3>1, <3>4, <3>5, <3>6, DownloadsAreKept
    <3>8. QED BY <3>2, <3>7
  <2>3. Bounded'
    BY <2>1, BoundedStays DEF Inv
  <2>4. Undisturbed'
    <3>1. (AnyRunning' <=> AnyRunning) /\ (Live(slot.view)' <=> Live(slot.view)) /\ (Rest' <=> Rest)
      BY <2>1 DEF Live, AnyRunning, Running, Rest, At
    <3>2. Surroundings(Idle) => Surroundings(Idle)'
      BY <2>1, <3>1 DEF Surroundings, OnScreen, Releases
    <3>3. ASSUME NEW a \in Actors, Surroundings(job[a]) PROVE Surroundings(job[a])'
      <4>1. OnScreen(job[a])' /\ (Releases(job[a])' <=> Releases(job[a]))
        BY <2>1, <3>3 DEF Surroundings, OnScreen, Releases
      <4>2. QED BY <2>1, <3>1, <3>3, <4>1 DEF Surroundings
    <3>4. QED BY <2>1, <3>1, <3>2, <3>3 DEF Inv, Undisturbed, At
  <2>5. QED BY <2>2, <2>3, <2>4 DEF Inv
<1>9. QED BY <1>2, <1>3, <1>4, <1>5, <1>6, <1>7, <1>8 DEF Next

-----------------------------------------------------------------------------
(* The theorems.                                                             *)

(* The invariant holds of every state the browser can reach.                 *)
THEOREM InvAlways == Spec => []Inv
<1>1. Init => Inv
  BY BrowseAssumption, InvAtFirst
<1>2. Inv /\ [Next]_vars => Inv'
  BY BrowseAssumption, InvStays
<1>3. QED BY <1>1, <1>2, PTL DEF Spec

(* Every variable of the browser keeps its type, however calls overlap and   *)
(* whenever the app stops (BrowseHost, Downloads).                           *)
THEOREM BrowseTypeCorrect == Spec => []TypeOK
<1>1. Inv => TypeOK
  BY DEF Inv
<1>2. QED BY <1>1, InvAlways, PTL

LEMMA InvSuffices ==
  ASSUME Inv
  PROVE  BrowseIsSound
<1>1. LandedIsWhole
  BY DEF Inv, Downloads, LandedInv, LandedIsWhole
<1>2. StagedIsBounded
  BY DEF Inv, Bounded, Claims, Room, StagedIsBounded
<1>3. ComingIsAccountedFor
  BY DEF Inv, Downloads, TransferInv, ComingIsAccountedFor
<1>4. alone /\ Rest => Surroundings(Idle) /\ ~Releases(Idle)
  BY DEF Inv, Undisturbed, Releases, Idle
<1>5. ParkedViewIsReleasedAlone
  BY <1>4 DEF Surroundings, ParkedViewIsReleasedAlone, ParkedViewIsReleased
<1>6. HiddenStaysHidden
  BY <1>4 DEF Surroundings, OnScreen, Idle, HiddenStaysHidden
<1>7. QED BY <1>1, <1>2, <1>3, <1>5, <1>6 DEF Inv, BrowseIsSound

(* However calls and hooks overlap and whenever the app stops, what lands in *)
(* a library is the whole file, and what is staged is bounded and accounted  *)
(* for; where they do not overlap, a parked view goes when the last download *)
(* ends and a hidden one stays hidden (BrowseLanding::land, Downloads::sweep,*)
(* cap_refusal, on_requested, BrowseHost::release_parked, apply_bounds).     *)
THEOREM BrowseIsSoundAlways == Spec => []BrowseIsSound
<1>1. Inv => BrowseIsSound
  BY InvSuffices
<1>2. QED BY <1>1, InvAlways, PTL

(* Only a start is counted, and between two starts the slot's view is        *)
(* another only when the slot is emptied, or filled by a page's new view.    *)
SlotKept ==
  /\ starts' = starts
  /\ slot'.view = slot.view \/ \E a \in Actors : Take(a) \/ (a \in Threads /\ Store(a))

LEMMA StepKeepsSlot ==
  ASSUME NEW a \in Actors, Step(a)
  PROVE  SlotKept
<1>1. CASE Take(a)
  BY <1>1 DEF Take, SlotKept, tallyVars
<1>2. CASE RemoveDir(a) \/ Retain(a)
  BY <1>2 DEF RemoveDir, Retain, SlotKept, tallyVars, hostVars
<1>3. CASE Close(a) \/ Place(a)
  BY <1>3 DEF Close, Place, SlotKept, tallyVars
<1>4. CASE Apply(a) \/ ReleaseParked(a) \/ ReleaseNow(a)
  BY <1>4 DEF Apply, ReleaseParked, ReleaseNow, SlotKept, tallyVars, hostVars
<1>5. QED BY <1>1, <1>2, <1>3, <1>4 DEF Step

LEMMA HookKeepsSlot ==
  ASSUME HookBegins \/ HookStep \/ \E d \in Ids : Arrive(d)
  PROVE  SlotKept
<1>1. CASE HookBegins
  BY <1>1 DEF HookBegins, Requested, Resized, Finished, Begins, SlotKept, hostVars
<1>2. CASE Step(Main)
  BY <1>2, StepKeepsSlot DEF Actors
<1>3. CASE MakeDir \/ Record \/ RecordFails \/ Push \/ Settle \/ Rewrite
  BY <1>3 DEF MakeDir, Record, RecordFails, Push, Settle, Rewrite, SlotKept, hostVars, tallyVars
<1>4. CASE \E d \in Ids : Arrive(d)
  BY <1>4 DEF Arrive, SlotKept, hostVars, tallyVars
<1>5. QED BY <1>1, <1>2, <1>3, <1>4 DEF HookStep

LEMMA CommandKeepsSlot ==
  ASSUME NEW t \in Threads, CommandBegins(t) \/ CommandStep(t),
         slot \in [view : Views \cup {None}, bounds : BOOLEAN, hidden : BOOLEAN,
                   parked : BOOLEAN]
  PROVE  SlotKept
<1>1. \A p, h, b \in BOOLEAN :
        /\ [slot EXCEPT !.hidden = h].view = slot.view
        /\ [slot EXCEPT !.bounds = b].view = slot.view
        /\ [slot EXCEPT !.parked = p, !.bounds = b].view = slot.view
        /\ [slot EXCEPT !.parked = p, !.hidden = h, !.bounds = b].view = slot.view
  OBVIOUS
<1>2. CASE Attach(t)
  BY <1>1, <1>2 DEF Attach, Begins, SlotKept
<1>3. CASE Hide(t) \/ Show(t) \/ SetBounds(t)
  BY <1>1, <1>3 DEF Hide, Show, SetBounds, Begins, SlotKept
<1>4. CASE Detach(t) \/ \E d \in Ids : Land(t, d) \/ Discard(t, d)
  BY <1>4 DEF Detach, Land, Discard, Begins, SlotKept, hostVars
<1>5. CASE Measure(t) \/ Upload(t) \/ Keep(t)
  BY <1>5 DEF Measure, Upload, Keep, SlotKept, hostVars, tallyVars
<1>6. CASE Create(t) \/ Cover(t)
  BY <1>6 DEF Create, Cover, SlotKept, tallyVars
<1>7. CASE Park(t)
  BY <1>1, <1>7 DEF Park, SlotKept, tallyVars
<1>8. CASE Store(t)
  BY <1>8 DEF Store, SlotKept, tallyVars, Actors
<1>9. CASE Step(t)
  BY <1>9, StepKeepsSlot DEF Actors
<1>10. QED BY <1>2, <1>3, <1>4, <1>5, <1>6, <1>7, <1>8, <1>9 DEF CommandBegins, CommandStep

LEMMA SlotIsKept ==
  ASSUME Inv, [Next]_vars
  PROVE  SlotKept \/ (Restart /\ starts' = starts + 1)
<1>1. slot \in [view : Views \cup {None}, bounds : BOOLEAN, hidden : BOOLEAN, parked : BOOLEAN]
  BY DEF Inv, TypeOK
<1>2. CASE Restart
  BY <1>2 DEF Restart
<1>3. CASE UNCHANGED vars
  BY <1>3 DEF vars, hostVars, tallyVars, SlotKept
<1>4. QED BY <1>1, <1>2, <1>3, HookKeepsSlot, CommandKeepsSlot DEF Next

(* A download that is coming keeps its view: between two starts the slot     *)
(* gives up that view only to a page that attaches over it on screen.        *)
LEMMA ComingKeepsItsView ==
  ASSUME BrowseAssumption, Inv, SlotKept, alone, slot.view # None, slot'.view # slot.view,
         NEW d \in Ids, transfer[d].view = slot.view, transfer[d].at = "coming"
  PROVE  ~slot.parked /\ \E t \in Threads : At(t, "take") /\ job[t].then = "create"
<1>1. Running(d) /\ Live(slot.view) /\ AnyRunning
  BY OfDownload DEF TransferInv, AnyRunning
<1>2. PICK a \in Actors : Take(a) \/ Store(a)
  BY DEF SlotKept
<1>3. (alone /\ ~At(a, "idle") => Surroundings(job[a])) /\ JobInv(a)
  BY Facts
<1>4. CASE Store(a)
  <2>1. job[a].at = "store"
    BY <1>4 DEF Store, At
  <2>2. slot = NoSlot
    BY <1>3, <2>1 DEF Surroundings, At
  <2>3. QED BY <2>2 DEF NoSlot
<1>5. CASE Take(a)
  <2>1. job[a].at = "take"
    BY <1>5 DEF Take, At
  <2>2. job[a].then = "create" /\ ~(slot.parked /\ Live(slot.view))
    BY <1>1, <1>3, <2>1 DEF Surroundings, At
  <2>3. a \in Threads
    BY <1>3, <2>2 DEF JobInv, Actors
  <2>4. QED BY <1>1, <2>1, <2>2, <2>3 DEF At
<1>6. QED BY <1>2, <1>4, <1>5

(* As long as calls and hooks do not overlap, leaving the page and coming    *)
(* back never costs a download its view (BrowseHost::attach, detach,         *)
(* release_parked), however many views, calls and downloads there are.       *)
THEOREM ParkedDownloadSurvivesAlways == Spec => ParkedDownloadSurvives
<1>1. Init => starts \in Nat
  BY DEF Init
<1>2. Inv /\ starts \in Nat /\ [Next]_vars => (starts \in Nat)'
  BY SlotIsKept DEF SlotKept
<1>3. Spec => [](starts \in Nat)
  BY <1>1, <1>2, InvAlways, PTL DEF Spec
<1>4. Inv /\ starts \in Nat /\ [Next]_vars =>
        [alone /\ starts' = starts /\ slot.view # None /\ slot'.view # slot.view
         /\ (\E d \in Ids : transfer[d].view = slot.view /\ transfer[d].at = "coming")
         => ~slot.parked /\ \E t \in Threads : At(t, "take") /\ job[t].then = "create"]_vars
  <2> SUFFICES ASSUME Inv, starts \in Nat, [Next]_vars, alone, starts' = starts,
                      slot.view # None, slot'.view # slot.view,
                      NEW d \in Ids, transfer[d].view = slot.view, transfer[d].at = "coming"
      PROVE  ~slot.parked /\ \E t \in Threads : At(t, "take") /\ job[t].then = "create"
    OBVIOUS
  <2>1. SlotKept
    BY SlotIsKept
  <2>2. QED BY <2>1, ComingKeepsItsView, BrowseAssumption
<1>5. QED BY <1>3, <1>4, InvAlways, PTL DEF Spec, ParkedDownloadSurvives
=============================================================================
