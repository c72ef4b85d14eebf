---------------------------- MODULE Server_proofs ----------------------------
(* Proofs about two parts of the server.                                     *)
(*                                                                           *)
(* RateLimiter keeps the promises of RateBudget, and its two maps and its    *)
(* answers are what they should be, for any number of addresses and routes,  *)
(* any limits, windows and cap, and any clock (RulesAssumption).             *)
(*                                                                           *)
(* Startup, for any number of processes, servers and builds: whatever opens  *)
(* the library together and wherever it dies, user_version tells its schema, *)
(* an open library has every table its build names, and the library gets one *)
(* first user whose link is printed once (StartupAssumption).                *)
EXTENDS RateLimiter, FunctionTheorems, FiniteSetTheorems, WellFoundedInduction, TLAPS

-----------------------------------------------------------------------------
(* Numbers.                                                                  *)

(* Seconds rounded up are seconds enough.                                    *)
LEMMA RoundedUp ==
  ASSUME NEW d \in Nat \ {0}, NEW s \in Nat \ {0}
  PROVE  /\ (d + s - 1) \div s \in Nat /\ (d + s - 1) \div s > 0
         /\ ((d + s - 1) \div s) * s >= d
<1> DEFINE q == (d + s - 1) \div s
           m == (d + s - 1) % s
<1>1. q \in Int /\ m \in 0 .. s - 1 /\ d + s - 1 = s * q + m
  OBVIOUS
<1> HIDE DEF q, m
<1>2. s * q = q * s /\ s * q \in Int
  BY <1>1
<1>3. q * s >= d
  BY <1>1, <1>2
<1>4. q > 0
  <2>1. CASE q <= 0
    <3>1. s * q <= 0
      BY <1>1, <2>1
    <3>2. QED BY <1>2, <1>3, <3>1
  <2>2. QED BY <1>1, <2>1
<1>5. QED BY <1>1, <1>3, <1>4 DEF q

(* A set of numbers that is not empty has a least one.                       *)
LEMMA LeastOf ==
  ASSUME NEW S \in SUBSET Nat, S # {}
  PROVE  \E m \in S : \A n \in S : m <= n
<1>1. PICK m \in S : \A n \in S : ~(<<n, m>> \in OpToRel(<, Nat))
  BY NatLessThanWellFounded, WFMin
<1>2. \A n \in S : ~(n < m)
  BY <1>1 DEF OpToRel
<1>3. QED BY <1>2

-----------------------------------------------------------------------------
(* The two maps.                                                             *)

Bucket(n) == [start : Times, window : Nat \ {0}, count : Nat, seq : 0 .. n - 1]

(* B names a place of O for every key, and O the key of every place.         *)
Books(B, O, n) ==
  /\ B \in [DOMAIN B -> Bucket(n)] /\ DOMAIN B \subseteq Keys
  /\ \A k \in DOMAIN B : B[k].window = Window[k]
  /\ O \in [DOMAIN O -> DOMAIN B] /\ DOMAIN O \subseteq 0 .. n - 1
  /\ \A s \in DOMAIN O : B[O[s]].seq = s
  /\ \A k \in DOMAIN B : B[k].seq \in DOMAIN O /\ O[B[k].seq] = k

LEMMA BooksCount ==
  ASSUME RulesAssumption, NEW B, NEW O, NEW n \in Nat, Books(B, O, n)
  PROVE  /\ IsFiniteSet(DOMAIN B) /\ IsFiniteSet(DOMAIN O)
         /\ Cardinality(DOMAIN O) = Cardinality(DOMAIN B) /\ Cardinality(DOMAIN B) \in Nat
<1>1. IsFiniteSet(DOMAIN B)
  BY FS_Subset DEF RulesAssumption, Books
<1>2. IsFiniteSet(DOMAIN O)
  <2>1. n - 1 \in Int /\ DOMAIN O \in SUBSET (0 .. n - 1)
    BY DEF Books
  <2>2. IsFiniteSet(0 .. n - 1)
    BY <2>1, FS_Interval
  <2>3. QED BY <2>1, <2>2, FS_Subset
<1>3. O \in Bijection(DOMAIN O, DOMAIN B)
  <2>1. O \in [DOMAIN O -> DOMAIN B] /\ \A s, r \in DOMAIN O : O[s] = O[r] => s = r
    BY DEF Books
  <2>2. \A k \in DOMAIN B : \E s \in DOMAIN O : O[s] = k
    BY DEF Books
  <2>3. QED BY <2>1, <2>2, Fun_IsBij
<1>4. QED BY <1>1, <1>2, <1>3, FS_Bijection, FS_CardinalityType DEF ExistsBijection

(* Keys are dropped with their places.                                       *)
LEMMA DropBooks ==
  ASSUME NEW B, NEW O, NEW n \in Nat, Books(B, O, n), NEW K, NEW S,
         \A s \in DOMAIN O : s \in S <=> O[s] \in K
  PROVE  /\ Books(Restrict(B, DOMAIN B \ K), Restrict(O, DOMAIN O \ S), n)
         /\ DOMAIN Restrict(B, DOMAIN B \ K) = DOMAIN B \ K
         /\ \A k \in DOMAIN B \ K : Restrict(B, DOMAIN B \ K)[k] = B[k]
<1> DEFINE C == Restrict(B, DOMAIN B \ K)
           P == Restrict(O, DOMAIN O \ S)
<1>1. /\ DOMAIN C = DOMAIN B \ K /\ \A k \in DOMAIN B \ K : C[k] = B[k]
      /\ DOMAIN P = DOMAIN O \ S /\ \A s \in DOMAIN O \ S : P[s] = O[s]
      /\ C = [k \in DOMAIN C |-> C[k]] /\ P = [s \in DOMAIN P |-> P[s]]
  BY DEF Restrict
<1> HIDE DEF C, P
<1>2. C \in [DOMAIN C -> Bucket(n)] /\ DOMAIN C \subseteq Keys
      /\ \A k \in DOMAIN C : C[k].window = Window[k]
  BY <1>1 DEF Books
<1>3. \A s \in DOMAIN P : P[s] \in DOMAIN C /\ C[P[s]].seq = s
  BY <1>1 DEF Books
<1>4. P \in [DOMAIN P -> DOMAIN C] /\ DOMAIN P \subseteq 0 .. n - 1
  BY <1>1, <1>3 DEF Books
<1>5. \A k \in DOMAIN C : C[k].seq \in DOMAIN P /\ P[C[k].seq] = k
  BY <1>1 DEF Books
<1>6. Books(C, P, n)
  BY <1>2, <1>3, <1>4, <1>5 DEF Books
<1>7. QED BY <1>1, <1>6 DEF C, P

LEMMA RemoveBooks ==
  ASSUME NEW here, NEW n \in Nat, Books(here.buckets, here.order, n), NEW K,
         NEW maps, maps = Remove(here, K)
  PROVE  /\ Books(maps.buckets, maps.order, n) /\ DOMAIN maps.buckets = DOMAIN here.buckets \ K
         /\ \A k \in DOMAIN here.buckets \ K : maps.buckets[k] = here.buckets[k]
<1> DEFINE B == here.buckets
           O == here.order
           S == {B[k].seq : k \in K \cap DOMAIN B}
           C == Restrict(B, DOMAIN B \ K)
           P == Restrict(O, DOMAIN O \ S)
<1>1. maps = [buckets |-> C, order |-> P]
  BY DEF Remove
<1>2. maps.buckets = C /\ maps.order = P
  BY <1>1
<1>3. Books(B, O, n)
  OBVIOUS
<1> HIDE DEF B, O
<1>4. \A s \in DOMAIN O : s \in S <=> O[s] \in K
  BY <1>3 DEF Books
<1> HIDE DEF S
<1>5. Books(C, P, n) /\ DOMAIN C = DOMAIN B \ K /\ \A k \in DOMAIN B \ K : C[k] = B[k]
  BY <1>3, <1>4, DropBooks
<1> HIDE DEF C, P
<1>6. QED BY <1>2, <1>5 DEF B, O

(* The sweep drops windows that are over, and nothing else.                  *)
LEMMA SweptBooks ==
  ASSUME NEW here, NEW n \in Nat, Books(here.buckets, here.order, n), NEW k, NEW t,
         NEW maps, maps = Swept(here, k, t)
  PROVE  /\ Books(maps.buckets, maps.order, n) /\ DOMAIN maps.buckets \subseteq DOMAIN here.buckets
         /\ \A j \in DOMAIN maps.buckets : maps.buckets[j] = here.buckets[j]
         /\ \A j \in DOMAIN here.buckets \ DOMAIN maps.buckets : Expired(here.buckets[j], t)
<1> DEFINE K == {j \in DOMAIN here.buckets : Expired(here.buckets[j], t)}
<1>1. CASE SweepDue(k, t)
  <2>1. maps = Remove(here, K)
    BY <1>1 DEF Swept
  <2>2. \A j \in K : j \in DOMAIN here.buckets /\ Expired(here.buckets[j], t)
    OBVIOUS
  <2> HIDE DEF K
  <2>3. /\ Books(maps.buckets, maps.order, n) /\ DOMAIN maps.buckets = DOMAIN here.buckets \ K
        /\ \A j \in DOMAIN here.buckets \ K : maps.buckets[j] = here.buckets[j]
    BY <2>1, RemoveBooks
  <2>4. QED BY <2>2, <2>3
<1>2. CASE ~SweepDue(k, t)
  BY <1>2 DEF Swept
<1>3. QED BY <1>1, <1>2

(* What is evicted is the oldest, never the bucket made last; and there is    *)
(* room afterwards.                                                           *)
LEMMA EvictedBooks ==
  ASSUME RulesAssumption, NEW B, NEW O, NEW n \in Nat, Books(B, O, n),
         NEW k \in DOMAIN B, B[k].seq = n - 1, Cardinality(DOMAIN B) <= Cap + Batch + 1,
         NEW maps, maps = Evicted([buckets |-> B, order |-> O])
  PROVE  /\ Books(maps.buckets, maps.order, n) /\ DOMAIN maps.buckets \subseteq DOMAIN B
         /\ k \in DOMAIN maps.buckets
         /\ \A j \in DOMAIN maps.buckets : maps.buckets[j] = B[j]
         /\ Cardinality(DOMAIN maps.buckets) <= Cap + Batch
         /\ DOMAIN maps.buckets = DOMAIN B \/ Cardinality(DOMAIN B) > Cap + Batch
<1> DEFINE over == Cardinality(DOMAIN B) - Cap
           oldest == {s \in DOMAIN O : Cardinality({r \in DOMAIN O : r < s}) < over}
           K == {O[s] : s \in oldest}
<1>1. /\ IsFiniteSet(DOMAIN B) /\ IsFiniteSet(DOMAIN O)
      /\ Cardinality(DOMAIN O) = Cardinality(DOMAIN B) /\ Cardinality(DOMAIN B) \in Nat
  BY BooksCount
<1>2. Cap \in Nat \ {0} /\ Batch \in Nat /\ over \in Int
  BY <1>1 DEF RulesAssumption
<1>3. CASE over <= Batch
  <2>1. maps.buckets = B /\ maps.order = O
    BY <1>3 DEF Evicted
  <2>2. Cardinality(DOMAIN B) <= Cap + Batch
    BY <1>1, <1>2, <1>3
  <2>3. QED BY <2>1, <2>2
<1>4. CASE ~(over <= Batch)
  <2>1. maps = [buckets |-> Restrict(B, DOMAIN B \ K), order |-> Restrict(O, DOMAIN O \ oldest)]
    BY <1>4 DEF Evicted
  <2>2. Cardinality(DOMAIN B) > Cap + Batch /\ over > 0
    BY <1>1, <1>2, <1>4
  <2>3. \A s \in DOMAIN O : s \in oldest <=> O[s] \in K
    <3>1. oldest \subseteq DOMAIN O /\ \A s, r \in DOMAIN O : O[s] = O[r] => s = r
      BY DEF Books
    <3> HIDE DEF oldest
    <3>2. QED BY <3>1
  <2>4. k \notin K
    <3>1. n - 1 \in DOMAIN O /\ O[n - 1] = k
      BY DEF Books
    <3>2. {r \in DOMAIN O : r < n - 1} = DOMAIN O \ {n - 1}
      BY DEF Books
    <3>3. Cardinality(DOMAIN O \ {n - 1}) = Cardinality(DOMAIN B) - 1
      BY <1>1, <3>1, FS_RemoveElement
    <3>4. n - 1 \in oldest => Cardinality({r \in DOMAIN O : r < n - 1}) < over
      OBVIOUS
    <3>5. n - 1 \notin oldest
      <4>1. Cardinality({r \in DOMAIN O : r < n - 1}) = Cardinality(DOMAIN B) - 1
        BY <3>2, <3>3
      <4> HIDE DEF oldest
      <4>2. QED BY <1>1, <1>2, <3>4, <4>1
    <3>6. QED BY <2>3, <3>1, <3>5
  <2>5. \E j \in DOMAIN B : j \in K
    <3>1. DOMAIN O \in SUBSET Nat /\ DOMAIN O # {}
      BY DEF Books
    <3>2. PICK m \in DOMAIN O : \A r \in DOMAIN O : m <= r
      BY <3>1, LeastOf
    <3>3. {r \in DOMAIN O : r < m} = {}
      BY <3>1, <3>2
    <3>4. m \in oldest
      BY <2>2, <3>3, FS_EmptySet
    <3>5. O[m] \in DOMAIN B
      BY DEF Books
    <3>6. QED BY <3>4, <3>5
  <2> DEFINE C == Restrict(B, DOMAIN B \ K)
             P == Restrict(O, DOMAIN O \ oldest)
  <2> HIDE DEF oldest, K, over
  <2>6. Books(C, P, n) /\ DOMAIN C = DOMAIN B \ K /\ \A j \in DOMAIN B \ K : C[j] = B[j]
    BY ZenonT(90), <2>3, DropBooks
  <2>7. maps.buckets = C /\ maps.order = P
    BY <2>1
  <2> HIDE DEF C, P
  <2>8. Cardinality(DOMAIN C) <= Cap + Batch
    <3>1. DOMAIN C \in SUBSET DOMAIN B /\ DOMAIN C # DOMAIN B
      BY <2>5, <2>6
    <3>2. /\ Cardinality(DOMAIN C) <= Cardinality(DOMAIN B)
          /\ Cardinality(DOMAIN C) # Cardinality(DOMAIN B) /\ IsFiniteSet(DOMAIN C)
      BY <1>1, <3>1, FS_Subset
    <3>3. Cardinality(DOMAIN C) \in Nat
      BY <3>2, FS_CardinalityType
    <3>4. QED BY <1>1, <1>2, <3>2, <3>3
  <2>9. QED BY <2>2, <2>4, <2>6, <2>7, <2>8
<1>5. QED BY <1>3, <1>4

(* A key without a window gets one at the end of the order.                  *)
LEMMA OpenedBooks ==
  ASSUME RulesAssumption, nextSeq \in Nat,
         NEW maps, Books(maps.buckets, maps.order, nextSeq), NEW k \in Keys, NEW t \in Times,
         Cardinality(DOMAIN maps.buckets) <= Cap + Batch, ~IsLive(maps, k, t),
         NEW after, after = Opened(maps, k, t)
  PROVE  /\ Books(after.buckets, after.order, nextSeq + 1) /\ k \in DOMAIN after.buckets
         /\ after.buckets[k] = [start |-> t, window |-> Window[k], count |-> 0, seq |-> nextSeq]
         /\ DOMAIN after.buckets \subseteq DOMAIN maps.buckets \cup {k}
         /\ \A j \in DOMAIN after.buckets \ {k} : after.buckets[j] = maps.buckets[j]
         /\ Cardinality(DOMAIN after.buckets) <= Cap + Batch
         /\ \/ DOMAIN after.buckets = DOMAIN maps.buckets \cup {k}
            \/ Cardinality(DOMAIN maps.buckets \cup {k}) > Cap + Batch
<1> DEFINE B == maps.buckets
           O == maps.order
           gone == Remove(maps, {k})
           b == [start |-> t, window |-> Window[k], count |-> 0, seq |-> nextSeq]
           C == Put(gone.buckets, k, b)
           P == Put(gone.order, nextSeq, k)
           n == nextSeq + 1
<1>1. /\ Books(gone.buckets, gone.order, nextSeq) /\ DOMAIN gone.buckets = DOMAIN B \ {k}
      /\ \A j \in DOMAIN B \ {k} : gone.buckets[j] = B[j]
  BY RemoveBooks
<1>2. after = Evicted([buckets |-> C, order |-> P])
  BY DEF Opened
<1> DEFINE G == gone.buckets
           H == gone.order
<1> HIDE DEF gone
<1>3. /\ DOMAIN C = DOMAIN G \cup {k} /\ C[k] = b /\ \A j \in DOMAIN G \ {k} : C[j] = G[j]
      /\ DOMAIN P = DOMAIN H \cup {nextSeq} /\ P[nextSeq] = k
      /\ \A s \in DOMAIN H \ {nextSeq} : P[s] = H[s]
      /\ C = [j \in DOMAIN C |-> C[j]] /\ P = [s \in DOMAIN P |-> P[s]]
  BY DEF Put
<1>4. b \in Bucket(n) /\ b.seq = nextSeq /\ b.window = Window[k]
  BY DEF RulesAssumption, Bucket
<1> HIDE DEF b, C, P, G, H
<1>5. k \notin DOMAIN G /\ nextSeq \notin DOMAIN H
  BY <1>1 DEF Books, G, H
<1>6. Books(G, H, nextSeq) /\ n \in Nat /\ n - 1 = nextSeq
  BY <1>1 DEF G, H
<1>7. Books(C, P, n)
  <2>1. \A j \in DOMAIN G : G[j] \in Bucket(n)
    BY <1>6 DEF Books, Bucket
  <2>2. C \in [DOMAIN C -> Bucket(n)] /\ DOMAIN C \subseteq Keys
    BY <1>3, <1>4, <1>5, <1>6, <2>1 DEF Books
  <2>3. \A j \in DOMAIN C : C[j].window = Window[j]
    BY <1>3, <1>4, <1>5, <1>6 DEF Books
  <2>4. \A s \in DOMAIN P : P[s] \in DOMAIN C /\ C[P[s]].seq = s
    <3>1. \A s \in DOMAIN H : H[s] \in DOMAIN G /\ G[H[s]].seq = s /\ H[s] # k
      BY <1>5, <1>6 DEF Books
    <3>2. QED BY <1>3, <1>4, <1>5, <3>1
  <2>5. P \in [DOMAIN P -> DOMAIN C] /\ DOMAIN P \subseteq 0 .. n - 1
    BY <1>3, <1>6, <2>4 DEF Books
  <2>6. \A j \in DOMAIN C : C[j].seq \in DOMAIN P /\ P[C[j].seq] = j
    BY <1>3, <1>4, <1>5, <1>6 DEF Books
  <2>7. QED BY <2>2, <2>3, <2>4, <2>5, <2>6 DEF Books
<1>8. DOMAIN C = DOMAIN B \cup {k}
  BY <1>1, <1>3 DEF G
<1>9. Cardinality(DOMAIN C) <= Cap + Batch + 1
  <2>1. IsFiniteSet(DOMAIN B) /\ Cardinality(DOMAIN B) \in Nat
    BY BooksCount
  <2>2. Cardinality(DOMAIN B \cup {k}) = IF k \in DOMAIN B THEN Cardinality(DOMAIN B)
                                         ELSE Cardinality(DOMAIN B) + 1
    BY <2>1, FS_AddElement
  <2>3. QED BY <1>8, <2>1, <2>2 DEF RulesAssumption
<1>10. k \in DOMAIN C /\ C[k].seq = n - 1
  BY <1>3, <1>4, <1>6
<1>11. /\ Books(after.buckets, after.order, n) /\ DOMAIN after.buckets \subseteq DOMAIN C
       /\ k \in DOMAIN after.buckets
       /\ \A j \in DOMAIN after.buckets : after.buckets[j] = C[j]
       /\ Cardinality(DOMAIN after.buckets) <= Cap + Batch
       /\ DOMAIN after.buckets = DOMAIN C \/ Cardinality(DOMAIN C) > Cap + Batch
  <2> HIDE DEF n
  <2>1. QED BY <1>2, <1>6, <1>7, <1>9, <1>10, EvictedBooks
<1>12. \A j \in DOMAIN C \ {k} : C[j] = B[j]
  BY <1>1, <1>3 DEF G
<1>13. QED BY <1>3, <1>8, <1>11, <1>12 DEF b

-----------------------------------------------------------------------------
(* The invariant, and what check does in terms of it.                        *)

Types ==
  /\ clock \in Times /\ asked \in [Requests -> {None} \cup [key : Keys, at : Times]]
  /\ nextSeq \in Nat
BookInv ==
  /\ Books(buckets, order, nextSeq) /\ Cardinality(DOMAIN buckets) <= Cap + Batch
  /\ \A k \in DOMAIN buckets : buckets[k].count > 0
(* The bucket an answer is about is still there, as it was: only the next    *)
(* answer can take it away.                                                  *)
AnswerInv ==
  answer # None =>
    /\ answer.key \in DOMAIN buckets
    /\ answer.retry # None =>
         answer.retry > 0 /\ Expired(buckets[answer.key], answer.at + answer.retry * Second)
Inv == Types /\ BookInv /\ AnswerInv

HasWindow(k, t) == k \in DOMAIN buckets /\ ~Expired(buckets[k], t)
Counted(k, t) ==
  /\ Books(buckets', order', nextSeq') /\ Cardinality(DOMAIN buckets') <= Cap + Batch
  /\ k \in DOMAIN buckets' /\ DOMAIN buckets' \subseteq DOMAIN buckets \cup {k}
  /\ \A j \in DOMAIN buckets' \ {k} : buckets'[j] = buckets[j]
  /\ IF HasWindow(k, t)
     THEN /\ buckets'[k].start = buckets[k].start /\ buckets'[k].count = buckets[k].count + 1
     ELSE /\ buckets'[k].start = t /\ buckets'[k].count = 1
  /\ \/ \A j \in DOMAIN buckets \ DOMAIN buckets' : Expired(buckets[j], t)
     \/ Cardinality(DOMAIN buckets \cup {k}) > Cap + Batch
  /\ answer' = Answered(k, t, buckets'[k])
  /\ nextSeq' \in Nat /\ clock' = clock

(* Counting changes neither the keys nor their places.                       *)
LEMMA CountBooks ==
  ASSUME NEW B, NEW O, NEW n \in Nat, Books(B, O, n), NEW k \in DOMAIN B,
         NEW C, C = [B EXCEPT ![k].count = @ + 1]
  PROVE  /\ Books(C, O, n) /\ DOMAIN C = DOMAIN B /\ \A j \in DOMAIN B \ {k} : C[j] = B[j]
         /\ C[k].start = B[k].start /\ C[k].window = B[k].window /\ C[k].count = B[k].count + 1
<1> DEFINE b == [B[k] EXCEPT !.count = B[k].count + 1]
<1>1. C = [B EXCEPT ![k] = b]
  BY DEF Books
<1>2. B[k] \in Bucket(n) /\ B[k].window = Window[k]
  BY DEF Books
<1>3. /\ b \in Bucket(n) /\ b.start = B[k].start /\ b.window = B[k].window
      /\ b.count = B[k].count + 1 /\ b.seq = B[k].seq
  BY <1>2 DEF Bucket
<1> HIDE DEF b
<1>4. DOMAIN C = DOMAIN B /\ C[k] = b /\ \A j \in DOMAIN B \ {k} : C[j] = B[j]
  BY <1>1 DEF Books
<1>5. C \in [DOMAIN C -> Bucket(n)]
  <2>1. B \in [DOMAIN B -> Bucket(n)]
    BY DEF Books
  <2>2. C \in [DOMAIN B -> Bucket(n)]
    BY <1>1, <1>3, <2>1
  <2>3. QED BY <1>4, <2>2
<1>6. Books(C, O, n)
  BY <1>2, <1>3, <1>4, <1>5 DEF Books
<1>7. QED BY <1>3, <1>4, <1>6

LEMMA CheckCounts ==
  ASSUME RulesAssumption, Types, BookInv, NEW r \in Requests, Check(r)
  PROVE  /\ \E k \in Keys, t \in Times : Counted(k, t)
         /\ asked' \in [Requests -> {None} \cup [key : Keys, at : Times]]
<1> DEFINE k == asked[r].key
           t == asked[r].at
           here == [buckets |-> buckets, order |-> order]
           before == Swept(here, k, t)
           maps == Opened(before, k, t)
<1>1. /\ asked[r] # None /\ buckets' = [maps.buckets EXCEPT ![k].count = @ + 1]
      /\ order' = maps.order
      /\ nextSeq' = IF IsLive(before, k, t) THEN nextSeq ELSE nextSeq + 1
      /\ answer' = Answered(k, t, buckets'[k]) /\ asked' = [asked EXCEPT ![r] = None]
      /\ UNCHANGED clock
  BY DEF Check
<1>2. k \in Keys /\ t \in Times /\ asked' \in [Requests -> {None} \cup [key : Keys, at : Times]]
  BY <1>1 DEF Types
<1>3. here.buckets = buckets /\ here.order = order
  OBVIOUS
<1> HIDE DEF k, t, here, before
<1>4. /\ Books(buckets, order, nextSeq) /\ nextSeq \in Nat
      /\ Cardinality(DOMAIN buckets) <= Cap + Batch
  BY DEF Types, BookInv
<1>5. /\ Books(before.buckets, before.order, nextSeq) /\ DOMAIN before.buckets \subseteq DOMAIN buckets
      /\ \A j \in DOMAIN before.buckets : before.buckets[j] = buckets[j]
      /\ \A j \in DOMAIN buckets \ DOMAIN before.buckets : Expired(buckets[j], t)
  <2>1. Books(here.buckets, here.order, nextSeq)
    BY <1>3, <1>4
  <2>2. before = Swept(here, k, t)
    BY DEF before
  <2>3. /\ Books(before.buckets, before.order, nextSeq)
        /\ DOMAIN before.buckets \subseteq DOMAIN here.buckets
        /\ \A j \in DOMAIN before.buckets : before.buckets[j] = here.buckets[j]
        /\ \A j \in DOMAIN here.buckets \ DOMAIN before.buckets : Expired(here.buckets[j], t)
    BY <1>4, <2>1, <2>2, SweptBooks
  <2>4. QED BY <1>3, <2>3
<1>6. IsLive(before, k, t) <=> HasWindow(k, t)
  BY <1>5 DEF IsLive, HasWindow
<1>7. /\ IsFiniteSet(DOMAIN buckets) /\ Cardinality(DOMAIN buckets) \in Nat
      /\ IsFiniteSet(DOMAIN buckets \cup {k}) /\ Cardinality(DOMAIN buckets \cup {k}) \in Nat
      /\ Cap + Batch \in Nat
  <2>1. IsFiniteSet(DOMAIN buckets) /\ Cardinality(DOMAIN buckets) \in Nat
    BY <1>4, BooksCount
  <2>2. IsFiniteSet(DOMAIN buckets \cup {k})
    BY <2>1, FS_AddElement
  <2>3. QED BY <2>1, <2>2, FS_CardinalityType DEF RulesAssumption
<1>8. Cardinality(DOMAIN before.buckets) <= Cap + Batch
  <2>1. /\ Cardinality(DOMAIN before.buckets) <= Cardinality(DOMAIN buckets)
        /\ IsFiniteSet(DOMAIN before.buckets)
    BY <1>5, <1>7, FS_Subset
  <2>2. Cardinality(DOMAIN before.buckets) \in Nat
    BY <2>1, FS_CardinalityType
  <2>3. QED BY <1>4, <1>7, <2>1, <2>2
<1>9. CASE IsLive(before, k, t)
  <2>1. maps = before /\ nextSeq' = nextSeq
    BY <1>1, <1>9 DEF Opened
  <2>2. k \in DOMAIN before.buckets
    BY <1>9 DEF IsLive
  <2>3. buckets' = [before.buckets EXCEPT ![k].count = @ + 1] /\ order' = before.order
    BY <1>1, <2>1
  <2>4. /\ Books(buckets', order', nextSeq') /\ DOMAIN buckets' = DOMAIN before.buckets
        /\ \A j \in DOMAIN before.buckets \ {k} : buckets'[j] = before.buckets[j]
        /\ buckets'[k].start = before.buckets[k].start
        /\ buckets'[k].count = before.buckets[k].count + 1
    BY <1>4, <1>5, <2>1, <2>2, <2>3, CountBooks
  <2>5. Counted(k, t)
    BY <1>1, <1>4, <1>5, <1>6, <1>8, <1>9, <2>1, <2>2, <2>4 DEF Counted
  <2>6. QED BY <1>2, <2>5
<1>10. CASE ~IsLive(before, k, t)
  <2> DEFINE n == nextSeq + 1
  <2>1. /\ Books(maps.buckets, maps.order, n) /\ k \in DOMAIN maps.buckets
        /\ maps.buckets[k] = [start |-> t, window |-> Window[k], count |-> 0, seq |-> nextSeq]
        /\ DOMAIN maps.buckets \subseteq DOMAIN before.buckets \cup {k}
        /\ \A j \in DOMAIN maps.buckets \ {k} : maps.buckets[j] = before.buckets[j]
        /\ Cardinality(DOMAIN maps.buckets) <= Cap + Batch
        /\ \/ DOMAIN maps.buckets = DOMAIN before.buckets \cup {k}
           \/ Cardinality(DOMAIN before.buckets \cup {k}) > Cap + Batch
    <3>1. maps = Opened(before, k, t)
      OBVIOUS
    <3> HIDE DEF maps
    <3>2. QED BY <1>2, <1>4, <1>5, <1>8, <1>10, <3>1, OpenedBooks
  <2> HIDE DEF maps
  <2>2. nextSeq' = n /\ n \in Nat
    BY <1>1, <1>4, <1>10
  <2> HIDE DEF n
  <2>3. /\ Books(buckets', order', n) /\ DOMAIN buckets' = DOMAIN maps.buckets
        /\ \A j \in DOMAIN maps.buckets \ {k} : buckets'[j] = maps.buckets[j]
        /\ buckets'[k].start = maps.buckets[k].start
        /\ buckets'[k].count = maps.buckets[k].count + 1
    BY <1>1, <2>1, <2>2, CountBooks
  <2>4. buckets'[k].start = t /\ buckets'[k].count = 1
    BY <2>1, <2>3
  <2>5. \/ \A j \in DOMAIN buckets \ DOMAIN buckets' : Expired(buckets[j], t)
        \/ Cardinality(DOMAIN buckets \cup {k}) > Cap + Batch
    <3>1. CASE DOMAIN maps.buckets = DOMAIN before.buckets \cup {k}
      BY <1>5, <2>3, <3>1
    <3>2. CASE Cardinality(DOMAIN before.buckets \cup {k}) > Cap + Batch
      <4>1. DOMAIN before.buckets \cup {k} \in SUBSET (DOMAIN buckets \cup {k})
        BY <1>5
      <4>2. /\ Cardinality(DOMAIN before.buckets \cup {k}) <= Cardinality(DOMAIN buckets \cup {k})
            /\ IsFiniteSet(DOMAIN before.buckets \cup {k})
        BY <1>7, <4>1, FS_Subset
      <4>3. Cardinality(DOMAIN before.buckets \cup {k}) \in Nat
        BY <4>2, FS_CardinalityType
      <4>4. QED BY <1>7, <3>2, <4>2, <4>3
    <3>3. QED BY <2>1, <3>1, <3>2
  <2>6. DOMAIN buckets' \subseteq DOMAIN buckets \cup {k}
        /\ \A j \in DOMAIN buckets' \ {k} : buckets'[j] = buckets[j]
    BY <1>5, <2>1, <2>3
  <2>7. Counted(k, t)
    BY <1>1, <1>6, <1>10, <2>1, <2>2, <2>3, <2>4, <2>5, <2>6 DEF Counted
  <2>8. QED BY <1>2, <2>7
<1>11. QED BY <1>2, <1>9, <1>10

(* An answer refuses only while a window is open, and tells when it ends.    *)
LEMMA AnswerIsFair ==
  ASSUME RulesAssumption, Types, BookInv, NEW k \in Keys, NEW t \in Times, Counted(k, t)
  PROVE  /\ answer' = Answered(k, t, buckets'[k]) /\ answer' # None
         /\ answer'.key = k /\ answer'.at = t
         /\ buckets'[k].window = Window[k] /\ buckets'[k].count > 0
         /\ ~Expired(buckets'[k], t)
         /\ IF buckets'[k].count > Limit[k]
            THEN /\ answer'.retry \in Nat /\ answer'.retry # None /\ answer'.retry > 0
                 /\ Expired(buckets'[k], t + answer'.retry * Second)
            ELSE answer'.retry = None
<1> DEFINE b == buckets'[k]
           d == b.start + b.window - t
<1>1. b \in Bucket(nextSeq') /\ b.window = Window[k]
  BY DEF Counted, Books
<1>2. /\ t \in Int /\ Limit[k] \in Nat \ {0} /\ Window[k] \in Nat \ {0} /\ Second \in Nat \ {0}
      /\ None \notin Nat
  BY DEF RulesAssumption, Times
<1>3. b.start \in Int /\ b.window \in Nat \ {0} /\ b.count \in Nat
  BY <1>1 DEF Bucket, Times
<1>4. ~Expired(b, t) /\ b.count > 0
  <2>1. CASE HasWindow(k, t)
    <3>1. b.start = buckets[k].start /\ b.count = buckets[k].count + 1
      BY <2>1 DEF Counted
    <3>2. /\ buckets[k].window = Window[k] /\ buckets[k].count > 0
          /\ buckets[k] \in Bucket(nextSeq) /\ ~Expired(buckets[k], t)
      BY <2>1 DEF BookInv, Books, HasWindow
    <3>3. buckets[k].count \in Nat
      BY <3>2 DEF Bucket
    <3>4. QED BY <1>1, <3>1, <3>2, <3>3 DEF Expired
  <2>2. CASE ~HasWindow(k, t)
    <3>1. b.start = t /\ b.count = 1
      BY <2>2 DEF Counted
    <3>2. QED BY <1>1, <1>2, <1>3, <3>1 DEF Expired
  <2>3. QED BY <2>1, <2>2
<1>5. d \in Nat \ {0}
  BY <1>2, <1>3, <1>4 DEF Expired
<1>6. RetryAfter(b, t) = (d + Second - 1) \div Second
  <2>1. b.start + b.window > t
    BY <1>2, <1>3, <1>5
  <2>2. (IF b.start + b.window > t THEN b.start + b.window - t ELSE 0) = d
    BY <2>1
  <2> HIDE DEF d
  <2>3. QED BY <2>2, Zenon DEF RetryAfter
<1>7. /\ answer' = Answered(k, t, b)
      /\ answer' = [key |-> k, at |-> t,
                    retry |-> IF b.count > Limit[k] THEN RetryAfter(b, t) ELSE None]
  BY DEF Counted, Answered
<1>8. /\ RetryAfter(b, t) \in Nat /\ RetryAfter(b, t) > 0
      /\ RetryAfter(b, t) * Second >= d
  BY <1>2, <1>5, <1>6, RoundedUp
<1>9. Expired(b, t + RetryAfter(b, t) * Second)
  <2> DEFINE m == RetryAfter(b, t) * Second
  <2>1. m \in Int /\ m >= d
    BY <1>2, <1>8
  <2> HIDE DEF m
  <2>2. QED BY <1>2, <1>3, <2>1 DEF Expired, m
<1>10. answer' # None
  <2>1. answer' \in [key : Keys, at : Times, retry : Nat \cup {None}]
    BY <1>7, <1>8
  <2>2. QED BY <2>1 DEF RulesAssumption
<1> HIDE DEF b, d
<1>11. /\ answer'.key = k /\ answer'.at = t
       /\ answer'.retry = IF b.count > Limit[k] THEN RetryAfter(b, t) ELSE None
  BY <1>7
<1>12. QED BY <1>1, <1>2, <1>4, <1>7, <1>8, <1>9, <1>10, <1>11 DEF b

LEMMA InvInit ==
  ASSUME RulesAssumption PROVE Init => Inv
<1> SUFFICES ASSUME Init PROVE Inv
  OBVIOUS
<1>1. Types
  <2>1. 0 \in Times
    BY DEF RulesAssumption, Times
  <2>2. QED BY <2>1 DEF Init, Types
<1>2. DOMAIN <<>> = {} /\ Cardinality({}) = 0
  BY FS_EmptySet
<1>3. <<>> \in [{} -> Bucket(0)] /\ <<>> \in [{} -> {}]
  OBVIOUS
<1>4. BookInv
  BY <1>2, <1>3 DEF RulesAssumption, Init, BookInv, Books
<1>5. QED BY <1>1, <1>4 DEF Init, Inv, AnswerInv

LEMMA InvNext ==
  ASSUME RulesAssumption PROVE Inv /\ [Next]_vars => Inv'
<1> SUFFICES ASSUME Inv, [Next]_vars PROVE Inv'
  OBVIOUS
<1>1. Types /\ BookInv /\ AnswerInv
  BY DEF Inv
<1>2. ASSUME NEW r \in Requests, Check(r) PROVE Inv'
  <2>1. PICK k \in Keys, t \in Times : Counted(k, t)
    BY <1>1, <1>2, CheckCounts
  <2>2. asked' \in [Requests -> {None} \cup [key : Keys, at : Times]]
    BY <1>1, <1>2, CheckCounts
  <2>3. Types'
    BY <1>1, <2>1, <2>2 DEF Types, Counted
  <2>4. /\ answer'.key = k /\ answer'.at = t /\ buckets'[k].count > 0
        /\ answer'.retry # None =>
             answer'.retry > 0 /\ Expired(buckets'[k], t + answer'.retry * Second)
    BY <1>1, <2>1, AnswerIsFair
  <2>5. BookInv'
    BY <1>1, <2>1, <2>4 DEF BookInv, Counted
  <2>6. AnswerInv'
    BY <2>1, <2>4 DEF AnswerInv, Counted
  <2>7. QED BY <2>3, <2>5, <2>6 DEF Inv
<1>3. ASSUME NEW r \in Requests, NEW k \in Keys, Ask(r, k) PROVE Inv'
  <2>1. Types'
    BY <1>1, <1>3 DEF Types, Ask
  <2>2. QED BY <1>1, <1>3, <2>1 DEF Inv, BookInv, AnswerInv, Ask
<1>4. CASE Tick \/ SetBack \/ UNCHANGED vars
  <2>1. clock' \in Times
    BY <1>1, <1>4 DEF RulesAssumption, Types, Times, Tick, SetBack, vars
  <2>2. UNCHANGED <<asked, buckets, order, nextSeq, answer>>
    BY <1>4 DEF Tick, SetBack, vars
  <2>3. QED BY <1>1, <2>1, <2>2 DEF Inv, Types, BookInv, AnswerInv
<1>5. QED BY <1>2, <1>3, <1>4 DEF Next

LEMMA InvHonest ==
  ASSUME RulesAssumption PROVE Inv => LimiterIsHonest
<1> SUFFICES ASSUME Inv PROVE LimiterIsHonest
  OBVIOUS
<1>1. Types /\ BookInv /\ AnswerInv /\ Books(buckets, order, nextSeq)
  BY DEF Inv, BookInv
<1>2. order = [s \in {buckets[k].seq : k \in DOMAIN buckets} |->
                 CHOOSE k \in DOMAIN buckets : buckets[k].seq = s]
  <2>1. DOMAIN order = {buckets[k].seq : k \in DOMAIN buckets}
    <3>1. \A s \in DOMAIN order : \E k \in DOMAIN buckets : buckets[k].seq = s
      BY <1>1 DEF Books
    <3>2. \A k \in DOMAIN buckets : buckets[k].seq \in DOMAIN order
      BY <1>1 DEF Books
    <3>3. QED BY <3>1, <3>2
  <2>2. ASSUME NEW s \in DOMAIN order
        PROVE  order[s] = CHOOSE k \in DOMAIN buckets : buckets[k].seq = s
    <3>1. order[s] \in DOMAIN buckets /\ buckets[order[s]].seq = s
      BY <1>1 DEF Books
    <3>2. \A k \in DOMAIN buckets : buckets[k].seq = s => k = order[s]
      BY <1>1 DEF Books
    <3>3. QED BY <3>1, <3>2
  <2>3. order = [s \in DOMAIN order |-> order[s]]
    BY <1>1 DEF Books
  <2>4. QED BY <2>1, <2>2, <2>3
<1>3. Cardinality(DOMAIN order) = Cardinality(DOMAIN buckets)
  BY <1>1, BooksCount DEF Types
<1>4. \A k \in DOMAIN buckets : buckets[k].count > 0 /\ buckets[k].start \in Times
  BY <1>1 DEF BookInv, Books, Bucket
<1>5. BooksAgree
  BY <1>1, <1>2, <1>3, <1>4 DEF BooksAgree, Books, BookInv
<1>6. RetryIsHonest
  BY <1>1 DEF AnswerInv, RetryIsHonest
<1>7. QED BY <1>5, <1>6 DEF LimiterIsHonest

(* RateLimiter::check: the order lists every tracked key once and where its   *)
(* bucket says, the maps stay within the cap and its batch, and a client that *)
(* comes back when it was told to finds its window over.                      *)
THEOREM LimiterIsHonestAlways ==
  ASSUME RulesAssumption PROVE Spec => []LimiterIsHonest
<1>1. (Init => Inv) /\ (Inv /\ [Next]_vars => Inv') /\ (Inv => LimiterIsHonest)
  BY InvInit, InvNext, InvHonest
<1>2. QED BY <1>1, PTL DEF Spec

-----------------------------------------------------------------------------
(* RateBudget, seen through what a key's bucket stands for.                  *)

WindowIn(B, k) ==
  IF k \notin DOMAIN B THEN None
  ELSE [start |-> B[k].start, granted |-> SmallerOf(B[k].count, Limit[k])]

LEMMA WindowsAre ==
  ASSUME RulesAssumption, Types, BookInv, NEW k \in Keys, NEW t \in Times
  PROVE  /\ WindowOf(k) = WindowIn(buckets, k) /\ WindowOf(k)' = WindowIn(buckets', k)
         /\ k \in DOMAIN buckets => WindowOf(k) \in [start : Times, granted : Nat]
         /\ WindowOf(k) # None <=> k \in DOMAIN buckets
         /\ Budget!Open(k, t) <=> HasWindow(k, t)
<1>1. WindowOf(k) = WindowIn(buckets, k) /\ WindowOf(k)' = WindowIn(buckets', k)
  BY DEF WindowOf, WindowIn
<1>2. ASSUME k \in DOMAIN buckets
      PROVE  WindowOf(k) \in [start : Times, granted : Nat] /\ WindowOf(k).start = buckets[k].start
  <2>1. buckets[k].start \in Times /\ buckets[k].count \in Nat
    BY <1>2 DEF BookInv, Books, Bucket
  <2>2. SmallerOf(buckets[k].count, Limit[k]) \in Nat
    BY <2>1 DEF SmallerOf, RulesAssumption
  <2>3. QED BY <1>2, <2>1, <2>2 DEF WindowOf
<1>3. WindowOf(k) # None <=> k \in DOMAIN buckets
  BY <1>2 DEF RulesAssumption, WindowOf
<1>4. Budget!Open(k, t) <=> HasWindow(k, t)
  <2>1. Budget!Open(k, t) <=> WindowOf(k) # None /\ t - WindowOf(k).start < Window[k]
    BY DEF Budget!Open
  <2>2. CASE k \in DOMAIN buckets
    <3>1. buckets[k].window = Window[k] /\ buckets[k].start \in Int /\ Window[k] \in Int /\ t \in Int
      BY <2>2 DEF BookInv, Books, Bucket, Times, RulesAssumption
    <3>2. QED BY <1>2, <1>3, <2>1, <2>2, <3>1 DEF HasWindow, Expired
  <2>3. CASE k \notin DOMAIN buckets
    BY <1>3, <2>1, <2>3 DEF HasWindow
  <2>4. QED BY <2>2, <2>3
<1>5. QED BY <1>1, <1>2, <1>3, <1>4

(* The keys whose buckets are gone may be forgotten.                         *)
LEMMA ForgetsGone ==
  ASSUME RulesAssumption, Types, BookInv, NEW k \in Keys, NEW t \in Times, Counted(k, t),
         NEW F, F = {j \in DOMAIN buckets \ {k} : j \notin DOMAIN buckets'}
  PROVE  F \in Budget!Forgets(k, t)
<1>1. DOMAIN buckets \subseteq Keys
  BY DEF BookInv, Books
<1>2. F \in SUBSET {j \in Keys \ {k} : WindowOf(j) # None}
  BY <1>1, WindowsAre
<1>3. CASE \A j \in DOMAIN buckets \ DOMAIN buckets' : Expired(buckets[j], t)
  <2>1. \A j \in F : ~HasWindow(j, t)
    BY <1>3 DEF HasWindow
  <2>2. \A j \in F : ~Budget!Open(j, t)
    BY <1>1, <2>1, WindowsAre
  <2>3. QED BY <1>2, <2>2 DEF Budget!Forgets
<1>4. CASE Cardinality(DOMAIN buckets \cup {k}) > Cap + Batch
  <2>1. {j \in Keys : j = k \/ WindowOf(j) # None} = DOMAIN buckets \cup {k}
    BY <1>1, WindowsAre
  <2>2. Cardinality({j \in Keys : j = k \/ WindowOf(j) # None}) > Cap + Batch
    BY <1>4, <2>1
  <2>3. \A S : Budget!Cardinality(S) = Cardinality(S)
    BY DEF Budget!Cardinality, Cardinality
  <2>4. QED BY <1>2, <2>2, <2>3 DEF Budget!Forgets
<1>5. QED BY <1>3, <1>4 DEF Counted

LEMMA CheckRefines ==
  ASSUME RulesAssumption, Types, BookInv, NEW k \in Keys, NEW t \in Times, Counted(k, t)
  PROVE  Budget!Grant(k, t) \/ Budget!Refuse(k, t)
<1> DEFINE F == {j \in DOMAIN buckets \ {k} : j \notin DOMAIN buckets'}
           w == IF Budget!Open(k, t) THEN WindowOf(k) ELSE [start |-> t, granted |-> 0]
           c == buckets'[k].count
<1>1. F \in Budget!Forgets(k, t)
  BY ForgetsGone
<1>2. \A j \in Keys \ {k} : WindowOf(j)' = IF j \in F THEN None ELSE WindowOf(j)
  <2> SUFFICES ASSUME NEW j \in Keys \ {k}
               PROVE  WindowIn(buckets', j) = IF j \in F THEN None ELSE WindowIn(buckets, j)
    BY WindowsAre
  <2>1. CASE j \in DOMAIN buckets'
    <3>1. j \in DOMAIN buckets /\ buckets'[j] = buckets[j]
      BY <2>1 DEF Counted
    <3>2. QED BY <2>1, <3>1 DEF WindowIn
  <2>2. CASE j \notin DOMAIN buckets'
    BY <2>2 DEF WindowIn
  <2>3. QED BY <2>1, <2>2
<1>3. /\ WindowOf(k)' = [start |-> buckets'[k].start, granted |-> SmallerOf(c, Limit[k])]
      /\ k \notin F /\ k \in DOMAIN buckets'
  BY WindowsAre DEF Counted, WindowIn
<1>4. /\ answer' = Answered(k, t, buckets'[k]) /\ answer' # None /\ answer'.key = k /\ answer'.at = t
      /\ buckets'[k].window = Window[k]
      /\ answer'.retry = None <=> ~(c > Limit[k])
  BY AnswerIsFair
<1>5. AnswerOf' = [key |-> k, at |-> t,
                   until |-> IF answer'.retry = None THEN None ELSE buckets'[k].start + Window[k]]
  BY <1>4 DEF AnswerOf
<1>6. Limit[k] \in Nat \ {0} /\ c \in Nat
  <2>1. buckets'[k] \in Bucket(nextSeq')
    BY DEF Counted, Books
  <2>2. QED BY <2>1 DEF RulesAssumption, Bucket
<1>7. /\ Budget!Open(k, t) <=> HasWindow(k, t)
      /\ HasWindow(k, t) =>
           /\ WindowOf(k) = [start |-> buckets[k].start, granted |-> SmallerOf(buckets[k].count, Limit[k])]
           /\ buckets'[k].start = buckets[k].start /\ c = buckets[k].count + 1
           /\ buckets[k].count \in Nat
      /\ ~HasWindow(k, t) => buckets'[k].start = t /\ c = 1
  <2>1. k \in DOMAIN buckets => buckets[k].count \in Nat
    BY DEF BookInv, Books, Bucket
  <2>2. QED BY <2>1, WindowsAre DEF Counted, HasWindow, WindowIn
<1> HIDE DEF F
<1>8. CASE c <= Limit[k]
  <2>1. w.granted = c - 1 /\ w.granted < Limit[k] /\ w.start = buckets'[k].start
    BY <1>6, <1>7, <1>8 DEF SmallerOf
  <2>2. w \in [start : {w.start}, granted : {w.granted}]
    BY <1>7
  <2> HIDE DEF w
  <2>3. [w EXCEPT !.granted = w.granted + 1] = [start |-> buckets'[k].start, granted |-> c]
    BY <1>6, <2>1, <2>2
  <2>4. WindowOf(k)' = [w EXCEPT !.granted = w.granted + 1]
    BY <1>3, <1>6, <1>8, <2>3 DEF SmallerOf
  <2>5. [j \in Keys |-> WindowOf(j)]' =
          [j \in Keys |-> IF j = k THEN [w EXCEPT !.granted = w.granted + 1]
                          ELSE IF j \in F THEN None ELSE WindowOf(j)]
    BY <1>2, <2>4
  <2>6. AnswerOf' = [key |-> k, at |-> t, until |-> None]
    BY <1>4, <1>5, <1>6, <1>8
  <2>7. QED BY <1>1, <2>1, <2>5, <2>6 DEF Budget!Grant, w
<1>9. CASE c > Limit[k]
  <2>1. HasWindow(k, t) /\ Budget!Open(k, t)
    BY <1>6, <1>7, <1>9
  <2>2. WindowOf(k).granted = Limit[k] /\ WindowOf(k).start = buckets'[k].start
    BY <1>6, <1>7, <1>9, <2>1 DEF SmallerOf
  <2>3. WindowOf(k)' = WindowOf(k)
    BY <1>3, <1>6, <1>7, <1>9, <2>1 DEF SmallerOf
  <2>4. [j \in Keys |-> WindowOf(j)]' = [j \in Keys |-> IF j \in F THEN None ELSE WindowOf(j)]
    BY <1>2, <1>3, <2>3
  <2>5. AnswerOf' = [key |-> k, at |-> t, until |-> WindowOf(k).start + Window[k]]
    BY <1>4, <1>5, <1>9, <2>2
  <2>6. QED BY <1>1, <2>1, <2>2, <2>4, <2>5 DEF Budget!Refuse
<1>10. QED BY <1>6, <1>8, <1>9

(* RateLimiter::check: seen from a key, the limiter grants a window's limit   *)
(* and refuses the rest, and forgets an open window only with many keys.      *)
THEOREM KeepsTheBudgetAlways ==
  ASSUME RulesAssumption PROVE Spec => KeepsTheBudget
<1>1. Init => Budget!Init
  <2> SUFFICES ASSUME Init PROVE Budget!Init
    OBVIOUS
  <2>1. DOMAIN buckets = {} /\ answer = None
    BY DEF Init
  <2>2. QED BY <2>1 DEF Budget!Init, WindowOf, AnswerOf
<1>2. Inv /\ [Next]_vars => [Budget!Next]_(Budget!vars)
  <2> SUFFICES ASSUME Inv, [Next]_vars PROVE Budget!Next \/ UNCHANGED Budget!vars
    OBVIOUS
  <2>1. ASSUME NEW r \in Requests, Check(r) PROVE Budget!Next
    <3>1. PICK k \in Keys, t \in Times : Counted(k, t)
      BY <2>1, CheckCounts DEF Inv
    <3>2. Budget!Grant(k, t) \/ Budget!Refuse(k, t)
      BY <3>1, CheckRefines DEF Inv
    <3>3. QED BY <3>2 DEF Budget!Next
  <2>2. ASSUME UNCHANGED <<buckets, answer>> PROVE UNCHANGED Budget!vars
    BY <2>2 DEF Budget!vars, WindowOf, AnswerOf
  <2>3. QED BY <2>1, <2>2 DEF Next, Ask, Tick, SetBack, vars
<1>3. (Init => Inv) /\ (Inv /\ [Next]_vars => Inv')
  BY InvInit, InvNext
<1>4. QED BY <1>1, <1>2, <1>3, PTL DEF Spec, KeepsTheBudget, Budget!Spec

-----------------------------------------------------------------------------
(* Startup, of which there may be any number of processes.                   *)

CONSTANTS Procs, Servers, Builds, Port, Patient, MaxCrashes
VARIABLES version, applied, writer, draft, users, at, seen, empty, why, told, pass, crashes

Up == INSTANCE Startup

-----------------------------------------------------------------------------
(* The inductive invariant.                                                  *)

(* The write lock is held from the first writing statement to the commit.    *)
HasLock(p) == at[p] \in {"applied", "stamped", "counted"}

(* What a process read of the version may be old, but not while it migrates: *)
(* then the migration it applies is the next one.  What came up has migrated *)
(* to its build, and nothing takes that back.                                *)
SchemaInv ==
  /\ \A p \in Procs : HasLock(p) <=> writer = p
  /\ \A p \in Procs : seen[p] <= version
  /\ \A p \in Procs : at[p] \in {"applied", "stamped"} =>
       seen[p] = version /\ draft.applied = 1 .. (version + 1)
  /\ \A p \in Procs : at[p] = "stamped" => draft.version = version + 1
  /\ \A p \in Procs : at[p] \notin Up!Starting => Builds[p] <= version

(* The count of the users holds while the lock does; who has a link to print *)
(* is alone with it, and made the administrator.                             *)
UserInv ==
  /\ users = {} \/ \E u \in {"admin", "local"} : users = {u}
  /\ \A p \in Procs : at[p] = "counted" => (empty[p] <=> users = {})
  /\ \A p \in Procs : at[p] = "telling" => p \in Servers /\ told = {} /\ "admin" \in users
  /\ \A p, q \in Procs : at[p] = "telling" /\ at[q] = "telling" => p = q
  /\ told # {} => "admin" \in users /\ \E p \in Procs : told = {p}

StartupInv == Up!TypeOK /\ Up!VersionTellsSchema /\ SchemaInv /\ UserInv

USE DEF Up!StartupAssumption

-----------------------------------------------------------------------------
(* The types.                                                                *)

LEMMA GotoPlace ==
  ASSUME Up!StartupAssumption,
         at \in [Procs -> Up!Places], NEW p \in Procs, NEW place \in Up!Places, Up!Goto(p, place)
  PROVE  at' \in [Procs -> Up!Places]
BY DEF Up!Goto

LEMMA FailPlace ==
  ASSUME Up!StartupAssumption,
         Up!TypeOK, NEW p \in Procs, NEW reason \in {"exists", "busy", "disk", "port"}, Up!Fail(p, reason)
  PROVE  /\ at' \in [Procs -> Up!Places]
         /\ why' \in [Procs -> {None, "exists", "busy", "disk", "port"}]
<1>1. "failed" \in Up!Places BY DEF Up!Places
<1>2. at' \in [Procs -> Up!Places] BY <1>1, GotoPlace DEF Up!Fail, Up!TypeOK
<1> QED BY <1>2 DEF Up!Fail, Up!TypeOK

LEMMA AllPlaces ==
  /\ "off" \in Up!Places /\ "failed" \in Up!Places /\ "opening" \in Up!Places
  /\ "migrating" \in Up!Places /\ "applied" \in Up!Places /\ "stamped" \in Up!Places
  /\ "open" \in Up!Places /\ "counted" \in Up!Places /\ "telling" \in Up!Places
  /\ "binding" \in Up!Places /\ "ready" \in Up!Places /\ "serving" \in Up!Places
  /\ "draining" \in Up!Places /\ "leaving" \in Up!Places
BY DEF Up!Places

LEMMA NoDraftShape == Up!NoDraft \in [version : Nat, applied : SUBSET Nat]
BY DEF Up!NoDraft

LEMMA MigrationTypes ==
  ASSUME Up!StartupAssumption,
         Up!TypeOK, NEW p \in Procs,
         Up!Start(p) \/ Up!ReadVersion(p) \/ Up!Apply(p) \/ Up!Stamp(p) \/ Up!Commit(p) \/ Up!Migrated(p)
           \/ Up!Busy(p) \/ Up!CommitFails(p) \/ Up!StatementFails(p)
  PROVE  Up!TypeOK'
<1>1. CASE Up!Start(p)
  <2>1. at' \in [Procs -> Up!Places] BY <1>1, GotoPlace, AllPlaces DEF Up!Start, Up!TypeOK
  <2> QED BY <1>1, <2>1 DEF Up!Start, Up!TypeOK, Up!db, Up!run
<1>2. CASE Up!ReadVersion(p)
  <2>1. at' \in [Procs -> Up!Places] BY <1>2, GotoPlace, AllPlaces DEF Up!ReadVersion, Up!TypeOK
  <2> QED BY <1>2, <2>1 DEF Up!ReadVersion, Up!TypeOK, Up!db, Up!run
<1>3. CASE Up!Apply(p)
  <2>1. CASE Up!NextDue(p) \in applied
    <3>1. Up!Fail(p, "exists") BY <1>3, <2>1 DEF Up!Apply
    <3> QED BY <1>3, <2>1, <3>1, FailPlace DEF Up!Apply, Up!TypeOK, Up!run
  <2>2. CASE Up!NextDue(p) \notin applied
    <3>1. at' \in [Procs -> Up!Places] BY <1>3, <2>2, GotoPlace, AllPlaces DEF Up!Apply, Up!TypeOK
    <3>2. Up!NextDue(p) \in Nat BY DEF Up!NextDue, Up!TypeOK
    <3>3. applied \union {Up!NextDue(p)} \in SUBSET Nat BY <3>2 DEF Up!TypeOK
    <3>4. draft' = [version |-> version, applied |-> applied \union {Up!NextDue(p)}]
      BY <1>3, <2>2 DEF Up!Apply
    <3>5. draft' \in [version : Nat, applied : SUBSET Nat] BY <3>3, <3>4 DEF Up!TypeOK
    <3> QED BY <1>3, <2>2, <3>1, <3>5 DEF Up!Apply, Up!TypeOK, Up!run
  <2> QED BY <2>1, <2>2
<1>4. CASE Up!Stamp(p)
  <2>1. at' \in [Procs -> Up!Places] BY <1>4, GotoPlace, AllPlaces DEF Up!Stamp, Up!TypeOK
  <2>2. Up!NextDue(p) \in Nat BY DEF Up!NextDue, Up!TypeOK
  <2>3. draft' \in [version : Nat, applied : SUBSET Nat] BY <1>4, <2>2 DEF Up!Stamp, Up!TypeOK
  <2> QED BY <1>4, <2>1, <2>3 DEF Up!Stamp, Up!TypeOK, Up!run
<1>5. CASE Up!Commit(p)
  <2>1. at' \in [Procs -> Up!Places] BY <1>5, GotoPlace, AllPlaces DEF Up!Commit, Up!TypeOK
  <2>2. Up!NextDue(p) \in Nat BY DEF Up!NextDue, Up!TypeOK
  <2> QED BY <1>5, <2>1, <2>2, NoDraftShape DEF Up!Commit, Up!TypeOK, Up!run
<1>6. CASE Up!Migrated(p)
  <2>1. at' \in [Procs -> Up!Places] BY <1>6, GotoPlace, AllPlaces DEF Up!Migrated, Up!TypeOK
  <2> QED BY <1>6, <2>1 DEF Up!Migrated, Up!TypeOK, Up!db, Up!run
<1>7. CASE Up!Busy(p)
  BY <1>7, FailPlace DEF Up!Busy, Up!TypeOK, Up!db, Up!run
<1>8. CASE Up!CommitFails(p) \/ Up!StatementFails(p)
  BY <1>8, FailPlace, NoDraftShape DEF Up!CommitFails, Up!StatementFails, Up!TypeOK, Up!run
<1> QED BY <1>1, <1>2, <1>3, <1>4, <1>5, <1>6, <1>7, <1>8

LEMMA UserTypes ==
  ASSUME Up!StartupAssumption,
         Up!TypeOK, UserInv, NEW p \in Procs, Up!CountUsers(p) \/ Up!AddUser(p) \/ Up!Announce(p)
  PROVE  Up!TypeOK'
<1>1. CASE Up!CountUsers(p)
  <2>1. at' \in [Procs -> Up!Places] BY <1>1, GotoPlace, AllPlaces DEF Up!CountUsers, Up!TypeOK
  <2>2. (users = {}) \in BOOLEAN OBVIOUS
  <2>3. empty' \in [Procs -> BOOLEAN] BY <1>1, <2>2 DEF Up!CountUsers, Up!TypeOK
  <2> QED BY <1>1, <2>1, <2>3 DEF Up!CountUsers, Up!TypeOK, Up!run
<1>2. CASE Up!AddUser(p)
  <2>1. at' \in [Procs -> Up!Places] BY <1>2, GotoPlace, AllPlaces DEF Up!AddUser, Up!TypeOK
  <2>2. users' \subseteq {"admin", "local"} BY <1>2 DEF Up!AddUser, Up!FirstUser, Up!TypeOK
  <2> QED BY <1>2, <2>1, <2>2 DEF Up!AddUser, Up!TypeOK, Up!run
<1>3. CASE Up!Announce(p)
  <2>1. at' \in [Procs -> Up!Places] BY <1>3, GotoPlace, AllPlaces DEF Up!Announce, Up!TypeOK
  <2>2. p \in Servers BY <1>3 DEF Up!Announce, UserInv
  <2> QED BY <1>3, <2>1, <2>2 DEF Up!Announce, Up!TypeOK, Up!db
<1> QED BY <1>1, <1>2, <1>3

LEMMA LifeTypes ==
  ASSUME Up!StartupAssumption,
         Up!TypeOK, NEW p \in Procs,
         Up!Bind(p) \/ Up!Tick(p) \/ Up!PassEnds(p) \/ Up!Stop(p) \/ Up!Drained(p) \/ Up!Exit(p) \/ Up!Quit(p)
           \/ Up!Crash(p)
  PROVE  Up!TypeOK'
<1>1. CASE Up!Bind(p)
  <2>1. CASE Up!Fail(p, "port") /\ UNCHANGED pass
    BY <1>1, <2>1, FailPlace DEF Up!Bind, Up!TypeOK, Up!db
  <2>2. CASE Up!Goto(p, "serving") /\ UNCHANGED why /\ pass' = [pass EXCEPT ![p] = "idle"]
    <3>1. at' \in [Procs -> Up!Places] BY <2>2, GotoPlace, AllPlaces DEF Up!TypeOK
    <3> QED BY <1>1, <2>2, <3>1 DEF Up!Bind, Up!TypeOK, Up!db
  <2> QED BY <1>1, <2>1, <2>2 DEF Up!Bind
<1>2. CASE Up!Tick(p) BY <1>2 DEF Up!Tick, Up!TypeOK, Up!db
<1>3. CASE Up!PassEnds(p) BY <1>3 DEF Up!PassEnds, Up!AfterPass, Up!TypeOK, Up!db
<1>4. CASE Up!Stop(p)
  <2>1. at' \in [Procs -> Up!Places] BY <1>4, GotoPlace, AllPlaces DEF Up!Stop, Up!TypeOK
  <2> QED BY <1>4, <2>1 DEF Up!Stop, Up!TypeOK, Up!db, Up!run
<1>5. CASE Up!Drained(p)
  <2>1. at' \in [Procs -> Up!Places] BY <1>5, GotoPlace, AllPlaces DEF Up!Drained, Up!TypeOK
  <2> QED BY <1>5, <2>1 DEF Up!Drained, Up!TypeOK, Up!db, Up!run
<1>6. CASE Up!Exit(p)
  <2>1. at' \in [Procs -> Up!Places] BY <1>6, GotoPlace, AllPlaces DEF Up!Exit, Up!TypeOK
  <2> QED BY <1>6, <2>1 DEF Up!Exit, Up!TypeOK, Up!db
<1>7. CASE Up!Quit(p)
  <2>1. at' \in [Procs -> Up!Places] BY <1>7, GotoPlace, AllPlaces DEF Up!Quit, Up!TypeOK
  <2> QED BY <1>7, <2>1 DEF Up!Quit, Up!TypeOK, Up!db, Up!run
<1>8. CASE Up!Crash(p)
  <2>1. at' \in [Procs -> Up!Places] BY <1>8, GotoPlace, AllPlaces DEF Up!Crash, Up!TypeOK
  <2>2. writer' \in Procs \union {None} /\ draft' \in [version : Nat, applied : SUBSET Nat]
    BY <1>8, NoDraftShape DEF Up!Crash, Up!TypeOK
  <2>3. crashes' \in 0 .. MaxCrashes BY <1>8 DEF Up!Crash, Up!TypeOK
  <2> QED BY <1>8, <2>1, <2>2, <2>3 DEF Up!Crash, Up!TypeOK
<1> QED BY <1>1, <1>2, <1>3, <1>4, <1>5, <1>6, <1>7, <1>8

LEMMA TypesStay ==
  ASSUME Up!StartupAssumption,
         Up!TypeOK, UserInv, [Up!Next]_(Up!vars)
  PROVE  Up!TypeOK'
<1>1. CASE UNCHANGED Up!vars BY <1>1 DEF Up!vars, Up!TypeOK
<1>2. CASE Up!Next
  BY <1>2, MigrationTypes, UserTypes, LifeTypes DEF Up!Next, Up!Boot
<1> QED BY <1>1, <1>2

-----------------------------------------------------------------------------
(* The schema.                                                               *)

LEMMA Gone ==
  ASSUME Up!StartupAssumption,
         Up!TypeOK, NEW p \in Procs, NEW place, Up!Goto(p, place)
  PROVE  at'[p] = place /\ \A q \in Procs \ {p} : at'[q] = at[q]
BY DEF Up!Goto, Up!TypeOK

(* A step of one process that leaves the database alone.                     *)
LEMMA SchemaElsewhere ==
  ASSUME Up!StartupAssumption,
         Up!TypeOK, Up!VersionTellsSchema, SchemaInv, NEW p \in Procs,
         UNCHANGED <<version, applied, seen>>,
         \A q \in Procs \ {p} : at'[q] = at[q],
         at'[p] \notin Up!Starting => Builds[p] <= version,
         \/ /\ UNCHANGED <<writer, draft>> /\ ~HasLock(p) /\ ~HasLock(p)'
         \/ /\ writer = p /\ writer' = None /\ ~HasLock(p)'
         \/ /\ writer = None /\ writer' = p /\ at'[p] = "counted" /\ UNCHANGED draft
  PROVE  Up!VersionTellsSchema' /\ SchemaInv'
<1>1. Up!VersionTellsSchema' BY DEF Up!VersionTellsSchema
<1>2. p # None /\ \A q \in Procs : q # None OBVIOUS
<1>3. ASSUME NEW q \in Procs PROVE HasLock(q)' <=> writer' = q
  BY <1>2 DEF SchemaInv, HasLock
<1>4. ASSUME NEW q \in Procs, at'[q] \in {"applied", "stamped"}
      PROVE  /\ q # p /\ at[q] = at'[q] /\ UNCHANGED draft
  BY <1>2, <1>4 DEF SchemaInv, HasLock
<1>5. ASSUME NEW q \in Procs, at'[q] \notin Up!Starting PROVE Builds[q] <= version'
  BY <1>5 DEF SchemaInv
<1> QED BY <1>1, <1>3, <1>4, <1>5 DEF SchemaInv

LEMMA LocksOut ==
  ASSUME Up!StartupAssumption,
         SchemaInv, NEW p \in Procs
  PROVE  /\ writer = None => ~HasLock(p)
         /\ HasLock(p) => writer = p
         /\ ~HasLock(p) => writer # p
BY DEF SchemaInv

LEMMA ApplySchema ==
  ASSUME Up!StartupAssumption,
         Up!TypeOK, Up!VersionTellsSchema, SchemaInv, NEW p \in Procs, Up!Apply(p)
  PROVE  Up!VersionTellsSchema' /\ SchemaInv'
<1>1. CASE Up!NextDue(p) \in applied
  <2>1. at[p] = "migrating" /\ Up!Goto(p, "failed") /\ UNCHANGED <<version, applied, seen, writer, draft>>
    BY <1>1 DEF Up!Apply, Up!Fail
  <2>2. at'[p] = "failed" /\ \A q \in Procs \ {p} : at'[q] = at[q] BY <2>1, Gone
  <2> QED BY <2>1, <2>2, SchemaElsewhere DEF HasLock, Up!Starting
<1>2. CASE Up!NextDue(p) \notin applied
  <2>1. /\ Up!Goto(p, "applied") /\ writer = None /\ writer' = p
        /\ draft' = [version |-> version, applied |-> applied \union {seen[p] + 1}]
        /\ UNCHANGED <<version, applied, seen>>
    BY <1>2 DEF Up!Apply, Up!NextDue
  <2>2. at'[p] = "applied" /\ \A q \in Procs \ {p} : at'[q] = at[q] BY <2>1, Gone
  <2>3. seen[p] \in Nat /\ version \in Nat /\ seen[p] <= version
    BY DEF Up!TypeOK, SchemaInv
  <2>4. seen[p] = version BY <1>2, <2>3 DEF Up!NextDue, Up!VersionTellsSchema
  <2>5. draft'.applied = 1 .. (version + 1)
    BY <2>1, <2>3, <2>4 DEF Up!VersionTellsSchema
  <2>6. \A q \in Procs \ {p} : ~HasLock(q) BY <2>1, LocksOut
  <2>7. \A q \in Procs : HasLock(q)' <=> writer' = q
    BY <2>1, <2>2, <2>6 DEF HasLock
  <2>8. \A q \in Procs \ {p} : at'[q] \notin {"applied", "stamped"}
    BY <2>2, <2>6 DEF HasLock
  <2>9. Up!VersionTellsSchema' BY <2>1 DEF Up!VersionTellsSchema
  <2>10. \A q \in Procs : at'[q] \notin Up!Starting => Builds[q] <= version'
    BY <2>1, <2>2 DEF SchemaInv, Up!Starting
  <2>11. \A q \in Procs : at'[q] \in {"applied", "stamped"} => q = p
    BY <2>8
  <2> QED BY <2>1, <2>2, <2>4, <2>5, <2>7, <2>9, <2>10, <2>11 DEF SchemaInv
<1> QED BY <1>1, <1>2

LEMMA CommitSchema ==
  ASSUME Up!StartupAssumption,
         Up!TypeOK, Up!VersionTellsSchema, SchemaInv, NEW p \in Procs, Up!Commit(p)
  PROVE  Up!VersionTellsSchema' /\ SchemaInv'
<1>1. /\ at[p] = "stamped" /\ Up!Goto(p, "migrating") /\ writer' = None
      /\ version' = draft.version /\ applied' = draft.applied
      /\ seen' = [seen EXCEPT ![p] = seen[p] + 1]
  BY DEF Up!Commit, Up!NextDue
<1>2. at'[p] = "migrating" /\ \A q \in Procs \ {p} : at'[q] = at[q] BY <1>1, Gone
<1>3. /\ seen[p] = version /\ draft.applied = 1 .. (version + 1)
      /\ draft.version = version + 1 /\ version \in Nat
  BY <1>1 DEF SchemaInv, Up!TypeOK
<1>4. version' = version + 1 /\ Up!VersionTellsSchema' BY <1>1, <1>3 DEF Up!VersionTellsSchema
<1>5. writer = p BY <1>1, LocksOut DEF HasLock
<1>6. \A q \in Procs \ {p} : ~HasLock(q) BY <1>5 DEF SchemaInv
<1>7. \A q \in Procs : ~HasLock(q)' BY <1>2, <1>6 DEF HasLock
<1>8. \A q \in Procs : HasLock(q)' <=> writer' = q BY <1>1, <1>7
<1>9. \A q \in Procs : seen'[q] <= version'
  BY <1>1, <1>3, <1>4 DEF Up!TypeOK, SchemaInv
<1>10. \A q \in Procs : at'[q] \notin {"applied", "stamped"} BY <1>7 DEF HasLock
<1>11. ASSUME NEW q \in Procs, at'[q] \notin Up!Starting PROVE Builds[q] <= version'
  <2>1. q # p /\ at[q] \notin Up!Starting BY <1>2, <1>11 DEF Up!Starting
  <2>2. Builds[q] <= version BY <2>1 DEF SchemaInv
  <2> QED BY <2>2, <1>3, <1>4
<1> QED BY <1>4, <1>8, <1>9, <1>10, <1>11 DEF SchemaInv

LEMMA StampSchema ==
  ASSUME Up!StartupAssumption,
         Up!TypeOK, Up!VersionTellsSchema, SchemaInv, NEW p \in Procs, Up!Stamp(p)
  PROVE  Up!VersionTellsSchema' /\ SchemaInv'
<1>1. /\ at[p] = "applied" /\ Up!Goto(p, "stamped") /\ UNCHANGED <<version, applied, writer, seen>>
      /\ draft' = [draft EXCEPT !.version = seen[p] + 1]
  BY DEF Up!Stamp, Up!NextDue
<1>2. at'[p] = "stamped" /\ \A q \in Procs \ {p} : at'[q] = at[q] BY <1>1, Gone
<1>3. seen[p] = version /\ draft.applied = 1 .. (version + 1)
  BY <1>1 DEF SchemaInv
<1>4. draft'.applied = 1 .. (version + 1) /\ draft'.version = version + 1
  BY <1>1, <1>3 DEF Up!TypeOK
<1>5. writer = p BY <1>1, LocksOut DEF HasLock
<1>6. \A q \in Procs \ {p} : ~HasLock(q) BY <1>5 DEF SchemaInv
<1>7. \A q \in Procs : HasLock(q)' <=> writer' = q BY <1>1, <1>2, <1>5, <1>6 DEF HasLock
<1>8. \A q \in Procs : at'[q] \in {"applied", "stamped"} => q = p
  BY <1>2, <1>6 DEF HasLock
<1>9. \A q \in Procs : at'[q] \notin Up!Starting => Builds[q] <= version'
  BY <1>1, <1>2 DEF SchemaInv, Up!Starting
<1>10. Up!VersionTellsSchema' BY <1>1 DEF Up!VersionTellsSchema
<1> QED BY <1>1, <1>3, <1>4, <1>7, <1>8, <1>9, <1>10 DEF SchemaInv

LEMMA ReadSchema ==
  ASSUME Up!StartupAssumption,
         Up!TypeOK, Up!VersionTellsSchema, SchemaInv, NEW p \in Procs, Up!ReadVersion(p)
  PROVE  Up!VersionTellsSchema' /\ SchemaInv'
<1>1. /\ at[p] = "opening" /\ Up!Goto(p, "migrating")
      /\ UNCHANGED <<version, applied, writer, draft>>
      /\ seen' = [seen EXCEPT ![p] = version]
  BY DEF Up!ReadVersion, Up!db
<1>2. at'[p] = "migrating" /\ \A q \in Procs \ {p} : at'[q] = at[q] BY <1>1, Gone
<1>3. Up!VersionTellsSchema' BY <1>1 DEF Up!VersionTellsSchema
<1>4. \A q \in Procs \ {p} : seen'[q] = seen[q] BY <1>1 DEF Up!TypeOK
<1>5. seen'[p] = version /\ version <= version BY <1>1 DEF Up!TypeOK
<1>6. \A q \in Procs : HasLock(q)' <=> HasLock(q) BY <1>1, <1>2 DEF HasLock
<1> QED BY <1>1, <1>2, <1>3, <1>4, <1>5, <1>6 DEF SchemaInv, Up!Starting

(* The steps that do not migrate.                                            *)
LEMMA OtherSchema ==
  ASSUME Up!StartupAssumption,
         Up!TypeOK, Up!VersionTellsSchema, SchemaInv, NEW p \in Procs,
         \/ Up!Start(p) \/ Up!Migrated(p) \/ Up!Busy(p) \/ Up!CommitFails(p) \/ Up!StatementFails(p) \/ Up!CountUsers(p) \/ Up!AddUser(p)
         \/ Up!Announce(p) \/ Up!Bind(p) \/ Up!Tick(p) \/ Up!PassEnds(p) \/ Up!Stop(p) \/ Up!Drained(p)
         \/ Up!Exit(p) \/ Up!Quit(p) \/ Up!Crash(p)
  PROVE  Up!VersionTellsSchema' /\ SchemaInv'
<1>0. UNCHANGED <<version, applied, seen>>
  BY DEF Up!Start, Up!Migrated, Up!Busy, Up!CommitFails, Up!StatementFails, Up!CountUsers, Up!AddUser, Up!Announce, Up!Bind, Up!Tick,
         Up!PassEnds, Up!Stop, Up!Drained, Up!Exit, Up!Quit, Up!Crash, Up!db
<1>1. CASE Up!Start(p) \/ Up!Busy(p)
  <2>1. PICK place \in {"opening", "failed"} : Up!Goto(p, place)
    BY <1>1 DEF Up!Start, Up!Busy, Up!Fail
  <2>2. at'[p] = place /\ \A q \in Procs \ {p} : at'[q] = at[q] BY <2>1, Gone
  <2>3. UNCHANGED <<writer, draft>> /\ ~HasLock(p)
    BY <1>1 DEF Up!Start, Up!Busy, Up!db, HasLock
  <2>4. ~HasLock(p)' /\ at'[p] \in Up!Starting BY <2>2 DEF HasLock, Up!Starting
  <2> QED BY <1>0, <2>2, <2>3, <2>4, SchemaElsewhere
<1>2. CASE Up!Migrated(p)
  <2>1. at[p] = "migrating" /\ Up!Goto(p, "open") /\ UNCHANGED <<writer, draft>> /\ Up!Due(p) = {}
    BY <1>2 DEF Up!Migrated, Up!db
  <2>2. at'[p] = "open" /\ \A q \in Procs \ {p} : at'[q] = at[q] BY <2>1, Gone
  <2>3. Builds[p] \in Nat /\ seen[p] \in Nat /\ version \in Nat /\ seen[p] <= version
    BY DEF Up!TypeOK, SchemaInv
  <2>4. ~(Builds[p] > seen[p])
    <3>1. SUFFICES ASSUME Builds[p] > seen[p] PROVE Builds[p] \in Up!Due(p) BY <2>1
    <3> QED BY <2>3, <3>1 DEF Up!Due
  <2>5. Builds[p] <= version BY <2>3, <2>4
  <2> QED BY <1>0, <2>1, <2>2, <2>5, SchemaElsewhere DEF HasLock
<1>3. CASE Up!CommitFails(p) \/ Up!StatementFails(p)
  <2>1. at[p] \in {"applied", "stamped", "counted"} /\ Up!Goto(p, "failed") /\ writer' = None
    BY <1>3 DEF Up!CommitFails, Up!StatementFails, Up!Fail
  <2>2. at'[p] = "failed" /\ \A q \in Procs \ {p} : at'[q] = at[q] BY <2>1, Gone
  <2>3. writer = p BY <2>1, LocksOut DEF HasLock
  <2> QED BY <1>0, <2>1, <2>2, <2>3, SchemaElsewhere DEF HasLock, Up!Starting
<1>4. CASE Up!CountUsers(p)
  <2>1. at[p] = "open" /\ Up!Goto(p, "counted") /\ writer = None /\ writer' = p /\ UNCHANGED draft
    BY <1>4 DEF Up!CountUsers
  <2>2. at'[p] = "counted" /\ \A q \in Procs \ {p} : at'[q] = at[q] BY <2>1, Gone
  <2>3. Builds[p] <= version BY <2>1 DEF SchemaInv, Up!Starting
  <2> QED BY <1>0, <2>1, <2>2, <2>3, SchemaElsewhere
<1>5. CASE Up!AddUser(p)
  <2>1. PICK place \in {"ready", "telling", "binding"} : Up!Goto(p, place)
    BY <1>5 DEF Up!AddUser
  <2>2. at'[p] = place /\ \A q \in Procs \ {p} : at'[q] = at[q] BY <2>1, Gone
  <2>3. at[p] = "counted" /\ writer' = None BY <1>5 DEF Up!AddUser
  <2>4. writer = p BY <2>3, LocksOut DEF HasLock
  <2>5. Builds[p] <= version BY <2>3 DEF SchemaInv, Up!Starting
  <2> QED BY <1>0, <2>2, <2>3, <2>4, <2>5, SchemaElsewhere DEF HasLock
<1>6. CASE Up!Announce(p) \/ Up!Bind(p) \/ Up!Stop(p) \/ Up!Drained(p)
  <2>1. PICK place \in {"binding", "failed", "serving", "draining", "leaving"} : Up!Goto(p, place)
    BY <1>6 DEF Up!Announce, Up!Bind, Up!Stop, Up!Drained, Up!Fail
  <2>2. at'[p] = place /\ \A q \in Procs \ {p} : at'[q] = at[q] BY <2>1, Gone
  <2>3. at[p] \in {"telling", "binding", "serving", "draining"} /\ UNCHANGED <<writer, draft>>
    BY <1>6 DEF Up!Announce, Up!Bind, Up!Stop, Up!Drained, Up!db
  <2>4. Builds[p] <= version BY <2>3 DEF SchemaInv, Up!Starting
  <2>5. ~HasLock(p) /\ ~HasLock(p)' BY <2>2, <2>3 DEF HasLock
  <2> QED BY <1>0, <2>2, <2>3, <2>4, <2>5, SchemaElsewhere
<1>7. CASE Up!Tick(p) \/ Up!PassEnds(p)
  <2>1. UNCHANGED <<at, writer, draft>> BY <1>7 DEF Up!Tick, Up!PassEnds, Up!db
  <2> QED BY <1>0, <2>1 DEF SchemaInv, Up!VersionTellsSchema, HasLock
<1>8. CASE Up!Exit(p) \/ Up!Quit(p)
  <2>1. at[p] \in {"leaving", "ready"} /\ Up!Goto(p, "off") /\ UNCHANGED <<writer, draft>>
    BY <1>8 DEF Up!Exit, Up!Quit, Up!db
  <2>2. at'[p] = "off" /\ \A q \in Procs \ {p} : at'[q] = at[q] BY <2>1, Gone
  <2> QED BY <1>0, <2>1, <2>2, SchemaElsewhere DEF HasLock, Up!Starting
<1>9. CASE Up!Crash(p)
  <2>1. Up!Goto(p, "off") /\ (writer = p => writer' = None)
        /\ (writer # p => UNCHANGED <<writer, draft>>)
    BY <1>9 DEF Up!Crash
  <2>2. at'[p] = "off" /\ \A q \in Procs \ {p} : at'[q] = at[q] BY <2>1, Gone
  <2>3. ~HasLock(p)' /\ at'[p] \in Up!Starting BY <2>2 DEF HasLock, Up!Starting
  <2> QED BY <1>0, <2>1, <2>2, <2>3, LocksOut, SchemaElsewhere
<1> QED BY <1>1, <1>2, <1>3, <1>4, <1>5, <1>6, <1>7, <1>8, <1>9

LEMMA SchemaStays ==
  ASSUME Up!StartupAssumption,
         Up!TypeOK, Up!VersionTellsSchema, SchemaInv, [Up!Next]_(Up!vars)
  PROVE  Up!VersionTellsSchema' /\ SchemaInv'
<1>1. CASE UNCHANGED Up!vars BY <1>1 DEF Up!vars, Up!VersionTellsSchema, SchemaInv, HasLock
<1>2. CASE Up!Next
  BY <1>2, ReadSchema, ApplySchema, StampSchema, CommitSchema, OtherSchema DEF Up!Next, Up!Boot
<1> QED BY <1>1, <1>2

-----------------------------------------------------------------------------
(* The first user.                                                           *)

LEMMA UsersElsewhere ==
  ASSUME Up!StartupAssumption,
         Up!TypeOK, UserInv, NEW p \in Procs, UNCHANGED <<users, empty, told>>,
         \A q \in Procs \ {p} : at'[q] = at[q], at'[p] \notin {"counted", "telling"}
  PROVE  UserInv'
<1>1. \A q \in Procs : at'[q] = "counted" => at[q] = "counted" OBVIOUS
<1>2. \A q \in Procs : at'[q] = "telling" => at[q] = "telling" OBVIOUS
<1>3. \A q \in Procs : at'[q] = "counted" => (empty'[q] <=> users' = {})
  BY <1>1 DEF UserInv
<1>4. \A q \in Procs : at'[q] = "telling" => q \in Servers /\ told' = {} /\ "admin" \in users'
  BY <1>2 DEF UserInv
<1>5. \A q, r \in Procs : at'[q] = "telling" /\ at'[r] = "telling" => q = r
  BY <1>2 DEF UserInv
<1> QED BY <1>3, <1>4, <1>5 DEF UserInv

LEMMA CountKeepsUsers ==
  ASSUME Up!StartupAssumption,
         Up!TypeOK, SchemaInv, UserInv, NEW p \in Procs, Up!CountUsers(p)
  PROVE  UserInv'
<1>1. /\ writer = None /\ Up!Goto(p, "counted") /\ UNCHANGED <<users, told>>
      /\ empty' = [empty EXCEPT ![p] = users = {}]
  BY DEF Up!CountUsers, Up!run
<1>2. at'[p] = "counted" /\ \A q \in Procs \ {p} : at'[q] = at[q] BY <1>1, Gone
<1>3. \A q \in Procs : at'[q] = "counted" => q = p
  BY <1>1, <1>2, LocksOut DEF HasLock
<1>4. empty'[p] <=> users = {} BY <1>1 DEF Up!TypeOK
<1>5. \A q \in Procs : at'[q] = "telling" => at[q] = "telling" BY <1>2
<1>6. \A q \in Procs : at'[q] = "counted" => (empty'[q] <=> users' = {})
  BY <1>1, <1>3, <1>4
<1>7. \A q \in Procs : at'[q] = "telling" => q \in Servers /\ told' = {} /\ "admin" \in users'
  BY <1>1, <1>5 DEF UserInv
<1>8. \A q, r \in Procs : at'[q] = "telling" /\ at'[r] = "telling" => q = r
  BY <1>5 DEF UserInv
<1> QED BY <1>1, <1>6, <1>7, <1>8 DEF UserInv

LEMMA AddKeepsUsers ==
  ASSUME Up!StartupAssumption,
         Up!TypeOK, SchemaInv, UserInv, NEW p \in Procs, Up!AddUser(p)
  PROVE  UserInv'
<1>1. /\ at[p] = "counted" /\ UNCHANGED <<empty, told>>
      /\ users' = IF empty[p] THEN users \union {Up!FirstUser(p)} ELSE users
      /\ Up!Goto(p, IF p \notin Servers THEN "ready" ELSE IF empty[p] THEN "telling" ELSE "binding")
  BY DEF Up!AddUser, Up!run
<1>2. empty[p] <=> users = {} BY <1>1 DEF UserInv
<1>3. HasLock(p) /\ writer = p BY <1>1, LocksOut DEF HasLock
<1>4. \A q \in Procs \ {p} : at[q] # "counted" BY <1>3 DEF SchemaInv, HasLock
<1>5. CASE ~empty[p]
  <2>1. at'[p] \in {"ready", "binding"} /\ \A q \in Procs \ {p} : at'[q] = at[q]
    BY <1>1, <1>5, Gone
  <2>2. UNCHANGED users BY <1>1, <1>5
  <2> QED BY <1>1, <2>1, <2>2, UsersElsewhere
<1>6. CASE empty[p]
  <2>1. users = {} /\ told = {} BY <1>2, <1>6 DEF UserInv
  <2>2. \A q \in Procs : at[q] # "telling" BY <2>1 DEF UserInv
  <2>3. users' = {Up!FirstUser(p)} /\ Up!FirstUser(p) \in {"admin", "local"}
    BY <1>1, <1>6, <2>1 DEF Up!FirstUser
  <2>4. /\ at'[p] = IF p \notin Servers THEN "ready" ELSE "telling"
        /\ \A q \in Procs \ {p} : at'[q] = at[q]
    BY <1>1, <1>6, Gone
  <2>5. \A q \in Procs : at'[q] # "counted" BY <1>4, <2>4
  <2>6. \A q \in Procs : at'[q] = "telling" => q = p /\ p \in Servers BY <2>2, <2>4
  <2>7. p \in Servers => "admin" \in users' BY <2>3 DEF Up!FirstUser
  <2>8. told' = {} BY <1>1, <2>1
  <2> QED BY <2>3, <2>5, <2>6, <2>7, <2>8 DEF UserInv
<1> QED BY <1>5, <1>6

LEMMA AnnounceKeepsUsers ==
  ASSUME Up!StartupAssumption,
         Up!TypeOK, UserInv, NEW p \in Procs, Up!Announce(p)
  PROVE  UserInv'
<1>1. /\ at[p] = "telling" /\ told' = told \union {p} /\ Up!Goto(p, "binding")
      /\ UNCHANGED <<users, empty>>
  BY DEF Up!Announce
<1>2. at'[p] = "binding" /\ \A q \in Procs \ {p} : at'[q] = at[q] BY <1>1, Gone
<1>3. told' = {p} /\ "admin" \in users' BY <1>1 DEF UserInv
<1>4. \A q \in Procs : at'[q] # "telling" BY <1>1, <1>2 DEF UserInv
<1>5. \A q \in Procs : at'[q] = "counted" => (empty'[q] <=> users' = {})
  BY <1>1, <1>2 DEF UserInv
<1> QED BY <1>1, <1>3, <1>4, <1>5 DEF UserInv

LEMMA UsersStay ==
  ASSUME Up!StartupAssumption,
         Up!TypeOK, SchemaInv, UserInv, [Up!Next]_(Up!vars)
  PROVE  UserInv'
<1>1. CASE UNCHANGED Up!vars BY <1>1 DEF Up!vars, UserInv
<1>2. ASSUME NEW p \in Procs, Up!Tick(p) \/ Up!PassEnds(p) PROVE UserInv'
  BY <1>2 DEF Up!Tick, Up!PassEnds, UserInv
<1>3. ASSUME NEW p \in Procs,
             \/ Up!Start(p) \/ Up!ReadVersion(p) \/ Up!Apply(p) \/ Up!Stamp(p) \/ Up!Commit(p) \/ Up!Migrated(p)
             \/ Up!Busy(p) \/ Up!CommitFails(p) \/ Up!StatementFails(p) \/ Up!Bind(p) \/ Up!Stop(p) \/ Up!Drained(p) \/ Up!Exit(p)
             \/ Up!Quit(p) \/ Up!Crash(p)
      PROVE  UserInv'
  <2>1. PICK place \in Up!Places \ {"counted", "telling"} : Up!Goto(p, place)
    BY <1>3, AllPlaces
    DEF Up!Start, Up!ReadVersion, Up!Apply, Up!Stamp, Up!Commit, Up!Migrated, Up!Busy, Up!CommitFails, Up!StatementFails, Up!Bind, Up!Stop,
        Up!Drained, Up!Exit, Up!Quit, Up!Crash, Up!Fail
  <2>2. at'[p] = place /\ \A q \in Procs \ {p} : at'[q] = at[q] BY <2>1, Gone
  <2>3. UNCHANGED <<users, empty, told>>
    BY <1>3
    DEF Up!Start, Up!ReadVersion, Up!Apply, Up!Stamp, Up!Commit, Up!Migrated, Up!Busy, Up!CommitFails, Up!StatementFails, Up!Bind, Up!Stop,
        Up!Drained, Up!Exit, Up!Quit, Up!Crash, Up!run
  <2> QED BY <2>2, <2>3, UsersElsewhere
<1>4. ASSUME Up!Next PROVE UserInv'
  BY <1>2, <1>3, <1>4, CountKeepsUsers, AddKeepsUsers, AnnounceKeepsUsers DEF Up!Next, Up!Boot
<1> QED BY <1>1, <1>4

-----------------------------------------------------------------------------
(* The theorems.                                                             *)

LEMMA StartupInvAtFirst ==
  ASSUME Up!StartupAssumption, Up!Init
  PROVE  StartupInv
<1>1. 0 \in 0 .. MaxCrashes OBVIOUS
<1>2. Up!TypeOK BY <1>1, NoDraftShape, AllPlaces DEF Up!Init, Up!TypeOK
<1>3. Up!VersionTellsSchema BY DEF Up!Init, Up!VersionTellsSchema
<1>4. SchemaInv BY DEF Up!Init, SchemaInv, HasLock, Up!Starting
<1>5. UserInv BY DEF Up!Init, UserInv
<1> QED BY <1>2, <1>3, <1>4, <1>5 DEF StartupInv

LEMMA StartupInvStays ==
  ASSUME Up!StartupAssumption, StartupInv, [Up!Next]_(Up!vars)
  PROVE  StartupInv'
BY TypesStay, SchemaStays, UsersStay DEF StartupInv

(* What each pass of migrate has established by then, and what a process that *)
(* got through it may rely on, holds in every state.                          *)
THEOREM StartupInvAlways ==
  ASSUME Up!StartupAssumption PROVE Up!Spec => []StartupInv
<1>1. (Up!Init => StartupInv) /\ (StartupInv /\ [Up!Next]_(Up!vars) => StartupInv')
  BY StartupInvAtFirst, StartupInvStays
<1> QED BY <1>1, PTL DEF Up!Spec

(* Every variable keeps its type.                                            *)
THEOREM StartupTypeCorrect ==
  ASSUME Up!StartupAssumption PROVE Up!Spec => []Up!TypeOK
<1>1. StartupInv => Up!TypeOK BY DEF StartupInv
<1> QED BY <1>1, StartupInvAlways, PTL

(* However many processes open a library together, of whatever builds, and   *)
(* wherever they die: user_version tells the schema, what came up has every  *)
(* table its build names, and one first user has its link printed once.      *)
THEOREM LibraryIsSoundAlways ==
  ASSUME Up!StartupAssumption PROVE Up!Spec => []Up!LibraryIsSound
<1>1. ASSUME StartupInv PROVE Up!LibraryIsSound
  <2>1. Up!TypeOK /\ Up!VersionTellsSchema /\ SchemaInv /\ UserInv BY <1>1 DEF StartupInv
  <2>2. ASSUME NEW p \in Procs, at[p] \notin Up!Starting PROVE 1 .. Builds[p] \subseteq applied
    <3>1. Builds[p] <= version /\ Builds[p] \in Nat /\ version \in Nat
      BY <2>1, <2>2 DEF SchemaInv, Up!TypeOK
    <3> QED BY <2>1, <3>1 DEF Up!VersionTellsSchema
  <2>3. Cardinality(users) <= 1
    <3>1. CASE users = {}
      <4>1. Cardinality(users) = 0 BY <3>1, FS_EmptySet
      <4> QED BY <4>1
    <3>2. CASE \E u : users = {u}
      <4>1. Cardinality(users) = 1 BY <3>2, FS_Singleton
      <4> QED BY <4>1
    <3> QED BY <2>1, <3>1, <3>2 DEF UserInv
  <2>4. Cardinality(told) <= 1
    <3>1. CASE told = {}
      <4>1. Cardinality(told) = 0 BY <3>1, FS_EmptySet
      <4> QED BY <4>1
    <3>2. CASE \E p : told = {p}
      <4>1. Cardinality(told) = 1 BY <3>2, FS_Singleton
      <4> QED BY <4>1
    <3> QED BY <2>1, <3>1, <3>2 DEF UserInv
  <2>5. told # {} => "admin" \in users BY <2>1 DEF UserInv
  <2>6. \A S : Up!Cardinality(S) = Cardinality(S) BY DEF Up!Cardinality, Cardinality
  <2> QED BY <2>1, <2>2, <2>3, <2>4, <2>5, <2>6
          DEF Up!LibraryIsSound, Up!OpenedIsMigrated, Up!OneFirstUser
<1>2. StartupInv => Up!LibraryIsSound BY <1>1
<1> QED BY <1>2, StartupInvAlways, PTL
=============================================================================
