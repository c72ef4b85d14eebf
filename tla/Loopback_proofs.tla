--------------------------- MODULE Loopback_proofs ---------------------------
(* Proofs about Loopback for any number of requests, links, sessions,        *)
(* servers, folders and logins, and for any number of links remembered.      *)
EXTENDS Loopback, SequenceTheorems, TLAPS

-----------------------------------------------------------------------------
(* The queues of the gate: numbers in the order they were made, the newest   *)
(* last, and never further behind the newest than their place in the queue.  *)

Queue(q, n) ==
  /\ q \in Seq(1 .. n) /\ Len(q) <= Keep
  /\ \A i, j \in 1 .. Len(q) : i < j => q[i] < q[j]
  /\ \A i \in 1 .. Len(q) : q[i] <= n - (Len(q) - i)

LEMMA ToSetOfSeq ==
  ASSUME NEW S, NEW q \in Seq(S)
  PROVE  /\ \A x : x \in ToSet(q) <=> \E i \in 1 .. Len(q) : q[i] = x
         /\ ToSet(q) \subseteq S /\ Len(q) \in Nat /\ DOMAIN q = 1 .. Len(q)
         /\ \A i \in 1 .. Len(q) : q[i] \in S
BY LenProperties, ElementOfSeq DEF ToSet

(* push_back, then pop_front while there are more than KEEP.                 *)
LEMMA TrimAppend ==
  ASSUME NEW n \in Nat, NEW q, Queue(q, n)
  PROVE  /\ Queue(Trim(Append(q, n + 1)), n + 1)
         /\ n + 1 \in ToSet(Trim(Append(q, n + 1)))
         /\ ToSet(Trim(Append(q, n + 1))) \subseteq ToSet(q) \cup {n + 1}
         /\ \A t \in ToSet(q) : n + 1 - t < Keep => t \in ToSet(Trim(Append(q, n + 1)))
<1> DEFINE a == Append(q, n + 1)
           S == 1 .. n + 1
<1>1. q \in Seq(1 .. n) /\ q \in Seq(S) /\ n + 1 \in S /\ Len(q) \in Nat /\ Len(q) <= Keep
  <2>1. q \in Seq(1 .. n) /\ 1 .. n \subseteq S
    BY DEF Queue
  <2>2. q \in Seq(S)
    BY <2>1, SeqMonotonic
  <2>3. QED BY <2>1, <2>2, LenProperties DEF Queue
<1>2. /\ a \in Seq(S) /\ a # <<>> /\ Len(a) = Len(q) + 1 /\ a[Len(q) + 1] = n + 1
      /\ \A i \in 1 .. Len(q) : a[i] = q[i]
  BY <1>1, AppendProperties
<1> HIDE DEF a, S
<1>3. \A i \in 1 .. Len(q) : q[i] \in 1 .. n /\ q[i] <= n - (Len(q) - i)
  BY <1>1, ElementOfSeq DEF Queue
<1>4. \A i, j \in 1 .. Len(a) : i < j => a[i] < a[j]
  <2> SUFFICES ASSUME NEW i \in 1 .. Len(a), NEW j \in 1 .. Len(a), i < j PROVE a[i] < a[j]
    OBVIOUS
  <2>1. CASE j \in 1 .. Len(q)
    <3>1. i \in 1 .. Len(q)
      BY <1>1, <1>2, <2>1
    <3>2. q[i] < q[j]
      BY <2>1, <3>1 DEF Queue
    <3>3. QED BY <1>2, <2>1, <3>1, <3>2
  <2>2. CASE j = Len(q) + 1
    <3>1. i \in 1 .. Len(q)
      BY <1>1, <1>2, <2>2
    <3>2. q[i] \in 1 .. n
      BY <1>3, <3>1
    <3>3. a[i] = q[i] /\ a[j] = n + 1
      BY <1>2, <2>2, <3>1
    <3>4. QED BY <3>2, <3>3
  <2> DEFINE k == Len(q)
             l == Len(a)
  <2>3. k \in Nat /\ l = k + 1 /\ j \in 1 .. l
    BY <1>1, <1>2
  <2> HIDE DEF k, l
  <2>4. j \in 1 .. k \/ j = k + 1
    BY <2>3
  <2> USE DEF k
  <2>5. QED BY <2>1, <2>2, <2>4
<1>5. \A i \in 1 .. Len(a) : a[i] <= n + 1 - (Len(a) - i)
  <2> SUFFICES ASSUME NEW i \in 1 .. Len(a) PROVE a[i] <= n + 1 - (Len(a) - i)
    OBVIOUS
  <2> DEFINE k == Len(q)
             l == Len(a)
  <2>1. k \in Nat /\ l = k + 1 /\ i \in 1 .. l
    BY <1>1, <1>2
  <2>2. i \in 1 .. k => a[i] = q[i] /\ q[i] \in 1 .. n /\ q[i] <= n - (k - i)
    BY <1>2, <1>3
  <2>3. i = k + 1 => a[i] = n + 1
    BY <1>2
  <2> HIDE DEF k, l, a
  <2>4. CASE i \in 1 .. k
    <3> DEFINE x == q[i]
    <3>1. x \in 1 .. n /\ x <= n - (k - i) /\ a[i] = x
      BY <2>2, <2>4
    <3> HIDE DEF x
    <3>2. x <= n + 1 - (l - i)
      BY <2>1, <3>1
    <3>3. QED BY <3>1, <3>2 DEF l
  <2>5. CASE i = k + 1
    <3>1. n + 1 <= n + 1 - (l - i)
      BY <2>1, <2>5
    <3>2. QED BY <2>3, <2>5, <3>1 DEF l
  <2>6. i \in 1 .. k \/ i = k + 1
    BY <2>1
  <2>7. QED BY <2>4, <2>5, <2>6
<1>6. \A t : t \in ToSet(a) <=> t \in ToSet(q) \/ t = n + 1
  <2>1. \A t : t \in ToSet(a) <=> \E i \in 1 .. Len(a) : a[i] = t
    BY <1>2, ToSetOfSeq
  <2>2. \A t : t \in ToSet(q) <=> \E i \in 1 .. Len(q) : q[i] = t
    BY <1>1, ToSetOfSeq
  <2>3. QED BY <1>1, <1>2, <2>1, <2>2
<1>7. CASE Len(a) <= Keep
  <2>1. Trim(a) = a
    BY <1>1, <1>2, <1>7, KeepAssumption DEF Trim
  <2>2. a \in Seq(1 .. n + 1)
    BY <1>2 DEF S
  <2>3. Queue(a, n + 1)
    BY <1>4, <1>5, <1>7, <2>2 DEF Queue
  <2>4. QED BY <1>6, <2>1, <2>3 DEF a
<1>8. CASE Len(a) > Keep
  <2> DEFINE b == Tail(a)
  <2>1. Trim(a) = b /\ Len(q) = Keep
    BY <1>1, <1>2, <1>8, KeepAssumption DEF Trim
  <2>2. /\ b \in Seq(S) /\ Len(b) = Len(q)
        /\ \A i \in 1 .. Len(q) : b[i] = a[i + 1]
    BY <1>1, <1>2, HeadTailProperties
  <2> HIDE DEF b
  <2>3. Queue(b, n + 1)
    <3>1. Len(b) <= Keep /\ b \in Seq(1 .. n + 1)
      BY <2>1, <2>2, KeepAssumption DEF S
    <3>2. ASSUME NEW i \in 1 .. Len(b), NEW j \in 1 .. Len(b), i < j PROVE b[i] < b[j]
      <4>1. i + 1 \in 1 .. Len(a) /\ j + 1 \in 1 .. Len(a) /\ i + 1 < j + 1
        BY <1>1, <1>2, <2>2, <3>2
      <4>2. QED BY <1>4, <2>2, <4>1
    <3>3. ASSUME NEW i \in 1 .. Len(b) PROVE b[i] <= n + 1 - (Len(b) - i)
      <4>1. a[i + 1] <= n + 1 - (Len(a) - (i + 1))
        BY <1>1, <1>2, <1>5, <2>2
      <4>2. QED BY <1>1, <1>2, <2>2, <4>1
    <3>4. QED BY <3>1, <3>2, <3>3 DEF Queue
  <2>4. \A t : t \in ToSet(b) <=> \E i \in 2 .. Len(a) : a[i] = t
    <3>1. \A t : t \in ToSet(b) <=> \E i \in 1 .. Len(q) : b[i] = t
      BY <2>2, ToSetOfSeq
    <3>2. \A t : (\E i \in 1 .. Len(q) : a[i + 1] = t) <=> \E i \in 2 .. Len(a) : a[i] = t
      <4>1. \A i \in 2 .. Len(a) : i - 1 \in 1 .. Len(q) /\ (i - 1) + 1 = i
        BY <1>1, <1>2
      <4>2. \A i \in 1 .. Len(q) : i + 1 \in 2 .. Len(a)
        BY <1>1, <1>2
      <4>3. QED BY <4>1, <4>2
    <3>3. QED BY <2>2, <3>1, <3>2
  <2>5. \A t : t \in ToSet(a) <=> \E i \in 1 .. Len(a) : a[i] = t
    BY <1>2, ToSetOfSeq
  <2>6. a[1] <= n + 1 - Keep
    BY <1>1, <1>2, <1>5, <2>1, KeepAssumption
  <2>7. n + 1 \in ToSet(b) /\ ToSet(b) \subseteq ToSet(a)
    BY <1>1, <1>2, <2>1, <2>4, <2>5, KeepAssumption
  <2>8. ASSUME NEW t \in ToSet(q), n + 1 - t < Keep PROVE t \in ToSet(b)
    <3>1. PICK i \in 1 .. Len(a) : a[i] = t
      BY <1>6, <2>5
    <3>2. i # 1
      BY <1>1, <1>2, <2>6, <2>8, <3>1, KeepAssumption, ElementOfSeq
    <3>3. QED BY <1>1, <1>2, <2>4, <3>1, <3>2
  <2>9. QED BY <1>6, <2>1, <2>3, <2>7, <2>8 DEF a
<1>9. QED BY <1>1, <1>2, <1>7, <1>8, KeepAssumption DEF a

(* The position of a link that is redeemed, taken out of the queue.          *)
LEMMA RemovedAt ==
  ASSUME NEW n \in Nat, NEW q, Queue(q, n), NEW k \in 1 .. Len(q)
  PROVE  /\ Queue(RemoveAt(q, k), n)
         /\ ToSet(RemoveAt(q, k)) = ToSet(q) \ {q[k]}
<1> DEFINE S == 1 .. n
           l == SubSeq(q, 1, k - 1)
           r == SubSeq(q, k + 1, Len(q))
           a == RemoveAt(q, k)
<1>1. q \in Seq(S) /\ Len(q) \in Nat /\ \A i \in 1 .. Len(q) : q[i] \in S
  BY LenProperties, ElementOfSeq DEF Queue
<1>2. l \in Seq(S) /\ Len(l) = k - 1 /\ \A i \in 1 .. k - 1 : l[i] = q[i]
  <2>1. \A i \in 1 .. k - 1 : q[i] \in S
    BY <1>1
  <2>2. 1 \in Int /\ k - 1 \in Int
    BY <1>1
  <2>3. /\ l \in Seq(S) /\ Len(l) = IF 1 <= k - 1 THEN (k - 1) - 1 + 1 ELSE 0
        /\ \A i \in 1 .. (k - 1) - 1 + 1 : l[i] = q[1 + i - 1]
    BY <2>1, <2>2, SubSeqProperties
  <2>4. QED BY <1>1, <2>3
<1>3. /\ r \in Seq(S) /\ Len(r) = Len(q) - k
      /\ \A i \in 1 .. Len(q) - k : r[i] = q[k + i]
  <2>1. \A i \in k + 1 .. Len(q) : q[i] \in S
    BY <1>1
  <2>2. Len(q) \in Int /\ k + 1 \in Int
    BY <1>1
  <2>3. /\ r \in Seq(S) /\ Len(r) = IF k + 1 <= Len(q) THEN Len(q) - (k + 1) + 1 ELSE 0
        /\ \A i \in 1 .. Len(q) - (k + 1) + 1 : r[i] = q[(k + 1) + i - 1]
    BY <2>1, <2>2, SubSeqProperties
  <2>4. QED BY <1>1, <2>3
<1>4. a = l \o r
  BY DEF RemoveAt
<1> HIDE DEF S, l, r, a
<1>5. /\ a \in Seq(S) /\ Len(a) = Len(q) - 1
      /\ \A i \in 1 .. Len(a) : a[i] = IF i < k THEN q[i] ELSE q[i + 1]
  <2>1. /\ a \in Seq(S) /\ Len(a) = Len(l) + Len(r)
        /\ \A i \in 1 .. Len(l) + Len(r) : a[i] = IF i <= Len(l) THEN l[i] ELSE r[i - Len(l)]
    BY <1>2, <1>3, <1>4, ConcatProperties
  <2>2. Len(l) + Len(r) = Len(q) - 1
    BY <1>1, <1>2, <1>3
  <2>3. ASSUME NEW i \in 1 .. Len(a) PROVE a[i] = IF i < k THEN q[i] ELSE q[i + 1]
    <3>1. CASE i < k
      BY <1>1, <1>2, <2>1, <2>2, <3>1
    <3>2. CASE ~(i < k)
      <4>1. a[i] = r[i - (k - 1)] /\ i - (k - 1) \in 1 .. Len(q) - k
        BY <1>1, <1>2, <2>1, <2>2, <3>2
      <4>2. r[i - (k - 1)] = q[k + (i - (k - 1))] /\ k + (i - (k - 1)) = i + 1
        BY <1>1, <1>3, <4>1
      <4>3. QED BY <3>2, <4>1, <4>2
    <3>3. QED BY <3>1, <3>2
  <2>4. QED BY <2>1, <2>2, <2>3
<1>6. Queue(a, n)
  <2>1. Len(a) <= Keep
    BY <1>1, <1>5, KeepAssumption DEF Queue
  <2>2. ASSUME NEW i \in 1 .. Len(a), NEW j \in 1 .. Len(a), i < j PROVE a[i] < a[j]
    <3>1. /\ a[i] = IF i < k THEN q[i] ELSE q[i + 1]
          /\ a[j] = IF j < k THEN q[j] ELSE q[j + 1]
          /\ i \in 1 .. Len(q) - 1 /\ j \in 1 .. Len(q) - 1
      BY <1>5
    <3>2. \A m, o \in 1 .. Len(q) : m < o => q[m] < q[o]
      BY DEF Queue
    <3>3. i + 1 \in 1 .. Len(q) /\ j + 1 \in 1 .. Len(q) /\ i \in 1 .. Len(q) /\ j \in 1 .. Len(q)
      BY <1>1, <3>1
    <3>4. QED BY <1>1, <2>2, <3>1, <3>2, <3>3
  <2>3. ASSUME NEW i \in 1 .. Len(a) PROVE a[i] <= n - (Len(a) - i)
    <3>1. CASE i < k
      <4>1. a[i] = q[i] /\ q[i] <= n - (Len(q) - i) /\ q[i] \in S
        BY <1>1, <1>5, <3>1 DEF Queue
      <4>2. q[i] \in Int /\ i \in Int /\ Len(a) \in Int
        BY <1>1, <1>5, <4>1 DEF S
      <4>3. QED BY <1>1, <1>5, <4>1, <4>2
    <3>2. CASE i >= k
      <4>1. a[i] = q[i + 1] /\ q[i + 1] <= n - (Len(q) - (i + 1))
        BY <1>1, <1>5, <3>2 DEF Queue
      <4>2. QED BY <1>1, <1>5, <4>1
    <3>3. QED BY <1>1, <1>5, <3>1, <3>2
  <2>4. a \in Seq(1 .. n)
    BY <1>5 DEF S
  <2>5. QED BY <2>1, <2>2, <2>3, <2>4 DEF Queue
<1>7. \A t : t \in ToSet(a) <=> t \in ToSet(q) /\ t # q[k]
  <2>1. \A t : t \in ToSet(a) <=> \E i \in 1 .. Len(a) : a[i] = t
    BY <1>5, ToSetOfSeq
  <2>2. \A t : t \in ToSet(q) <=> \E i \in 1 .. Len(q) : q[i] = t
    BY <1>1, ToSetOfSeq
  <2>3. ASSUME NEW i \in 1 .. Len(a)
        PROVE  \E j \in 1 .. Len(q) : j # k /\ a[i] = q[j]
    <3>1. (IF i < k THEN i ELSE i + 1) \in 1 .. Len(q) /\ (IF i < k THEN i ELSE i + 1) # k
      BY <1>1, <1>5
    <3>2. QED BY <1>5, <3>1
  <2>4. ASSUME NEW j \in 1 .. Len(q), j # k
        PROVE  q[j] # q[k] /\ \E i \in 1 .. Len(a) : a[i] = q[j]
    <3>1. q[j] # q[k]
      BY <1>1, <2>4 DEF Queue
    <3>2. (IF j < k THEN j ELSE j - 1) \in 1 .. Len(a)
      BY <1>1, <1>5, <2>4
    <3>3. j < k => a[j] = q[j]
      BY <1>5, <3>2
    <3>4. ~(j < k) => a[j - 1] = q[(j - 1) + 1] /\ (j - 1) + 1 = j
      BY <1>1, <1>5, <2>4, <3>2
    <3>5. QED BY <3>1, <3>2, <3>3, <3>4
  <2>5. ASSUME NEW t PROVE t \in ToSet(a) <=> t \in ToSet(q) /\ t # q[k]
    <3>1. ASSUME t \in ToSet(a) PROVE t \in ToSet(q) /\ t # q[k]
      <4>1. PICK i \in 1 .. Len(a) : a[i] = t
        BY <2>1, <3>1
      <4>2. PICK j \in 1 .. Len(q) : j # k /\ a[i] = q[j]
        BY <2>3
      <4>3. q[j] # q[k] /\ q[j] \in ToSet(q)
        BY <2>2, <2>4, <4>2
      <4>4. QED BY <4>1, <4>2, <4>3
    <3>2. t \in ToSet(q) /\ t # q[k] => t \in ToSet(a)
      BY <2>1, <2>2, <2>4
    <3>3. QED BY <3>1, <3>2
  <2>6. QED BY <2>5
<1>8. ToSet(a) = ToSet(q) \ {q[k]}
  BY <1>7
<1>9. QED BY <1>6, <1>8 DEF a

-----------------------------------------------------------------------------
(* The gate: what LinksWorkOnce says, and what keeps it so.                  *)

GateTypes ==
  /\ minted \in Nat /\ redeemed \in Seq(1 .. minted)
  /\ opened \in Nat /\ {landing, cookie} \subseteq (1 .. opened) \cup {None}

GateInv ==
  /\ GateTypes
  /\ Queue(links, minted) /\ Queue(sessions, opened)
  /\ \A i, j \in 1 .. Len(redeemed) : redeemed[i] = redeemed[j] => i = j
  /\ ToSet(links) \cap ToSet(redeemed) = {}
  /\ \A t \in 1 .. minted : minted - t < Keep => t \in ToSet(links) \cup ToSet(redeemed)
  /\ \A s \in 1 .. opened : opened - s < Keep => s \in ToSet(sessions)

LEMMA RedeemedType ==
  ASSUME GateInv
  PROVE  /\ ToSet(links) \subseteq 1 .. minted /\ ToSet(redeemed) \subseteq 1 .. minted
         /\ Len(redeemed) \in Nat /\ DOMAIN redeemed = 1 .. Len(redeemed)
         /\ Len(links) \in Nat /\ DOMAIN links = 1 .. Len(links)
         /\ \A t : t \in ToSet(redeemed) <=> \E i \in 1 .. Len(redeemed) : redeemed[i] = t
BY ToSetOfSeq DEF GateInv, GateTypes, Queue

LEMMA GateStep ==
  ASSUME GateInv, Gate \/ UNCHANGED gateVars
  PROVE  GateInv'
<1> USE DEF GateTypes
<1>1. CASE Mint
  <2>1. /\ minted' = minted + 1 /\ links' = Trim(Append(links, minted + 1))
        /\ UNCHANGED <<sessions, opened, landing, cookie, redeemed>>
    BY <1>1 DEF Mint
  <2>2. Queue(links', minted')
    BY <2>1, TrimAppend DEF GateInv
  <2>3. redeemed \in Seq(1 .. minted')
    <3>1. 1 .. minted \subseteq 1 .. minted'
      BY <2>1 DEF GateInv
    <3>2. QED BY <3>1, SeqMonotonic DEF GateInv
  <2>4. ToSet(links') \cap ToSet(redeemed) = {}
    <3>1. ToSet(links') \subseteq ToSet(links) \cup {minted + 1}
      BY <2>1, TrimAppend DEF GateInv
    <3>2. minted + 1 \notin ToSet(redeemed)
      BY RedeemedType DEF GateInv
    <3>3. QED BY <3>1, <3>2 DEF GateInv
  <2>5. ASSUME NEW t \in 1 .. minted', minted' - t < Keep
        PROVE  t \in ToSet(links') \cup ToSet(redeemed)
    <3>1. CASE t = minted + 1
      BY <2>1, <3>1, TrimAppend DEF GateInv
    <3>2. CASE t # minted + 1
      <4>1. t \in 1 .. minted /\ minted - t < Keep
        BY <2>1, <2>5, <3>2, KeepAssumption DEF GateInv
      <4>2. t \in ToSet(links) \cup ToSet(redeemed) /\ minted + 1 - t < Keep
        BY <2>1, <2>5, <4>1 DEF GateInv
      <4>3. QED BY <2>1, <4>2, TrimAppend DEF GateInv
    <3>3. QED BY <3>1, <3>2
  <2>6. minted' \in Nat
    BY <2>1 DEF GateInv
  <2>7. QED BY <2>1, <2>2, <2>3, <2>4, <2>5, <2>6 DEF GateInv
<1>2. ASSUME NEW t \in 1 .. minted, Handshake(t) PROVE GateInv'
  <2>1. /\ t \in ToSet(links) /\ Redeem(t)
        /\ opened' = opened + 1 /\ sessions' = Trim(Append(sessions, opened + 1))
        /\ landing' = opened + 1 /\ redeemed' = Append(redeemed, t)
        /\ UNCHANGED <<minted, cookie>>
    BY <1>2 DEF Handshake
  <2>2. PICK k \in 1 .. Len(links) : links[k] = t /\ links' = RemoveAt(links, k)
    BY <2>1, RedeemedType DEF Redeem
  <2>3. Queue(links', minted) /\ ToSet(links') = ToSet(links) \ {t}
    BY <2>2, RemovedAt DEF GateInv
  <2>4. Queue(sessions', opened')
    BY <2>1, TrimAppend DEF GateInv
  <2>5. /\ redeemed' \in Seq(1 .. minted) /\ Len(redeemed') = Len(redeemed) + 1
        /\ \A i \in 1 .. Len(redeemed) : redeemed'[i] = redeemed[i]
        /\ redeemed'[Len(redeemed) + 1] = t
    BY <2>1, AppendProperties DEF GateInv
  <2>6. \A u : u \in ToSet(redeemed') <=> u \in ToSet(redeemed) \/ u = t
    <3>1. \A u : u \in ToSet(redeemed') <=> \E i \in 1 .. Len(redeemed') : redeemed'[i] = u
      BY <2>5, ToSetOfSeq
    <3>2. Len(redeemed) \in Nat
      BY RedeemedType
    <3>3. QED BY <2>5, <3>1, <3>2, RedeemedType
  <2>7. t \notin ToSet(redeemed)
    BY <2>1 DEF GateInv
  <2>8. \A i, j \in 1 .. Len(redeemed') : redeemed'[i] = redeemed'[j] => i = j
    <3>1. Len(redeemed) \in Nat
      BY RedeemedType
    <3>2. \A i \in 1 .. Len(redeemed) : redeemed[i] # t
      BY <2>7, RedeemedType
    <3>3. \A i, j \in 1 .. Len(redeemed) : redeemed[i] = redeemed[j] => i = j
      BY DEF GateInv
    <3>4. QED BY <2>5, <3>1, <3>2, <3>3
  <2>9. ToSet(links') \cap ToSet(redeemed') = {}
    BY <2>3, <2>6 DEF GateInv
  <2>10. ASSUME NEW u \in 1 .. minted, minted - u < Keep
         PROVE  u \in ToSet(links') \cup ToSet(redeemed')
    BY <2>3, <2>6, <2>10 DEF GateInv
  <2>11. ASSUME NEW s \in 1 .. opened', opened' - s < Keep PROVE s \in ToSet(sessions')
    <3>1. CASE s = opened + 1
      BY <2>1, <3>1, TrimAppend DEF GateInv
    <3>2. CASE s # opened + 1
      <4>1. s \in 1 .. opened /\ opened - s < Keep /\ opened + 1 - s < Keep
        BY <2>1, <2>11, <3>2, KeepAssumption DEF GateInv
      <4>2. s \in ToSet(sessions)
        BY <4>1 DEF GateInv
      <4>3. QED BY <2>1, <4>1, <4>2, TrimAppend DEF GateInv
    <3>3. QED BY <3>1, <3>2
  <2>12. opened' \in Nat /\ {landing', cookie'} \subseteq (1 .. opened') \cup {None}
    BY <2>1 DEF GateInv
  <2>13. QED BY <2>1, <2>3, <2>4, <2>5, <2>8, <2>9, <2>10, <2>11, <2>12 DEF GateInv
<1>3. CASE Land \/ UNCHANGED gateVars \/ \E t \in 1 .. minted : HandshakeRefused(t)
  <2>1. /\ UNCHANGED <<links, minted, sessions, opened, redeemed>>
        /\ {landing', cookie'} \subseteq {landing, cookie, None}
    BY <1>3 DEF Land, HandshakeRefused, gateVars
  <2>2. GateTypes'
    BY <2>1 DEF GateInv
  <2>3. QED BY <2>1, <2>2 DEF GateInv, Queue
<1>4. QED BY <1>1, <1>2, <1>3 DEF Gate

LEMMA GateSound == GateInv => LinksWorkOnce
<1> SUFFICES ASSUME GateInv PROVE LinksWorkOnce
  OBVIOUS
<1>1. \A s \in {cookie, landing} \ {None} : s \in 1 .. opened
  BY DEF GateInv, GateTypes
<1>2. QED BY <1>1, RedeemedType DEF GateInv, LinksWorkOnce

-----------------------------------------------------------------------------
(* What the steps do to a request.                                           *)

Stages == {"dispatch", "folder", "router"} \cup AtServer
Active(made) ==
  [at : Stages, kind : Kinds, host : Hosts \cup {None},
   carries : made \cup {None}, sets : made \cup {None, Ended}, seen : SUBSET Libraries]

ShellTypes ==
  /\ hosts \in 0 .. MaxHosts /\ {remote, releasing} \subseteq (1 .. hosts) \cup {None}
  /\ folders \in 0 .. MaxFolders /\ folder \in (1 .. folders) \cup {None}
  /\ adopting \in {"no", "close", "set"} /\ arriving \in BOOLEAN /\ closed \subseteq 1 .. hosts

JobTypes ==
  /\ logins \in Nat /\ live \subseteq 1 .. logins /\ lost \in BOOLEAN
  /\ jar \in [Hosts -> (1 .. logins) \cup {None}]
  /\ asked \in Nat /\ job \in [Requests -> Jobs(1 .. logins)]
  /\ \A r \in Requests : job[r].at \in AtServer => job[r].host \in 1 .. hosts

Types == ShellTypes /\ JobTypes

LEMMA PendingIsActive ==
  ASSUME NEW made, NEW j \in Jobs(made)
  PROVE  /\ j.at \notin {"idle", "answered"} <=> j \in Active(made)
         /\ j.at \in Stages => j \in Active(made)
         /\ j \in Active(made) => j.at \in Stages
BY DEF Jobs, Active, Stages, Idle, AtServer

LEMMA ActiveJobs ==
  /\ \A made, j, stage : j \in Active(made) /\ stage \in Stages =>
       /\ [j EXCEPT !.at = stage] \in Active(made)
       /\ [j EXCEPT !.at = stage].at = stage /\ [j EXCEPT !.at = stage].kind = j.kind
       /\ [j EXCEPT !.at = stage].host = j.host /\ [j EXCEPT !.at = stage].carries = j.carries
       /\ [j EXCEPT !.at = stage].sets = j.sets /\ [j EXCEPT !.at = stage].seen = j.seen
  /\ \A made : Active(made) \subseteq Jobs(made) /\ Idle \in Jobs(made)
  /\ \A made, b \in BOOLEAN : [at |-> "answered", inTime |-> b] \in Jobs(made)
  /\ "answered" \notin Stages /\ "idle" \notin Stages /\ Idle.at = "idle"
BY DEF Active, Jobs, Stages, Idle, AtServer

LEMMA LibrariesInPlace ==
  ASSUME NEW h \in Hosts \cup {None}, NEW f \in Folders \cup {None}
  PROVE  /\ InPlace(h, f) \subseteq Libraries
         /\ h # None => Server(h) \in InPlace(h, f)
         /\ f # None => Local(f) \in InPlace(h, f)
         /\ h = None /\ f = None => None \in InPlace(h, f)
BY DEF InPlace, Libraries

LEMMA PlaceTypes ==
  ASSUME ShellTypes
  PROVE  /\ remote \in Hosts \cup {None} /\ folder \in Folders \cup {None}
         /\ 1 .. hosts \subseteq Hosts /\ releasing \in Hosts \cup {None}
         /\ InPlace(remote, folder) \subseteq Libraries
<1>1. remote \in Hosts \cup {None} /\ folder \in Folders \cup {None} /\ 1 .. hosts \subseteq Hosts
      /\ releasing \in Hosts \cup {None}
  BY KeepAssumption DEF ShellTypes, Hosts, Folders
<1>2. QED BY <1>1, LibrariesInPlace

(* One request's record is replaced.                                         *)
LEMMA SetJob ==
  ASSUME JobTypes, NEW r \in Requests, NEW j, job' = [job EXCEPT ![r] = j]
  PROVE  job'[r] = j /\ \A q \in Requests \ {r} : job'[q] = job[q]
BY DEF JobTypes

LEMMA SetJobTypes ==
  ASSUME Types, NEW r \in Requests, NEW j \in Jobs(1 .. logins), job' = [job EXCEPT ![r] = j],
         j.at \in AtServer => j.host \in 1 .. hosts,
         jar' \in [Hosts -> (1 .. logins) \cup {None}], asked' \in Nat, lost' \in BOOLEAN,
         UNCHANGED <<shellVars, live, logins>>
  PROVE  Types'
<1>1. job' \in [Requests -> Jobs(1 .. logins)]
  BY DEF Types, JobTypes
<1>2. \A q \in Requests : job'[q].at \in AtServer => job'[q].host \in 1 .. hosts
  BY SetJob DEF Types, JobTypes
<1>3. QED BY <1>1, <1>2 DEF Types, JobTypes, ShellTypes, shellVars

(* A request goes on to another stage, to the server only with a server.     *)
LEMMA GoesOn ==
  ASSUME Types, NEW r \in Requests, job[r].at \in Stages, NEW stage \in Stages, Goes(r, stage)
  PROVE  /\ job[r] \in Active(1 .. logins) /\ job'[r] \in Active(1 .. logins)
         /\ job' = [job EXCEPT ![r] = [job[r] EXCEPT !.at = stage]]
         /\ job'[r].at = stage /\ job'[r].kind = job[r].kind /\ job'[r].host = job[r].host
         /\ job'[r].carries = job[r].carries /\ job'[r].sets = job[r].sets
         /\ job'[r].seen = job[r].seen
         /\ \A q \in Requests \ {r} : job'[q] = job[q]
<1>1. job[r] \in Active(1 .. logins)
  BY PendingIsActive DEF Types, JobTypes
<1>2. job' = [job EXCEPT ![r] = [job[r] EXCEPT !.at = stage]]
  BY DEF Goes, Types, JobTypes
<1>3. job'[r] = [job[r] EXCEPT !.at = stage] /\ \A q \in Requests \ {r} : job'[q] = job[q]
  BY <1>2, SetJob DEF Types
<1>4. /\ job'[r] \in Active(1 .. logins) /\ job'[r].at = stage
      /\ job'[r].kind = job[r].kind /\ job'[r].host = job[r].host
      /\ job'[r].carries = job[r].carries /\ job'[r].sets = job[r].sets
      /\ job'[r].seen = job[r].seen
  <2> DEFINE j == job[r]
  <2>1. j \in Active(1 .. logins)
    BY <1>1
  <2>2. [j EXCEPT !.at = stage] \in Active(1 .. logins)
    BY <2>1 DEF Active
  <2>3. job'[r] = [j EXCEPT !.at = stage]
    BY <1>3
  <2> HIDE DEF j
  <2>4. /\ [j EXCEPT !.at = stage].at = stage
        /\ [j EXCEPT !.at = stage].kind = j.kind /\ [j EXCEPT !.at = stage].host = j.host
        /\ [j EXCEPT !.at = stage].carries = j.carries /\ [j EXCEPT !.at = stage].sets = j.sets
        /\ [j EXCEPT !.at = stage].seen = j.seen
    BY <2>1 DEF Active
  <2>5. QED BY <2>2, <2>3, <2>4 DEF j
<1>5. QED BY <1>1, <1>2, <1>3, <1>4

LEMMA GoesTypes ==
  ASSUME Types, NEW r \in Requests, job[r].at \in Stages, NEW stage \in Stages, Goes(r, stage),
         stage \in AtServer => job[r].at \in AtServer,
         jar' \in [Hosts -> (1 .. logins) \cup {None}], UNCHANGED <<shellVars, live, logins, lost, asked>>
  PROVE  Types'
<1>1. [job[r] EXCEPT !.at = stage] \in Active(1 .. logins)
      /\ job' = [job EXCEPT ![r] = [job[r] EXCEPT !.at = stage]]
      /\ [job[r] EXCEPT !.at = stage].at = stage /\ [job[r] EXCEPT !.at = stage].host = job[r].host
  BY GoesOn, ActiveJobs
<1>2. [job[r] EXCEPT !.at = stage] \in Jobs(1 .. logins)
  BY <1>1, ActiveJobs
<1>3. asked' \in Nat /\ lost' \in BOOLEAN
  BY DEF Types, JobTypes
<1>4. QED BY <1>1, <1>2, <1>3, SetJobTypes DEF Types, JobTypes

LEMMA AnswersTypes ==
  ASSUME Types, NEW r \in Requests, NEW who, Answers(r, who), jar' = jar, lost' \in BOOLEAN,
         UNCHANGED <<shellVars, live, logins, asked>>
  PROVE  /\ Types'
         /\ job'[r] = [at |-> "answered", inTime |-> who \in job[r].seen \cup {Failed}]
         /\ \A q \in Requests \ {r} : job'[q] = job[q]
<1> DEFINE j == [at |-> "answered", inTime |-> who \in job[r].seen \cup {Failed}]
<1>1. j \in Jobs(1 .. logins) /\ j.at \notin AtServer
  BY DEF Jobs, AtServer
<1>2. job' = [job EXCEPT ![r] = j]
  BY DEF Answers
<1>3. Types'
  BY <1>1, <1>2, SetJobTypes DEF Types, JobTypes
<1>4. QED BY <1>2, <1>3, SetJob DEF Types

(* The libraries in place are noted with every request under way.            *)
LEMMA NotedJobs ==
  ASSUME Types, Noted, ShellTypes', hosts' >= hosts, UNCHANGED <<jar, serverVars, asked>>
  PROVE  /\ Types'
         /\ \A r \in Requests :
              /\ job'[r].at = job[r].at
              /\ ~Pending(r) => job'[r] = job[r]
              /\ Pending(r) =>
                   /\ job'[r].kind = job[r].kind /\ job'[r].host = job[r].host
                   /\ job'[r].carries = job[r].carries /\ job'[r].sets = job[r].sets
                   /\ job'[r].seen = job[r].seen \cup InPlace(remote', folder')
<1>1. ASSUME NEW r \in Requests, Pending(r)
      PROVE  /\ job'[r] \in Active(1 .. logins)
             /\ job'[r].at = job[r].at
             /\ job'[r].kind = job[r].kind /\ job'[r].host = job[r].host
             /\ job'[r].carries = job[r].carries /\ job'[r].sets = job[r].sets
             /\ job'[r].seen = job[r].seen \cup InPlace(remote', folder')
  <2>1. job[r] \in Active(1 .. logins)
    BY <1>1, PendingIsActive DEF Pending, Types, JobTypes
  <2>2. job'[r] = [job[r] EXCEPT !.seen = @ \cup InPlace(remote', folder')]
    BY <1>1 DEF Noted
  <2>3. InPlace(remote', folder') \subseteq Libraries
    <3>1. remote' \in Hosts \cup {None} /\ folder' \in Folders \cup {None}
      BY KeepAssumption DEF ShellTypes, Hosts, Folders
    <3>2. QED BY <3>1, LibrariesInPlace
  <2>4. QED BY <2>1, <2>2, <2>3 DEF Active
<1>2. ASSUME NEW r \in Requests, ~Pending(r) PROVE job'[r] = job[r]
  BY <1>2 DEF Noted
<1>3. \A r \in Requests : job'[r] \in Jobs(1 .. logins)
  BY <1>1, <1>2, ActiveJobs DEF Types, JobTypes
<1>4. job' = [r \in Requests |-> job'[r]]
  BY DEF Noted
<1>5. job' \in [Requests -> Jobs(1 .. logins)]
  BY <1>3, <1>4
<1>6. \A r \in Requests : job'[r].at \in AtServer => job'[r].host \in 1 .. hosts'
  <2> SUFFICES ASSUME NEW r \in Requests, job'[r].at \in AtServer PROVE job'[r].host \in 1 .. hosts'
    OBVIOUS
  <2>1. job[r].at \in AtServer /\ job'[r].host = job[r].host
    BY <1>1, <1>2
  <2>2. job[r].host \in 1 .. hosts
    BY <2>1 DEF Types, JobTypes
  <2>3. hosts \in Int /\ hosts' \in Int
    BY DEF Types, ShellTypes
  <2>4. QED BY <2>1, <2>2, <2>3
<1>7. JobTypes'
  BY <1>5, <1>6 DEF Types, JobTypes, serverVars
<1>8. QED BY <1>1, <1>2, <1>7 DEF Types

-----------------------------------------------------------------------------
(* Every step keeps the types.                                               *)

LEMMA ReleaseTypes ==
  ASSUME ShellTypes, Release, UNCHANGED hosts
  PROVE  /\ {remote', releasing'} \subseteq (1 .. hosts) \cup {None} /\ closed' \subseteq 1 .. hosts
         /\ remote' = None
BY DEF ShellTypes, Release

-----------------------------------------------------------------------------
(* Where the request may be, and what it has seen.                           *)

PlaceOf(r) ==
  /\ Pending(r) => InPlace(remote, folder) \subseteq job[r].seen
  /\ job[r].at \in {"folder", "router"} /\ folder = None => None \in job[r].seen
  /\ job[r].at \in AtServer => Server(job[r].host) \in job[r].seen
  /\ job[r].at = "answered" => job[r].inTime

(* While adopt_remote is between its locks no server can be in place: only it *)
(* puts one there.                                                            *)
PlaceInv ==
  /\ adopting # "no" => remote = None /\ hosts < MaxHosts
  /\ \A r \in Requests : PlaceOf(r)

(* A session that an answer brings, and one that a request takes along.      *)
Unabsorbed(r) == job[r].at \in {"back", "absorb"}
Carrying(r) == job[r].at \in {"select", "server"}
Outward == {"dispatch", "folder", "router", "proxy", "send", "select", "server"}

(* A jar is behind its server only while the answer that says so is on its   *)
(* way, and no session is in two jars, in two answers, or in a jar and an    *)
(* answer.                                                                   *)
JarsOf ==
  /\ \A h \in Hosts : h > hosts => jar[h] = None
  /\ \A h, g \in Hosts : jar[h] = jar[g] /\ jar[h] # None => h = g
  /\ \A h \in Hosts \ closed :
       jar[h] \in live \cup {None} \/ lost
       \/ \E r \in Requests : Unabsorbed(r) /\ job[r].host = h /\ job[r].sets = Ended
BringsItsOwn(r) ==
  Unabsorbed(r) =>
    /\ job[r].sets = Ended => job[r].kind = "logout"
    /\ job[r].sets \notin {None, Ended} =>
         /\ job[r].sets \in live
         /\ \A h \in Hosts : jar[h] # job[r].sets
         /\ \A q \in Requests : Unabsorbed(q) /\ job[q].sets = job[r].sets => q = r
         /\ \A q \in Requests : Carrying(q) => job[q].carries # job[r].sets
TakesItsOwn(r) ==
  Carrying(r) =>
    \A h \in Hosts : job[r].carries # None /\ jar[h] = job[r].carries => h = job[r].host
JarInv ==
  /\ JarsOf
  /\ \A r \in Requests : BringsItsOwn(r) /\ TakesItsOwn(r)
  /\ \A r \in Requests : job[r].at \in Outward => job[r].sets = None

LEMMA Stagely ==
  /\ Outward \subseteq Stages /\ AtServer \subseteq Stages
  /\ {"back", "absorb", "select", "server"} \subseteq AtServer
  /\ Outward \cap {"redirect", "back", "absorb", "body"} = {}
  /\ "idle" \notin Stages /\ "answered" \notin Stages
  /\ "idle" \notin AtServer /\ "answered" \notin AtServer
  /\ AtServer \cap {"dispatch", "folder", "router"} = {}
BY DEF Outward, Stages, AtServer

(* A step that changes one request and no jar.                               *)
LEMMA JarStep ==
  ASSUME Types, JarInv, NEW r \in Requests, \A q \in Requests \ {r} : job'[q] = job[q],
         UNCHANGED <<jar, live, hosts, closed>>, lost => lost',
         Unabsorbed(r)' => \/ job'[r].sets = None
                           \/ /\ Unabsorbed(r) /\ job'[r].sets = job[r].sets
                              /\ job'[r].host = job[r].host /\ job'[r].kind = job[r].kind,
         Carrying(r)' => \/ job'[r].carries = None
                         \/ /\ Carrying(r) /\ job'[r].carries = job[r].carries
                            /\ job'[r].host = job[r].host
                         \/ /\ job'[r].host \in Hosts
                            /\ job'[r].carries = jar[job'[r].host],
         Unabsorbed(r) /\ job[r].sets = Ended =>
           \/ lost' \/ job[r].host \in closed
           \/ Unabsorbed(r)' /\ job'[r].host = job[r].host /\ job'[r].sets = Ended,
         job'[r].at \in Outward => job'[r].sets = None
  PROVE  JarInv'
<1>1. JarsOf'
  <2>1. ASSUME NEW h \in Hosts \ closed
        PROVE  jar[h] \in live \cup {None} \/ lost'
               \/ \E q \in Requests : Unabsorbed(q)' /\ job'[q].host = h /\ job'[q].sets = Ended
    <3>1. CASE jar[h] \in live \cup {None} \/ lost
      BY <3>1
    <3>2. CASE \E q \in Requests : Unabsorbed(q) /\ job[q].host = h /\ job[q].sets = Ended
      <4>1. PICK q \in Requests : Unabsorbed(q) /\ job[q].host = h /\ job[q].sets = Ended
        BY <3>2
      <4>2. CASE q = r
        BY <2>1, <4>1, <4>2
      <4>3. CASE q # r
        BY <4>1, <4>3 DEF Unabsorbed
      <4>4. QED BY <4>2, <4>3
    <3>3. QED BY <3>1, <3>2 DEF JarInv, JarsOf
  <2>2. QED BY <2>1 DEF JarInv, JarsOf
<1>2. None # Ended
  BY KeepAssumption
<1>3. \A q \in Requests : Unabsorbed(q)' /\ job'[q].sets # None =>
        /\ Unabsorbed(q) /\ job'[q].sets = job[q].sets
        /\ job'[q].host = job[q].host /\ job'[q].kind = job[q].kind
  BY DEF Unabsorbed
<1>4. \A q \in Requests : Carrying(q)' /\ job'[q].carries # None =>
        \/ Carrying(q) /\ job'[q].carries = job[q].carries /\ job'[q].host = job[q].host
        \/ job'[q].host \in Hosts /\ job'[q].carries = jar[job'[q].host]
  BY DEF Carrying
<1>5. ASSUME NEW q \in Requests PROVE BringsItsOwn(q)'
  <2> SUFFICES ASSUME Unabsorbed(q)', job'[q].sets # None PROVE BringsItsOwn(q)'
    BY <1>2 DEF BringsItsOwn
  <2>1. /\ Unabsorbed(q) /\ job'[q].sets = job[q].sets /\ job'[q].kind = job[q].kind
        /\ BringsItsOwn(q)
    BY <1>3 DEF JarInv
  <2>2. ASSUME job[q].sets # Ended, NEW p \in Requests, Unabsorbed(p)', job'[p].sets = job[q].sets
        PROVE  p = q
    <3>1. Unabsorbed(p) /\ job[p].sets = job[q].sets
      BY <1>3, <2>1, <2>2
    <3>2. QED BY <2>1, <2>2, <3>1 DEF BringsItsOwn
  <2>3. ASSUME job[q].sets # Ended, NEW p \in Requests, Carrying(p)' PROVE job'[p].carries # job[q].sets
    <3>1. CASE job'[p].carries = None
      BY <2>1, <3>1
    <3>2. CASE job'[p].carries # None
      BY <1>4, <2>1, <2>3, <3>2 DEF BringsItsOwn
    <3>3. QED BY <3>1, <3>2
  <2>4. QED BY <2>1, <2>2, <2>3 DEF BringsItsOwn
<1>6. ASSUME NEW q \in Requests PROVE TakesItsOwn(q)'
  <2> SUFFICES ASSUME Carrying(q)', NEW h \in Hosts, job'[q].carries # None, jar[h] = job'[q].carries
               PROVE  h = job'[q].host
    BY DEF TakesItsOwn
  <2>1. CASE Carrying(q) /\ job'[q].carries = job[q].carries /\ job'[q].host = job[q].host
    BY <2>1 DEF JarInv, TakesItsOwn
  <2>2. CASE job'[q].host \in Hosts /\ job'[q].carries = jar[job'[q].host]
    BY <2>2 DEF JarInv, JarsOf
  <2>3. QED BY <1>4, <2>1, <2>2
<1>7. \A q \in Requests : job'[q].at \in Outward => job'[q].sets = None
  BY DEF JarInv
<1>8. QED BY <1>1, <1>5, <1>6, <1>7 DEF JarInv

(* A step that changes one request and not what is in place.                 *)
LEMMA PlaceStep ==
  ASSUME PlaceInv, NEW r \in Requests, \A q \in Requests \ {r} : job'[q] = job[q],
         UNCHANGED shellVars, PlaceOf(r)'
  PROVE  PlaceInv'
<1>1. \A q \in Requests \ {r} : PlaceOf(q)'
  BY DEF PlaceInv, PlaceOf, Pending, shellVars
<1>2. QED BY <1>1 DEF PlaceInv, shellVars

LEMMA Going ==
  ASSUME Types, PlaceInv, JarInv, NEW r \in Requests, job[r].at \in Stages,
         NEW stage \in Stages, Goes(r, stage),
         UNCHANGED <<shellVars, jar, live, logins, lost, asked>>,
         stage \in AtServer => job[r].at \in AtServer,
         stage \in {"folder", "router"} /\ folder = None => None \in job[r].seen,
         stage \in Outward => job[r].at \in Outward,
         Carrying(r)' => Carrying(r),
         Unabsorbed(r)' => Unabsorbed(r) \/ job[r].sets = None,
         Unabsorbed(r) => Unabsorbed(r)'
  PROVE  Types' /\ PlaceInv' /\ JarInv'
<1>1. /\ job'[r].at = stage /\ job'[r].kind = job[r].kind /\ job'[r].host = job[r].host
      /\ job'[r].carries = job[r].carries /\ job'[r].sets = job[r].sets
      /\ job'[r].seen = job[r].seen /\ \A q \in Requests \ {r} : job'[q] = job[q]
  BY GoesOn
<1>2. Types'
  BY GoesTypes DEF Types, JobTypes
<1>3. PlaceInv'
  <2>1. PlaceOf(r)
    BY DEF PlaceInv
  <2>2. Pending(r) /\ stage # "answered"
    BY Stagely DEF Pending
  <2>3. PlaceOf(r)'
    BY <1>1, <2>1, <2>2 DEF PlaceOf, shellVars
  <2>4. QED BY <1>1, <2>3, PlaceStep
<1>4. job[r].at \in Outward => job[r].sets = None
  BY DEF JarInv
<1>5. UNCHANGED <<jar, live, hosts, closed>> /\ (lost => lost')
  BY DEF shellVars
<1>6. JarInv'
  BY <1>1, <1>4, <1>5, JarStep
<1>7. QED BY <1>2, <1>3, <1>6

LEMMA Answering ==
  ASSUME Types, PlaceInv, JarInv, NEW r \in Requests, job[r].at \in Stages,
         NEW who \in job[r].seen \cup {Failed}, Answers(r, who),
         UNCHANGED <<shellVars, jar, live, logins, asked>>, lost' \in {lost, TRUE},
         Unabsorbed(r) => lost' \/ Closed(r)
  PROVE  Types' /\ PlaceInv' /\ JarInv' /\ job'[r].at = "answered"
         /\ \A q \in Requests \ {r} : job'[q] = job[q]
<1>1. lost' \in BOOLEAN
  BY DEF Types, JobTypes
<1>2. /\ Types' /\ job'[r] = [at |-> "answered", inTime |-> who \in job[r].seen \cup {Failed}]
      /\ \A q \in Requests \ {r} : job'[q] = job[q]
  BY <1>1, AnswersTypes
<1>3. job'[r].at = "answered" /\ job'[r].inTime
  <2>1. (who \in job[r].seen \cup {Failed}) = TRUE
    OBVIOUS
  <2>2. job'[r] = [at |-> "answered", inTime |-> TRUE]
    BY <1>2, <2>1, Zenon
  <2>3. QED BY <2>2
<1>4. PlaceOf(r)'
  BY <1>3, Stagely DEF PlaceOf, Pending
<1>5. PlaceInv'
  BY <1>2, <1>4, PlaceStep
<1>6. /\ job'[r].at \notin Outward /\ ~Unabsorbed(r)' /\ ~Carrying(r)'
      /\ UNCHANGED <<jar, live, hosts, closed>>
  BY <1>3, Stagely DEF Unabsorbed, Carrying, shellVars
<1>7. lost => lost'
  OBVIOUS
<1>8. JarInv'
  BY <1>2, <1>6, <1>7, JarStep DEF Closed
<1>9. QED BY <1>2, <1>3, <1>5, <1>8

LEMMA Idling ==
  ASSUME Types, PlaceInv, JarInv, NEW r \in Requests, ~Unabsorbed(r),
         job' = [job EXCEPT ![r] = Idle], asked' \in Nat,
         UNCHANGED <<shellVars, jar, serverVars>>
  PROVE  Types' /\ PlaceInv' /\ JarInv' /\ job'[r].at = "idle"
         /\ \A q \in Requests \ {r} : job'[q] = job[q]
<1>1. Idle \in Jobs(1 .. logins) /\ Idle.at = "idle"
  BY ActiveJobs
<1>2. job'[r].at = "idle" /\ \A q \in Requests \ {r} : job'[q] = job[q]
  BY <1>1, SetJob DEF Types
<1>3. Types'
  BY <1>1, Stagely, SetJobTypes DEF Types, JobTypes, serverVars
<1>4. PlaceOf(r)'
  BY <1>2, Stagely DEF PlaceOf, Pending
<1>5. PlaceInv'
  BY <1>2, <1>4, PlaceStep
<1>6. /\ job'[r].at \notin Outward /\ ~Unabsorbed(r)' /\ ~Carrying(r)'
      /\ UNCHANGED <<jar, live, hosts, closed>> /\ (lost => lost')
  BY <1>2, Stagely DEF Unabsorbed, Carrying, shellVars, serverVars
<1>7. JarInv'
  BY <1>2, <1>6, JarStep
<1>8. QED BY <1>2, <1>3, <1>5, <1>7

-----------------------------------------------------------------------------
(* The steps of a request, each with what it can disturb.  No step but Send  *)
(* takes a request to its server.                                            *)

Kept(r) ==
  /\ Types' /\ PlaceInv' /\ JarInv' /\ UNCHANGED <<gateVars, shellVars>>
  /\ \A q \in Requests \ {r} : job'[q] = job[q]
  /\ job'[r].at = "server" /\ job[r].at # "server" => ~Closed(r)

LEMMA AskKept ==
  ASSUME Types, PlaceInv, JarInv, NEW r \in Requests, NEW k \in Kinds, Ask(r, k)
  PROVE  Kept(r)
<1> DEFINE j == [at |-> "dispatch", kind |-> k, host |-> None, carries |-> None,
                 sets |-> None, seen |-> InPlace(remote, folder)]
<1>1. j \in Active(1 .. logins)
  BY PlaceTypes DEF Types, Active, Stages
<1>2. j \in Jobs(1 .. logins) /\ j.at \notin AtServer
  BY <1>1, ActiveJobs, Stagely
<1>3. /\ job' = [job EXCEPT ![r] = j] /\ asked' = asked + 1 /\ ~Pending(r)
      /\ UNCHANGED <<gateVars, shellVars, jar, serverVars>>
  BY DEF Ask
<1>4. job'[r] = j /\ \A q \in Requests \ {r} : job'[q] = job[q]
  BY <1>3, SetJob DEF Types
<1>5. Types'
  <2>1. /\ asked' \in Nat /\ lost' \in BOOLEAN /\ jar' \in [Hosts -> (1 .. logins) \cup {None}]
        /\ UNCHANGED <<shellVars, live, logins>>
    BY <1>3 DEF Types, JobTypes, serverVars
  <2> HIDE DEF j
  <2>2. QED BY <1>2, <1>3, <2>1, SetJobTypes
<1>6. PlaceOf(r)'
  BY <1>2, <1>3, <1>4, Stagely DEF PlaceOf, shellVars
<1>7. PlaceInv'
  BY <1>3, <1>4, <1>6, PlaceStep
<1>8. /\ ~Unabsorbed(r) /\ ~Unabsorbed(r)' /\ ~Carrying(r)' /\ job'[r].sets = None
      /\ UNCHANGED <<jar, live, hosts, closed>> /\ (lost => lost')
  BY <1>3, <1>4 DEF Unabsorbed, Carrying, Pending, shellVars, serverVars
<1>9. JarInv'
  BY <1>4, <1>8, JarStep
<1>10. QED BY <1>3, <1>4, <1>5, <1>7, <1>9 DEF Kept

LEMMA IdleKept ==
  ASSUME Types, PlaceInv, JarInv, NEW r \in Requests, AskRefused(r) \/ Page(r)
  PROVE  Kept(r)
<1>1. /\ ~Unabsorbed(r) /\ job' = [job EXCEPT ![r] = Idle] /\ asked' \in Nat
      /\ UNCHANGED <<gateVars, shellVars, jar, serverVars>>
  BY DEF AskRefused, Page, Pending, Unabsorbed, AtRequest, Types, JobTypes
<1>2. QED BY <1>1, Idling DEF Kept

LEMMA AnswerKept ==
  ASSUME Types, PlaceInv, JarInv, NEW r \in Requests, job[r].at \in Stages,
         NEW who \in job[r].seen \cup {Failed}, Answers(r, who), AtRequest,
         UNCHANGED <<jar, live, logins>>, lost' \in {lost, TRUE},
         Unabsorbed(r) => lost' \/ Closed(r)
  PROVE  Kept(r)
<1>1. UNCHANGED <<gateVars, shellVars, jar, live, logins, asked>>
  BY DEF AtRequest
<1>2. QED BY <1>1, Answering DEF Kept

LEMMA GoKept ==
  ASSUME Types, PlaceInv, JarInv, NEW r \in Requests, job[r].at \in Stages,
         NEW stage \in Stages, Goes(r, stage), AtRequest, UNCHANGED <<jar, serverVars>>,
         stage \in AtServer => job[r].at \in AtServer,
         stage \in {"folder", "router"} /\ folder = None => None \in job[r].seen,
         stage \in Outward => job[r].at \in Outward,
         stage \in {"select", "server"} => Carrying(r),
         stage \in {"back", "absorb"} => Unabsorbed(r) \/ job[r].sets = None,
         Unabsorbed(r) => stage \in {"back", "absorb"},
         stage = "server" => ~Closed(r)
  PROVE  Kept(r)
<1>1. UNCHANGED <<gateVars, shellVars, jar, live, logins, lost, asked>>
  BY DEF AtRequest, serverVars
<1>2. job'[r].at = stage /\ \A q \in Requests \ {r} : job'[q] = job[q]
  BY GoesOn
<1>3. /\ Carrying(r)' => Carrying(r)
      /\ Unabsorbed(r)' => Unabsorbed(r) \/ job[r].sets = None
      /\ Unabsorbed(r) => Unabsorbed(r)'
  BY <1>2 DEF Carrying, Unabsorbed
<1>4. Types' /\ PlaceInv' /\ JarInv'
  BY <1>1, <1>3, Going
<1>5. QED BY <1>1, <1>2, <1>4 DEF Kept

LEMMA LookKept ==
  ASSUME Types, PlaceInv, JarInv, NEW r \in Requests,
         LookRemote(r) \/ LookFolder(r) \/ LookRouter(r)
  PROVE  Kept(r)
<1>1. /\ PlaceOf(r) /\ AtRequest /\ UNCHANGED <<jar, serverVars>>
      /\ UNCHANGED <<live, logins>> /\ lost' \in {lost, TRUE}
      /\ job[r].at \in {"dispatch", "folder", "router"}
  BY DEF PlaceInv, LookRemote, LookFolder, LookRouter, serverVars
<1>2. /\ ~Unabsorbed(r) /\ ~Carrying(r) /\ Pending(r) /\ job[r].at \in Stages
      /\ job[r].at \in Outward
  BY <1>1 DEF Unabsorbed, Carrying, Pending, Stages, Outward
<1>3. InPlace(remote, folder) \subseteq job[r].seen
  BY <1>1, <1>2 DEF PlaceOf
<1>4. /\ folder # None => Local(folder) \in job[r].seen
      /\ remote # None => Server(remote) \in job[r].seen
      /\ remote = None /\ folder = None => None \in job[r].seen
  BY <1>3, PlaceTypes, LibrariesInPlace DEF Types
<1>5. CASE LookRemote(r) /\ remote = None
  <2>1. Goes(r, "folder") /\ "folder" \in Stages /\ "folder" \notin AtServer
    BY <1>5, Stagely DEF LookRemote, Stages
  <2>2. QED BY <1>1, <1>2, <1>4, <1>5, <2>1, GoKept
<1>6. CASE LookRemote(r) /\ remote # None
  <2> DEFINE k == IF job[r].kind = "capabilities" THEN "api" ELSE job[r].kind
             j == [job[r] EXCEPT !.at = "proxy", !.host = remote, !.kind = k]
  <2>1. job' = [job EXCEPT ![r] = j] /\ UNCHANGED <<gateVars, shellVars, asked>>
    <3>1. job' = [job EXCEPT ![r].at = "proxy", ![r].host = remote,
                             ![r].kind = IF @ = "capabilities" THEN "api" ELSE @]
      BY <1>6 DEF LookRemote
    <3>2. QED BY <1>1, <3>1 DEF Types, JobTypes, AtRequest
  <2>2. job[r] \in Active(1 .. logins) /\ k \in Kinds
    <3>1. job[r] \in Active(1 .. logins)
      BY <1>2, PendingIsActive DEF Types, JobTypes
    <3>2. QED BY <3>1 DEF Active, Kinds
  <2> HIDE DEF k
  <2>3. remote \in 1 .. hosts /\ remote \in Hosts
    BY <1>6, PlaceTypes DEF Types, ShellTypes
  <2>4. /\ j \in Active(1 .. logins) /\ j.at = "proxy" /\ j.host = remote
        /\ j.sets = job[r].sets /\ j.seen = job[r].seen
    BY <2>2, <2>3, Stagely DEF Active, Stages, AtServer
  <2>5. j \in Jobs(1 .. logins)
    BY <2>4, ActiveJobs
  <2> HIDE DEF j
  <2>6. job'[r] = j /\ \A q \in Requests \ {r} : job'[q] = job[q]
    BY <2>1, SetJob DEF Types
  <2>7. Types'
    <3>1. /\ asked' \in Nat /\ lost' \in BOOLEAN /\ jar' \in [Hosts -> (1 .. logins) \cup {None}]
          /\ UNCHANGED <<shellVars, live, logins>>
      BY <1>1, <2>1 DEF Types, JobTypes, serverVars
    <3>2. j.at \in AtServer => j.host \in 1 .. hosts
      BY <2>3, <2>4
    <3>3. QED BY <2>1, <2>5, <3>1, <3>2, SetJobTypes
  <2>8. PlaceOf(r)'
    BY <1>3, <1>4, <1>6, <2>1, <2>4, <2>6 DEF PlaceOf, Pending, shellVars
  <2>9. PlaceInv'
    BY <2>1, <2>6, <2>8, PlaceStep
  <2>10. /\ ~Unabsorbed(r)' /\ ~Carrying(r)' /\ job'[r].sets = None
         /\ UNCHANGED <<jar, live, hosts, closed>> /\ (lost => lost')
    BY <1>1, <1>2, <2>1, <2>4, <2>6 DEF Unabsorbed, Carrying, JarInv, shellVars, serverVars
  <2>11. JarInv'
    BY <1>2, <2>6, <2>10, JarStep
  <2>12. QED BY <2>1, <2>4, <2>6, <2>7, <2>9, <2>11 DEF Kept
<1>7. CASE LookFolder(r) /\ folder # None /\ job[r].kind # "capabilities"
  <2>1. Goes(r, "router") /\ "router" \in Stages /\ "router" \notin AtServer
    BY <1>7, Stagely DEF LookFolder, Stages
  <2>2. QED BY <1>1, <1>2, <1>7, <2>1, GoKept
<1>8. CASE LookFolder(r) /\ ~(folder # None /\ job[r].kind # "capabilities")
  <2>1. PICK who \in job[r].seen : Answers(r, who)
    BY <1>1, <1>4, <1>8 DEF LookFolder, PlaceOf
  <2>2. QED BY <1>1, <1>2, <2>1, AnswerKept
<1>9. CASE LookRouter(r)
  <2>1. PICK who \in job[r].seen : Answers(r, who)
    BY <1>1, <1>4, <1>9 DEF LookRouter, PlaceOf
  <2>2. QED BY <1>1, <1>2, <2>1, AnswerKept
<1>10. QED BY <1>5, <1>6, <1>7, <1>8, <1>9

(* On the way to the server and back, the steps that give up included.       *)
LEMMA WayKept ==
  ASSUME Types, PlaceInv, JarInv, NEW r \in Requests,
         \/ Proxy(r) \/ Send(r) \/ Cancelled(r) \/ Receive(r) \/ RefuseRedirect(r)
         \/ Cut(r) \/ Redirects(r) \/ Lose(r) \/ Forward(r)
  PROVE  Kept(r)
<1>1. /\ AtRequest /\ UNCHANGED <<jar, live, logins>> /\ lost' \in {lost, TRUE}
      /\ job[r].at \in AtServer /\ job[r].at \in Stages /\ PlaceOf(r)
  BY Stagely DEF Proxy, Send, Cancelled, Receive, RefuseRedirect, Cut, Redirects, Lose, Forward,
       serverVars, AtServer, PlaceInv
<1>2. Failed \in job[r].seen \cup {Failed} /\ Server(job[r].host) \in job[r].seen \cup {Failed}
  BY <1>1 DEF PlaceOf
<1>3. ASSUME Answers(r, Failed) \/ Answers(r, Server(job[r].host)),
             Unabsorbed(r) => lost' \/ Closed(r)
      PROVE  Kept(r)
  BY <1>1, <1>2, <1>3, AnswerKept
<1>4. CASE Cancelled(r) \/ RefuseRedirect(r) \/ Cut(r) \/ Lose(r) \/ Forward(r)
  BY <1>3, <1>4 DEF Cancelled, RefuseRedirect, Cut, Lose, Forward, Unabsorbed
<1>5. CASE (Proxy(r) \/ Send(r)) /\ Closed(r)
  BY <1>3, <1>5 DEF Proxy, Send, Unabsorbed
<1>6. CASE (Proxy(r) \/ Send(r)) /\ ~Closed(r)
  <2>1. PICK stage \in {"send", "server"} :
          /\ Goes(r, stage) /\ (stage = "server" => job[r].at = "select")
          /\ job[r].at \in {"proxy", "select"} /\ UNCHANGED <<jar, serverVars>>
    BY <1>6 DEF Proxy, Send
  <2>2. /\ stage \in Stages /\ job[r].at \in Outward /\ ~Unabsorbed(r)
        /\ stage \notin {"folder", "router", "back", "absorb"}
        /\ stage \in {"select", "server"} => Carrying(r)
    BY <2>1, Stagely DEF Outward, Unabsorbed, Carrying, Stages, AtServer
  <2>3. QED BY <1>1, <1>6, <2>1, <2>2, GoKept
<1>7. CASE Receive(r) \/ Redirects(r)
  <2>1. PICK stage \in {"absorb", "redirect"} :
          /\ Goes(r, stage) /\ (stage = "absorb" <=> Unabsorbed(r))
          /\ UNCHANGED <<jar, serverVars>>
    BY <1>7 DEF Receive, Redirects, Unabsorbed
  <2>2. /\ stage \in Stages /\ stage \notin Outward
        /\ stage \notin {"folder", "router", "select", "server"}
    BY <2>1 DEF Outward, Stages, AtServer
  <2>3. QED BY <1>1, <2>1, <2>2, GoKept
<1>8. QED BY <1>4, <1>5, <1>6, <1>7

LEMMA ReadJarKept ==
  ASSUME Types, PlaceInv, JarInv, NEW r \in Requests, ReadJar(r)
  PROVE  Kept(r)
<1> DEFINE c == IF job[r].kind = "logout" THEN jar[job[r].host] ELSE None
           j == [job[r] EXCEPT !.at = "select", !.carries = c]
<1>1. /\ PlaceOf(r) /\ job[r].at = "send" /\ job[r].at \in Outward /\ job[r].at \in Stages
      /\ job[r].at \in AtServer /\ job[r].sets = None
      /\ UNCHANGED <<gateVars, shellVars, asked, jar, serverVars>>
  BY DEF PlaceInv, JarInv, ReadJar, Outward, Stages, AtServer, AtRequest
<1>2. job' = [job EXCEPT ![r] = j]
  BY DEF ReadJar, Types, JobTypes
<1>3. job[r] \in Active(1 .. logins) /\ job[r].host \in 1 .. hosts /\ job[r].host \in Hosts
  BY <1>1, PendingIsActive, PlaceTypes DEF Types, JobTypes
<1>4. c \in (1 .. logins) \cup {None} /\ (c = None \/ c = jar[job[r].host])
  BY <1>3 DEF Types, JobTypes
<1> HIDE DEF c
<1>5. /\ j \in Active(1 .. logins) /\ j.at = "select" /\ j.host = job[r].host
      /\ j.sets = job[r].sets /\ j.seen = job[r].seen /\ j.carries = c
  BY <1>3, <1>4, Stagely DEF Active, Stages, AtServer
<1>6. j \in Jobs(1 .. logins)
  BY <1>5, ActiveJobs
<1> HIDE DEF j
<1>7. job'[r] = j /\ \A q \in Requests \ {r} : job'[q] = job[q]
  BY <1>2, SetJob DEF Types
<1>8. Types'
  <2>1. /\ asked' \in Nat /\ lost' \in BOOLEAN /\ jar' \in [Hosts -> (1 .. logins) \cup {None}]
        /\ UNCHANGED <<shellVars, live, logins>>
    BY <1>1 DEF Types, JobTypes, serverVars
  <2>2. j.at \in AtServer => j.host \in 1 .. hosts
    BY <1>3, <1>5
  <2>3. QED BY <1>2, <1>6, <2>1, <2>2, SetJobTypes
<1>9. PlaceOf(r)'
  BY <1>1, <1>5, <1>7 DEF PlaceOf, Pending, shellVars
<1>10. PlaceInv'
  BY <1>1, <1>7, <1>9, PlaceStep
<1>11. /\ ~Unabsorbed(r) /\ ~Unabsorbed(r)' /\ job'[r].sets = None /\ job'[r].host \in Hosts
       /\ job'[r].carries = None \/ job'[r].carries = jar[job'[r].host]
       /\ UNCHANGED <<jar, live, hosts, closed>> /\ (lost => lost')
  BY <1>1, <1>3, <1>4, <1>5, <1>7 DEF Unabsorbed, shellVars, serverVars
<1>12. JarInv'
  BY <1>7, <1>11, JarStep
<1>13. QED BY <1>1, <1>5, <1>7, <1>8, <1>10, <1>12 DEF Kept

(* The server's own step: with a login there is a session no jar, no answer  *)
(* and no request has, and a logout ends the one it took along, of its own   *)
(* connection.                                                               *)
LEMMA ServeKept ==
  ASSUME Types, PlaceInv, JarInv, NEW r \in Requests, Serve(r)
  PROVE  Kept(r)
<1>1. /\ PlaceOf(r) /\ job[r].at = "server" /\ job[r].at \in Outward /\ job[r].at \in Stages
      /\ job[r].at \in AtServer /\ job[r].sets = None /\ Carrying(r) /\ TakesItsOwn(r)
      /\ AtRequest /\ UNCHANGED <<gateVars, shellVars, asked, jar, lost>>
  BY DEF PlaceInv, JarInv, Serve, Outward, Stages, AtServer, AtRequest, Carrying
<1>2. job[r] \in Active(1 .. logins) /\ job[r].host \in 1 .. hosts /\ job[r].host \in Hosts
      /\ job[r].carries \in (1 .. logins) \cup {None}
  <2>1. job[r] \in Active(1 .. logins) /\ job[r].host \in 1 .. hosts
    BY <1>1, PendingIsActive DEF Types, JobTypes
  <2>2. QED BY <2>1, PlaceTypes DEF Types, Active
<1>3. CASE ~(job[r].kind = "login" /\ logins < MaxLogins) /\ job[r].kind # "logout"
  <2>1. Goes(r, "back") /\ UNCHANGED <<jar, serverVars>> /\ "back" \in Stages
        /\ ~Unabsorbed(r) /\ "back" \notin Outward
    BY <1>1, <1>3 DEF Serve, serverVars, Stages, AtServer, Unabsorbed, Outward
  <2>2. QED BY <1>1, <2>1, GoKept
<1> DEFINE made == 1 .. logins'
           Back(s) == [job[r] EXCEPT !.at = "back", !.sets = s]
<1>4. ASSUME NEW s \in made \cup {Ended}, job' = [job EXCEPT ![r] = Back(s)],
             logins' \in Nat, logins' >= logins, live' \subseteq made
      PROVE  /\ Types' /\ PlaceInv' /\ job'[r].at = "back" /\ job'[r].sets = s
             /\ job'[r].host = job[r].host /\ job'[r].kind = job[r].kind
             /\ \A q \in Requests \ {r} : job'[q] = job[q]
  <2>1. 1 .. logins \subseteq made
    BY <1>4 DEF Types, JobTypes
  <2> HIDE DEF made
  <2>2. \A q \in Requests : job[q] \in Jobs(made)
    BY <2>1 DEF Types, JobTypes, Jobs
  <2>3. job[r] \in Active(made)
    BY <1>2, <2>1 DEF Active
  <2>4. /\ Back(s) \in Active(made) /\ Back(s).at = "back" /\ Back(s).sets = s
        /\ Back(s).host = job[r].host /\ Back(s).kind = job[r].kind /\ Back(s).seen = job[r].seen
    BY <1>4, <2>3, Stagely DEF Active
  <2>5. Back(s) \in Jobs(made)
    BY <2>4, ActiveJobs
  <2> HIDE DEF Back
  <2>6. job'[r] = Back(s) /\ \A q \in Requests \ {r} : job'[q] = job[q]
    BY <1>4, SetJob DEF Types
  <2>7. job' \in [Requests -> Jobs(made)]
    BY <1>4, <2>2, <2>5 DEF Types, JobTypes
  <2>8. \A q \in Requests : job'[q].at \in AtServer => job'[q].host \in 1 .. hosts
    BY <1>2, <2>4, <2>6 DEF Types, JobTypes
  <2>9. jar \in [Hosts -> made \cup {None}]
    BY <2>1 DEF Types, JobTypes
  <2>10. Types'
    <3>1. ShellTypes'
      BY <1>1 DEF Types, ShellTypes, shellVars
    <3>2. JobTypes'
      BY <1>1, <1>4, <2>7, <2>8, <2>9 DEF Types, JobTypes, made, shellVars
    <3>3. QED BY <3>1, <3>2 DEF Types
  <2>11. PlaceOf(r)'
    BY <1>1, <2>4, <2>6 DEF PlaceOf, Pending, shellVars
  <2>12. PlaceInv'
    BY <1>1, <2>6, <2>11, PlaceStep
  <2>13. QED BY <2>4, <2>6, <2>10, <2>12
<1>5. CASE job[r].kind = "login" /\ logins < MaxLogins
  <2>1. /\ logins' = logins + 1 /\ live' = live \cup {logins + 1}
        /\ job' = [job EXCEPT ![r] = Back(logins + 1)]
    BY <1>5 DEF Serve, Types, JobTypes
  <2>2. /\ Types' /\ PlaceInv' /\ job'[r].at = "back" /\ job'[r].sets = logins + 1
        /\ job'[r].host = job[r].host /\ \A q \in Requests \ {r} : job'[q] = job[q]
    <3>1. logins + 1 \in made /\ logins' \in Nat /\ logins' >= logins /\ live' \subseteq made
      BY <2>1 DEF Types, JobTypes
    <3>2. QED BY <1>4, <2>1, <3>1
  <2>3. /\ ~Carrying(r)' /\ ~Unabsorbed(r) /\ job'[r].at \notin Outward
        /\ \A q \in Requests : Unabsorbed(q)' => q = r \/ Unabsorbed(q)
        /\ \A q \in Requests : Unabsorbed(q) => Unabsorbed(q)' /\ q # r
        /\ \A q \in Requests : Carrying(q)' => q # r /\ Carrying(q)
    BY <1>1, <2>2 DEF Carrying, Unabsorbed, Outward
  <2>4. ASSUME NEW q \in Requests, Unabsorbed(q) \/ Carrying(q)
        PROVE  job[q].sets # logins + 1 /\ job[q].carries # logins + 1
    <3>1. job[q] \in Active(1 .. logins)
      BY <2>4, Stagely, PendingIsActive DEF Types, JobTypes, Unabsorbed, Carrying
    <3>2. logins + 1 \notin (1 .. logins) \cup {None, Ended}
      <4>1. logins \in Nat /\ logins + 1 \in Nat
        BY DEF Types, JobTypes
      <4>2. None \notin Nat /\ Ended \notin Nat
        BY KeepAssumption
      <4>3. QED BY <4>1, <4>2
    <3>3. QED BY <3>1, <3>2 DEF Active
  <2>5. \A h \in Hosts : jar[h] # logins + 1
    BY KeepAssumption DEF Types, JobTypes
  <2>6. JarsOf'
    <3>1. \A q \in Requests : Unabsorbed(q) => Unabsorbed(q)' /\ job'[q] = job[q]
      BY <2>2, <2>3
    <3>2. ASSUME NEW h \in Hosts \ closed
          PROVE  jar[h] \in live' \cup {None} \/ lost
                 \/ \E q \in Requests : Unabsorbed(q)' /\ job'[q].host = h /\ job'[q].sets = Ended
      <4>1. CASE jar[h] \in live \cup {None} \/ lost
        BY <2>1, <4>1
      <4>2. CASE \E q \in Requests : Unabsorbed(q) /\ job[q].host = h /\ job[q].sets = Ended
        BY <3>1, <4>2
      <4>3. QED BY <4>1, <4>2 DEF JarInv, JarsOf
    <3>3. QED BY <1>1, <3>2 DEF JarInv, JarsOf, shellVars
  <2>7. ASSUME NEW q \in Requests PROVE BringsItsOwn(q)'
    <3>1. CASE q = r
      <4>1. /\ job'[r].sets # Ended /\ job'[r].sets \in live'
            /\ \A h \in Hosts : jar'[h] # job'[r].sets
        BY <1>1, <2>1, <2>2, <2>5, KeepAssumption DEF Types, JobTypes
      <4>2. \A p \in Requests : Unabsorbed(p)' /\ job'[p].sets = job'[r].sets => p = r
        BY <2>2, <2>3, <2>4
      <4>3. \A p \in Requests : Carrying(p)' => job'[p].carries # job'[r].sets
        BY <2>2, <2>3, <2>4
      <4>4. QED BY <3>1, <4>1, <4>2, <4>3 DEF BringsItsOwn
    <3>2. CASE q # r /\ Unabsorbed(q)
      <4>1. job'[q] = job[q] /\ BringsItsOwn(q) /\ job[q].sets # logins + 1
        BY <2>2, <2>4, <3>2 DEF JarInv
      <4>2. job[q].sets \in live => job[q].sets \in live'
        BY <2>1
      <4>3. \A p \in Requests : Unabsorbed(p)' /\ job'[p].sets = job[q].sets =>
              Unabsorbed(p) /\ job[p].sets = job[q].sets
        BY <2>2, <2>3, <4>1
      <4>4. \A p \in Requests : Carrying(p)' => Carrying(p) /\ job'[p] = job[p]
        BY <2>2, <2>3
      <4>5. QED BY <1>1, <3>2, <4>1, <4>2, <4>3, <4>4 DEF BringsItsOwn
    <3>3. QED BY <2>3, <3>1, <3>2 DEF BringsItsOwn
  <2>8. ASSUME NEW q \in Requests PROVE TakesItsOwn(q)'
    BY <1>1, <2>2, <2>3 DEF TakesItsOwn, JarInv
  <2>9. \A q \in Requests : job'[q].at \in Outward => job'[q].sets = None
    BY <2>2, <2>3 DEF JarInv
  <2>10. JarInv'
    BY <2>6, <2>7, <2>8, <2>9 DEF JarInv
  <2>11. QED BY <1>1, <2>2, <2>10 DEF Kept
<1>6. CASE job[r].kind = "logout"
  <2>1. /\ live' = live \ {job[r].carries} /\ logins' = logins
        /\ job' = [job EXCEPT ![r] = Back(Ended)]
    BY <1>6 DEF Serve, Types, JobTypes
  <2>2. /\ Types' /\ PlaceInv' /\ job'[r].at = "back" /\ job'[r].sets = Ended
        /\ job'[r].host = job[r].host /\ job'[r].kind = "logout"
        /\ \A q \in Requests \ {r} : job'[q] = job[q]
    <3>1. Ended \in made \cup {Ended} /\ logins' \in Nat /\ logins' >= logins /\ live' \subseteq made
      BY <2>1 DEF Types, JobTypes
    <3>2. QED BY <1>4, <1>6, <2>1, <3>1
  <2>3. /\ ~Carrying(r)' /\ ~Unabsorbed(r) /\ Unabsorbed(r)' /\ job'[r].at \notin Outward
        /\ \A q \in Requests : Unabsorbed(q)' => q = r \/ Unabsorbed(q)
        /\ \A q \in Requests : Unabsorbed(q) => Unabsorbed(q)' /\ q # r
        /\ \A q \in Requests : Carrying(q)' => q # r /\ Carrying(q)
    BY <1>1, <2>2 DEF Carrying, Unabsorbed, Outward
  <2>4. JarsOf'
    <3>1. ASSUME NEW h \in Hosts \ closed
          PROVE  jar[h] \in live' \cup {None} \/ lost
                 \/ \E q \in Requests : Unabsorbed(q)' /\ job'[q].host = h /\ job'[q].sets = Ended
      <4>1. CASE jar[h] \in live \cup {None} \/ lost
        <5>1. CASE jar[h] # None /\ jar[h] = job[r].carries
          <6>1. h = job[r].host
            BY <1>1, <5>1 DEF TakesItsOwn
          <6>2. QED BY <2>2, <2>3, <6>1
        <5>2. CASE ~(jar[h] # None /\ jar[h] = job[r].carries)
          BY <2>1, <4>1, <5>2
        <5>3. QED BY <5>1, <5>2
      <4>2. CASE \E q \in Requests : Unabsorbed(q) /\ job[q].host = h /\ job[q].sets = Ended
        BY <2>2, <2>3, <4>2
      <4>3. QED BY <4>1, <4>2 DEF JarInv, JarsOf
    <3>2. QED BY <1>1, <3>1 DEF JarInv, JarsOf, shellVars
  <2>5. ASSUME NEW q \in Requests PROVE BringsItsOwn(q)'
    <3>1. CASE q = r
      BY <2>2, <3>1 DEF BringsItsOwn
    <3>2. CASE q # r /\ Unabsorbed(q)
      <4>1. job'[q] = job[q] /\ BringsItsOwn(q)
        BY <2>2, <3>2 DEF JarInv
      <4>2. job[q].sets \notin {None, Ended} => job[q].sets \in live'
        BY <1>1, <2>1, <3>2, <4>1 DEF BringsItsOwn
      <4>3. \A p \in Requests : Unabsorbed(p)' /\ job'[p].sets = job[q].sets /\ job[q].sets # Ended
              => Unabsorbed(p) /\ job[p].sets = job[q].sets
        BY <2>2, <2>3
      <4>4. \A p \in Requests : Carrying(p)' => Carrying(p) /\ job'[p] = job[p]
        BY <2>2, <2>3
      <4>5. QED BY <1>1, <3>2, <4>1, <4>2, <4>3, <4>4 DEF BringsItsOwn
    <3>3. QED BY <2>3, <3>1, <3>2 DEF BringsItsOwn
  <2>6. ASSUME NEW q \in Requests PROVE TakesItsOwn(q)'
    BY <1>1, <2>2, <2>3 DEF TakesItsOwn, JarInv
  <2>7. \A q \in Requests : job'[q].at \in Outward => job'[q].sets = None
    BY <2>2, <2>3 DEF JarInv
  <2>8. JarInv'
    BY <2>4, <2>5, <2>6, <2>7 DEF JarInv
  <2>9. QED BY <1>1, <2>2, <2>8 DEF Kept
<1>7. QED BY <1>3, <1>5, <1>6

(* The answer's cookie goes into the jar of its own connection.              *)
LEMMA AbsorbKept ==
  ASSUME Types, PlaceInv, JarInv, NEW r \in Requests, Absorb(r)
  PROVE  Kept(r)
<1> DEFINE s == job[r].sets
           g == job[r].host
<1>1. /\ job[r].at = "absorb" /\ job[r].at \in Stages /\ job[r].at \in AtServer
      /\ Unabsorbed(r) /\ BringsItsOwn(r) /\ PlaceOf(r)
      /\ Goes(r, "body") /\ AtRequest /\ UNCHANGED <<gateVars, shellVars, asked, serverVars>>
      /\ "body" \in Stages /\ "body" \in AtServer /\ "body" \notin Outward
  BY DEF PlaceInv, JarInv, Absorb, Stages, AtServer, AtRequest, Unabsorbed, Outward
<1>2. /\ job[r] \in Active(1 .. logins) /\ g \in 1 .. hosts /\ g \in Hosts
      /\ s \in (1 .. logins) \cup {None, Ended}
  <2>1. job[r] \in Active(1 .. logins) /\ job[r].host \in 1 .. hosts
    BY <1>1, PendingIsActive DEF Types, JobTypes
  <2>2. QED BY <2>1, PlaceTypes DEF Types, Active
<1>3. /\ job'[r].at = "body" /\ job'[r].host = g /\ job'[r].seen = job[r].seen
      /\ \A q \in Requests \ {r} : job'[q] = job[q]
  BY <1>1, GoesOn
<1>4. /\ jar' = [jar EXCEPT ![g] = Absorbed(@, s)]
      /\ jar \in [Hosts -> (1 .. logins) \cup {None}]
  BY DEF Absorb, Types, JobTypes
<1>5. jar' = [jar EXCEPT ![g] = Absorbed(jar[g], s)]
  BY <1>2, <1>4
<1>6. Absorbed(jar[g], s) = (IF s = None THEN jar[g] ELSE IF s = Ended THEN None ELSE s)
  BY KeepAssumption DEF Absorbed
<1> HIDE DEF s, g
<1>7. /\ \A h \in Hosts \ {g} : jar'[h] = jar[h]
      /\ jar'[g] = IF s = None THEN jar[g] ELSE IF s = Ended THEN None ELSE s
      /\ jar' \in [Hosts -> (1 .. logins) \cup {None}]
  BY <1>2, <1>4, <1>5, <1>6
<1>8. Types'
  BY <1>1, <1>7, GoesTypes DEF serverVars
<1>9. PlaceInv'
  <2>1. PlaceOf(r)'
    BY <1>1, <1>3, Stagely DEF PlaceOf, Pending, shellVars, g
  <2>2. QED BY <1>1, <1>3, <2>1, PlaceStep
<1>10. /\ ~Carrying(r)' /\ ~Unabsorbed(r)' /\ ~Carrying(r)
       /\ \A q \in Requests : Unabsorbed(q)' => q # r /\ Unabsorbed(q) /\ job'[q] = job[q]
       /\ \A q \in Requests : Unabsorbed(q) /\ q # r => Unabsorbed(q)' /\ job'[q] = job[q]
       /\ \A q \in Requests : Carrying(q)' => q # r /\ Carrying(q) /\ job'[q] = job[q]
  BY <1>1, <1>3 DEF Carrying, Unabsorbed
<1>11. s \notin {None, Ended} =>
         /\ s \in live /\ \A h \in Hosts : jar[h] # s
         /\ \A q \in Requests : Unabsorbed(q) /\ job[q].sets = s => q = r
         /\ \A q \in Requests : Carrying(q) => job[q].carries # s
  BY <1>1 DEF BringsItsOwn, s
<1>12. \A h \in Hosts : jar'[h] # None => jar'[h] = jar[h] \/ (h = g /\ jar'[h] = s /\ s \notin {None, Ended})
  BY <1>2, <1>7
<1>13. JarsOf'
  <2>1. \A h \in Hosts : h > hosts => jar'[h] = None
    BY <1>2, <1>7 DEF JarInv, JarsOf, Types, ShellTypes, Hosts
  <2>2. ASSUME NEW h \in Hosts, NEW i \in Hosts, jar'[h] = jar'[i], jar'[h] # None PROVE h = i
    BY <1>11, <1>12, <2>2 DEF JarInv, JarsOf
  <2>3. ASSUME NEW h \in Hosts \ closed
        PROVE  jar'[h] \in live \cup {None} \/ lost
               \/ \E q \in Requests : Unabsorbed(q)' /\ job'[q].host = h /\ job'[q].sets = Ended
    <3>1. CASE h = g /\ s # None
      BY <1>7, <1>11, <3>1
    <3>2. CASE h # g \/ s = None
      <4>1. jar'[h] = jar[h]
        BY <1>7, <3>2
      <4>2. CASE jar[h] \in live \cup {None} \/ lost
        BY <4>1, <4>2
      <4>3. CASE \E q \in Requests : Unabsorbed(q) /\ job[q].host = h /\ job[q].sets = Ended
        <5>1. PICK q \in Requests : Unabsorbed(q) /\ job[q].host = h /\ job[q].sets = Ended
          BY <4>3
        <5>2. q # r
          BY <3>2, <5>1, KeepAssumption DEF s, g
        <5>3. QED BY <1>10, <5>1, <5>2
      <4>4. QED BY <4>2, <4>3 DEF JarInv, JarsOf
    <3>3. QED BY <3>1, <3>2
  <2>4. QED BY <1>1, <2>1, <2>2, <2>3 DEF JarsOf, shellVars, serverVars
<1>14. ASSUME NEW q \in Requests PROVE BringsItsOwn(q)'
  <2> SUFFICES ASSUME Unabsorbed(q)' PROVE BringsItsOwn(q)'
    BY DEF BringsItsOwn
  <2>1. q # r /\ Unabsorbed(q) /\ job'[q] = job[q] /\ BringsItsOwn(q) /\ live' = live
    BY <1>1, <1>10 DEF JarInv, serverVars
  <2>2. job[q].sets \notin {None, Ended} => job[q].sets # s
    BY <1>11, <2>1
  <2>3. job[q].sets \notin {None, Ended} => \A h \in Hosts : jar'[h] # job[q].sets
    BY <1>12, <2>1, <2>2 DEF BringsItsOwn
  <2>4. QED BY <1>10, <2>1, <2>3 DEF BringsItsOwn
<1>15. ASSUME NEW q \in Requests PROVE TakesItsOwn(q)'
  BY <1>10, <1>11, <1>12 DEF TakesItsOwn, JarInv
<1>16. \A q \in Requests : job'[q].at \in Outward => job'[q].sets = None
  BY <1>1, <1>3 DEF JarInv
<1>17. JarInv'
  BY <1>13, <1>14, <1>15, <1>16 DEF JarInv
<1>18. QED BY <1>1, <1>3, <1>8, <1>9, <1>17 DEF Kept

LEMMA RequestKept ==
  ASSUME Types, PlaceInv, JarInv, NEW r \in Requests, Steps(r) \/ Others(r)
  PROVE  Kept(r)
<1>1. \/ Page(r) \/ AskRefused(r) \/ LookRemote(r) \/ LookFolder(r) \/ LookRouter(r)
      \/ Proxy(r) \/ ReadJar(r) \/ Send(r) \/ Cancelled(r) \/ Receive(r) \/ RefuseRedirect(r)
      \/ Absorb(r) \/ Cut(r) \/ (\E k \in Kinds : Ask(r, k))
      \/ Serve(r) \/ Redirects(r) \/ Lose(r) \/ Forward(r)
  BY DEF Steps, Others
<1>2. QED BY <1>1, AskKept, IdleKept, LookKept, WayKept, ReadJarKept, ServeKept, AbsorbKept

-----------------------------------------------------------------------------
(* The shell's steps change every request, by what they note with it.        *)

Noting == AdoptRelease \/ CloseCurrent \/ SetRemote \/ OpenFolder \/ BecomeLocal \/ LetGo

LEMMA NotingShell ==
  ASSUME Types, PlaceInv, Noting
  PROVE  /\ ShellTypes' /\ Noted /\ UNCHANGED <<gateVars, jar, serverVars, asked>>
         /\ hosts' >= hosts /\ closed \subseteq closed'
         /\ adopting' # "no" => remote' = None /\ hosts' < MaxHosts
         /\ folder' = None => folder = None \/ remote' = None
<1>1. /\ ShellTypes /\ hosts \in Nat /\ folders \in Nat
      /\ adopting # "no" => remote = None /\ hosts < MaxHosts
  BY DEF Types, ShellTypes, PlaceInv
<1>2. /\ Noted /\ UNCHANGED <<gateVars, jar, serverVars, asked>>
  BY DEF Noting, AdoptRelease, CloseCurrent, SetRemote, OpenFolder, BecomeLocal, LetGo
<1>3. CASE AdoptRelease
  <2>1. /\ Release /\ adopting' = "close" /\ hosts < MaxHosts
        /\ UNCHANGED <<folder, arriving, hosts, folders>>
    BY <1>3 DEF AdoptRelease
  <2>2. QED BY <1>1, <1>2, <2>1, ReleaseTypes DEF ShellTypes, Release
<1>4. CASE CloseCurrent
  BY <1>1, <1>2, <1>4 DEF CloseCurrent, ShellTypes
<1>5. CASE SetRemote
  <2>1. /\ adopting = "set" /\ hosts' = hosts + 1 /\ remote' = hosts + 1 /\ adopting' = "no"
        /\ UNCHANGED <<folder, releasing, arriving, folders, closed>> /\ hosts < MaxHosts
    BY <1>1, <1>5 DEF SetRemote
  <2>2. hosts' \in 0 .. MaxHosts /\ 1 .. hosts \subseteq 1 .. hosts' /\ remote' \in 1 .. hosts'
    BY <1>1, <2>1, KeepAssumption DEF ShellTypes
  <2>3. QED BY <1>1, <1>2, <2>1, <2>2 DEF ShellTypes
<1>6. CASE OpenFolder
  <2>1. /\ folders' = folders + 1 /\ folder' = folders + 1 /\ arriving' = TRUE /\ folders < MaxFolders
        /\ UNCHANGED <<remote, releasing, adopting, hosts, closed>>
    BY <1>6 DEF OpenFolder
  <2>2. folders' \in 0 .. MaxFolders /\ folder' \in 1 .. folders' /\ folder' # None
    BY <1>1, <2>1, KeepAssumption DEF ShellTypes
  <2>3. QED BY <1>1, <1>2, <2>1, <2>2 DEF ShellTypes
<1>7. CASE BecomeLocal \/ LetGo
  <2>1. Release /\ UNCHANGED <<folder, adopting, hosts, folders>>
    BY <1>7 DEF BecomeLocal, LetGo
  <2>2. arriving' \in BOOLEAN
    BY <1>1, <1>7 DEF BecomeLocal, LetGo, ShellTypes
  <2>3. /\ {remote', releasing'} \subseteq (1 .. hosts) \cup {None} /\ closed' \subseteq 1 .. hosts
        /\ remote' = None /\ closed \subseteq closed'
    BY <1>1, <2>1, ReleaseTypes DEF Release
  <2>4. ShellTypes'
    BY <1>1, <2>1, <2>2, <2>3 DEF ShellTypes
  <2>5. QED BY <1>1, <1>2, <2>1, <2>3, <2>4
<1>8. QED BY <1>3, <1>4, <1>5, <1>6, <1>7 DEF Noting

LEMMA NotingKept ==
  ASSUME Types, PlaceInv, JarInv, Noting
  PROVE  /\ Types' /\ PlaceInv' /\ JarInv' /\ UNCHANGED gateVars
         /\ \A r \in Requests : job'[r].at = job[r].at
<1>1. /\ ShellTypes' /\ Noted /\ UNCHANGED <<gateVars, jar, live, lost>>
      /\ hosts' >= hosts /\ closed \subseteq closed'
      /\ adopting' # "no" => remote' = None /\ hosts' < MaxHosts
      /\ folder' = None => folder = None \/ remote' = None
  BY NotingShell DEF serverVars
<1>2. /\ Types'
      /\ \A r \in Requests :
           /\ job'[r].at = job[r].at /\ (~Pending(r) => job'[r] = job[r])
           /\ Pending(r) =>
                /\ job'[r].kind = job[r].kind /\ job'[r].host = job[r].host
                /\ job'[r].carries = job[r].carries /\ job'[r].sets = job[r].sets
                /\ job'[r].seen = job[r].seen \cup InPlace(remote', folder')
  BY NotingShell, NotedJobs
<1>3. ASSUME NEW r \in Requests PROVE PlaceOf(r)'
  <2>1. CASE ~Pending(r)
    BY <1>2, <2>1, Stagely DEF PlaceInv, PlaceOf, Pending
  <2>2. CASE Pending(r)
    <3>1. folder' = None /\ folder # None => None \in InPlace(remote', folder')
      BY <1>1 DEF InPlace
    <3>2. QED BY <1>2, <2>2, <3>1 DEF PlaceInv, PlaceOf, Pending
  <2>3. QED BY <2>1, <2>2
<1>4. PlaceInv'
  BY <1>1, <1>3 DEF PlaceInv
<1>5. \A r \in Requests :
        /\ (Unabsorbed(r)' <=> Unabsorbed(r)) /\ (Carrying(r)' <=> Carrying(r))
        /\ Unabsorbed(r) \/ Carrying(r) \/ job[r].at \in Outward =>
             /\ job'[r].kind = job[r].kind /\ job'[r].host = job[r].host
             /\ job'[r].carries = job[r].carries /\ job'[r].sets = job[r].sets
  BY <1>2 DEF Unabsorbed, Carrying, Pending, Outward
<1>6. JarsOf'
  <2>1. \A h \in Hosts : h > hosts' => h > hosts
    BY <1>1 DEF Types, ShellTypes, Hosts
  <2>2. ASSUME NEW h \in Hosts \ closed'
        PROVE  jar[h] \in live \cup {None} \/ lost
               \/ \E q \in Requests : Unabsorbed(q)' /\ job'[q].host = h /\ job'[q].sets = Ended
    BY <1>1, <1>5 DEF JarInv, JarsOf
  <2>3. QED BY <1>1, <2>1, <2>2 DEF JarInv, JarsOf
<1>7. ASSUME NEW r \in Requests PROVE BringsItsOwn(r)' /\ TakesItsOwn(r)'
  <2>1. BringsItsOwn(r)'
    BY <1>1, <1>5 DEF JarInv, BringsItsOwn
  <2>2. TakesItsOwn(r)'
    BY <1>1, <1>5 DEF JarInv, TakesItsOwn
  <2>3. QED BY <2>1, <2>2
<1>8. \A r \in Requests : job'[r].at \in Outward => job'[r].sets = None
  BY <1>2, <1>5 DEF JarInv
<1>9. QED BY <1>1, <1>2, <1>4, <1>6, <1>7, <1>8 DEF JarInv

(* The slot is let go of with its cookies gone.                              *)
LEMMA ClearJarKept ==
  ASSUME Types, PlaceInv, JarInv, ClearJar
  PROVE  /\ Types' /\ PlaceInv' /\ JarInv' /\ UNCHANGED <<gateVars, job>>
<1>1. /\ jar' = [jar EXCEPT ![releasing] = None] /\ releasing' = None /\ releasing # None
      /\ UNCHANGED <<gateVars, remote, folder, adopting, arriving, hosts, folders, closed,
                     live, logins, lost, job, asked>>
  BY DEF ClearJar, serverVars
<1>2. /\ releasing \in Hosts /\ jar' \in [Hosts -> (1 .. logins) \cup {None}]
      /\ \A h \in Hosts : jar'[h] = None \/ jar'[h] = jar[h]
  BY <1>1, PlaceTypes DEF Types, JobTypes
<1>3. Types'
  <2>1. ShellTypes'
    BY <1>1 DEF Types, ShellTypes
  <2>2. JobTypes'
    BY <1>1, <1>2 DEF Types, JobTypes
  <2>3. QED BY <2>1, <2>2 DEF Types
<1>4. PlaceInv'
  BY <1>1 DEF PlaceInv, PlaceOf, Pending
<1>5. JarsOf'
  <2>1. ASSUME NEW h \in Hosts \ closed
        PROVE  jar'[h] \in live \cup {None} \/ lost
               \/ \E q \in Requests : Unabsorbed(q)' /\ job'[q].host = h /\ job'[q].sets = Ended
    BY <1>1, <1>2 DEF JarInv, JarsOf, Unabsorbed
  <2>2. QED BY <1>1, <1>2, <2>1 DEF JarInv, JarsOf
<1>6. ASSUME NEW r \in Requests PROVE BringsItsOwn(r)' /\ TakesItsOwn(r)'
  <2>1. BringsItsOwn(r)'
    BY <1>1, <1>2 DEF JarInv, BringsItsOwn, Unabsorbed, Carrying
  <2>2. TakesItsOwn(r)'
    BY <1>1, <1>2 DEF JarInv, TakesItsOwn, Carrying
  <2>3. QED BY <2>1, <2>2
<1>7. QED BY <1>1, <1>3, <1>4, <1>5, <1>6 DEF JarInv

-----------------------------------------------------------------------------
(* The theorems.                                                             *)

Inv == Types /\ GateInv /\ PlaceInv /\ JarInv

LEMMA InvInit == Init => Inv
<1> SUFFICES ASSUME Init PROVE Inv
  OBVIOUS
<1>1. Types
  <2>1. ShellTypes
    <3>1. 0 \in 0 .. MaxHosts /\ 0 \in 0 .. MaxFolders
      BY KeepAssumption
    <3>2. QED BY <3>1 DEF Init, ShellTypes
  <2>2. Idle \in Jobs(1 .. logins) /\ Idle.at \notin AtServer
    BY ActiveJobs, Stagely
  <2>3. JobTypes
    BY <2>2 DEF Init, JobTypes
  <2>4. QED BY <2>1, <2>3 DEF Types
<1>2. GateInv
  <2>1. Queue(<<>>, 0) /\ ToSet(<<>>) = {} /\ Len(<<>>) = 0 /\ <<>> \in Seq(1 .. 0)
    BY EmptySeq, KeepAssumption DEF Queue, ToSet
  <2>2. QED BY <2>1 DEF Init, GateInv, GateTypes
<1>3. \A r \in Requests : job[r].at = "idle"
  BY ActiveJobs DEF Init
<1>4. PlaceInv
  BY <1>3, Stagely DEF Init, PlaceInv, PlaceOf, Pending
<1>5. JarInv
  BY <1>3 DEF Init, JarInv, JarsOf, BringsItsOwn, TakesItsOwn, Unabsorbed, Carrying, Outward
<1>6. QED BY <1>1, <1>2, <1>4, <1>5 DEF Inv

LEMMA InvNext == Inv /\ [Next]_vars => Inv'
<1> SUFFICES ASSUME Inv, [Next]_vars PROVE Inv'
  OBVIOUS
<1>1. Types /\ GateInv /\ PlaceInv /\ JarInv
  BY DEF Inv
<1>2. CASE Gate \/ UNCHANGED vars
  <2>1. UNCHANGED <<shellVars, jar, serverVars, job, asked>>
    BY <1>2 DEF Gate, Mint, Land, Handshake, HandshakeRefused, vars
  <2>2. GateInv'
    BY <1>1, <1>2, GateStep DEF vars
  <2>3. Types'
    BY <1>1, <2>1 DEF Types, ShellTypes, JobTypes, shellVars, serverVars
  <2>4. PlaceInv'
    BY <1>1, <2>1 DEF PlaceInv, PlaceOf, Pending, shellVars
  <2>5. JarInv'
    BY <1>1, <2>1 DEF JarInv, JarsOf, BringsItsOwn, TakesItsOwn, Unabsorbed, Carrying,
                      shellVars, serverVars
  <2>6. QED BY <2>2, <2>3, <2>4, <2>5 DEF Inv
<1>3. CASE Noting
  BY <1>1, <1>3, NotingKept, GateStep DEF Inv
<1>4. CASE ClearJar
  BY <1>1, <1>4, ClearJarKept, GateStep DEF Inv
<1>5. CASE \E r \in Requests : Steps(r) \/ Others(r)
  BY <1>1, <1>5, RequestKept, GateStep DEF Inv, Kept
<1>6. QED BY <1>2, <1>3, <1>4, <1>5 DEF Next, Moves, Noting

LEMMA InvAlways == Spec => []Inv
BY InvInit, InvNext, PTL DEF Spec

LEMMA InvTypeOK == Inv => TypeOK
<1> SUFFICES ASSUME Inv PROVE TypeOK
  OBVIOUS
<1>1. Types /\ GateInv
  BY DEF Inv
<1>2. QED BY <1>1 DEF TypeOK, Types, ShellTypes, JobTypes, GateInv, GateTypes, Queue

LEMMA InvServes == Inv => ServesItsWindow
<1> SUFFICES ASSUME Inv PROVE ServesItsWindow
  OBVIOUS
<1>1. Types /\ GateInv /\ PlaceInv /\ JarInv
  BY DEF Inv
<1>2. LinksWorkOnce
  BY <1>1, GateSound
<1>3. AnswersAreOfTheirTime
  BY <1>1 DEF AnswersAreOfTheirTime, PlaceInv, PlaceOf
<1>4. SessionIsLive
  <2> SUFFICES ASSUME NEW h \in Hosts \ closed, jar[h] # None, jar[h] \notin live, ~lost
               PROVE  \E r \in Requests : Pending(r) /\ job[r].host = h /\ job[r].kind = "logout"
    BY DEF SessionIsLive
  <2>1. PICK r \in Requests : Unabsorbed(r) /\ job[r].host = h /\ job[r].sets = Ended
    BY <1>1 DEF JarInv, JarsOf
  <2>2. QED BY <1>1, <2>1 DEF JarInv, BringsItsOwn, Unabsorbed, Pending
<1>5. QED BY <1>2, <1>3, <1>4, InvTypeOK DEF ServesItsWindow

(* TypeCorrect: what is numbered stays numbered in the order it was made, and *)
(* a request on its way to a server is on its way to one there was.           *)
THEOREM TypeCorrect == Spec => []TypeOK
BY InvAlways, InvTypeOK, PTL

(* A link of LaunchGate lets the window in once and only once; an answer of   *)
(* dispatch_api is one of the libraries in place while it was made; and the   *)
(* jar of a connection in use is behind its server only during a logout, or   *)
(* after an answer was lost.                                                  *)
THEOREM ServesItsWindowAlways == Spec => []ServesItsWindow
BY InvAlways, InvServes, PTL

(* RemoteHost::close: no request leaves for a server that was let go of.      *)
THEOREM NothingIsSentLateAlways == Spec => NothingIsSentLate
<1>1. ASSUME Inv, [Next]_vars, NEW r \in Requests, job'[r].at = "server", job[r].at # "server"
      PROVE  ~Closed(r)
  <2>1. Types /\ PlaceInv /\ JarInv
    BY <1>1 DEF Inv
  <2>2. CASE Gate \/ UNCHANGED vars
    BY <1>1, <2>2 DEF Gate, Mint, Land, Handshake, HandshakeRefused, vars
  <2>3. CASE Noting
    BY <1>1, <2>1, <2>3, NotingKept
  <2>4. CASE ClearJar
    BY <1>1, <2>1, <2>4, ClearJarKept
  <2>5. ASSUME NEW q \in Requests, Steps(q) \/ Others(q) PROVE ~Closed(r)
    <3>1. Kept(q)
      BY <2>1, <2>5, RequestKept
    <3>2. QED BY <1>1, <3>1 DEF Kept
  <2>6. QED BY <1>1, <2>2, <2>3, <2>4, <2>5 DEF Next, Moves, Noting
<1>2. Inv /\ [Next]_vars =>
        [\A r \in Requests : job'[r].at = "server" /\ job[r].at # "server" => ~Closed(r)]_vars
  BY <1>1
<1>3. QED BY <1>2, InvAlways, PTL DEF Spec, NothingIsSentLate
=============================================================================
