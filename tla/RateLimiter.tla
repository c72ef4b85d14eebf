----------------------------- MODULE RateLimiter -----------------------------
(* The fixed-window counter in front of the routes that cost something: one   *)
(* bucket per address and route, swept now and then and capped, with the      *)
(* order in which the buckets were made.  A request reads the clock before it *)
(* takes the lock, so attempts are not counted in the order of their times.   *)
EXTENDS Integers, FiniteSets, Functions

CONSTANTS
  Requests, \* requests that may be under way at once
  Keys,     \* an address and the pattern of a route
  Limit, Window,
  Cap,      \* MAX_TRACKED_KEYS
  Batch,    \* EVICTION_BATCH
  Second,   \* how many units of the clock a second has
  None,
  MaxTime, MaxAttempts, \* bounds: of the clock, of the attempts counted
  MaxSetBacks           \* bound: how often the clock is set back

Times == 0 .. MaxTime

(* What the constants are: MCParts assumes it of its instance.                *)
RulesAssumption ==
  /\ Limit \in [Keys -> Nat \ {0}] /\ Window \in [Keys -> Nat \ {0}] /\ IsFiniteSet(Keys)
  /\ Cap \in Nat \ {0} /\ Batch \in Nat /\ Second \in Nat \ {0}
  /\ MaxTime \in Nat /\ MaxAttempts \in Nat /\ MaxSetBacks \in Nat
  /\ None \notin Nat \cup [key : Keys, at : Times] \cup [start : Times, granted : Nat]
              \cup [key : Keys, at : Times, retry : Nat \cup {None}]

VARIABLES
  clock,
  asked,     \* asked[r]: the key of request r and the time it read, or None
  buckets,   \* a bucket for every key that is tracked
  order,     \* the tracked keys by their position in the order of insertion
  nextSeq, lastSweep,
  answer,    \* the last answer, with how many seconds a refused client is to wait
  setBacks, attempts

vars == <<clock, asked, buckets, order, nextSeq, lastSweep, answer, setBacks, attempts>>

-----------------------------------------------------------------------------
(* The two maps, as one value: what check does to them in turn.               *)

ExpiredLate(b, t) == t - b.start > b.window
Expired(b, t) == t - b.start >= b.window

RemoveUnordered(maps, K) ==
  [maps EXCEPT !.buckets = Restrict(@, DOMAIN @ \ K)]
Remove(maps, K) ==
  LET seqs == {maps.buckets[k].seq : k \in K \cap DOMAIN maps.buckets}
  IN  [buckets |-> Restrict(maps.buckets, DOMAIN maps.buckets \ K),
       order   |-> Restrict(maps.order, DOMAIN maps.order \ seqs)]

SweepDue(k, t) == lastSweep = None \/ t - lastSweep >= Window[k]
Swept(maps, k, t) ==
  IF SweepDue(k, t) THEN Remove(maps, {j \in DOMAIN maps.buckets : Expired(maps.buckets[j], t)})
  ELSE maps

(* Once there are Batch more than Cap, the oldest go until Cap are left.      *)
Evicted(maps) ==
  LET over   == Cardinality(DOMAIN maps.buckets) - Cap
      oldest == {s \in DOMAIN maps.order :
                   Cardinality({r \in DOMAIN maps.order : r < s}) < over}
  IN  IF over <= Batch THEN maps
      ELSE [buckets |-> Restrict(maps.buckets, DOMAIN maps.buckets \ {maps.order[s] : s \in oldest}),
            order   |-> Restrict(maps.order, DOMAIN maps.order \ oldest)]

Put(f, x, y) == [z \in DOMAIN f \cup {x} |-> IF z = x THEN y ELSE f[z]]

IsLive(maps, k, t) == k \in DOMAIN maps.buckets /\ ~Expired(maps.buckets[k], t)

(* A key without a window gets one, at the end of the order.                  *)
Opened(maps, k, t) ==
  LET gone == Remove(maps, {k})
  IN  IF IsLive(maps, k, t) THEN maps
      ELSE Evicted([buckets |-> Put(gone.buckets, k, [start |-> t, window |-> Window[k],
                                                      count |-> 0, seq |-> nextSeq]),
                    order   |-> Put(gone.order, nextSeq, k)])

RetryRoundedDown(b, t) == (b.start + b.window - t) \div Second

(* The seconds until the window ends, rounded up.                             *)
RetryAfter(b, t) ==
  ((IF b.start + b.window > t THEN b.start + b.window - t ELSE 0) + Second - 1) \div Second

Answered(k, t, b) ==
  [key |-> k, at |-> t, retry |-> IF b.count > Limit[k] THEN RetryAfter(b, t) ELSE None]

-----------------------------------------------------------------------------

Ask(r, k) ==
  /\ asked[r] = None /\ attempts < MaxAttempts
  /\ attempts' = attempts + 1
  /\ asked' = [asked EXCEPT ![r] = [key |-> k, at |-> clock]]
  /\ UNCHANGED <<clock, buckets, order, nextSeq, lastSweep, answer, setBacks>>

(* check, under the lock.                                                     *)
Check(r) ==
  LET k == asked[r].key
      t == asked[r].at
      before == Swept([buckets |-> buckets, order |-> order], k, t)
      maps == Opened(before, k, t)
      counted == [maps.buckets EXCEPT ![k].count = @ + 1]
  IN  /\ asked[r] # None
      /\ lastSweep' = IF SweepDue(k, t) THEN t ELSE lastSweep
      /\ buckets' = counted /\ order' = maps.order
      /\ nextSeq' = IF IsLive(before, k, t) THEN nextSeq ELSE nextSeq + 1
      /\ answer' = Answered(k, t, counted[k])
      /\ asked' = [asked EXCEPT ![r] = None]
      /\ UNCHANGED <<clock, setBacks, attempts>>

Tick == clock < MaxTime /\ clock' = clock + 1
        /\ UNCHANGED <<asked, buckets, order, nextSeq, lastSweep, answer, setBacks, attempts>>

SetBack == /\ setBacks < MaxSetBacks /\ setBacks' = setBacks + 1
           /\ \E t \in Times : t < clock /\ clock' = t
           /\ UNCHANGED <<asked, buckets, order, nextSeq, lastSweep, answer, attempts>>

Init ==
  /\ clock = 0 /\ asked = [r \in Requests |-> None]
  /\ buckets = <<>> /\ order = <<>> /\ nextSeq = 0 /\ lastSweep = None
  /\ answer = None /\ setBacks = 0 /\ attempts = 0

Next == \/ \E r \in Requests : Check(r) \/ \E k \in Keys : Ask(r, k)
        \/ Tick \/ SetBack

Spec == Init /\ [][Next]_vars

-----------------------------------------------------------------------------
(* Properties.                                                                *)

(* RateLimiter::check: the order lists every tracked key once, at the place   *)
(* its bucket names, so that what is evicted is the bucket made first; and    *)
(* the maps stay within the cap and its batch.                                *)
BooksAgree ==
  /\ DOMAIN buckets \subseteq Keys /\ DOMAIN order \subseteq 0 .. nextSeq - 1
  /\ order = [s \in {buckets[k].seq : k \in DOMAIN buckets} |->
                CHOOSE k \in DOMAIN buckets : buckets[k].seq = s]
  /\ Cardinality(DOMAIN order) = Cardinality(DOMAIN buckets)
  /\ Cardinality(DOMAIN buckets) <= Cap + Batch
  /\ \A k \in DOMAIN buckets : buckets[k].count > 0 /\ buckets[k].start \in Times

(* RateLimiter::check: seen from a key, this is RateBudget: no window grants  *)
(* more than the limit, none refuses before it has, and an open window is     *)
(* lost only while more keys are tracked than the cap and its batch.          *)
SmallerOf(m, n) == IF m < n THEN m ELSE n
WindowOf(k) ==
  IF k \notin DOMAIN buckets THEN None
  ELSE [start |-> buckets[k].start, granted |-> SmallerOf(buckets[k].count, Limit[k])]
AnswerOf ==
  IF answer = None THEN None
  ELSE [key |-> answer.key, at |-> answer.at,
        until |-> IF answer.retry = None THEN None
                  ELSE buckets[answer.key].start + buckets[answer.key].window]
Budget == INSTANCE RateBudget WITH
  Many <- Cap + Batch, window <- [k \in Keys |-> WindowOf(k)], answer <- AnswerOf
KeepsTheBudget == Budget!Spec

(* RateLimiter::check, Retry-After: a client that is refused and comes back   *)
(* when it was told to finds its window over, if its bucket is still there.   *)
RetryIsHonest ==
  answer # None /\ answer.retry # None =>
    answer.retry > 0 /\ Expired(buckets[answer.key], answer.at + answer.retry * Second)

LimiterIsHonest == BooksAgree /\ RetryIsHonest
=============================================================================
