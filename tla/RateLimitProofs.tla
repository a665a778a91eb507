--------------------------- MODULE RateLimitProofs ---------------------------
(***************************************************************************)
(* What RateLimit promises, for every capacity, refill time, size of the   *)
(* Map and set of subjects, and however often the clock is set back.       *)
(*                                                                         *)
(* The Map implements TokenBucket step by step (Refines).  That no subject *)
(* is let through in bursts follows from a balance: since it was let       *)
(* through for the i-th time its bucket has given Len - i + 1 tokens and   *)
(* has Level units left, and all of that was in a full bucket or has       *)
(* flowed in since.  That prune forgets the least recently used follows    *)
(* from the order of the Map being total and that of the last uses.        *)
(***************************************************************************)
EXTENDS RateLimit, FiniteSetTheorems, TLAPS

\* What a bucket holds at time t of the clock.
At(b, t) ==
    LET units == b.tokens + (t - b.updatedAt) * Capacity
    IN  IF units < Full THEN units ELSE Full

\* How much a clock set back may have taken out of a bucket.
Debt == (real - now) * Capacity

\* The Map, or what a request makes of it: buckets of the past that lack no more
\* than they gave and the clock took, in one total order, in which the later used
\* are later as long as the clock is not set back.
Buckets(m) ==
    /\ DOMAIN m.buckets \subseteq Keys /\ IsFiniteSet(DOMAIN m.buckets)
    /\ \A k \in DOMAIN m.buckets :
         /\ m.buckets[k] \in [tokens : Int, updatedAt : Clock]
         /\ m.buckets[k].updatedAt <= real
         /\ 0 - Debt <= m.buckets[k].tokens /\ m.buckets[k].tokens <= Full
         /\ 0 - Debt <= At(m.buckets[k], now)
InOrder(m) ==
    /\ m.older \subseteq (DOMAIN m.buckets) \X (DOMAIN m.buckets)
    /\ \A j, k \in DOMAIN m.buckets : j = k \/ <<j, k>> \in m.older \/ <<k, j>> \in m.older
    /\ \A i, j, k \in DOMAIN m.buckets :
         <<i, j>> \in m.older /\ <<j, k>> \in m.older => <<i, k>> \in m.older
    /\ now = real => \A j, k \in DOMAIN m.buckets :
         <<j, k>> \in m.older => m.buckets[j].updatedAt <= m.buckets[k].updatedAt

Clocks ==
    /\ real \in 0..MaxTime /\ now \in Clock /\ now <= real /\ real - now <= MaxBack
    /\ lastPruneAt \in Clock

Counted ==
    /\ passed \in [Keys -> Seq(0..MaxTime)]
    /\ \A k \in Keys : \A i \in 1..Len(passed[k]) : passed[k][i] <= real
    /\ forgotten \subseteq Keys

\* Since a subject was let through for the i-th time its bucket has given
\* Len - i + 1 tokens and has Level units left, and all of that was in a full
\* bucket or has flowed in since.
Balance ==
    \A k \in Keys \ forgotten : \A i \in 1..Len(passed[k]) :
        (Len(passed[k]) - i + 1) * Token + Level[k] <= Full + (real - passed[k][i]) * Capacity

Window ==
    \A k \in Keys \ forgotten : \A i, j \in 1..Len(passed[k]) :
        i <= j => (j - i + 1) * Token <= Full + (passed[k][j] - passed[k][i]) * Capacity

IInv == Clocks /\ Buckets(Map) /\ InOrder(Map) /\ Counted /\ Balance /\ Window

-----------------------------------------------------------------------------
(* Arithmetic                                                              *)

\* The sizes are numbers.
LEMMA Sizes ==
    /\ Full \in Nat /\ Token \in Nat \ {0} /\ Capacity \in Nat \ {0}
    /\ MaxTime \in Nat \ {0} /\ MaxBack \in Nat /\ MAX_BUCKETS \in Nat
    /\ Token <= Full
    /\ Clock \subseteq Int
<1>1. /\ Capacity \in Nat \ {0} /\ RefillMs \in Nat \ {0}
      /\ MaxBack \in Nat /\ MaxTime \in Nat \ {0}
  BY RateAssumption
<1>2. Capacity * RefillMs \in Nat /\ RefillMs <= Capacity * RefillMs
  BY <1>1
<1> QED
  BY <1>1, <1>2, RateAssumption DEF Full, Token, Clock

\* A factor distributes over the sums that occur.
LEMMA Times ==
    ASSUME NEW a \in Int, NEW b \in Int, NEW c \in Int
    PROVE  /\ a * c \in Int
           /\ (a + b) * c = a * c + b * c
           /\ (a + 1) * c = a * c + c
           /\ (a - 1) * c = a * c - c
  OBVIOUS

\* The elements of a sequence.
LEMMA Elements ==
    ASSUME NEW S, NEW q \in Seq(S), NEW h \in 1..Len(q)
    PROVE  q[h] \in S
  OBVIOUS

\* What a bucket holds is a number, and no more than fits.
LEMMA AtTyped ==
    ASSUME NEW b, NEW t \in Int, b.tokens \in Int, b.updatedAt \in Int
    PROVE  At(b, t) \in Int /\ At(b, t) <= Full
<1> DEFINE f == (t - b.updatedAt) * Capacity
<1>1. Full \in Int /\ Capacity \in Int
  BY Sizes
<1>2. f \in Int
  BY <1>1, Times
<1> HIDE DEF f
<1>3. At(b, t) = IF b.tokens + f < Full THEN b.tokens + f ELSE Full
  BY DEF At, f
<1> HIDE DEF Full
<1> QED
  BY <1>1, <1>2, <1>3

\* A tick of the clock adds Capacity units, as long as they fit; one back takes no
\* more out.
LEMMA AtMoves ==
    ASSUME NEW b, NEW t \in Int, b.tokens \in Int, b.updatedAt \in Int
    PROVE  /\ At(b, t + 1) = IF At(b, t) + Capacity < Full THEN At(b, t) + Capacity ELSE Full
           /\ At(b, t) - Capacity <= At(b, t - 1) /\ At(b, t - 1) <= At(b, t)
<1> DEFINE f == (t - b.updatedAt) * Capacity
<1>1. Full \in Int /\ Capacity \in Nat
  BY Sizes
<1>2. /\ f \in Int
      /\ (t + 1 - b.updatedAt) * Capacity = f + Capacity
      /\ (t - 1 - b.updatedAt) * Capacity = f - Capacity
  <2>1. /\ t - b.updatedAt \in Int /\ t + 1 - b.updatedAt = (t - b.updatedAt) + 1
        /\ t - 1 - b.updatedAt = (t - b.updatedAt) - 1
    OBVIOUS
  <2> QED
    BY <1>1, <2>1, Times
<1> HIDE DEF f
<1>3. At(b, t) = IF b.tokens + f < Full THEN b.tokens + f ELSE Full
  BY DEF At, f
<1>4. At(b, t + 1) = IF b.tokens + (f + Capacity) < Full
                        THEN b.tokens + (f + Capacity) ELSE Full
  BY <1>2 DEF At
<1>5. At(b, t - 1) = IF b.tokens + (f - Capacity) < Full
                        THEN b.tokens + (f - Capacity) ELSE Full
  BY <1>2 DEF At
<1> HIDE DEF Full
<1> QED
  BY <1>1, <1>2, <1>3, <1>4, <1>5

\* A bucket that was just used holds what it was left with.
LEMMA AtUse ==
    ASSUME NEW b, b.tokens \in Int, b.updatedAt \in Int, b.tokens <= Full
    PROVE  At(b, b.updatedAt) = b.tokens
<1>1. b.updatedAt - b.updatedAt = 0 /\ 0 * Capacity = 0 /\ Full \in Int
  BY Sizes
<1>2. At(b, b.updatedAt) = IF b.tokens + 0 < Full THEN b.tokens + 0 ELSE Full
  BY <1>1 DEF At
<1> HIDE DEF Full
<1> QED
  BY <1>1, <1>2

\* The debt is a number within its bound.
LEMMA DebtTyped ==
    ASSUME Clocks
    PROVE  Debt \in Nat /\ Debt <= MaxBack * Capacity
<1>1. /\ real - now \in Nat /\ real - now <= MaxBack /\ MaxBack \in Nat /\ Capacity \in Nat
  BY Sizes DEF Clocks
<1>2. (real - now) * Capacity \in Nat /\ (MaxBack - (real - now)) * Capacity \in Nat
  BY <1>1
<1>3. MaxBack * Capacity = (real - now) * Capacity + (MaxBack - (real - now)) * Capacity
  <2>1. MaxBack = (real - now) + (MaxBack - (real - now)) /\ MaxBack - (real - now) \in Int
    BY <1>1
  <2> QED
    BY <1>1, <2>1, Times
<1> QED
  BY <1>2, <1>3 DEF Debt

-----------------------------------------------------------------------------
(* The Map                                                                 *)

\* What a key is worth is what its bucket holds now.
LEMMA UnitsAre ==
    ASSUME Clocks, NEW m, Buckets(m), NEW k \in Keys
    PROVE  /\ Units(m, k) = IF k \in DOMAIN m.buckets THEN At(m.buckets[k], now) ELSE Full
           /\ Units(m, k) \in Int /\ Units(m, k) <= Full
           /\ 0 - Debt <= Units(m, k)
<1>1. Units(m, k) = IF k \in DOMAIN m.buckets THEN At(m.buckets[k], now) ELSE Full
  BY DEF Units, Refilled, Elapsed, At
<1>2. Full \in Nat /\ Clock \subseteq Int /\ now \in Int /\ Debt \in Nat
  BY Sizes, DebtTyped DEF Clocks
<1>3. CASE k \in DOMAIN m.buckets
  <2>1. /\ m.buckets[k].tokens \in Int /\ m.buckets[k].updatedAt \in Int
        /\ 0 - Debt <= At(m.buckets[k], now)
    BY <1>2, <1>3 DEF Buckets
  <2> QED
    BY <1>1, <1>2, <1>3, <2>1, AtTyped
<1>4. CASE k \notin DOMAIN m.buckets
  <2> HIDE DEF Full
  <2> QED
    BY <1>1, <1>2, <1>4
<1> QED
  BY <1>3, <1>4

\* Entries removed from the Map leave the others as they are.
LEMMA KeepHolds ==
    ASSUME NEW m, Buckets(m), InOrder(m), NEW K
    PROVE  /\ Buckets(Keep(m, K)) /\ InOrder(Keep(m, K))
           /\ DOMAIN Keep(m, K).buckets = DOMAIN m.buckets \cap K
           /\ \A k \in DOMAIN m.buckets \cap K : Keep(m, K).buckets[k] = m.buckets[k]
<1> DEFINE n == Keep(m, K)
<1>1. /\ DOMAIN n.buckets = DOMAIN m.buckets \cap K
      /\ \A k \in DOMAIN m.buckets \cap K : n.buckets[k] = m.buckets[k]
      /\ n.older = m.older \cap (K \X K)
  BY DEF Keep
<1> HIDE DEF n
<1>2. IsFiniteSet(DOMAIN n.buckets)
  BY <1>1, FS_Subset DEF Buckets
<1>3. Buckets(n)
  BY <1>1, <1>2 DEF Buckets
<1>4. InOrder(n)
  BY <1>1 DEF InOrder
<1> QED
  BY <1>1, <1>3, <1>4 DEF n

\* prune takes nothing from any subject, and makes full what it forgets.
LEMMA PruneHolds ==
    ASSUME Clocks, Buckets(Map), InOrder(Map)
    PROVE  /\ Buckets(MaybePruned) /\ InOrder(MaybePruned)
           /\ \A k \in DOMAIN MaybePruned.buckets :
                k \in DOMAIN buckets /\ MaybePruned.buckets[k] = buckets[k]
           /\ \A k \in Keys :
                Units(MaybePruned, k) =
                    IF k \in Dropped /\ Refilled(buckets[k]) < Full THEN Full ELSE Units(Map, k)
<1>1. CASE ~Due
  BY <1>1 DEF MaybePruned, Dropped, Map
<1>2. CASE Due
  <2> DEFINE f == Fresh(Map)
             n == Keep(f, Keys \ Overflow(f))
             left == {k \in DOMAIN buckets : ~Idle(buckets[k])}
  <2>1. MaybePruned = n /\ Dropped = Overflow(f)
    BY <1>2 DEF MaybePruned, Pruned, Dropped
  <2>2. f = Keep(Map, left)
    BY DEF Fresh, Map
  <2>3. /\ Buckets(f) /\ InOrder(f)
        /\ DOMAIN f.buckets = DOMAIN buckets \cap left
        /\ \A k \in DOMAIN buckets \cap left : f.buckets[k] = buckets[k]
    <3>1. Map.buckets = buckets
      BY DEF Map
    <3> QED
      BY <2>2, <3>1, KeepHolds
  <2>4. /\ Buckets(n) /\ InOrder(n)
        /\ DOMAIN n.buckets = DOMAIN f.buckets \cap (Keys \ Overflow(f))
        /\ \A k \in DOMAIN n.buckets : n.buckets[k] = f.buckets[k]
    BY <2>3, KeepHolds
  <2>5. Overflow(f) \subseteq DOMAIN f.buckets /\ DOMAIN buckets \subseteq Keys
    BY DEF Overflow, Buckets, Map
  <2> HIDE DEF f, n
  <2>6. ASSUME NEW k \in Keys
        PROVE  Units(n, k) =
                   IF k \in Overflow(f) /\ Refilled(buckets[k]) < Full THEN Full
                   ELSE Units(Map, k)
    <3>1. Units(Map, k) = IF k \in DOMAIN buckets THEN Refilled(buckets[k]) ELSE Full
      BY DEF Units, Map
    <3>2. Units(n, k) = IF k \in DOMAIN n.buckets THEN Refilled(n.buckets[k]) ELSE Full
      BY DEF Units
    <3>3. CASE k \in DOMAIN n.buckets
      BY <2>3, <2>4, <3>1, <3>2, <3>3
    <3>4. Units(Map, k) \in Int /\ Units(Map, k) <= Full /\ Full \in Int
      BY UnitsAre, Sizes
    <3>5. CASE k \in DOMAIN buckets /\ k \notin left
      <4>1. Refilled(buckets[k]) >= Full
        BY <3>5 DEF Idle
      <4>2. Units(Map, k) = Refilled(buckets[k]) /\ Units(n, k) = Full
        BY <2>3, <2>4, <3>1, <3>2, <3>5
      <4> HIDE DEF Full
      <4> QED
        BY <3>4, <4>1, <4>2
    <3>6. CASE k \in Overflow(f)
      <4>1. Units(Map, k) = Refilled(buckets[k]) /\ Units(n, k) = Full
        BY <2>3, <2>4, <2>5, <3>1, <3>2, <3>6
      <4> HIDE DEF Full
      <4> QED
        BY <3>4, <3>6, <4>1
    <3>7. CASE k \notin DOMAIN buckets
      BY <2>3, <2>4, <2>5, <3>1, <3>2, <3>7
    <3> QED
      BY <2>3, <2>4, <3>3, <3>5, <3>6, <3>7
  <2> QED
    BY <2>1, <2>3, <2>4, <2>6
<1> QED
  BY <1>1, <1>2

\* take costs the subject it is about a token, if it has one, and the others
\* nothing.
LEMMA TakeHolds ==
    ASSUME Clocks, NEW m, Buckets(m), InOrder(m), NEW k \in Keys
    PROVE  /\ Buckets(Taken(m, k)) /\ InOrder(Taken(m, k))
           /\ \A j \in Keys : Units(Taken(m, k), j) =
                Units(m, j) - (IF j = k /\ Allowed(m, k) THEN Token ELSE 0)
<1> DEFINE n == Taken(m, k)
           left == Units(m, k) - (IF Allowed(m, k) THEN Token ELSE 0)
           b == [tokens |-> left, updatedAt |-> now]
<1>1. /\ DOMAIN n.buckets = DOMAIN m.buckets \cup {k}
      /\ n.buckets[k] = b
      /\ \A j \in DOMAIN m.buckets \ {k} : n.buckets[j] = m.buckets[j]
      /\ n.older = (m.older \cap ((Keys \ {k}) \X (Keys \ {k})))
                     \cup ((DOMAIN m.buckets \ {k}) \X {k})
  BY DEF Taken, Keep
<1>2. left \in Int /\ left <= Full /\ 0 - Debt <= left
  <2>1. Full \in Int /\ Token \in Nat /\ Debt \in Nat
    BY Sizes, DebtTyped
  <2>2. Units(m, k) \in Int /\ Units(m, k) <= Full /\ 0 - Debt <= Units(m, k)
    BY UnitsAre
  <2> HIDE DEF Full, Token
  <2> QED
    BY <2>1, <2>2 DEF Allowed
<1>3. b \in [tokens : Int, updatedAt : Clock] /\ b.tokens = left /\ b.updatedAt = now
  BY <1>2 DEF Clocks
<1>4. At(b, now) = left
  <2>1. b.updatedAt \in Int /\ b.tokens \in Int /\ b.tokens <= Full
    BY <1>2, <1>3, Sizes
  <2> HIDE DEF b, left
  <2> QED
    BY <1>3, <2>1, AtUse
<1> HIDE DEF n, b, left
<1>5. now <= real /\ now \in Int /\ real \in Int
  BY Sizes DEF Clocks
<1>6. IsFiniteSet(DOMAIN n.buckets)
  BY <1>1, FS_AddElement DEF Buckets
<1>7. Buckets(n)
  <2>1. ASSUME NEW j \in DOMAIN n.buckets
        PROVE  /\ n.buckets[j] \in [tokens : Int, updatedAt : Clock]
               /\ n.buckets[j].updatedAt <= real
               /\ 0 - Debt <= n.buckets[j].tokens /\ n.buckets[j].tokens <= Full
               /\ 0 - Debt <= At(n.buckets[j], now)
    <3>1. CASE j = k
      BY <1>1, <1>2, <1>3, <1>4, <1>5, <3>1
    <3>2. CASE j # k
      <4>1. j \in DOMAIN m.buckets /\ n.buckets[j] = m.buckets[j]
        BY <1>1, <3>2
      <4> QED
        BY <4>1 DEF Buckets
    <3> QED
      BY <3>1, <3>2
  <2> QED
    BY <1>1, <1>6, <2>1 DEF Buckets
<1>8. InOrder(n)
  <2>1. \A i, j \in DOMAIN n.buckets :
            <<i, j>> \in n.older <=> \/ i # k /\ j # k /\ <<i, j>> \in m.older
                                     \/ i # k /\ j = k
    BY <1>1 DEF Buckets
  <2>2. n.older \subseteq (DOMAIN n.buckets) \X (DOMAIN n.buckets)
    BY <1>1 DEF InOrder
  <2>3. \A j, i \in DOMAIN n.buckets : j = i \/ <<j, i>> \in n.older \/ <<i, j>> \in n.older
    BY <1>1, <2>1 DEF InOrder
  <2>4. \A h, i, j \in DOMAIN n.buckets :
            <<h, i>> \in n.older /\ <<i, j>> \in n.older => <<h, j>> \in n.older
    BY <1>1, <2>1 DEF InOrder
  <2>5. ASSUME now = real, NEW i \in DOMAIN n.buckets, NEW j \in DOMAIN n.buckets,
               <<i, j>> \in n.older
        PROVE  n.buckets[i].updatedAt <= n.buckets[j].updatedAt
    <3>1. i # k /\ i \in DOMAIN m.buckets /\ n.buckets[i] = m.buckets[i]
      BY <1>1, <2>1, <2>5
    <3>2. CASE j = k
      BY <1>1, <1>3, <2>5, <3>1, <3>2 DEF Buckets
    <3>3. CASE j # k
      BY <1>1, <2>1, <2>5, <3>1, <3>3 DEF InOrder
    <3> QED
      BY <3>2, <3>3
  <2> QED
    BY <2>2, <2>3, <2>4, <2>5 DEF InOrder
<1>9. ASSUME NEW j \in Keys
      PROVE  Units(n, j) = Units(m, j) - (IF j = k /\ Allowed(m, k) THEN Token ELSE 0)
  <2>1. Units(n, j) = IF j \in DOMAIN n.buckets THEN At(n.buckets[j], now) ELSE Full
    BY <1>7, UnitsAre
  <2>2. /\ Units(m, j) = IF j \in DOMAIN m.buckets THEN At(m.buckets[j], now) ELSE Full
        /\ Units(m, j) \in Int
    BY UnitsAre
  <2>3. CASE j = k
    BY <1>1, <1>4, <2>1, <2>3 DEF left
  <2>4. CASE j # k
    BY <1>1, <2>1, <2>2, <2>4
  <2> QED
    BY <2>3, <2>4
<1> QED
  BY <1>7, <1>8, <1>9 DEF n

-----------------------------------------------------------------------------
(* The steps                                                               *)

\* The server starts with an empty Map.
LEMMA InitHolds == Init => IInv
<1> SUFFICES ASSUME Init PROVE IInv
  OBVIOUS
<1>1. /\ real = 0 /\ now = 0 /\ lastPruneAt = 0 /\ buckets = << >> /\ older = {}
      /\ passed = [k \in Keys |-> << >>] /\ forgotten = {}
  BY DEF Init
<1>2. Clocks
  BY <1>1, Sizes DEF Clocks, Clock
<1>3. DOMAIN Map.buckets = {} /\ Map.older = {}
  BY <1>1 DEF Map
<1>4. Buckets(Map) /\ InOrder(Map)
  BY <1>3, FS_EmptySet DEF Buckets, InOrder
<1>5. \A k \in Keys : passed[k] = << >> /\ Len(passed[k]) = 0
  BY <1>1
<1>6. Counted
  BY <1>1, <1>5 DEF Counted
<1>7. Balance /\ Window
  BY <1>5 DEF Balance, Window
<1> QED
  BY <1>2, <1>4, <1>6, <1>7 DEF IInv

\* What a step of the clock does to each subject's bucket.
LEMMA ClockFlows ==
    ASSUME IInv, Tick \/ ClockBack, NEW k \in Keys
    PROVE  /\ Level[k] \in Int /\ Level[k] <= Full /\ Level'[k] \in Int /\ Level'[k] <= Full
           /\ Tick => Level'[k] = IF Level[k] + Capacity < Full THEN Level[k] + Capacity
                                 ELSE Full
           /\ ClockBack => Level[k] - Capacity <= Level'[k] /\ Level'[k] <= Level[k]
<1>1. buckets' = buckets /\ Map.buckets = buckets
  BY DEF Tick, ClockBack, Map
<1>2. /\ now \in Int /\ Full \in Nat /\ Capacity \in Nat /\ Clock \subseteq Int
      /\ Tick => now' = now + 1
      /\ ClockBack => now' = now - 1
  BY Sizes DEF IInv, Clocks, Tick, ClockBack
<1>3. Level[k] = IF k \in DOMAIN buckets THEN At(buckets[k], now) ELSE Full
  BY DEF Level, Units, Map, At, Refilled, Elapsed
<1>4. Level'[k] = IF k \in DOMAIN buckets THEN At(buckets[k], now') ELSE Full
  BY <1>1 DEF Level, Units, Map, At, Refilled, Elapsed
<1> HIDE DEF Full
<1>5. CASE k \in DOMAIN buckets
  <2>1. buckets[k].tokens \in Int /\ buckets[k].updatedAt \in Int
    BY <1>1, <1>2, <1>5 DEF IInv, Buckets
  <2>2. At(buckets[k], now) \in Int /\ At(buckets[k], now) <= Full
    BY <1>2, <2>1, AtTyped
  <2>3. At(buckets[k], now') \in Int /\ At(buckets[k], now') <= Full
    <3>1. now' \in Int
      BY <1>2
    <3> QED
      BY <2>1, <3>1, AtTyped
  <2>4. /\ Tick => At(buckets[k], now') =
             IF At(buckets[k], now) + Capacity < Full THEN At(buckets[k], now) + Capacity
             ELSE Full
        /\ ClockBack => /\ At(buckets[k], now) - Capacity <= At(buckets[k], now')
                        /\ At(buckets[k], now') <= At(buckets[k], now)
    BY <1>2, <2>1, AtMoves
  <2> QED
    BY <1>3, <1>4, <1>5, <2>2, <2>3, <2>4
<1>6. CASE k \notin DOMAIN buckets
  BY <1>2, <1>3, <1>4, <1>6
<1> QED
  BY <1>5, <1>6

\* What flows in is accounted for by the time that has passed.
LEMMA FlowBalance ==
    ASSUME IInv, NEW d \in Nat, real' = real + d, UNCHANGED <<passed, forgotten>>,
           \A k \in Keys : /\ Level[k] \in Int /\ Level'[k] \in Int
                           /\ Level'[k] <= Level[k] + d * Capacity
    PROVE  Balance' /\ Window'
<1>1. Window'
  BY DEF IInv, Window
<1>2. Full \in Int /\ Token \in Int /\ Capacity \in Int /\ real \in Int
  BY Sizes DEF IInv, Clocks
<1>3. Balance'
  <2> SUFFICES ASSUME NEW k \in Keys \ forgotten, NEW i \in 1..Len(passed[k])
               PROVE  (Len(passed[k]) - i + 1) * Token + Level'[k]
                        <= Full + (real' - passed[k][i]) * Capacity
    BY DEF Balance
  <2> DEFINE n == (Len(passed[k]) - i + 1) * Token
             t == real - passed[k][i]
             tc == t * Capacity
             dc == d * Capacity
  <2>1. passed[k] \in Seq(0..MaxTime) /\ passed[k][i] \in Int
    BY Sizes DEF IInv, Counted
  <2>2. Len(passed[k]) - i + 1 \in Int /\ t \in Int /\ real' - passed[k][i] = t + d
    BY <1>2, <2>1
  <2>3. n + Level[k] <= Full + tc
    BY DEF IInv, Balance
  <2>4. (real' - passed[k][i]) * Capacity = tc + dc
    <3> HIDE DEF t
    <3> QED
      BY <1>2, <2>2, Times
  <2>5. n \in Int /\ tc \in Int /\ dc \in Int
    BY <1>2, <2>2, Times
  <2>6. Level[k] \in Int /\ Level'[k] \in Int /\ Level'[k] <= Level[k] + dc
    OBVIOUS
  <2> HIDE DEF n, t, tc, dc, Full
  <2>7. n + Level'[k] <= Full + (tc + dc)
    BY <1>2, <2>3, <2>5, <2>6
  <2> QED
    BY <2>4, <2>7 DEF n
<1> QED
  BY <1>1, <1>3

\* The clock goes on, or is set back.
LEMMA ClockHolds ==
    ASSUME IInv, Tick \/ ClockBack
    PROVE  IInv'
<1>1. /\ Tick => real' = real + 1 /\ now' = now + 1 /\ real < MaxTime
      /\ ClockBack => real' = real /\ now' = now - 1 /\ real - now < MaxBack
      /\ UNCHANGED <<buckets, older, lastPruneAt, passed, forgotten>>
  BY DEF Tick, ClockBack
<1>2. Clocks /\ Buckets(Map) /\ InOrder(Map) /\ Counted
  BY DEF IInv
<1>3. /\ real \in Nat /\ now \in Int /\ now <= real /\ real <= MaxTime /\ 0 - MaxBack <= now
      /\ Capacity \in Nat /\ MaxBack \in Nat /\ MaxTime \in Nat /\ Full \in Nat
  BY <1>2, Sizes DEF Clocks, Clock
<1>4. Clocks'
  BY <1>1, <1>2, <1>3 DEF Clocks, Clock
<1>5. /\ Debt \in Nat /\ Debt' \in Nat /\ Debt <= Debt'
      /\ ClockBack => Debt' = Debt + Capacity
  <2>1. /\ Tick => real' - now' = real - now
        /\ ClockBack => real' - now' = (real - now) + 1
        /\ real - now \in Int
    BY <1>1, <1>3
  <2>2. (real - now + 1) * Capacity = (real - now) * Capacity + Capacity
    BY <1>3, <2>1, Times
  <2>3. Debt \in Nat
    BY <1>2, DebtTyped
  <2>4. /\ Tick => Debt' = Debt
        /\ ClockBack => Debt' = Debt + Capacity
    BY <2>1, <2>2 DEF Debt
  <2> QED
    BY <1>3, <2>3, <2>4
<1>6. Buckets(Map)'
  <2>1. ASSUME NEW k \in DOMAIN buckets
        PROVE  /\ buckets[k].updatedAt <= real'
               /\ 0 - Debt' <= buckets[k].tokens
               /\ 0 - Debt' <= At(buckets[k], now')
    <3>1. /\ buckets[k].tokens \in Int /\ buckets[k].updatedAt \in Int
          /\ buckets[k].updatedAt <= real
          /\ 0 - Debt <= buckets[k].tokens /\ 0 - Debt <= At(buckets[k], now)
      BY <1>2, Sizes DEF Buckets, Map
    <3>2. real <= real' /\ real' \in Int
      BY <1>1, <1>3
    <3>3. At(buckets[k], now) \in Int
      BY <1>3, <3>1, AtTyped
    <3>4. /\ Tick => At(buckets[k], now') = IF At(buckets[k], now) + Capacity < Full
                                              THEN At(buckets[k], now) + Capacity ELSE Full
          /\ ClockBack => At(buckets[k], now) - Capacity <= At(buckets[k], now')
      BY <1>1, <1>3, <3>1, AtMoves
    <3>5. At(buckets[k], now') \in Int
      <4>1. now' \in Int
        BY <1>1, <1>3
      <4> QED
        BY <3>1, <4>1, AtTyped
    <3>6. 0 - Debt' <= At(buckets[k], now')
      <4> HIDE DEF Full
      <4> QED
        BY <1>3, <1>5, <3>1, <3>3, <3>4, <3>5
    <3> QED
      BY <1>3, <1>5, <3>1, <3>2, <3>6
  <2> QED
    BY <1>1, <1>2, <2>1 DEF Buckets, Map, At
<1>7. InOrder(Map)'
  <2>1. now' = real' => now = real
    BY <1>1, <1>3
  <2> QED
    BY <1>1, <1>2, <2>1 DEF InOrder, Map
<1>8. Counted'
  <2>1. ASSUME NEW k \in Keys, NEW i \in 1..Len(passed[k])
        PROVE  passed[k][i] <= real'
    <3>1. passed[k] \in Seq(0..MaxTime) /\ passed[k][i] \in Int /\ passed[k][i] <= real
      BY <1>2, <1>3 DEF Counted
    <3> QED
      BY <1>1, <1>3, <3>1
  <2> QED
    BY <1>1, <1>2, <2>1 DEF Counted
<1>9. Balance' /\ Window'
  <2>1. 1 * Capacity = Capacity /\ 0 * Capacity = 0
    BY <1>3
  <2>2. CASE Tick
    <3>1. \A k \in Keys : /\ Level[k] \in Int /\ Level'[k] \in Int
                          /\ Level'[k] <= Level[k] + 1 * Capacity
      <4> HIDE DEF Full
      <4> QED
        BY <1>3, <2>1, <2>2, ClockFlows
    <3> QED
      BY <1>1, <2>2, <3>1, FlowBalance
  <2>3. CASE ClockBack
    <3>1. \A k \in Keys : /\ Level[k] \in Int /\ Level'[k] \in Int
                          /\ Level'[k] <= Level[k] + 0 * Capacity
      BY <2>1, <2>3, ClockFlows
    <3>2. real' = real + 0
      BY <1>1, <1>3, <2>3
    <3> QED
      BY <1>1, <3>1, <3>2, FlowBalance
  <2> QED
    BY <2>2, <2>3
<1> QED
  BY <1>4, <1>6, <1>7, <1>8, <1>9 DEF IInv

\* A request takes a token from each bucket that lets it through, after some were
\* forgotten.
Takes(F, K) ==
    /\ F \subseteq Keys /\ K \subseteq Keys
    /\ \A k \in K : (IF k \in F THEN Full ELSE Level[k]) >= Token
    /\ \A k \in Keys : Level'[k] = (IF k \in F THEN Full ELSE Level[k])
                                      - (IF k \in K THEN Token ELSE 0)
    /\ passed' = [k \in Keys |-> IF k \in K THEN Append(passed[k], real) ELSE passed[k]]
    /\ forgotten' = forgotten \cup F
    /\ real' = real

\* A request to one of the routes is such a step, and leaves a Map.
LEMMA RequestTakes ==
    ASSUME IInv, NEW ip \in Ips, NEW email \in Emails \cup {Absent}, Request(ip, email)
    PROVE  /\ Buckets(Map)' /\ InOrder(Map)'
           /\ \E F, K : Takes(F, K)
<1> DEFINE m0 == MaybePruned
           m1 == Taken(m0, ip)
           asked == Allowed(m0, ip) /\ email # Absent
           m2 == IF asked THEN Taken(m1, email) ELSE m1
           K == {k \in {ip} : Allowed(m0, ip)}
                  \cup {k \in {email} : asked /\ Allowed(m1, email)}
           F == {k \in Dropped : Refilled(buckets[k]) < Full}
<1>1. /\ buckets' = m2.buckets /\ older' = m2.older
      /\ passed' = [k \in Keys |-> IF k \in K THEN Append(passed[k], real) ELSE passed[k]]
      /\ forgotten' = forgotten \cup F
      /\ real' = real /\ now' = now
  BY DEF Request
<1>2. Clocks /\ Buckets(Map) /\ InOrder(Map) /\ ip \in Keys
  BY DEF IInv, Keys
<1>3. /\ Buckets(m0) /\ InOrder(m0)
      /\ \A k \in Keys : Units(m0, k) = IF k \in F THEN Full ELSE Units(Map, k)
  BY <1>2, PruneHolds
<1>4. /\ Buckets(m1) /\ InOrder(m1)
      /\ \A j \in Keys :
           Units(m1, j) = Units(m0, j) - (IF j = ip /\ Allowed(m0, ip) THEN Token ELSE 0)
  BY <1>2, <1>3, TakeHolds
<1>5. asked => email \in Keys /\ email # ip
  BY RateAssumption DEF Keys
<1>6. /\ Buckets(m2) /\ InOrder(m2)
      /\ \A j \in Keys :
           Units(m2, j) =
             Units(m1, j) - (IF j = email /\ asked /\ Allowed(m1, email) THEN Token ELSE 0)
  <2>1. CASE asked
    BY <1>2, <1>4, <1>5, <2>1, TakeHolds
  <2>2. CASE ~asked
    <3>1. m2 = m1
      BY <2>2
    <3>2. \A j \in Keys : Units(m1, j) \in Int
      BY <1>2, <1>4, UnitsAre
    <3> HIDE DEF asked, m1, m2
    <3> QED
      BY <1>4, <2>2, <3>1, <3>2
  <2> QED
    BY <2>1, <2>2
<1>7. \A k \in Keys : Level'[k] = Units(m2, k) /\ Level[k] = Units(Map, k)
  <2> HIDE DEF m2
  <2> QED
    BY <1>1 DEF Level, Units, Map, Refilled, Elapsed
<1>8. \A k \in Keys : Units(m0, k) \in Int /\ Units(m1, k) \in Int
  BY <1>2, <1>3, <1>4, UnitsAre
<1>9. F \subseteq Keys
  <2>1. Dropped \subseteq DOMAIN buckets
    BY DEF Dropped, Overflow, Fresh, Keep, Map
  <2> QED
    BY <1>2, <2>1 DEF Buckets, Map
<1>10. Buckets(Map)' /\ InOrder(Map)'
  <2>1. Map'.buckets = m2.buckets /\ Map'.older = m2.older
    BY <1>1 DEF Map
  <2> HIDE DEF m2
  <2>2. Buckets(Map)'
    BY <1>1, <1>6, <2>1 DEF Buckets, Debt, At
  <2>3. InOrder(Map)'
    BY <1>1, <1>6, <2>1 DEF InOrder
  <2> QED
    BY <2>2, <2>3
<1>11. K \subseteq Keys
  BY <1>2, <1>5
<1>12. ASSUME NEW k \in Keys
       PROVE  /\ k \in K <=> \/ k = ip /\ Allowed(m0, ip)
                             \/ k = email /\ asked /\ Allowed(m1, email)
              /\ ~(k = ip /\ k = email /\ asked)
  BY <1>5
<1>13. ASSUME NEW k \in Keys
       PROVE  /\ k \in K => Units(m0, k) >= Token
              /\ Level'[k] = Units(m0, k) - (IF k \in K THEN Token ELSE 0)
  <2>1. /\ Units(m1, k) = Units(m0, k) - (IF k = ip /\ Allowed(m0, ip) THEN Token ELSE 0)
        /\ Units(m2, k) =
             Units(m1, k) - (IF k = email /\ asked /\ Allowed(m1, email) THEN Token ELSE 0)
        /\ Units(m0, k) \in Int /\ Units(m1, k) \in Int /\ Token \in Nat
    BY <1>4, <1>6, <1>8, Sizes
  <2>2. /\ Allowed(m0, ip) <=> Units(m0, ip) >= Token
        /\ Allowed(m1, email) <=> Units(m1, email) >= Token
    BY DEF Allowed
  <2> HIDE DEF m0, m1, m2, asked, K, Token
  <2>3. CASE k = ip /\ Allowed(m0, ip)
    BY <1>7, <1>12, <2>1, <2>2, <2>3
  <2>4. CASE k = email /\ asked /\ Allowed(m1, email)
    BY <1>7, <1>12, <2>1, <2>2, <2>4
  <2>5. CASE k \notin K
    BY <1>7, <1>12, <2>1, <2>5
  <2> QED
    BY <1>12, <2>3, <2>4, <2>5
<1>14. Takes(F, K)
  <2> HIDE DEF m0, m1, m2, asked, K, F
  <2>1. \A k \in Keys : Units(m0, k) = IF k \in F THEN Full ELSE Level[k]
    BY <1>3, <1>7
  <2> QED
    BY <1>1, <1>9, <1>11, <1>13, <2>1 DEF Takes
<1> QED
  BY <1>10, <1>14

\* A token that is taken leaves the bucket and is counted.
LEMMA TakesBalance ==
    ASSUME IInv, NEW F, NEW K, Takes(F, K)
    PROVE  Counted' /\ Balance' /\ Window'
<1> DEFINE kept(k) == IF k \in F THEN Full ELSE Level[k]
<1>0. /\ Full \in Nat /\ Token \in Nat \ {0} /\ Capacity \in Nat \ {0} /\ MaxTime \in Nat
      /\ real \in 0..MaxTime
  BY Sizes DEF IInv, Clocks
<1>1. /\ F \subseteq Keys /\ K \subseteq Keys /\ real' = real /\ forgotten' = forgotten \cup F
      /\ \A k \in K : kept(k) >= Token
      /\ \A k \in Keys : Level'[k] = kept(k) - (IF k \in K THEN Token ELSE 0)
      /\ passed' = [k \in Keys |-> IF k \in K THEN Append(passed[k], real) ELSE passed[k]]
  BY DEF Takes
<1>2. ASSUME NEW k \in Keys
      PROVE  /\ kept(k) \in Int
             /\ k \notin F => kept(k) = Level[k]
             /\ passed[k] \in Seq(0..MaxTime) /\ Len(passed[k]) \in Nat
             /\ \A i \in 1..Len(passed[k]) : passed[k][i] \in Int /\ passed[k][i] <= real
  <2>1. Level[k] \in Int
    BY UnitsAre DEF IInv, Level
  <2> QED
    BY <1>0, <2>1 DEF IInv, Counted
<1> HIDE DEF kept, Full, Token
<1>3. ASSUME NEW k \in Keys, k \notin K
      PROVE  Level'[k] = kept(k) /\ passed'[k] = passed[k]
  BY <1>1, <1>2, <1>3
<1>4. ASSUME NEW k \in K
      PROVE  /\ k \in Keys
             /\ Level'[k] = kept(k) - Token /\ Level'[k] \in Int /\ 0 <= Level'[k]
             /\ passed'[k] \in Seq(0..MaxTime) /\ Len(passed'[k]) = Len(passed[k]) + 1
             /\ passed'[k][Len(passed[k]) + 1] = real
             /\ \A i \in 1..Len(passed[k]) : passed'[k][i] = passed[k][i]
  <2>1. k \in Keys /\ kept(k) \in Int /\ kept(k) >= Token /\ passed[k] \in Seq(0..MaxTime)
    BY <1>1, <1>2
  <2>2. passed'[k] = Append(passed[k], real) /\ Level'[k] = kept(k) - Token
    BY <1>1, <2>1
  <2> QED
    BY <1>0, <2>1, <2>2
<1>5. Counted'
  <2>1. \A k \in Keys : passed'[k] \in Seq(0..MaxTime)
    BY <1>2, <1>3, <1>4
  <2>2. passed' \in [Keys -> Seq(0..MaxTime)]
    BY <1>1, <2>1
  <2>3. ASSUME NEW k \in Keys, NEW i \in 1..Len(passed'[k])
        PROVE  passed'[k][i] <= real
    <3>1. CASE k \in K /\ i = Len(passed[k]) + 1
      BY <1>0, <1>4, <3>1
    <3>2. CASE k \in K /\ i # Len(passed[k]) + 1
      <4>1. i \in 1..Len(passed[k])
        BY <1>2, <1>4, <3>2
      <4> QED
        BY <1>2, <1>4, <3>2, <4>1
    <3>3. CASE k \notin K
      BY <1>2, <1>3, <3>3
    <3> QED
      BY <3>1, <3>2, <3>3
  <2> QED
    BY <1>1, <2>2, <2>3 DEF IInv, Counted
<1>6. Balance'
  <2> SUFFICES ASSUME NEW k \in Keys \ (forgotten \cup F), NEW i \in 1..Len(passed'[k])
               PROVE  (Len(passed'[k]) - i + 1) * Token + Level'[k]
                        <= Full + (real - passed'[k][i]) * Capacity
    BY <1>1 DEF Balance
  <2>1. kept(k) = Level[k] /\ k \in Keys \ forgotten
    BY <1>2
  <2>2. CASE k \notin K
    BY <1>3, <2>1, <2>2 DEF IInv, Balance
  <2>3. CASE k \in K /\ i = Len(passed[k]) + 1
    <3>1. Len(passed'[k]) - i + 1 = 1 /\ real - passed'[k][i] = 0
      BY <1>0, <1>2, <1>4, <2>3
    <3>2. 1 * Token = Token /\ 0 * Capacity = 0
      BY <1>0
    <3>3. kept(k) <= Full
      BY <2>1, UnitsAre DEF IInv, Level
    <3>4. Token + Level'[k] <= Full + 0
      BY <1>0, <1>2, <1>4, <2>3, <3>3
    <3> QED
      BY <3>1, <3>2, <3>4
  <2>4. CASE k \in K /\ i \in 1..Len(passed[k])
    <3> DEFINE n == Len(passed[k]) - i + 1
               nt == n * Token
               tc == (real - passed[k][i]) * Capacity
    <3>0. /\ k \in Keys /\ Len(passed'[k]) = Len(passed[k]) + 1
          /\ passed'[k][i] = passed[k][i]
      BY <1>4, <2>4, Zenon
    <3>1. /\ n \in Int /\ Len(passed'[k]) - i + 1 = n + 1 /\ passed'[k][i] = passed[k][i]
          /\ real - passed[k][i] \in Int
      <4>1. Len(passed[k]) \in Nat /\ i \in Int /\ passed[k][i] \in Int /\ real \in Int
        BY <1>0, <1>2, <2>4, <3>0
      <4> QED
        BY <3>0, <4>1
    <3>2. nt + Level[k] <= Full + tc
      <4>1. Balance /\ k \in Keys \ forgotten /\ i \in 1..Len(passed[k])
        BY <2>1, <2>4 DEF IInv
      <4>2. (Len(passed[k]) - i + 1) * Token + Level[k]
              <= Full + (real - passed[k][i]) * Capacity
        BY <4>1, Zenon DEF Balance
      <4> QED
        BY <4>2, Zenon
    <3>3. (n + 1) * Token = nt + Token /\ nt \in Int /\ tc \in Int
      <4> DEFINE d == real - passed[k][i]
      <4>1. n \in Int /\ d \in Int /\ Token \in Int /\ Capacity \in Int
        BY <1>0, <3>1
      <4> HIDE DEF n, d
      <4>2. (n + 1) * Token = n * Token + Token /\ n * Token \in Int /\ d * Capacity \in Int
        BY <4>1, Times
      <4> QED
        BY <4>2 DEF d
    <3>4. (Len(passed'[k]) - i + 1) * Token = nt + Token
      BY <3>1, <3>3
    <3>5. (real - passed'[k][i]) * Capacity = tc
      BY <3>1
    <3> HIDE DEF n, nt, tc
    <3>6. nt + Token + Level'[k] <= Full + tc
      BY <1>0, <1>2, <1>4, <2>1, <2>4, <3>2, <3>3
    <3> QED
      BY <3>4, <3>5, <3>6
  <2>5. k \in K => i \in 1..Len(passed[k]) \/ i = Len(passed[k]) + 1
    BY <1>2, <1>4
  <2> QED
    BY <2>2, <2>3, <2>4, <2>5
<1>7. Window'
  <2> SUFFICES ASSUME NEW k \in Keys \ (forgotten \cup F),
                      NEW i \in 1..Len(passed'[k]), NEW j \in 1..Len(passed'[k]), i <= j
               PROVE  (j - i + 1) * Token <= Full + (passed'[k][j] - passed'[k][i]) * Capacity
    BY <1>1 DEF Window
  <2>1. CASE k \notin K
    BY <1>3, <2>1 DEF IInv, Window
  <2>2. CASE k \in K /\ j # Len(passed[k]) + 1
    <3>1. i \in 1..Len(passed[k]) /\ j \in 1..Len(passed[k])
      BY <1>2, <1>4, <2>2
    <3>2. passed'[k][i] = passed[k][i] /\ passed'[k][j] = passed[k][j]
      BY <1>4, <2>2, <3>1
    <3> QED
      BY <3>1, <3>2 DEF IInv, Window
  <2>3. CASE k \in K /\ j = Len(passed[k]) + 1
    <3>1. j = Len(passed'[k]) /\ passed'[k][j] = real /\ Len(passed'[k]) \in Nat
      BY <1>2, <1>4, <2>3
    <3>2. passed'[k] \in Seq(0..MaxTime)
      BY <1>4, <2>3
    <3>3. j \in Int /\ i \in Int /\ passed'[k][i] \in Int /\ real \in Int
      <4>1. i \in 1..Len(passed'[k]) /\ j \in Int
        BY <3>1
      <4>2. passed'[k][i] \in 0..MaxTime
        BY <3>2, <4>1, Elements, Zenon
      <4> QED
        BY <1>0, <4>1, <4>2
    <3>4. (Len(passed'[k]) - i + 1) * Token + Level'[k]
            <= Full + (real - passed'[k][i]) * Capacity
      BY <1>1, <1>6, Zenon DEF Balance
    <3> DEFINE nt == (j - i + 1) * Token
               tc == (real - passed'[k][i]) * Capacity
    <3>5. nt + Level'[k] <= Full + tc
      BY <3>1, <3>4, Zenon
    <3>6. nt \in Int /\ tc \in Int
      BY <1>0, <3>3, Times
    <3> HIDE DEF nt, tc
    <3>7. nt <= Full + tc
      BY <1>0, <1>4, <2>3, <3>5, <3>6
    <3> QED
      BY <3>1, <3>7 DEF nt, tc
  <2> QED
    BY <2>1, <2>2, <2>3
<1> QED
  BY <1>5, <1>6, <1>7

\* The invariant through a request.
LEMMA RequestHolds ==
    ASSUME IInv, NEW ip \in Ips, NEW email \in Emails \cup {Absent}, Request(ip, email)
    PROVE  IInv'
<1>1. /\ real' = real /\ now' = now
      /\ lastPruneAt' = IF Due THEN now ELSE lastPruneAt
  BY DEF Request
<1>2. Clocks'
  BY <1>1 DEF IInv, Clocks
<1>3. Buckets(Map)' /\ InOrder(Map)' /\ Counted' /\ Balance' /\ Window'
  BY RequestTakes, TakesBalance
<1> QED
  BY <1>2, <1>3 DEF IInv

\* The invariant when nothing happens.
LEMMA StutterHolds ==
    ASSUME IInv, UNCHANGED vars
    PROVE  IInv'
<1> USE DEF vars
<1>1. Level' = Level
  BY DEF Level, Units, Map, Refilled, Elapsed
<1>2. Buckets(Map)' /\ InOrder(Map)'
  BY DEF IInv, Buckets, InOrder, Map, Debt, At
<1> QED
  BY <1>1, <1>2 DEF IInv, Clocks, Counted, Balance, Window

-----------------------------------------------------------------------------
(* The theorems                                                            *)

\* The invariant behind the theorems: it holds for all limits, subjects and
\* requests, and however often the clock is set back.
THEOREM Invariance == Spec => []IInv
<1>1. IInv /\ [Next]_vars => IInv'
  BY ClockHolds, RequestHolds, StutterHolds DEF Next
<1> QED
  BY <1>1, InitHolds, PTL DEF Spec

\* No subject whose bucket was not dropped for want of room is let through more
\* often, in any stretch of time, than a full bucket and its refill allow.
THEOREM NeverBurst == Spec => []NoBurst
<1>1. ASSUME IInv PROVE TypeOK
  <2>1. Clocks /\ Buckets(Map) /\ InOrder(Map) /\ Counted
    BY <1>1 DEF IInv
  <2>2. ASSUME NEW k \in DOMAIN buckets
        PROVE  buckets[k] \in Bucket
    <3>1. /\ buckets[k] \in [tokens : Int, updatedAt : Clock]
          /\ 0 - Debt <= buckets[k].tokens /\ buckets[k].tokens <= Full
      BY <2>1 DEF Buckets, Map
    <3>2. Debt \in Nat /\ Debt <= MaxBack * Capacity /\ Full \in Nat
      BY <2>1, DebtTyped, Sizes
    <3>3. MaxBack * Capacity \in Int
      BY Sizes, Times
    <3> DEFINE most == MaxBack * Capacity
    <3>4. buckets[k].tokens \in (0 - most)..Full
      <4> HIDE DEF most, Full
      <4> QED
        BY <3>1, <3>2, <3>3 DEF most
    <3> QED
      BY <3>1, <3>4 DEF Bucket
  <2> QED
    BY <2>1, <2>2 DEF TypeOK, Clocks, Counted, Buckets, InOrder, Map
<1>2. IInv => Promise!WindowBound
  BY DEF IInv, Window, Promise!WindowBound, Promise!Full, Promise!Token, Full, Token
<1> QED
  BY <1>1, <1>2, Invariance, PTL DEF NoBurst

\* Every step of the Map is a step of the buckets it stands for, or none.
LEMMA Refines ==
    ASSUME IInv, [Next]_vars
    PROVE  [Promise!BucketNext]_(Promise!bucketVars)
<1> USE DEF Promise!Full, Promise!Token, Promise!Filled, Promise!Remembered, Full, Token
<1>0. /\ 1 \in 1..MaxTime /\ Capacity \in Nat /\ 1 * Capacity = Capacity
      /\ Level = [k \in Keys |-> Level[k]] /\ Level' = [k \in Keys |-> Level'[k]]
  BY Sizes DEF Level
<1>1. CASE Tick
  <2>1. real + 1 <= MaxTime /\ real' = real + 1 /\ passed' = passed /\ forgotten' = forgotten
    BY <1>1, Sizes DEF Tick, IInv, Clocks
  <2>2. \A k \in Keys : Level'[k] = IF Level[k] + 1 * Capacity < Full
                                      THEN Level[k] + 1 * Capacity ELSE Full
    BY <1>0, <1>1, ClockFlows
  <2>3. Level' = [k \in Keys |-> Promise!Filled(Level[k] + 1 * Capacity)]
    BY <1>0, <2>2
  <2>4. Promise!Pass(1)
    BY <2>1, <2>3 DEF Promise!Pass
  <2> QED
    BY <1>0, <2>4 DEF Promise!BucketNext
<1>2. CASE ClockBack
  <2>1. real' = real /\ passed' = passed /\ forgotten' = forgotten
    BY <1>2 DEF ClockBack
  <2>2. \A k \in Keys : /\ Level'[k] \in Int
                        /\ Level[k] - 1 * Capacity <= Level'[k] /\ Level'[k] <= Level[k]
    BY <1>0, <1>2, ClockFlows
  <2>3. Level' \in [Keys -> Int]
    BY <1>0, <2>2
  <2>4. Promise!SetBack(1)
    BY <2>1, <2>2, <2>3 DEF Promise!SetBack
  <2> QED
    BY <1>0, <2>4 DEF Promise!BucketNext
<1>3. ASSUME NEW ip \in Ips, NEW email \in Emails \cup {Absent}, Request(ip, email)
      PROVE  Promise!BucketNext
  <2>1. PICK F, K : Takes(F, K)
    BY <1>3, RequestTakes
  <2>2. Level' = [k \in Keys |-> Promise!Remembered(F, k) - (IF k \in K THEN Token ELSE 0)]
    BY <1>0, <2>1 DEF Takes
  <2>3. Promise!TakeFrom(F, K)
    BY <2>1, <2>2 DEF Takes, Promise!TakeFrom
  <2> QED
    BY <2>1, <2>3 DEF Takes, Promise!BucketNext
<1>4. CASE UNCHANGED vars
  BY <1>4 DEF vars, Promise!bucketVars, Level, Units, Map, Refilled, Elapsed
<1> QED
  BY <1>1, <1>2, <1>3, <1>4 DEF Next

\* The lazily refilled, pruned Map is a bucket of Capacity tokens for every
\* subject, full at first, which fills up evenly within RefillMs: no subject is
\* robbed of a token by prune, none is given one that has not flowed in.
THEOREM IsABucket == Spec => ImplementsBuckets
<1>1. Init => Promise!BucketInit
  <2> SUFFICES ASSUME Init PROVE Promise!BucketInit
    OBVIOUS
  <2>1. buckets = << >> /\ DOMAIN buckets = {}
    BY DEF Init
  <2>2. Level = [k \in Keys |-> Full]
    BY <2>1 DEF Level, Units, Map
  <2> QED
    BY <2>2 DEF Init, Promise!BucketInit, Promise!Full, Full
<1> QED
  BY <1>1, Refines, Invariance, PTL DEF Spec, ImplementsBuckets, Promise!BucketSpec

\* With a clock that was never set back prune forgets the least recently used: a
\* bucket that is forgotten before it is full was used no later than any that
\* stays.
THEOREM ForgetsOldest == Spec => ForgetsLeastRecent
<1> DEFINE Oldest ==
      \A k \in DOMAIN buckets : \A j \in DOMAIN buckets \cap DOMAIN buckets' :
         /\ k \notin DOMAIN buckets' /\ Refilled(buckets[k]) < Full
         /\ buckets'[j] = buckets[j] /\ now = real
         => buckets[j].updatedAt >= buckets[k].updatedAt
<1>1. IInv /\ [Next]_vars => [Oldest]_vars
  <2> SUFFICES ASSUME IInv, Next PROVE Oldest
    OBVIOUS
  <2>1. CASE Tick \/ ClockBack
    BY <2>1 DEF Tick, ClockBack
  <2>2. ASSUME NEW ip \in Ips, NEW email \in Emails \cup {Absent}, Request(ip, email)
        PROVE  Oldest
    <3> SUFFICES ASSUME NEW k \in DOMAIN buckets, k \notin DOMAIN buckets',
                        NEW j \in DOMAIN buckets, j \in DOMAIN buckets',
                        Refilled(buckets[k]) < Full, buckets'[j] = buckets[j], now = real
                 PROVE  buckets[j].updatedAt >= buckets[k].updatedAt
      BY DEF Oldest
    <3> DEFINE m0 == MaybePruned
               f == Fresh(Map)
    <3>1. /\ DOMAIN m0.buckets \subseteq DOMAIN buckets'
          /\ ~(j \in {ip, email}) => j \in DOMAIN m0.buckets
          /\ j \in DOMAIN m0.buckets \/ buckets'[j].updatedAt = now
      BY <2>2 DEF Request, Taken
    <3>2. /\ \A i \in DOMAIN buckets : /\ buckets[i].tokens \in Int
                                       /\ buckets[i].updatedAt \in Int
                                       /\ buckets[i].updatedAt <= real
          /\ now \in Int /\ Full \in Int
      <4>1. Buckets(Map) /\ Map.buckets = buckets /\ Clocks
        BY DEF IInv, Map
      <4>2. now \in Int /\ Full \in Int
        BY <4>1, Sizes DEF Clocks
      <4>3. \A i \in DOMAIN buckets : /\ buckets[i] \in [tokens : Int, updatedAt : Clock]
                                      /\ buckets[i].updatedAt <= real
        BY <4>1 DEF Buckets
      <4> HIDE DEF Full
      <4> QED
        BY <4>2, <4>3, Sizes
    <3>3. CASE buckets'[j].updatedAt = now
      BY <3>2, <3>3
    <3>4. CASE j \in DOMAIN m0.buckets
      <4>1. Due /\ m0 = Keep(f, Keys \ Overflow(f))
        BY <3>1 DEF MaybePruned, Pruned, Map
      <4>2. f = Keep(Map, {i \in DOMAIN buckets : ~Idle(buckets[i])}) /\ ~Idle(buckets[k])
        <5>1. Refilled(buckets[k]) \in Int
          BY <3>2, AtTyped DEF At, Refilled, Elapsed
        <5> HIDE DEF Full
        <5> QED
          BY <3>2, <5>1 DEF Fresh, Map, Idle
      <4>3. /\ Buckets(f) /\ InOrder(f) /\ k \in DOMAIN f.buckets
            /\ \A i \in DOMAIN f.buckets : i \in DOMAIN buckets /\ f.buckets[i] = buckets[i]
        <5>1. Map.buckets = buckets
          BY DEF Map
        <5> QED
          BY <4>2, <5>1, KeepHolds DEF IInv
      <4> HIDE DEF f, m0
      <4>4. k \in Keys /\ k \notin DOMAIN m0.buckets
        BY <3>1, <4>3 DEF Buckets
      <4>5. /\ k \in Overflow(f) /\ j \notin Overflow(f) /\ j \in DOMAIN f.buckets
        BY <3>4, <4>1, <4>3, <4>4 DEF Keep
      <4>6. <<k, j>> \in f.older
        <5> SUFFICES ASSUME <<k, j>> \notin f.older PROVE FALSE
          OBVIOUS
        <5>1. <<j, k>> \in f.older
          BY <4>3, <4>5 DEF InOrder
        <5>2. Newer(f, k) \subseteq Newer(f, j)
          BY <4>3, <4>5, <5>1 DEF Newer, InOrder
        <5>3. IsFiniteSet(Newer(f, k)) /\ IsFiniteSet(Newer(f, j))
          BY <4>3, FS_Subset DEF Newer, Buckets
        <5>4. /\ Cardinality(Newer(f, k)) <= Cardinality(Newer(f, j))
              /\ Cardinality(Newer(f, k)) \in Nat /\ Cardinality(Newer(f, j)) \in Nat
          BY <5>2, <5>3, FS_Subset, FS_CardinalityType
        <5>5. Cardinality(Newer(f, k)) >= MAX_BUCKETS
          BY <4>5 DEF Overflow
        <5>6. ~(Cardinality(Newer(f, j)) >= MAX_BUCKETS)
          BY <4>5 DEF Overflow
        <5> QED
          BY <5>4, <5>5, <5>6, Sizes
      <4> QED
        BY <3>2, <4>3, <4>5, <4>6 DEF InOrder
    <3> QED
      BY <3>1, <3>3, <3>4
  <2> QED
    BY <2>1, <2>2 DEF Next
<1> QED
  BY <1>1, Invariance, PTL DEF Spec, ForgetsLeastRecent
=============================================================================
