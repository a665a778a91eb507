------------------------------ MODULE RateLimit ------------------------------
(***************************************************************************)
(* middleware/rateLimit.js and its use by routes/auth.js: one Map of       *)
(* buckets for all the limits, in the order of their last use, refilled    *)
(* only when a request draws on them and pruned at most once in            *)
(* PRUNE_INTERVAL_MS.  A request passes byIp and then byEmail, in one go.  *)
(*                                                                         *)
(* TokenBucket is the specification: a bucket that is not in the Map is    *)
(* full.  Beyond MAX_BUCKETS the least recently used are forgotten.  The   *)
(* clock that Date.now() reads may be set back while the server runs.      *)
(***************************************************************************)
EXTENDS Integers, Sequences, FiniteSets

CONSTANTS
    Ips, Emails,       \* the subjects of a route's two limits
    Absent,            \* a request without an e-mail
    Capacity,
    RefillMs,
    PRUNE_INTERVAL_MS,
    MAX_BUCKETS,
    MaxTime,           \* bound: the time the server runs
    MaxBack            \* bound: by how much the clock is set back in all

Keys == Ips \cup Emails

ASSUME RateAssumption ==
    /\ Ips \cap Emails = {} /\ Absent \notin Emails
    /\ {Capacity, RefillMs, PRUNE_INTERVAL_MS, MAX_BUCKETS} \subseteq Nat \ {0}
    /\ MaxTime \in Nat \ {0} /\ MaxBack \in Nat

VARIABLES
    real,          \* the time since the start of the server
    now,           \* Date.now(), less what it was at the start
    buckets,       \* the Map: a function on the keys it holds
    older,         \* the order of its keys: the pairs of one and a later one
    lastPruneAt,
    passed,        \* when take() said yes, by key
    forgotten      \* the keys dropped for want of room, not full

vars == <<real, now, buckets, older, lastPruneAt, passed, forgotten>>

Full == Capacity * RefillMs
Token == RefillMs

Clock == (0 - MaxBack)..MaxTime

Bucket == [tokens : (0 - MaxBack * Capacity)..Full, updatedAt : Clock]

TypeOK ==
    /\ real \in 0..MaxTime /\ now \in Clock /\ now <= real /\ lastPruneAt \in Clock
    /\ DOMAIN buckets \subseteq Keys
    /\ \A k \in DOMAIN buckets : buckets[k] \in Bucket
    /\ older \subseteq (DOMAIN buckets) \X (DOMAIN buckets)
    /\ passed \in [Keys -> Seq(0..MaxTime)]
    /\ forgotten \subseteq Keys

\* The server starts long after the epoch: the first request prunes an empty
\* Map.
Init ==
    /\ real = 0 /\ now = 0 /\ lastPruneAt = 0
    /\ buckets = << >> /\ older = {}
    /\ passed = [k \in Keys |-> << >>] /\ forgotten = {}

-----------------------------------------------------------------------------
Elapsed(b) == now - b.updatedAt

\* Less than there was, when the clock has been set back.
Refilled(b) ==
    LET units == b.tokens + Elapsed(b) * Capacity
    IN  IF units < Full THEN units ELSE Full

\* The Map: its buckets and their order.
Map == [buckets |-> buckets, older |-> older]

Keep(m, K) ==
    [buckets |-> [k \in DOMAIN m.buckets \cap K |-> m.buckets[k]],
     older |-> m.older \cap (K \X K)]

\* Mutant of Idle: the bucket need not be full.
IdleHalf(b) == 2 * Elapsed(b) >= RefillMs

Idle(b) == Elapsed(b) >= RefillMs /\ Refilled(b) >= Full

\* Mutant of Overflow: the newest entries are dropped.
OverflowNewest(m) ==
    {k \in DOMAIN m.buckets :
        Cardinality({j \in DOMAIN m.buckets : <<j, k>> \in m.older}) >= MAX_BUCKETS}

\* The entries after k in the Map.
Newer(m, k) == {j \in DOMAIN m.buckets : <<k, j>> \in m.older}

\* The oldest entries, as many as there are too many: MAX_BUCKETS are newer.
Overflow(m) == {k \in DOMAIN m.buckets : Cardinality(Newer(m, k)) >= MAX_BUCKETS}

Fresh(m) == Keep(m, {k \in DOMAIN m.buckets : ~Idle(m.buckets[k])})

\* prune
Pruned(m) == Keep(Fresh(m), Keys \ Overflow(Fresh(m)))

Due == now - lastPruneAt >= PRUNE_INTERVAL_MS

\* maybePrune
MaybePruned == IF Due THEN Pruned(Map) ELSE Map

Dropped == IF Due THEN Overflow(Fresh(Map)) ELSE {}

Units(m, k) == IF k \in DOMAIN m.buckets THEN Refilled(m.buckets[k]) ELSE Full

\* Mutant of Allowed: the answer does not depend on the tokens.
AllowedAlways(m, k) == TRUE

Allowed(m, k) == Units(m, k) >= Token

\* take: the bucket goes to the back of the Map, a token poorer if it had one.
Taken(m, k) ==
    [buckets |-> [j \in DOMAIN m.buckets \cup {k} |->
                    IF j # k THEN m.buckets[j]
                    ELSE [tokens |-> Units(m, k) - (IF Allowed(m, k) THEN Token ELSE 0),
                          updatedAt |-> now]],
     older |-> Keep(m, Keys \ {k}).older \cup ((DOMAIN m.buckets \ {k}) \X {k})]

\* A request to one of the routes: the address first, then the e-mail if there
\* is one and the address was let through.
Request(ip, email) ==
    LET m0 == MaybePruned
        m1 == Taken(m0, ip)
        asked == Allowed(m0, ip) /\ email # Absent
        m2 == IF asked THEN Taken(m1, email) ELSE m1
        yes == {k \in {ip} : Allowed(m0, ip)} \cup {k \in {email} : asked /\ Allowed(m1, email)}
    IN  /\ buckets' = m2.buckets /\ older' = m2.older
        /\ lastPruneAt' = IF Due THEN now ELSE lastPruneAt
        /\ passed' = [k \in Keys |-> IF k \in yes THEN Append(passed[k], real) ELSE passed[k]]
        /\ forgotten' = forgotten \cup {k \in Dropped : Refilled(buckets[k]) < Full}
        /\ UNCHANGED <<real, now>>

Tick ==
    /\ real < MaxTime /\ real' = real + 1 /\ now' = now + 1
    /\ UNCHANGED <<buckets, older, lastPruneAt, passed, forgotten>>

\* The clock is set back, by one unit at a time.
ClockBack ==
    /\ real - now < MaxBack /\ now' = now - 1
    /\ UNCHANGED <<real, buckets, older, lastPruneAt, passed, forgotten>>

Next == Tick \/ ClockBack \/ \E ip \in Ips, email \in Emails \cup {Absent} : Request(ip, email)

Spec == Init /\ [][Next]_vars

-----------------------------------------------------------------------------
(* Properties                                                              *)

\* The lazily refilled, pruned Map is a bucket for every subject, full at first,
\* in which a clock set back undoes no more than it had let flow in.
Level == [k \in Keys |-> Units(Map, k)]
Promise == INSTANCE TokenBucket WITH now <- real, level <- Level, taken <- passed
ImplementsBuckets == Promise!BucketSpec

\* What the limits are for: in no stretch of time is a subject let through more
\* often than a full bucket and its refill allow, pruned or not in between and
\* however often the clock was set back, unless its bucket was dropped for want of room.
NoBurst == TypeOK /\ Promise!WindowBound

\* A comment in prune: "the front of the map is the least-recently-used".  With a
\* clock that was never set back, a bucket is forgotten before it is full only if
\* those that stay (the request itself uses one or two more) were all used as
\* recently.
ForgetsLeastRecent ==
    [][\A k \in DOMAIN buckets : \A j \in DOMAIN buckets \cap DOMAIN buckets' :
         /\ k \notin DOMAIN buckets' /\ Refilled(buckets[k]) < Full
         /\ buckets'[j] = buckets[j] /\ now = real
         => buckets[j].updatedAt >= buckets[k].updatedAt]_vars
=============================================================================
