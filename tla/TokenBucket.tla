----------------------------- MODULE TokenBucket -----------------------------
(***************************************************************************)
(* What the rate limits of the sign-in routes promise: every subject (an   *)
(* address or an e-mail of a route) has a bucket of Capacity tokens which  *)
(* fills up evenly within RefillMs, and a request is let through when it   *)
(* finds a token in every bucket it draws on.                              *)
(*                                                                         *)
(* Two things may make it stricter or laxer than that: a clock that is set *)
(* back takes units out of buckets, and buckets may be forgotten, which    *)
(* makes them full.                                                        *)
(*                                                                         *)
(* Tokens are counted in units of 1 / RefillMs, so that one tick of the    *)
(* clock adds Capacity units and the arithmetic is exact.                  *)
(***************************************************************************)
EXTENDS Integers, Sequences

CONSTANTS
    Keys,
    Capacity,
    RefillMs,
    MaxTime    \* bound: the clock

VARIABLES
    now,       \* the time that has passed, whatever a clock says
    level,     \* the units in each bucket
    taken,     \* when each bucket gave a token
    forgotten  \* the subjects whose bucket was forgotten at some time

bucketVars == <<now, level, taken, forgotten>>

Full == Capacity * RefillMs
Token == RefillMs

BucketInit ==
    /\ now = 0
    /\ level = [k \in Keys |-> Full]
    /\ taken = [k \in Keys |-> <<>>]
    /\ forgotten = {}

Filled(units) == IF units < Full THEN units ELSE Full

Pass(d) ==
    /\ now + d <= MaxTime /\ now' = now + d
    /\ level' = [k \in Keys |-> Filled(level[k] + d * Capacity)]
    /\ UNCHANGED <<taken, forgotten>>

\* A clock set back by d: what had flowed in may have to flow in again.
SetBack(d) ==
    /\ level' \in [Keys -> Int]
    /\ \A k \in Keys : level[k] - d * Capacity <= level'[k] /\ level'[k] <= level[k]
    /\ UNCHANGED <<now, taken, forgotten>>

Remembered(F, k) == IF k \in F THEN Full ELSE level[k]

\* A request takes a token from each bucket in K (from none: it is refused),
\* after those in F have been forgotten.
TakeFrom(F, K) ==
    /\ \A k \in K : Remembered(F, k) >= Token
    /\ level' = [k \in Keys |-> Remembered(F, k) - (IF k \in K THEN Token ELSE 0)]
    /\ taken' = [k \in Keys |-> IF k \in K THEN Append(taken[k], now) ELSE taken[k]]
    /\ forgotten' = forgotten \cup F
    /\ UNCHANGED now

BucketNext ==
    \/ \E d \in 1..MaxTime : Pass(d) \/ SetBack(d)
    \/ \E F, K \in SUBSET Keys : TakeFrom(F, K)

BucketSpec == BucketInit /\ [][BucketNext]_bucketVars

-----------------------------------------------------------------------------
\* A subject is let through no more often, in any stretch of time, than a full
\* bucket and its refill allow, as long as its bucket is remembered.
WindowBound ==
    \A k \in Keys \ forgotten : \A i, j \in 1..Len(taken[k]) :
        i <= j => (j - i + 1) * Token <= Full + (taken[k][j] - taken[k][i]) * Capacity
=============================================================================
