---------------------------- MODULE RateLimiter -----------------------------
(***************************************************************************)
(* RateLimitMiddleware of internal/api/middleware.go: a token bucket for   *)
(* each client, at most MaxBuckets of them, the longest unused one making  *)
(* room for a new one; a sweep takes away those unused for BucketTTL.      *)
(* Everything a request or the sweep does is done under one lock.          *)
(***************************************************************************)
EXTENDS Integers, FiniteSets

CONSTANTS
    Limited,     \* clients that are limited: not local, with a rate
    Rps,         \* RateLimitRPS
    MaxBuckets,  \* rateLimitMaxBuckets
    BucketTTL,   \* rateLimitBucketTTL, in seconds
    LastSecond,   \* bound: the last second
    MaxDisplaced  \* bound: how often buckets make room

Burst == 2 * Rps

ASSUME LimiterConstants ==
    /\ Rps \in Nat \ {0} /\ MaxBuckets \in Nat \ {0}
    /\ BucketTTL \in Nat \ {0, 1}  \* no shorter than it takes to fill a bucket
    /\ LastSecond \in Nat /\ MaxDisplaced \in Nat

VARIABLES
    second,     \* the clock
    held,       \* clients that have a bucket
    tokens,     \* tokens of each bucket
    refilled,   \* lastRefill of each bucket
    \* History
    granted,    \* requests of each client let through
    firstAsked, \* when its first request was made
    displaced   \* how often its bucket made room for another's

limiterVars == <<second, held, tokens, refilled, granted, firstAsked, displaced>>

NotYet == LastSecond + 1

LimiterInit ==
    /\ second = 0
    /\ held = {}
    /\ tokens = [c \in Limited |-> 0]
    /\ refilled = [c \in Limited |-> 0]
    /\ granted = [c \in Limited |-> 0]
    /\ firstAsked = [c \in Limited |-> NotYet]
    /\ displaced = [c \in Limited |-> 0]

LongestUnused == {c \in held : \A d \in held : refilled[c] <= refilled[d]}

\* The tokens client c finds: those of a new bucket, or what is left and
\* what has been added since, up to the burst.
Found(c) ==
    LET filled == tokens[c] + (second - refilled[c]) * Rps
    IN  IF c \notin held \/ filled > Burst THEN Burst ELSE filled

\* A request of c takes a token if there is one, and is refused otherwise.
Takes(c, others) ==
    /\ held' = others \cup {c}
    /\ tokens' = [tokens EXCEPT ![c] = IF Found(c) < 1 THEN Found(c) ELSE Found(c) - 1]
    /\ granted' = [granted EXCEPT ![c] = IF Found(c) < 1 THEN @ ELSE @ + 1]
    /\ refilled' = [refilled EXCEPT ![c] = second]
    /\ firstAsked' = [firstAsked EXCEPT ![c] = IF @ = NotYet THEN second ELSE @]
    /\ UNCHANGED second

Request(c) ==
    /\ c \in held \/ Cardinality(held) < MaxBuckets
    /\ Takes(c, held)
    /\ UNCHANGED displaced

RequestDisplaces(c, old) ==
    /\ c \notin held /\ Cardinality(held) >= MaxBuckets /\ old \in LongestUnused
    /\ displaced[old] < MaxDisplaced
    /\ Takes(c, held \ {old})
    /\ displaced' = [displaced EXCEPT ![old] = @ + 1]

\* Mutant: a bucket's age is not looked at.
SweepAll ==
    /\ held # {}
    /\ held' = {}
    /\ UNCHANGED <<second, tokens, refilled, granted, firstAsked, displaced>>

\* The sweep; a bucket without a client is gone.
Sweep ==
    /\ held # {}
    /\ held' = {c \in held : second - refilled[c] <= BucketTTL}
    /\ UNCHANGED <<second, tokens, refilled, granted, firstAsked, displaced>>

SecondPasses ==
    /\ second < LastSecond
    /\ second' = second + 1
    /\ UNCHANGED <<held, tokens, refilled, granted, firstAsked, displaced>>

LimiterNext ==
    \/ \E c \in Limited : Request(c) \/ \E old \in Limited : RequestDisplaces(c, old)
    \/ Sweep \/ SecondPasses

LimiterSpec == LimiterInit /\ [][LimiterNext]_limiterVars

(***************************************************************************)
(* Properties                                                              *)
(***************************************************************************)

\* A client is let through no more often than its rate and burst allow from
\* its first request on: the sweep never gives anything away, and being
\* displaced by others is worth one burst each time, no more.
RateIsKept ==
    \A c \in Limited : firstAsked[c] # NotYet =>
        granted[c] <= Burst * (1 + displaced[c]) + Rps * (second - firstAsked[c])
=============================================================================
