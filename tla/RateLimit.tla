-------------------------------- MODULE RateLimit --------------------------------
(***************************************************************************)
(* RateLimitedHandler (server/http/middleware.go): a counter in Redis for  *)
(* each address and 10 seconds, read by one command and increased by       *)
(* another.  Addresses do not affect each other, so there is one here.     *)
(***************************************************************************)
EXTENDS Integers, FiniteSets

CONSTANTS
    Requests,              \* what the server handles at once
    MaxRequestsPer10Secs,  \* the limit of the configuration
    MaxBucket,             \* bound: how many times 10 seconds pass
    MaxCount               \* bound: no request comes in with this many counted

ASSUME RateLimitAssumption ==
    /\ IsFiniteSet(Requests)
    /\ MaxRequestsPer10Secs \in Nat /\ MaxBucket \in Nat /\ MaxCount \in Nat

Buckets == 0..MaxBucket

VARIABLES
    now,       \* the 10 seconds the clock is in
    counted,   \* the key of each 10 seconds (it is kept for longer than that)
    gate,      \* what each request has read, until it has counted itself
    passed     \* how many were served: not in the code, for OvershootIsBounded

limitVars == << now, counted, gate, passed >>

Outside == [at |-> "outside"]

RateLimitTypeOK ==
    /\ now \in Buckets
    /\ counted \in [Buckets -> Nat]
    /\ gate \in [Requests -> {Outside} \cup [at : {"gate"}, bucket : Buckets, limited : BOOLEAN]]
    /\ passed \in [Buckets -> Nat]

RateLimitInit ==
    /\ now = 0
    /\ counted = [b \in Buckets |-> 0]
    /\ gate = [r \in Requests |-> Outside]
    /\ passed = [b \in Buckets |-> 0]

TenSecondsPass ==
    /\ now < MaxBucket
    /\ now' = now + 1
    /\ UNCHANGED << counted, gate, passed >>

ReadCounter(r) ==
    /\ gate[r] = Outside /\ counted[now] < MaxCount
    /\ gate' = [gate EXCEPT ![r] = [at |-> "gate", bucket |-> now,
                                    limited |-> counted[now] > MaxRequestsPer10Secs]]
    /\ UNCHANGED << now, counted, passed >>

\* Requests over the limit are counted too.
CountLimited(r) ==
    /\ gate[r] # Outside /\ gate[r].limited
    /\ counted' = [counted EXCEPT ![gate[r].bucket] = @ + 1]
    /\ gate' = [gate EXCEPT ![r] = Outside]
    /\ UNCHANGED << now, passed >>

\* Mutant: only what is refused is counted.
CountPassedNot(r) ==
    /\ gate[r] # Outside /\ ~gate[r].limited
    /\ passed' = [passed EXCEPT ![gate[r].bucket] = @ + 1]
    /\ gate' = [gate EXCEPT ![r] = Outside]
    /\ UNCHANGED << now, counted >>

\* The request is counted, and goes on to its handler.
CountPassed(r) ==
    /\ gate[r] # Outside /\ ~gate[r].limited
    /\ counted' = [counted EXCEPT ![gate[r].bucket] = @ + 1]
    /\ passed' = [passed EXCEPT ![gate[r].bucket] = @ + 1]
    /\ gate' = [gate EXCEPT ![r] = Outside]
    /\ UNCHANGED now

\* Mutant: a count that failed is taken back.
FailCountUndone(r) ==
    /\ gate[r] # Outside
    /\ \E n \in {0, 1} : counted' = [counted EXCEPT ![gate[r].bucket] = @ + n - 1]
    /\ gate' = [gate EXCEPT ![r] = Outside]
    /\ UNCHANGED << now, passed >>

\* Redis answers by an error, whether or not it has counted.
FailCount(r) ==
    /\ gate[r] # Outside
    /\ \E n \in {0, 1} : counted' = [counted EXCEPT ![gate[r].bucket] = @ + n]
    /\ gate' = [gate EXCEPT ![r] = Outside]
    /\ UNCHANGED << now, passed >>

-----------------------------------------------------------------------------
\* However the reads and the increments of concurrent requests interleave and fail,
\* no more requests are served in 10 seconds than the limit, and as many
\* again as there may be at once.  (One after the other, one more than the limit.)
OvershootIsBounded ==
    \A b \in Buckets : passed[b] <= MaxRequestsPer10Secs + Cardinality(Requests)
=============================================================================
