------------------------------- MODULE RollsProofs -------------------------------
(***************************************************************************)
(* What a roll gets past the rate limit and from the pool, for any number  *)
(* of requests, any limit and any dice asked for.                          *)
(***************************************************************************)
EXTENDS Rolls, FiniteSetTheorems, TLAPS

-----------------------------------------------------------------------------
(* The rate limit.                                                         *)

\* The requests that have read that they are within the limit and will be served.
Due(b) == {r \in Requests : gate[r] # Outside /\ gate[r].bucket = b /\ ~gate[r].limited}

\* Only when no more were counted than the limit does a request become due: then
\* no more were served either.
LimitInv ==
    /\ RateLimitTypeOK
    /\ \A b \in Buckets :
         /\ passed[b] <= counted[b]
         /\ passed[b] + Cardinality(Due(b)) <= MaxRequestsPer10Secs + Cardinality(Requests)

LEMMA DueCounts ==
    ASSUME NEW b
    PROVE  /\ IsFiniteSet(Due(b)) /\ Cardinality(Due(b)) \in Nat
           /\ Cardinality(Requests) \in Nat
           /\ Cardinality(Due(b)) <= Cardinality(Requests)
  <1>1. IsFiniteSet(Requests) /\ Due(b) \subseteq Requests
    BY RateLimitAssumption DEF Due
  <1> QED BY <1>1, FS_Subset, FS_CardinalityType

LEMMA DuePrimeCounts ==
    ASSUME NEW b
    PROVE  /\ IsFiniteSet(Due(b)') /\ Cardinality(Due(b)') \in Nat
           /\ Cardinality(Due(b)') <= Cardinality(Requests)
  <1>1. IsFiniteSet(Requests) /\ Due(b)' \subseteq Requests
    BY RateLimitAssumption DEF Due
  <1> QED BY <1>1, FS_Subset, FS_CardinalityType

\* A request that leaves the gate is not due any more.
LEMMA LeavesGate ==
    ASSUME RateLimitTypeOK, NEW r \in Requests, gate' = [gate EXCEPT ![r] = Outside], NEW b
    PROVE  /\ Due(b)' \subseteq Due(b)
           /\ Cardinality(Due(b)') <= Cardinality(Due(b))
           /\ r \in Due(b) => Cardinality(Due(b)') <= Cardinality(Due(b)) - 1
  <1>1. Due(b)' \subseteq Due(b) /\ r \notin Due(b)'
    BY DEF Due, RateLimitTypeOK
  <1>2. IsFiniteSet(Due(b)) /\ Cardinality(Due(b)) \in Nat /\ Cardinality(Due(b)') \in Nat
    BY DueCounts, DuePrimeCounts
  <1>3. Cardinality(Due(b)') <= Cardinality(Due(b))
    BY <1>1, <1>2, FS_Subset
  <1>4. ASSUME r \in Due(b)
        PROVE  Cardinality(Due(b)') <= Cardinality(Due(b)) - 1
    <2>1. Due(b)' \subseteq Due(b) \ {r}
      BY <1>1
    <2>2. /\ IsFiniteSet(Due(b) \ {r})
          /\ Cardinality(Due(b) \ {r}) = Cardinality(Due(b)) - 1
      BY <1>2, <1>4, FS_RemoveElement
    <2>3. Cardinality(Due(b)') <= Cardinality(Due(b) \ {r})
      BY <2>1, <2>2, FS_Subset
    <2> QED BY <2>2, <2>3
  <1> QED BY <1>1, <1>3, <1>4

LEMMA ReadStep ==
    ASSUME LimitInv, NEW r \in Requests, ReadCounter(r)
    PROVE  LimitInv'
  <1>1. /\ now \in Buckets /\ counted[now] \in Nat /\ now' = now
        /\ UNCHANGED << counted, passed >>
        /\ gate[r] = Outside
        /\ gate' = [gate EXCEPT ![r] = [at |-> "gate", bucket |-> now,
                                        limited |-> counted[now] > MaxRequestsPer10Secs]]
    BY DEF LimitInv, RateLimitTypeOK, ReadCounter
  <1>2. RateLimitTypeOK'
    BY <1>1 DEF LimitInv, RateLimitTypeOK
  <1>3. ASSUME NEW b \in Buckets
        PROVE  passed[b] + Cardinality(Due(b)') <= MaxRequestsPer10Secs + Cardinality(Requests)
    <2>1. /\ passed[b] \in Nat /\ counted[b] \in Nat /\ MaxRequestsPer10Secs \in Nat
          /\ Cardinality(Due(b)) \in Nat /\ Cardinality(Due(b)') \in Nat
          /\ Cardinality(Requests) \in Nat
          /\ Cardinality(Due(b)') <= Cardinality(Requests)
      BY DueCounts, DuePrimeCounts, RateLimitAssumption DEF LimitInv, RateLimitTypeOK
    <2>2. CASE b = now /\ counted[now] <= MaxRequestsPer10Secs
      BY <1>1, <2>1, <2>2 DEF LimitInv
    <2>3. CASE ~(b = now /\ counted[now] <= MaxRequestsPer10Secs)
      <3>1. /\ gate'[r].bucket = now
            /\ counted[now] > MaxRequestsPer10Secs => gate'[r].limited
        BY <1>1 DEF LimitInv, RateLimitTypeOK
      <3>2. b # now \/ counted[now] > MaxRequestsPer10Secs
        BY <1>1, <2>1, <2>3
      <3>3. r \notin Due(b) /\ r \notin Due(b)'
        BY <1>1, <3>1, <3>2 DEF Due
      <3>4. \A x \in Requests \ {r} : gate'[x] = gate[x]
        BY <1>1
      <3>5. Due(b)' = Due(b)
        BY <3>3, <3>4 DEF Due
      <3> QED BY <3>5 DEF LimitInv
    <2> QED BY <2>2, <2>3
  <1> QED BY <1>1, <1>2, <1>3 DEF LimitInv

\* Counted and served, counted or not and refused.
LEMMA CountStep ==
    ASSUME LimitInv, NEW r \in Requests,
           CountPassed(r) \/ CountLimited(r) \/ FailCount(r)
    PROVE  LimitInv'
  <1>1. /\ gate[r] # Outside /\ gate' = [gate EXCEPT ![r] = Outside] /\ now' = now
        /\ gate[r] \in [at : {"gate"}, bucket : Buckets, limited : BOOLEAN]
    BY DEF LimitInv, RateLimitTypeOK, CountPassed, CountLimited, FailCount
  <1> DEFINE mine == gate[r].bucket
  <1>2. mine \in Buckets /\ passed \in [Buckets -> Nat] /\ counted \in [Buckets -> Nat]
    BY <1>1 DEF LimitInv, RateLimitTypeOK
  <1>3. /\ passed' \in [Buckets -> Nat] /\ counted' \in [Buckets -> Nat]
        /\ \A b \in Buckets \ {mine} : passed'[b] = passed[b] /\ counted'[b] = counted[b]
        /\ \/ passed'[mine] = passed[mine] /\ counted'[mine] >= counted[mine]
           \/ /\ passed'[mine] = passed[mine] + 1 /\ counted'[mine] = counted[mine] + 1
              /\ ~gate[r].limited
    <2>1. CASE CountPassed(r)
      BY <1>2, <2>1 DEF CountPassed
    <2>2. CASE CountLimited(r)
      BY <1>2, <2>2 DEF CountLimited
    <2>3. CASE FailCount(r)
      BY <1>2, <2>3 DEF FailCount
    <2> QED BY <2>1, <2>2, <2>3
  <1>4. RateLimitTypeOK'
    BY <1>1, <1>3 DEF LimitInv, RateLimitTypeOK
  <1>5. ASSUME NEW b \in Buckets
        PROVE  /\ passed'[b] <= counted'[b]
               /\ passed'[b] + Cardinality(Due(b)') <=
                    MaxRequestsPer10Secs + Cardinality(Requests)
    <2>1. /\ passed[b] \in Nat /\ counted[b] \in Nat /\ MaxRequestsPer10Secs \in Nat
          /\ passed'[b] \in Nat /\ counted'[b] \in Nat
          /\ Cardinality(Due(b)) \in Nat /\ Cardinality(Due(b)') \in Nat
          /\ Cardinality(Requests) \in Nat
          /\ passed[b] <= counted[b]
          /\ passed[b] + Cardinality(Due(b)) <= MaxRequestsPer10Secs + Cardinality(Requests)
      BY <1>3, DueCounts, DuePrimeCounts, RateLimitAssumption DEF LimitInv, RateLimitTypeOK
    <2>2. /\ Cardinality(Due(b)') <= Cardinality(Due(b))
          /\ r \in Due(b) => Cardinality(Due(b)') <= Cardinality(Due(b)) - 1
      BY <1>1, LeavesGate DEF LimitInv
    <2>3. CASE b = mine /\ passed'[mine] = passed[mine] + 1
      <3>1. counted'[mine] = counted[mine] + 1 /\ ~gate[r].limited
        BY <1>2, <1>3, <2>3
      <3>2. r \in Due(b)
        BY <1>1, <2>3, <3>1 DEF Due
      <3> QED BY <2>1, <2>2, <2>3, <3>1, <3>2
    <2>4. CASE ~(b = mine /\ passed'[mine] = passed[mine] + 1)
      <3>1. passed'[b] = passed[b] /\ counted'[b] >= counted[b]
        BY <1>3, <2>1, <2>4
      <3> QED BY <2>1, <2>2, <3>1
    <2> QED BY <2>3, <2>4
  <1> QED BY <1>4, <1>5 DEF LimitInv

LEMMA LimitUnchanged ==
    ASSUME LimitInv, now' \in Buckets, UNCHANGED << counted, gate, passed >>
    PROVE  LimitInv'
  BY DEF LimitInv, RateLimitTypeOK, Due

LEMMA LimitInvariant == Spec => []LimitInv
  <1>1. Init => LimitInv
    <2> SUFFICES ASSUME Init PROVE LimitInv
      OBVIOUS
    <2>1. 0 \in Buckets /\ RateLimitTypeOK
      BY RateLimitAssumption DEF Init, RateLimitInit, RateLimitTypeOK, Buckets
    <2>2. \A b \in Buckets : Due(b) = {}
      BY DEF Init, RateLimitInit, Due
    <2>3. Cardinality({}) = 0 /\ Cardinality(Requests) \in Nat
      BY FS_EmptySet, FS_CardinalityType, RateLimitAssumption
    <2>4. ASSUME NEW b \in Buckets
          PROVE  /\ passed[b] <= counted[b]
                 /\ passed[b] + Cardinality(Due(b)) <=
                      MaxRequestsPer10Secs + Cardinality(Requests)
      <3>1. passed[b] = 0 /\ counted[b] = 0
        BY DEF Init, RateLimitInit
      <3>2. Cardinality(Due(b)) = 0
        BY <2>2, <2>3
      <3> QED BY <2>3, <3>1, <3>2, RateLimitAssumption
    <2> QED BY <2>1, <2>4 DEF LimitInv
  <1>2. LimitInv /\ [Next]_vars => LimitInv'
    <2> SUFFICES ASSUME LimitInv, [Next]_vars PROVE LimitInv'
      OBVIOUS
    <2>1. now \in Buckets
      BY DEF LimitInv, RateLimitTypeOK
    <2>2. ASSUME NEW r \in Requests,
                 \/ Arrive(r) \/ Refuse(r) \/ HandleRoll(r) \/ HandleReroll(r)
                 \/ HandleRollInitiative(r) \/ HandleOther(r)
          PROVE  LimitInv'
      BY <2>2, ReadStep, CountStep
      DEF Arrive, Refuse, HandleRoll, HandleReroll, HandleRollInitiative, HandleOther
    <2>3. CASE UNCHANGED limitVars \/ UNCHANGED vars
      BY <2>1, <2>3, LimitUnchanged DEF limitVars, vars
    <2>4. CASE TenSecondsPass
      BY <2>1, <2>4, LimitUnchanged, RateLimitAssumption DEF TenSecondsPass, Buckets
    <2> QED BY <2>2, <2>3, <2>4 DEF Next
  <1> QED BY <1>1, <1>2, PTL DEF Spec

\* In no 10 seconds are more requests served than the limit and the number handled at once
\* together, however their reads and increments of the counter interleave and
\* fail (RateLimitedHandler, server/http/middleware.go).
THEOREM OvershootBounded == Spec => []OvershootIsBounded
  <1>1. LimitInv => OvershootIsBounded
    <2> SUFFICES ASSUME LimitInv, NEW b \in Buckets
                 PROVE  passed[b] <= MaxRequestsPer10Secs + Cardinality(Requests)
      BY DEF OvershootIsBounded
    <2> QED BY DueCounts, RateLimitAssumption DEF LimitInv, RateLimitTypeOK
  <1> QED BY LimitInvariant, <1>1, PTL

-----------------------------------------------------------------------------
(* The pools.                                                              *)

RollType ==
    [at : {"rolling", "ready"}, kind : Kinds, count : Nat \ {0}, pool : Nat \ {0},
     rounds : Seq(Seq({Blank} \cup Dice)), round : Seq(Dice)]

LastRound(x) == x.rounds[Len(x.rounds)]

\* As many dice in a round as the one before had sixes.
Chained(x) ==
    /\ x.rounds # <<>> => Len(x.rounds[1]) = x.count
    /\ \A k \in 1 .. (Len(x.rounds) - 1) : Len(x.rounds[k + 1]) = Sixes(x.rounds[k])

\* A roll that goes on is short of its pool, and only exploding ones have more rounds.
InProgress(x) ==
    /\ Len(x.round) < x.pool
    /\ x.rounds = <<>> => x.pool = x.count
    /\ x.rounds # <<>> => x.kind = "edge" /\ x.pool = Sixes(LastRound(x))
    /\ x.rounds \in Seq(Seq(Dice))

Complete(x) ==
    /\ x.rounds # <<>>
    /\ IF x.kind = "edge" THEN Sixes(LastRound(x)) = 0 ELSE Len(x.rounds) = 1

BlanksLast(round) ==
    \A i \in 1 .. Len(round) :
        round[i] = Blank => \A k \in i .. Len(round) : round[k] = Blank

Rolled(round) == \A i \in 1 .. Len(round) : round[i] # Blank

BlanksOf(x) ==
    \A j \in 1 .. Len(x.rounds) :
        \/ Rolled(x.rounds[j])
        \/ closed /\ x.kind = "initiative" /\ BlanksLast(x.rounds[j])

PoolInv ==
    /\ roll \in [Rollers -> {NotRolling} \cup RollType]
    /\ dice \in Seq(Dice)
    /\ closed \in BOOLEAN
    /\ \A r \in Rollers : roll[r] # NotRolling =>
         /\ Chained(roll[r])
         /\ roll[r].at = "rolling" => InProgress(roll[r])
         /\ roll[r].at = "ready" => Complete(roll[r]) /\ BlanksOf(roll[r])

LEMMA CountInType ==
    ASSUME NEW S, NEW s \in Seq(S), NEW faces
    PROVE  CountIn(s, faces) \in Nat
  <1>1. IsFiniteSet(1 .. Len(s)) /\ DOMAIN s = 1 .. Len(s)
    BY FS_Interval
  <1>2. {i \in DOMAIN s : s[i] \in faces} \subseteq 1 .. Len(s)
    BY <1>1
  <1> QED BY <1>1, <1>2, FS_Subset, FS_CardinalityType DEF CountIn

LEMMA DiceAreNoBlanks ==
    ASSUME NEW round \in Seq(Dice)
    PROVE  round \in Seq({Blank} \cup Dice) /\ Rolled(round)
  BY DEF Rolled, Blank, Dice, rollMax

\* A round is added at the end of the chain.
LEMMA ChainGrows ==
    ASSUME NEW x \in RollType, Chained(x),
           NEW round \in Seq({Blank} \cup Dice),
           x.rounds = <<>> => Len(round) = x.count,
           x.rounds # <<>> => Len(round) = Sixes(LastRound(x)),
           NEW y, y.count = x.count, y.rounds = Append(x.rounds, round)
    PROVE  Chained(y) /\ y.rounds # <<>> /\ LastRound(y) = round
           /\ Len(y.rounds) = Len(x.rounds) + 1
           /\ \A k \in 1 .. Len(x.rounds) : y.rounds[k] = x.rounds[k]
  <1> DEFINE n == Len(x.rounds)
  <1>1. x.rounds \in Seq(Seq({Blank} \cup Dice)) /\ n \in Nat
    BY DEF RollType
  <1>2. /\ Len(y.rounds) = n + 1 /\ y.rounds[n + 1] = round
        /\ \A k \in 1 .. n : y.rounds[k] = x.rounds[k]
        /\ y.rounds # <<>>
    BY <1>1
  <1>3. n = 0 <=> x.rounds = <<>>
    BY <1>1
  <1>4. Len(y.rounds[1]) = y.count
    <2>1. CASE n = 0
      BY <1>2, <1>3, <2>1
    <2>2. CASE n > 0
      BY <1>1, <1>2, <1>3, <2>2 DEF Chained
    <2> QED BY <1>1, <2>1, <2>2
  <1>5. ASSUME NEW k \in 1 .. n
        PROVE  Len(y.rounds[k + 1]) = Sixes(y.rounds[k])
    <2>1. CASE k = n
      BY <1>1, <1>2, <1>3, <2>1 DEF LastRound
    <2>2. CASE k < n
      <3>1. k \in 1 .. (Len(x.rounds) - 1) /\ k + 1 \in 1 .. n /\ k \in 1 .. n
        BY <1>1, <2>2
      <3> QED BY <1>2, <3>1 DEF Chained
    <2> QED BY <1>1, <2>1, <2>2
  <1> QED BY <1>1, <1>2, <1>4, <1>5 DEF Chained, LastRound

\* What a completed round leaves.
LEMMA CompletedIs ==
    ASSUME NEW x \in RollType, NEW round \in Seq({Blank} \cup Dice)
    PROVE  LET c == Completed(x, round) IN
           /\ c \in RollType
           /\ c.at = x.at /\ c.kind = x.kind /\ c.count = x.count /\ c.pool = x.pool
           /\ c.rounds = Append(x.rounds, round) /\ c.round = <<>>
  <1>1. Append(x.rounds, round) \in Seq(Seq({Blank} \cup Dice)) /\ <<>> \in Seq(Dice)
    BY DEF RollType
  <1> QED BY <1>1 DEF Completed, RollType

LEMMA NextRoundStep ==
    ASSUME NEW x \in RollType, x.at = "rolling", Chained(x), InProgress(x),
           NEW round \in Seq(Dice), Len(round) = x.pool
    PROVE  LET y == NextRound(x, round) IN
           /\ y \in RollType
           /\ Chained(y)
           /\ y.at = "rolling" => InProgress(y)
           /\ y.at = "ready" => Complete(y) /\ BlanksOf(y)
  <1> DEFINE y == NextRound(x, round)
             c == Completed(x, round)
  <1>1. /\ x.rounds \in Seq(Seq(Dice)) /\ x.rounds \in Seq(Seq({Blank} \cup Dice))
        /\ x.kind \in Kinds /\ x.count \in Nat \ {0} /\ x.pool \in Nat \ {0}
    BY DEF InProgress, RollType
  <1>2. round \in Seq({Blank} \cup Dice) /\ Rolled(round) /\ Sixes(round) \in Nat
    BY DiceAreNoBlanks, CountInType DEF Sixes
  <1>3. /\ Append(x.rounds, round) \in Seq(Seq({Blank} \cup Dice))
        /\ Append(x.rounds, round) \in Seq(Seq(Dice))
    BY <1>1, <1>2
  <1>4. /\ c \in RollType
        /\ c.at = "rolling" /\ c.kind = x.kind /\ c.count = x.count /\ c.pool = x.pool
        /\ c.rounds = Append(x.rounds, round) /\ c.round = <<>>
    BY <1>2, CompletedIs
  <1>5. /\ x.rounds = <<>> => Len(round) = x.count
        /\ x.rounds # <<>> => Len(round) = Sixes(LastRound(x))
    BY DEF InProgress
  <1>6. CASE x.kind = "edge" /\ Sixes(round) > 0
    <2>0. PICK n \in Nat \ {0} : n = Sixes(round)
      BY <1>2, <1>6
    <2>1. y = [c EXCEPT !.pool = n]
      BY <1>6, <2>0 DEF NextRound
    <2>2. /\ y \in RollType
          /\ y.at = "rolling" /\ y.kind = x.kind /\ y.count = x.count /\ y.pool = Sixes(round)
          /\ y.rounds = Append(x.rounds, round) /\ y.round = <<>>
      BY <1>4, <2>0, <2>1 DEF RollType
    <2>3. Chained(y) /\ y.rounds # <<>> /\ LastRound(y) = round
      BY <1>2, <1>5, <2>2, ChainGrows
    <2>4. InProgress(y)
      BY <1>2, <1>3, <1>6, <2>2, <2>3 DEF InProgress
    <2> QED BY <2>2, <2>3, <2>4
  <1>7. CASE ~(x.kind = "edge" /\ Sixes(round) > 0)
    <2>1. y = [c EXCEPT !.at = "ready"]
      BY <1>7 DEF NextRound
    <2>2. /\ y \in RollType
          /\ y.at = "ready" /\ y.kind = x.kind /\ y.count = x.count /\ y.pool = x.pool
          /\ y.rounds = Append(x.rounds, round) /\ y.round = <<>>
      BY <1>4, <2>1 DEF RollType
    <2>3. /\ Chained(y) /\ y.rounds # <<>> /\ LastRound(y) = round
          /\ Len(y.rounds) = Len(x.rounds) + 1
          /\ \A k \in 1 .. Len(x.rounds) : y.rounds[k] = x.rounds[k]
      BY <1>2, <1>5, <2>2, ChainGrows
    <2>4. x.kind # "edge" => Len(x.rounds) = 0
      BY DEF InProgress
    <2>5. Complete(y)
      BY <1>2, <1>7, <2>2, <2>3, <2>4 DEF Complete
    <2>6. \A k \in 1 .. Len(x.rounds) : Rolled(x.rounds[k])
      BY <1>1, DiceAreNoBlanks
    <2>7. ASSUME NEW j \in 1 .. Len(y.rounds)
          PROVE  Rolled(y.rounds[j])
      <3>1. CASE j \in 1 .. Len(x.rounds)
        BY <2>3, <2>6, <3>1
      <3>2. CASE j = Len(y.rounds)
        BY <1>2, <2>3, <3>2 DEF LastRound
      <3>3. Len(x.rounds) \in Nat
        BY <1>1
      <3> QED BY <2>3, <3>1, <3>2, <3>3
    <2> QED BY <2>2, <2>3, <2>5, <2>7 DEF BlanksOf
  <1> QED BY <1>6, <1>7

\* What is to hold of one roll.
RollInv(x) ==
    /\ Chained(x)
    /\ x.at = "rolling" => InProgress(x)
    /\ x.at = "ready" => Complete(x) /\ BlanksOf(x)

\* One roller goes on, the channel changes beside it.
LEMMA OneRollChanges ==
    ASSUME PoolInv, NEW r \in Rollers, NEW x \in {NotRolling} \cup RollType,
           roll' = [roll EXCEPT ![r] = x], x # NotRolling => RollInv(x),
           dice' \in Seq(Dice), closed' = closed
    PROVE  PoolInv'
  <1>1. roll' \in [Rollers -> {NotRolling} \cup RollType]
    BY DEF PoolInv
  <1>2. ASSUME NEW q \in Rollers, roll'[q] # NotRolling
        PROVE  /\ Chained(roll'[q])
               /\ roll'[q].at = "rolling" => InProgress(roll'[q])
               /\ roll'[q].at = "ready" => Complete(roll'[q]) /\ BlanksOf(roll'[q])
    <2>1. CASE q = r
      <3>1. roll'[q] = x
        BY <2>1 DEF PoolInv
      <3> QED BY <1>2, <3>1 DEF RollInv
    <2>2. CASE q # r
      <3>1. roll'[q] = roll[q]
        BY <2>2 DEF PoolInv
      <3> QED BY <1>2, <3>1 DEF PoolInv
    <2> QED BY <2>1, <2>2
  <1>3. \A q \in Rollers : BlanksOf(roll'[q]) => BlanksOf(roll[q])'
    BY DEF BlanksOf
  <1> QED BY <1>1, <1>2, <1>3
      DEF PoolInv, Chained, InProgress, Complete, LastRound

LEMMA StartStep ==
    ASSUME PoolInv, NEW r \in Rollers, NEW kind \in Kinds, NEW count \in Nat \ {0},
           StartRoll(r, kind, count)
    PROVE  PoolInv'
  <1> DEFINE x == Rolling(kind, count)
  <1>1. /\ x.at = "rolling" /\ x.rounds = <<>> /\ x.round = <<>>
        /\ x.pool = count /\ x.count = count /\ x \in RollType
    BY DEF Rolling, RollType
  <1>2. RollInv(x)
    BY <1>1 DEF RollInv, Chained, InProgress
  <1> QED BY <1>1, <1>2, OneRollChanges DEF StartRoll, PoolInv

LEMMA TakeStep ==
    ASSUME PoolInv, NEW r \in Rollers, TakeDie(r)
    PROVE  PoolInv'
  <1> DEFINE x == roll[r]
             round == Append(x.round, Head(dice))
  <1>1. /\ x.at = "rolling" /\ dice # <<>> /\ dice \in Seq(Dice)
        /\ dice' = Tail(dice) /\ closed' = closed
        /\ x \in {NotRolling} \cup RollType
    BY DEF TakeDie, PoolInv
  <1>2. x # NotRolling /\ x \in RollType
    BY <1>1 DEF NotRolling
  <1>3. Chained(x) /\ InProgress(x)
    BY <1>1, <1>2 DEF PoolInv
  <1>4. Head(dice) \in Dice /\ dice' \in Seq(Dice)
    BY <1>1
  <1>5. /\ x.round \in Seq(Dice) /\ x.pool \in Nat /\ Len(x.round) < x.pool
    BY <1>2, <1>3 DEF RollType, InProgress
  <1>6. round \in Seq(Dice) /\ Len(round) = Len(x.round) + 1
    BY <1>4, <1>5
  <1>7. CASE Len(round) = x.pool
    <2>1. roll' = [roll EXCEPT ![r] = NextRound(x, round)]
      BY <1>7 DEF TakeDie
    <2>2. NextRound(x, round) \in RollType /\ RollInv(NextRound(x, round))
      BY <1>1, <1>2, <1>3, <1>6, <1>7, NextRoundStep DEF RollInv
    <2> QED BY <1>1, <1>4, <2>1, <2>2, OneRollChanges
  <1>8. CASE Len(round) # x.pool
    <2>1. PICK y : y = [x EXCEPT !.round = round]
      OBVIOUS
    <2>2. roll' = [roll EXCEPT ![r] = y]
      BY <1>8, <2>1 DEF TakeDie
    <2>3. /\ y \in RollType
          /\ y.at = "rolling" /\ y.kind = x.kind /\ y.count = x.count /\ y.pool = x.pool
          /\ y.rounds = x.rounds /\ y.round = round
      BY <1>1, <1>2, <1>6, <2>1 DEF RollType
    <2>4. Len(y.round) < y.pool
      BY <1>5, <1>6, <1>8, <2>3
    <2>5. RollInv(y)
      BY <1>3, <2>3, <2>4 DEF RollInv, Chained, InProgress, LastRound
    <2> QED BY <1>1, <1>4, <2>2, <2>3, <2>5, OneRollChanges
  <1> QED BY <1>7, <1>8

LEMMA PaddedIs ==
    ASSUME NEW round \in Seq(Dice), NEW pool \in Nat
    PROVE  /\ Padded(round, pool) \in Seq({Blank} \cup Dice)
           /\ Len(Padded(round, pool)) = pool
           /\ BlanksLast(Padded(round, pool))
  <1>1. \A i \in 1 .. pool : Padded(round, pool)[i] \in {Blank} \cup Dice
    BY DEF Padded
  <1>2. Padded(round, pool) \in [1 .. pool -> {Blank} \cup Dice]
    BY <1>1 DEF Padded
  <1>3. Padded(round, pool) \in Seq({Blank} \cup Dice) /\ Len(Padded(round, pool)) = pool
    BY <1>2
  <1>4. \A i \in 1 .. pool : Padded(round, pool)[i] = Blank <=> i > Len(round)
    BY DEF Padded, Blank, Dice, rollMax
  <1>5. BlanksLast(Padded(round, pool))
    BY <1>3, <1>4 DEF BlanksLast
  <1> QED BY <1>3, <1>5

\* The channel is closed: an initiative is padded, any other roll is given up.
LEMMA ClosedStep ==
    ASSUME PoolInv, NEW r \in Rollers, FindClosed(r)
    PROVE  PoolInv'
  <1> DEFINE x == roll[r]
             round == Padded(x.round, x.pool)
             c == Completed(x, round)
  <1>1. /\ x.at = "rolling" /\ closed /\ closed' = closed /\ dice' \in Seq(Dice)
        /\ x \in {NotRolling} \cup RollType
    BY DEF FindClosed, PoolInv
  <1>2. x # NotRolling /\ x \in RollType
    BY <1>1 DEF NotRolling
  <1>3. CASE x.kind = "initiative"
    <2>1. x.rounds = <<>> /\ x.pool = x.count /\ Chained(x)
      BY <1>1, <1>2, <1>3 DEF PoolInv, InProgress
    <2>2. x.round \in Seq(Dice) /\ x.pool \in Nat
      BY <1>2 DEF RollType
    <2>3. /\ round \in Seq({Blank} \cup Dice) /\ Len(round) = x.count /\ BlanksLast(round)
      BY <2>1, <2>2, PaddedIs
    <2>4. /\ c \in RollType
          /\ c.kind = x.kind /\ c.count = x.count /\ c.rounds = Append(x.rounds, round)
      BY <1>2, <2>3, CompletedIs
    <2>5. PICK y : y = [c EXCEPT !.at = "ready"]
      OBVIOUS
    <2>6. /\ y \in RollType
          /\ y.at = "ready" /\ y.kind = "initiative" /\ y.count = x.count
          /\ y.rounds = Append(x.rounds, round)
      BY <1>3, <2>4, <2>5 DEF RollType
    <2>7. /\ Chained(y) /\ y.rounds # <<>> /\ LastRound(y) = round
          /\ Len(y.rounds) = Len(x.rounds) + 1
      BY <1>2, <2>1, <2>3, <2>6, ChainGrows
    <2>8. Len(y.rounds) = 1
      BY <2>1, <2>7
    <2>9. RollInv(y)
      BY <1>1, <2>3, <2>6, <2>7, <2>8 DEF RollInv, Complete, BlanksOf, LastRound
    <2>10. roll' = [roll EXCEPT ![r] = y]
      BY <1>3, <2>5 DEF FindClosed
    <2> QED BY <1>1, <2>6, <2>9, <2>10, OneRollChanges
  <1>4. CASE x.kind # "initiative"
    <2>1. roll' = [roll EXCEPT ![r] = NotRolling]
      BY <1>4 DEF FindClosed
    <2> QED BY <1>1, <2>1, OneRollChanges
  <1> QED BY <1>3, <1>4

LEMMA GenerateStep ==
    ASSUME PoolInv, Generate
    PROVE  PoolInv'
  <1>1. PICK b \in Bytes : dice' = Append(dice, DieOf(b))
    BY DEF Generate
  <1>2. b \in 0 .. MaxUint8
    BY DicePoolAssumption
  <1>3. DieOf(b) \in Dice
    BY <1>2 DEF DieOf, Dice, rollMax, MaxUint8
  <1>4. dice' \in Seq(Dice) /\ UNCHANGED << closed, roll >>
    BY <1>1, <1>3 DEF Generate, PoolInv
  <1> QED BY <1>4
      DEF PoolInv, Chained, InProgress, Complete, BlanksOf, LastRound

\* The generator ends, or nothing of the pool changes.
LEMMA PoolUnchanged ==
    ASSUME PoolInv, UNCHANGED << dice, roll >>, closed' \in BOOLEAN, closed => closed'
    PROVE  PoolInv'
  <1>1. \A r \in Rollers : BlanksOf(roll[r]) => BlanksOf(roll[r])'
    BY DEF BlanksOf
  <1> QED BY <1>1 DEF PoolInv, Chained, InProgress, Complete, LastRound

LEMMA PoolInvariant == Spec => []PoolInv
  <1>1. Init => PoolInv
    <2> SUFFICES ASSUME Init PROVE PoolInv
      OBVIOUS
    <2>1. roll \in [Rollers -> {NotRolling} \cup RollType]
      BY DEF Init, DicePoolInit
    <2>2. \A r \in Rollers : roll[r] = NotRolling
      BY DEF Init, DicePoolInit
    <2>3. dice = <<>> /\ closed = FALSE
      BY DEF Init, DicePoolInit
    <2>4. <<>> \in Seq(Dice)
      OBVIOUS
    <2> QED BY <2>1, <2>2, <2>3, <2>4 DEF PoolInv
  <1>2. PoolInv /\ [Next]_vars => PoolInv'
    <2> SUFFICES ASSUME PoolInv, [Next]_vars PROVE PoolInv'
      OBVIOUS
    <2>1. CASE UNCHANGED diceVars \/ UNCHANGED vars
      BY <2>1, PoolUnchanged DEF diceVars, vars, PoolInv
    <2>2. ASSUME NEW r \in Requests,
                 HandleRoll(r) \/ HandleRollInitiative(r)
          PROVE  PoolInv'
      BY <2>2, StartStep, RollsAssumption, DicePoolAssumption
      DEF HandleRoll, HandleRollInitiative, Kinds
    <2>3. ASSUME NEW r \in Requests, HandleReroll(r)
          PROVE  PoolInv'
      <3>0. PICK count \in Pools :
              \E before \in [1 .. count -> Dice] : StartReroll(r, before)
        BY <2>3 DEF HandleReroll
      <3>1. PICK before \in [1 .. count -> Dice] : StartReroll(r, before)
        BY <3>0
      <3>2. before \in Seq(Dice)
        BY <3>1, DicePoolAssumption
      <3>3. Misses(before) \in Nat
        BY <3>2, CountInType DEF Misses
      <3>4. CASE Misses(before) > 0
        <4>1. Misses(before) \in Nat \ {0} /\ StartRoll(r, "reroll", Misses(before))
          BY <3>1, <3>3, <3>4 DEF StartReroll
        <4> QED BY <4>1, StartStep, RollsAssumption DEF Kinds
      <3>5. CASE ~(Misses(before) > 0)
        BY <2>1, <3>1, <3>5 DEF StartReroll
      <3> QED BY <3>4, <3>5
    <2>4. ASSUME NEW r \in Requests, InPool(r)
          PROVE  PoolInv'
      <3>1. CASE TakeDie(r)
        BY <3>1, TakeStep, RollsAssumption
      <3>2. CASE FindClosed(r)
        BY <3>2, ClosedStep, RollsAssumption
      <3>3. CASE FinishRoll(r)
        BY <3>3, OneRollChanges, RollsAssumption DEF FinishRoll, PoolInv
      <3> QED BY <2>4, <3>1, <3>2, <3>3 DEF InPool
    <2>5. CASE Generator
      BY <2>5, GenerateStep, PoolUnchanged
      DEF Generator, StopDice, EndGenerator, FailGenerator, PoolInv
    <2>6. ASSUME NEW r \in Requests, Arrive(r) \/ Refuse(r) \/ HandleOther(r)
          PROVE  PoolInv'
      BY <2>1, <2>6 DEF Arrive, Refuse, HandleOther
    <2> QED BY <2>1, <2>2, <2>3, <2>4, <2>5, <2>6 DEF Next
  <1> QED BY <1>1, <1>2, PTL DEF Spec

\* A roll that is posted has the dice it was asked for and, if sixes explode, as many more
\* in each round as the round before had sixes: for any number of rollers
\* that share the channel, and whenever it is closed (server/roll).
THEOREM PoolsComplete == Spec => []PoolsAreComplete
  <1>1. PoolInv => PoolsAreComplete
    <2> SUFFICES ASSUME PoolInv, NEW r \in Rollers, roll[r].at = "ready"
                 PROVE  /\ Len(roll[r].rounds) >= 1
                        /\ Len(roll[r].rounds[1]) = roll[r].count
                        /\ \A k \in 1 .. (Len(roll[r].rounds) - 1) :
                             Len(roll[r].rounds[k + 1]) = Sixes(roll[r].rounds[k])
                        /\ IF roll[r].kind = "edge"
                           THEN Sixes(roll[r].rounds[Len(roll[r].rounds)]) = 0
                           ELSE Len(roll[r].rounds) = 1
      BY DEF PoolsAreComplete
    <2>1. roll[r] \in {NotRolling} \cup RollType /\ roll[r] # NotRolling
      BY DEF PoolInv, NotRolling
    <2>2. Chained(roll[r]) /\ Complete(roll[r])
      BY <2>1 DEF PoolInv
    <2>3. roll[r].rounds # <<>> => Len(roll[r].rounds) >= 1
      BY <2>1 DEF RollType
    <2> QED BY <2>2, <2>3 DEF Chained, Complete, LastRound
  <1> QED BY PoolInvariant, <1>1, PTL

\* Dice that were never rolled are the last ones of an initiative, of a server whose
\* generator has ended (handleRollInitiative, server/routes/initiative.go).
THEOREM BlanksAtTheEnd == Spec => []BlanksOnlyAtTheEnd
  <1>1. PoolInv => BlanksOnlyAtTheEnd
    <2> SUFFICES ASSUME PoolInv, NEW r \in Rollers, roll[r].at = "ready",
                        NEW round \in ToSet(roll[r].rounds), NEW i \in DOMAIN round,
                        round[i] = Blank
                 PROVE  /\ closed /\ roll[r].kind = "initiative"
                        /\ \A k \in i .. Len(round) : round[k] = Blank
      BY DEF BlanksOnlyAtTheEnd
    <2>1. roll[r] \in {NotRolling} \cup RollType /\ roll[r] # NotRolling
      BY DEF PoolInv, NotRolling
    <2>2. roll[r].rounds \in Seq(Seq({Blank} \cup Dice))
      BY <2>1 DEF RollType
    <2>3. PICK j \in 1 .. Len(roll[r].rounds) : round = roll[r].rounds[j]
      BY <2>2 DEF ToSet
    <2>4. round \in Seq({Blank} \cup Dice) /\ i \in 1 .. Len(round)
      BY <2>2, <2>3
    <2>5. BlanksOf(roll[r])
      BY <2>1 DEF PoolInv
    <2> QED BY <2>3, <2>4, <2>5 DEF BlanksOf, Rolled, BlanksLast
  <1> QED BY PoolInvariant, <1>1, PTL
-----------------------------------------------------------------------------
(* Types, and the fairness of the dice.                                    *)

\* What the invariants above leave of the types.
RestInv ==
    /\ Len(dice) <= RollBufferSize
    /\ stopping \in BOOLEAN
    /\ sixes \in 0 .. MaxSixes

LEMMA RestStep == PoolInv /\ RestInv /\ [Next]_vars => RestInv'
  <1> SUFFICES ASSUME PoolInv, RestInv, [Next]_vars PROVE RestInv'
    OBVIOUS
  <1>0. dice \in Seq(Dice) /\ RollBufferSize \in Nat /\ MaxSixes \in Nat
    BY DicePoolAssumption DEF PoolInv
  <1>1. ASSUME UNCHANGED << dice, sixes >>, stopping' \in BOOLEAN
        PROVE  RestInv'
    BY <1>1 DEF RestInv
  <1>2. CASE Generate
    <2>1. PICK b \in Bytes : /\ dice' = Append(dice, DieOf(b))
                             /\ DieOf(b) = 6 => sixes < MaxSixes
                             /\ sixes' = IF DieOf(b) = 6 THEN sixes + 1 ELSE sixes
      BY <1>2 DEF Generate
    <2>2. Len(dice') = Len(dice) + 1 /\ Len(dice) < RollBufferSize /\ stopping' = stopping
      BY <1>0, <1>2, <2>1 DEF Generate
    <2>3. sixes' \in 0 .. MaxSixes
      BY <1>0, <2>1 DEF RestInv
    <2>4. Len(dice') <= RollBufferSize
      BY <1>0, <2>2
    <2> QED BY <2>2, <2>3, <2>4 DEF RestInv
  <1>3. ASSUME NEW r, TakeDie(r)
        PROVE  RestInv'
    <2>1. dice # <<>> /\ dice' = Tail(dice) /\ UNCHANGED << stopping, sixes >>
      BY <1>3 DEF TakeDie
    <2>2. Len(dice') = Len(dice) - 1
      BY <1>0, <2>1
    <2>3. Len(dice') <= RollBufferSize
      BY <1>0, <2>2 DEF RestInv
    <2> QED BY <2>1, <2>3 DEF RestInv
  <1>4. CASE StopDice \/ EndGenerator \/ FailGenerator
    BY <1>1, <1>4 DEF StopDice, EndGenerator, FailGenerator, RestInv
  <1>5. ASSUME NEW r, FindClosed(r) \/ FinishRoll(r)
        PROVE  RestInv'
    BY <1>1, <1>5 DEF FindClosed, FinishRoll, RestInv
  <1>6. CASE UNCHANGED diceVars \/ UNCHANGED vars
    BY <1>1, <1>6 DEF vars, diceVars, RestInv
  <1>7. ASSUME NEW r \in Requests,
               HandleRoll(r) \/ HandleReroll(r) \/ HandleRollInitiative(r)
        PROVE  RestInv'
    BY <1>1, <1>7 DEF HandleRoll, HandleReroll, HandleRollInitiative, StartReroll, StartRoll,
       diceVars, RestInv
  <1> QED BY <1>2, <1>3, <1>4, <1>5, <1>6, <1>7
      DEF Next, Generator, InPool, Arrive, Refuse, HandleOther

\* Every variable keeps its type; the channel never holds more dice than its capacity.
THEOREM RollsTyped == Spec => []TypeOK
  <1>1. Init => RestInv
    <2> SUFFICES ASSUME Init PROVE RestInv
      OBVIOUS
    <2>1. dice = <<>> /\ stopping = FALSE /\ sixes = 0
      BY DEF Init, DicePoolInit
    <2>2. Len(<<>>) = 0 /\ RollBufferSize \in Nat \ {0} /\ MaxSixes \in Nat
      BY DicePoolAssumption
    <2>3. Len(dice) <= RollBufferSize
      BY <2>1, <2>2
    <2>4. sixes \in 0 .. MaxSixes
      BY <2>1, <2>2
    <2>5. stopping \in BOOLEAN
      BY <2>1
    <2> QED BY <2>3, <2>4, <2>5 DEF RestInv
  <1>2. LimitInv /\ PoolInv /\ RestInv => TypeOK
    <2> SUFFICES ASSUME LimitInv, PoolInv, RestInv, NEW r \in Rollers, roll[r] # NotRolling
                 PROVE  /\ roll[r].at \in {"rolling", "ready"} /\ roll[r].kind \in Kinds
                        /\ roll[r].rounds \in Seq(Seq({0} \cup Dice))
                        /\ roll[r].round \in Seq(Dice)
      BY DEF LimitInv, PoolInv, RestInv, TypeOK, DicePoolTypeOK
    <2>1. roll[r] \in RollType
      BY DEF PoolInv
    <2> QED BY <2>1 DEF RollType, Blank
  <1>3. Spec => []RestInv
    BY <1>1, RestStep, PoolInvariant, PTL DEF Spec
  <1> QED BY <1>2, <1>3, LimitInvariant, PoolInvariant, PTL

\* Of the bytes that are accepted, as many make one die as make another.
LEMMA EvenlyDivided ==
    ASSUME NEW die \in Dice
    PROVE  Cardinality(BytesOf[die]) = 42 /\ Cardinality(AcceptedBytes) = 252
  <1>1. AcceptedBytes = 0 .. 251
    BY DEF AcceptedBytes, Accepted, inputByteMax, MaxUint8, rollMax
  <1>2. Cardinality(0 .. 251) = 252 /\ Cardinality(0 .. 41) = 42 /\ IsFiniteSet(0 .. 41)
    <2>1. ASSUME NEW n \in Nat
          PROVE  IsFiniteSet(0 .. n) /\ Cardinality(0 .. n) = n + 1
      BY FS_Interval
    <2>2. Cardinality(0 .. 251) = 251 + 1
      BY <2>1
    <2>3. IsFiniteSet(0 .. 41) /\ Cardinality(0 .. 41) = 41 + 1
      BY <2>1
    <2> QED BY <2>2, <2>3
  <1> DEFINE byte == [k \in 0 .. 41 |-> 6 * k + die - 1]
  <1>3. die \in 1 .. 6
    BY DEF Dice, rollMax
  <1>4. BytesOf[die] = {b \in 0 .. 251 : (b % 6) + 1 = die}
    BY <1>1 DEF BytesOf, DieOf, rollMax
  <1>5. ASSUME NEW k \in 0 .. 41
        PROVE  byte[k] \in BytesOf[die]
    <2>1. byte[k] = 6 * k + die - 1 /\ byte[k] \in 0 .. 251
      BY <1>3
    <2>2. byte[k] % 6 = die - 1
      BY <1>3, <2>1
    <2> QED BY <1>3, <1>4, <2>1, <2>2
  <1>6. ASSUME NEW b \in BytesOf[die]
        PROVE  \E k \in 0 .. 41 : byte[k] = b
    <2>1. b \in 0 .. 251 /\ b % 6 = die - 1
      BY <1>3, <1>4
    <2>2. b = 6 * (b \div 6) + (b % 6) /\ b \div 6 \in 0 .. 41
      BY <2>1
    <2> QED BY <1>3, <2>1, <2>2
  <1>7. \A j, k \in 0 .. 41 : byte[j] = byte[k] => j = k
    BY <1>3
  <1>8. byte \in Bijection(0 .. 41, BytesOf[die])
    BY <1>5, <1>6, <1>7 DEF Bijection, Injection, Surjection, IsInjective
  <1>9. ExistsBijection(0 .. 41, BytesOf[die])
    BY <1>8 DEF ExistsBijection
  <1> QED BY <1>1, <1>2, <1>9, FS_Bijection

\* Every die that is offered was as likely as any other (inputByteMax, server/roll/generator.go),
\* whatever bytes come from the source.
THEOREM DiceFair == Spec => []DiceAreFair
  <1>1. PoolInv => DiceAreFair
    <2> SUFFICES ASSUME PoolInv, NEW die \in ToSet(dice)
                 PROVE  rollMax * Cardinality(BytesOf[die]) = Cardinality(AcceptedBytes)
      BY DEF DiceAreFair
    <2>1. die \in Dice
      BY DEF PoolInv, ToSet
    <2> QED BY <2>1, EvenlyDivided DEF rollMax
  <1> QED BY PoolInvariant, <1>1, PTL
=============================================================================
