-------------------------------- MODULE DicePool --------------------------------
(***************************************************************************)
(* The dice (server/roll): a goroutine turns random bytes into dice and    *)
(* sends them on a buffered channel until it is cancelled, and the rollers *)
(* of concurrent requests take their dice from it, one at a time.          *)
(***************************************************************************)
EXTENDS Integers, FiniteSets, Sequences, SequencesExt

CONSTANTS
    Rollers,         \* the requests that may roll at once
    Bytes,           \* some of the random bytes
    Pools,           \* how many dice are asked for
    RollBufferSize,  \* the capacity of the channel
    MaxSixes         \* bound: sixes that come up (or exploding ones might never end)

rollMax == 6
MaxUint8 == 255

\* Mutant: without the 1 the largest byte is one too many.
inputByteMaxTooLarge == MaxUint8 - (MaxUint8 % rollMax)

inputByteMax == MaxUint8 - ((MaxUint8 % rollMax) + 1)

Accepted(b) == b <= inputByteMax
DieOf(b) == (b % rollMax) + 1

ASSUME DicePoolAssumption ==
    /\ Bytes \subseteq 0..MaxUint8
    /\ Pools \subseteq Nat \ {0}
    /\ RollBufferSize \in Nat \ {0} /\ MaxSixes \in Nat

VARIABLES
    dice,       \* the channel
    closed,     \* the generator has ended, and closed it
    stopping,   \* the generator's context is cancelled
    roll,       \* what each roller has
    sixes       \* how many sixes came up, for MaxSixes

diceVars == << dice, closed, stopping, roll, sixes >>

Dice == 1..rollMax

\* A roller has completed `rounds`, and of a round of `pool` dice it has `round`.  It
\* was asked for `count`.
NotRolling == [at |-> "idle"]

Kinds == {"roll", "edge", "reroll", "initiative"}

Rolling(kind, count) ==
    [at |-> "rolling", kind |-> kind, count |-> count, pool |-> count,
     rounds |-> <<>>, round |-> <<>>]

DicePoolTypeOK ==
    /\ dice \in Seq(Dice) /\ Len(dice) <= RollBufferSize
    /\ closed \in BOOLEAN /\ stopping \in BOOLEAN
    /\ \A r \in Rollers : roll[r] # NotRolling =>
         /\ roll[r].at \in {"rolling", "ready"} /\ roll[r].kind \in Kinds
         /\ roll[r].rounds \in Seq(Seq({0} \cup Dice)) /\ roll[r].round \in Seq(Dice)
    /\ sixes \in 0..MaxSixes

DicePoolInit ==
    /\ dice = <<>>
    /\ closed = FALSE
    /\ stopping = FALSE
    /\ roll = [r \in Rollers |-> NotRolling]
    /\ sixes = 0

-----------------------------------------------------------------------------
(* The generator.                                                          *)

\* A byte that is not accepted is skipped.  The send and the end of the context may
\* both be possible: then either is taken.
Generate ==
    /\ ~closed /\ Len(dice) < RollBufferSize
    /\ \E b \in Bytes :
         /\ Accepted(b)
         /\ DieOf(b) = 6 => sixes < MaxSixes
         /\ dice' = Append(dice, DieOf(b))
         /\ sixes' = IF DieOf(b) = 6 THEN sixes + 1 ELSE sixes
    /\ UNCHANGED << closed, stopping, roll >>

StopDice ==
    /\ ~stopping
    /\ stopping' = TRUE
    /\ UNCHANGED << dice, closed, roll, sixes >>

EndGenerator ==
    /\ ~closed /\ stopping
    /\ closed' = TRUE
    /\ UNCHANGED << dice, stopping, roll, sixes >>

\* The source of bytes fails.
FailGenerator ==
    /\ ~closed /\ ~stopping
    /\ closed' = TRUE
    /\ UNCHANGED << dice, stopping, roll, sixes >>

-----------------------------------------------------------------------------
(* Rollers.                                                                *)

CountIn(round, faces) == Cardinality({i \in DOMAIN round : round[i] \in faces})

Sixes(round) == CountIn(round, {6})
Misses(round) == CountIn(round, 1..4)

\* Fill and ExplodingSixes with so many dice.
StartRoll(r, kind, count) ==
    /\ roll[r] = NotRolling
    /\ roll' = [roll EXCEPT ![r] = Rolling(kind, count)]
    /\ UNCHANGED << dice, closed, stopping, sixes >>

\* RerollMisses, of a roll made before.  All hits: the request is answered by an error.
StartReroll(r, before) ==
    IF Misses(before) > 0 THEN StartRoll(r, "reroll", Misses(before)) ELSE UNCHANGED diceVars

Completed(was, round) == [was EXCEPT !.rounds = Append(@, round), !.round = <<>>]

\* Mutant: the next round has as many dice as this one.
NextRoundSamePool(was, round) ==
    IF was.kind = "edge" /\ Sixes(round) > 0
    THEN Completed(was, round)
    ELSE [Completed(was, round) EXCEPT !.at = "ready"]

\* What a roller has once its round is complete.
NextRound(was, round) ==
    IF was.kind = "edge" /\ Sixes(round) > 0
    THEN [Completed(was, round) EXCEPT !.pool = Sixes(round)]
    ELSE [Completed(was, round) EXCEPT !.at = "ready"]

TakeDie(r) ==
    /\ roll[r].at = "rolling" /\ dice # <<>>
    /\ dice' = Tail(dice)
    /\ LET round == Append(roll[r].round, Head(dice))
       IN  roll' = [roll EXCEPT ![r] = IF Len(round) = roll[r].pool
                                       THEN NextRound(roll[r], round)
                                       ELSE [roll[r] EXCEPT !.round = round]]
    /\ UNCHANGED << closed, stopping, sixes >>

Blank == 0

Padded(round, pool) ==
    [i \in 1..pool |-> IF i \in DOMAIN round THEN round[i] ELSE Blank]

\* Mutant: an empty channel is taken for a closed one.
FindEmpty(r) ==
    /\ roll[r].at = "rolling" /\ dice = <<>>
    /\ roll' = [roll EXCEPT ![r] =
           IF @.kind = "initiative"
           THEN [Completed(@, Padded(@.round, @.pool)) EXCEPT !.at = "ready"]
           ELSE NotRolling]
    /\ UNCHANGED << dice, closed, stopping, sixes >>

\* Mutant: a closed channel is asked again.
FindClosedAgain(r) ==
    /\ roll[r].at = "rolling" /\ dice = <<>> /\ closed
    /\ UNCHANGED diceVars

\* ErrChannelClosed halts the request, except that handleRollInitiative does not look
\* at the error: the dice that it has not received are 0.
FindClosed(r) ==
    /\ roll[r].at = "rolling" /\ dice = <<>> /\ closed
    /\ roll' = [roll EXCEPT ![r] =
           IF @.kind = "initiative"
           THEN [Completed(@, Padded(@.round, @.pool)) EXCEPT !.at = "ready"]
           ELSE NotRolling]
    /\ UNCHANGED << dice, closed, stopping, sixes >>

\* The event is posted (GameEvents), or the request was cancelled and is halted.
FinishRoll(r) ==
    /\ roll[r].at = "ready"
    /\ roll' = [roll EXCEPT ![r] = NotRolling]
    /\ UNCHANGED << dice, closed, stopping, sixes >>

-----------------------------------------------------------------------------
AcceptedBytes == {b \in 0..MaxUint8 : Accepted(b)}

BytesOf == [die \in Dice |-> {b \in AcceptedBytes : DieOf(b) = die}]

\* Every die that is offered was as likely as any other: a sixth of the bytes that are
\* accepted make it.
DiceAreFair ==
    \A die \in ToSet(dice) : rollMax * Cardinality(BytesOf[die]) = Cardinality(AcceptedBytes)

\* However requests share the channel, and whenever it is closed, a roll that is to be
\* posted has the dice it was asked for: each round of exploding sixes as
\* many as the round before had sixes, down to one that has none.
PoolsAreComplete ==
    \A r \in Rollers : roll[r].at = "ready" =>
        LET rounds == roll[r].rounds
            n == Len(rounds)
        IN  /\ n >= 1 /\ Len(rounds[1]) = roll[r].count
            /\ \A k \in 1..(n - 1) : Len(rounds[k + 1]) = Sixes(rounds[k])
            /\ IF roll[r].kind = "edge" THEN Sixes(rounds[n]) = 0 ELSE n = 1

\* Only an initiative has dice that were never rolled, the last ones, and only of a
\* server whose generator has ended.
BlanksOnlyAtTheEnd ==
    \A r \in Rollers : roll[r].at = "ready" =>
        \A round \in ToSet(roll[r].rounds) : \A i \in DOMAIN round :
            round[i] = Blank =>
                /\ closed /\ roll[r].kind = "initiative"
                /\ \A k \in i..Len(round) : round[k] = Blank
=============================================================================
