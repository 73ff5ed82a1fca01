---------------------------------- MODULE Rolls ----------------------------------
(***************************************************************************)
(* A request for a roll from end to end: past the rate limit, to its dice, *)
(* while the server may be stopped (server/routes/game.go, initiative.go). *)
(***************************************************************************)
EXTENDS RateLimit, DicePool

ASSUME RollsAssumption == Rollers = Requests

vars == << limitVars, diceVars >>

TypeOK == RateLimitTypeOK /\ DicePoolTypeOK

Init == RateLimitInit /\ DicePoolInit

-----------------------------------------------------------------------------
\* The dice may end before the server has closed its listener.
Arrive(r) ==
    /\ roll[r] = NotRolling
    /\ ReadCounter(r)
    /\ UNCHANGED diceVars

Refuse(r) ==
    /\ CountLimited(r) \/ FailCount(r)
    /\ UNCHANGED diceVars

HandleRoll(r) ==
    /\ CountPassed(r)
    /\ \E count \in Pools, kind \in {"roll", "edge"} : StartRoll(r, kind, count)

HandleReroll(r) ==
    /\ CountPassed(r)
    /\ \E count \in Pools : \E before \in [1..count -> Dice] :
           StartReroll(r, before)

HandleRollInitiative(r) ==
    /\ CountPassed(r)
    /\ \E count \in Pools : StartRoll(r, "initiative", count)

\* Any other request, or one that is not valid.
HandleOther(r) ==
    /\ CountPassed(r)
    /\ UNCHANGED diceVars

InPool(r) == TakeDie(r) \/ FindClosed(r) \/ FinishRoll(r)

Generator == Generate \/ StopDice \/ EndGenerator \/ FailGenerator

Next ==
    \/ \E r \in Requests :
        \/ Arrive(r) \/ Refuse(r)
        \/ HandleRoll(r) \/ HandleReroll(r) \/ HandleRollInitiative(r) \/ HandleOther(r)
        \/ InPool(r) /\ UNCHANGED limitVars
    \/ Generator /\ UNCHANGED limitVars
    \/ TenSecondsPass /\ UNCHANGED diceVars

Spec == Init /\ [][Next]_vars

\* The generator sends while there is room, and ends once cancelled; a roller
\* receives what there is, and waiting ones are served in turn.
FairSpec ==
    /\ Spec
    /\ WF_vars(Generate /\ UNCHANGED limitVars)
    /\ WF_vars(EndGenerator /\ UNCHANGED limitVars)
    /\ \A r \in Requests : SF_vars(InPool(r) /\ UNCHANGED limitVars)

-----------------------------------------------------------------------------
\* No roller waits for ever, not for a generator that has ended either.
RollersAreServed == \A r \in Requests : roll[r] # NotRolling ~> roll[r] = NotRolling
=============================================================================
