------------------------------ MODULE MCGameEvents ------------------------------
(***************************************************************************)
(* Small instances of GameEvents for TLC: a gamemaster gm and a player pc, *)
(* with one tab each or, for the run about a player's own tabs, with two   *)
(* tabs of pc.                                                             *)
(***************************************************************************)
EXTENDS GameEvents, TLC

CONSTANTS gm, pc, tab1, tab2, tab3, old, new

MCPlayers == {gm, pc}
MCTabs == {tab1, tab2}
ThreeTabs == {tab1, tab2, tab3}

TabEach == tab1 :> gm @@ tab2 :> pc
PlayersTwoTabs == tab1 :> gm @@ tab2 :> pc @@ tab3 :> pc

OneTitle == {old}
TwoTitles == {old, new}

\* A legacy event that nobody may change.
Joined == { [id |-> 0, ty |-> "playerJoin", pID |-> pc, share |-> "inGame", title |-> old] }

\* An earlier roll of the gamemaster.
Rolled == { [id |-> 0, ty |-> "roll", pID |-> gm, share |-> "private", title |-> old] }

NoRaces == {}
StreamRaces == {"fetchBeforeSubscribe", "updateBeforePage", "lostConnection", "splitPipeline"}
=============================================================================
