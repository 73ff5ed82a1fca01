------------------------------- MODULE MCPresence -------------------------------
(***************************************************************************)
(* Small instances of Presence for TLC: a player with streams in two       *)
(* games, and tabs that watch them.                                        *)
(***************************************************************************)
EXTENDS Presence

CONSTANTS plr, s1, s2, s3, s4, w1, w2, here, there

OnePlayer == {plr}
TwoGames == {here, there}
AllOfOne == [s \in Streams |-> plr]
HereAndThere == [s \in Streams |-> IF s \in {s3, s4} THEN there ELSE here]
OneEach == [w \in Watchers |-> IF w = w1 THEN here ELSE there]
=============================================================================
