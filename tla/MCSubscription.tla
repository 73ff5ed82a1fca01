----------------------------- MODULE MCSubscription -----------------------------
(***************************************************************************)
(* A small instance of Subscription for TLC: a session that two tabs share *)
(* (or a tab and its reloaded self), beside the dice.                      *)
(***************************************************************************)
EXTENDS Subscription

CONSTANTS s1, s2, shared

AllTasks == Streams \cup {"setup", "server", "dice"}
Sharing == [s \in Streams |-> shared]
=============================================================================
