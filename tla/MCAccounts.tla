------------------------------- MODULE MCAccounts -------------------------------
(***************************************************************************)
(* A small instance of Accounts for TLC: two players of the configuration, *)
(* an administrator who adds a third or a second of a name.                *)
(***************************************************************************)
EXTENDS Accounts

CONSTANTS p1, p2, p3, ann, bob, cat, game, i1, r1, r2

AnnAndBob == << ann, bob >>
=============================================================================
