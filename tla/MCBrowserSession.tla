---------------------------- MODULE MCBrowserSession ----------------------------
(***************************************************************************)
(* Small instances of BrowserSession for TLC.                              *)
(***************************************************************************)
EXTENDS BrowserSession, TLC

CONSTANTS g1, g2

Evt(id, shown) == [id |-> id, shown |-> shown]

\* The histories of g1 that the instances start with, with g2's empty.
PagedHistories ==
    {(g1 :> {Evt(1, TRUE), Evt(3, TRUE), Evt(4, a), Evt(5, TRUE)}) @@ (g2 :> {})
        : a \in BOOLEAN}

\* The player can see none of the newest.
HiddenHistories ==
    {(g1 :> {Evt(1, TRUE), Evt(3, TRUE), Evt(4, FALSE), Evt(5, a)}) @@ (g2 :> {})
        : a \in BOOLEAN}

PagedLocalIDs == {2}
=============================================================================
