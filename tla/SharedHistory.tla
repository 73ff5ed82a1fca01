----------------------------- MODULE SharedHistory -----------------------------
(***************************************************************************)
(* What the event history promises the players of a game, apart from how   *)
(* it is kept: there is one history, changed one event at a time, each     *)
(* event by its own author, and whoever follows the game has before them,  *)
(* at every moment, what they may see of it.  GameEvents implements this   *)
(* with a Redis sorted set, filtered pub/sub messages and a reducer in     *)
(* each browser tab.                                                       *)
(***************************************************************************)
EXTENDS EventSharing

CONSTANTS
    Tabs,           \* those who look at the game
    PlayerOf,       \* the player each of them is
    Gamemasters,    \* the players that see what is shared with the GMs
    InitialEvents

VARIABLES
    events,      \* the history
    following,   \* the tabs that follow the game
    screen       \* what a tab that follows the game has before it

vars == << events, following, screen >>

Seen(t, evts) ==
    {e \in evts : PlayerCanSeeEvent(PlayerOf[t], PlayerOf[t] \in Gamemasters, e)}

Init ==
    /\ events = InitialEvents
    /\ following = {}
    /\ screen = [t \in Tabs |-> {}]

\* The history becomes evts, on every screen at once.
Become(evts) ==
    /\ events' = evts
    /\ screen' = [t \in Tabs |-> IF t \in following THEN Seen(t, evts) ELSE {}]
    /\ UNCHANGED following

\* A player adds an event; it has an ID of its own.
Post(p) ==
    \E evt \in events' \ events :
        /\ evt.pID = p
        /\ \A e \in events : e.id # evt.id
        /\ Become(events \cup {evt})

Own(p, evt) == evt.pID = p /\ evt.ty # "playerJoin"

Delete(p) == \E evt \in events : Own(p, evt) /\ Become(events \ {evt})

\* A player changes what may be changed of an event: its share or its title.
Change(p) ==
    \E evt \in events, share \in Shares, title \in Titles :
        /\ Own(p, evt)
        /\ share = evt.share \/ title = evt.title
        /\ Become((events \ {evt}) \cup {[evt EXCEPT !.share = share, !.title = title]})

Follow(t) ==
    /\ following' = following \cup {t}
    /\ screen' = [screen EXCEPT ![t] = Seen(t, events)]
    /\ UNCHANGED events

Leave(t) ==
    /\ following' = following \ {t}
    /\ screen' = [screen EXCEPT ![t] = {}]
    /\ UNCHANGED events

Next ==
    \/ \E p \in Players : Post(p) \/ Delete(p) \/ Change(p)
    \/ \E t \in Tabs : Follow(t) \/ Leave(t)

Spec == Init /\ [][Next]_vars
=============================================================================
