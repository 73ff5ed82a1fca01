----------------------------- MODULE HistoryPaging -----------------------------
(***************************************************************************)
(* How a tab gets the history of its game: one page at a time, the newest  *)
(* first (GET /events in server/routes/game.go), the next one when the     *)
(* user scrolls to the end of the list (web/src/history/                   *)
(* LoadingEventList.tsx, web/src/event/index.ts).                          *)
(*                                                                         *)
(* The answer to a GET is made when the tab gets it: what may happen       *)
(* between the two is in GameEvents, where the history is one page.        *)
(***************************************************************************)
EXTENDS Naturals, FiniteSetsExt

CONSTANTS
    Games, None,
    Local,            \* stands for the game of an event that never left the tab
    MaxEventRange,    \* events in a page
    Opened,           \* the time the page is opened
    Histories,        \* what the games' histories may hold at the start
    LocalIDs,         \* the times of the local events there may be at the start
    MaxStamp          \* bound: the last millisecond an event is posted in

\* One event of a page repeats the last one of the page before.
ASSUME PagingAssumption ==
    /\ None \notin Games /\ Local \notin Games \cup {None}
    /\ MaxEventRange \in Nat /\ MaxEventRange >= 2
    /\ Histories \subseteq [Games -> SUBSET [id : 0 .. Opened, shown : BOOLEAN]]
    /\ Opened \in Nat /\ LocalIDs \subseteq 0 .. Opened /\ MaxStamp \in Nat

VARIABLES
    history,        \* of each game: the events and whether the player can see each
    now,            \* the last millisecond an event was posted in
    events,         \* what the tab's list shows
    historyFetch,   \* ready, fetching or finished
    gets            \* the GETs in flight

pagingVars == << history, now, events, historyFetch, gets >>

\* late: sent before the last login or logout, which nothing in the request tells.
Get == [kind : {"first", "page"}, game : Games \cup {None}, newest : Nat, late : BOOLEAN]

PagingTypeOK ==
    /\ history \in [Games -> SUBSET [id : Nat, shown : BOOLEAN]]
    /\ now \in Nat
    /\ events \subseteq [game : Games \cup {Local}, id : Nat]
    /\ historyFetch \in {"ready", "fetching", "finished"}
    /\ gets \subseteq Get

PagingInit ==
    /\ history \in Histories
    /\ now = Opened
    /\ \E ids \in SUBSET LocalIDs : events = [game : {Local}, id : ids]
    /\ historyFetch = "ready"
    /\ gets = {}

-----------------------------------------------------------------------------
(* The server's answer (handleEvents).                                     *)

\* Mutant: ZRANGEBYSCORE.
OldestOf(evts) == {e \in evts : Cardinality({f \in evts : f.id < e.id}) < MaxEventRange}

\* ZREVRANGEBYSCORE: the newest MaxEventRange of those.
NewestOf(evts) == {e \in evts : Cardinality({f \in evts : f.id > e.id}) < MaxEventRange}

Fetched(get) ==
    NewestOf({e \in history[get.game] : get.kind = "page" => e.id <= get.newest})

Page(get) == {e \in Fetched(get) : e.shown}

\* There may be more if the page was full before any event was left out of it, but not
\* if all of them were.
More(get) == Page(get) # {} /\ Cardinality(Fetched(get)) = MaxEventRange

Shown(g, evts) == {[game |-> g, id |-> e.id] : e \in evts}

-----------------------------------------------------------------------------
(* The list of events.                                                     *)

\* An answer sets historyFetch and is merged, whatever has become of the list.
GetAnswer(get) ==
    /\ get \in gets /\ get.game # None
    /\ gets' = gets \ {get}
    /\ historyFetch' = IF More(get) THEN "ready" ELSE "finished"
    /\ events' = events \cup Shown(get.game, Page(get))
    /\ UNCHANGED << history, now >>

\* Mutant: an error has a state of its own.
GetErrors(get) ==
    /\ get \in gets
    /\ gets' = gets \ {get}
    /\ historyFetch' = "errored"
    /\ UNCHANGED << history, now, events >>

\* A page that cannot be had is the last one; the first GET's error is only logged.
GetFails(get) ==
    /\ get \in gets
    /\ gets' = gets \ {get}
    /\ historyFetch' = IF get.kind = "page" THEN "finished" ELSE historyFetch
    /\ UNCHANGED << history, now, events >>

\* From the last event of the list, local or not.
NextPage(g) ==
    [kind |-> "page", game |-> g, newest |-> Min({e.id : e \in events}), late |-> FALSE]

\* Mutant: the next page is asked for from the newest event of the list.
LoadMoreFromTop(g) ==
    /\ historyFetch = "ready"
    /\ events # {}
    /\ gets' = gets \cup
           {[kind |-> "page", game |-> g, newest |-> Max({e.id : e \in events}), late |-> FALSE]}
    /\ historyFetch' = "fetching"
    /\ UNCHANGED << history, now, events >>

\* loadMoreItems, with the session of game g.
LoadMore(g) ==
    /\ historyFetch = "ready"
    /\ events # {}
    /\ gets' = gets \cup {NextPage(g)}
    /\ historyFetch' = "fetching"
    /\ UNCHANGED << history, now, events >>

AllLate ==
    {[kind |-> get.kind, game |-> get.game, newest |-> get.newest, late |-> TRUE] : get \in gets}

\* What handleLogin does of it, when the list holds the events kept.
FirstGet(g, kept) ==
    /\ gets' = AllLate \cup {[kind |-> "first", game |-> g, newest |-> 0, late |-> FALSE]}
    /\ historyFetch' = "fetching"
    /\ events' = kept
    /\ UNCHANGED << history, now >>

\* What clearEvents keeps.
LocalEvents == {e \in events : e.game = Local}

ClearEvents ==
    /\ events' = LocalEvents
    /\ gets' = AllLate
    /\ UNCHANGED << history, now, historyFetch >>

-----------------------------------------------------------------------------
(* The games.                                                              *)

\* Somebody posts an event the player can see; the tab shows it if its stream is open.
PostTo(g, streaming) ==
    /\ now < MaxStamp /\ now' = now + 1
    /\ history' = [history EXCEPT ![g] = @ \cup {[id |-> now', shown |-> TRUE]}]
    /\ events' = IF streaming THEN events \cup {[game |-> g, id |-> now']} ELSE events
    /\ UNCHANGED << historyFetch, gets >>

DeleteFrom(g, e, streaming) ==
    /\ e \in history[g]
    /\ history' = [history EXCEPT ![g] = @ \ {e}]
    /\ events' = IF streaming THEN {f \in events : f.id # e.id} ELSE events
    /\ UNCHANGED << now, historyFetch, gets >>
=============================================================================
