----------------------------- MODULE BrowserSession -----------------------------
(***************************************************************************)
(* A tab from login to logout: the requests that log it in (web/src/       *)
(* Shadowroller.tsx, game/JoinMenu.tsx, player/EditMenu.tsx), what their   *)
(* answers start (web/src/server/auth.ts), and how that ends.  An answer   *)
(* is handled whenever it comes: no request is ever cancelled.             *)
(***************************************************************************)
EXTENDS ClientStream, HistoryPaging

CONSTANTS
    MaxLogins,    \* bound: the logins in flight at once
    MaxGets,      \* bound: the GETs in flight at once
    Deletable     \* bound: the events that may be deleted

ASSUME BrowserAssumption ==
    /\ Targets = Games /\ NoTarget = None
    /\ MaxLogins \in Nat /\ MaxGets \in Nat /\ Deletable \subseteq Nat

VARIABLES
    session,      \* the game of the session in sessionStorage
    game,         \* the game the page shows
    logins        \* the requests to log in that are in flight

vars == << streamVars, pagingVars, session, game, logins >>

\* reauth is sent when the page is loaded; join and switch by the two menus.
Login == [kind : {"reauth", "join", "switch"}, game : Games]

TypeOK ==
    /\ StreamTypeOK
    /\ PagingTypeOK
    /\ session \in Games \cup {None}
    /\ game \in Games \cup {None}
    /\ logins \subseteq Login

Reauth(g) == IF g = None THEN {} ELSE {[kind |-> "reauth", game |-> g]}

\* What the page shows until there is an answer to that.
AtFirst(g) == IF g = None THEN "offline" ELSE "disconnected"

\* A session is found in the storage, or none; there are local events if it is none.
Init ==
    /\ StreamInit
    /\ PagingInit
    /\ session \in Games \cup {None}
    /\ session # None => events = {}
    /\ connection = AtFirst(session)
    /\ game = None
    /\ logins = Reauth(session)

-----------------------------------------------------------------------------
(* Logging in and out.                                                     *)

AskToLogIn(kind, g) ==
    /\ Cardinality(logins) < MaxLogins
    /\ logins' = logins \cup {[kind |-> kind, game |-> g]}
    /\ UNCHANGED << streamVars, pagingVars, session, game >>

\* The button of JoinMenu may be pressed again before there is an answer.
Join(g) == game = None /\ AskToLogIn("join", g)

SwitchGame(g) == game \notin {None, g} /\ AskToLogIn("switch", g)

\* Mutant: the list is not cleared when another game is joined.
KeptBySwitch(login) == events

\* EditMenu clears the list first.
Kept(login) == IF login.kind = "switch" THEN LocalEvents ELSE events

\* handleLogin: the page shows the game, saves the session, connects and asks for the
\* newest events.
HandleLogin(login) ==
    /\ login \in logins
    /\ Cardinality(gets) < MaxGets
    /\ logins' = logins \ {login}
    /\ game' = login.game /\ session' = login.game
    /\ Connect(login.game, 0) /\ connection' = "connecting"
    /\ FirstGet(login.game, Kept(login))

\* Only the page's own reauth shows it, and forgets the session if it is not valid.
LoginFails(login) ==
    /\ login \in logins
    /\ logins' = logins \ {login}
    /\ IF login.kind # "reauth"
       THEN UNCHANGED << streamVars, session >>
       ELSE \/ ShowConnection("offline") /\ session' = None
            \/ ShowConnection("errored") /\ UNCHANGED session
            \/ ShowConnection("disconnected") /\ UNCHANGED session
    /\ UNCHANGED << pagingVars, game >>

\* The session stays in the storage; the server is asked to remove it, and may not be reached.
Logout ==
    /\ game # None /\ game' = None
    /\ ClearStream /\ connection' = "offline"
    /\ ClearEvents
    /\ UNCHANGED << session, logins >>

\* The page is loaded again.
Reload ==
    /\ ClearStream
    /\ connection' = AtFirst(session)
    /\ events' = {} /\ gets' = {} /\ historyFetch' = "ready"
    /\ game' = None
    /\ logins' = Reauth(session)
    /\ UNCHANGED << history, now, session >>

-----------------------------------------------------------------------------
(* The stream and the history.                                             *)

StreamChanges ==
    /\ StreamOpens \/ StreamFails \/ Retry
    /\ UNCHANGED << pagingVars, session, game, logins >>

Answered(get) ==
    /\ GetAnswer(get)
    /\ IF get.kind = "first" THEN ShowConnection("connected") ELSE UNCHANGED streamVars
    /\ UNCHANGED << session, game, logins >>

Failed(get) ==
    /\ GetFails(get)
    /\ IF get.kind = "first"
       THEN \E shown \in {"errored", "disconnected"} : ShowConnection(shown)
       ELSE UNCHANGED streamVars
    /\ UNCHANGED << session, game, logins >>

\* The list has a row past its last one, which is what asks for more.
AtEnd == connection \notin {"offline", "disconnected"}

\* The user is at the end of the list.
ScrollDown ==
    /\ AtEnd
    /\ Cardinality(gets) < MaxGets
    /\ LoadMore(session)
    /\ UNCHANGED << streamVars, session, game, logins >>

Streaming(g) == source = "open" /\ streamOf = g

Post(g) ==
    /\ PostTo(g, Streaming(g))
    /\ UNCHANGED << streamVars, session, game, logins >>

Delete(g) ==
    /\ \E e \in history[g] : e.id \in Deletable /\ DeleteFrom(g, e, Streaming(g))
    /\ UNCHANGED << streamVars, session, game, logins >>

-----------------------------------------------------------------------------
Next ==
    \/ \E g \in Games : Join(g) \/ SwitchGame(g) \/ Post(g) \/ Delete(g)
    \/ \E login \in logins : HandleLogin(login) \/ LoginFails(login)
    \/ Logout \/ Reload
    \/ StreamChanges \/ ScrollDown
    \/ \E get \in gets : Answered(get) \/ Failed(get)

Spec == Init /\ [][Next]_vars

\* A request ends one way or another, a timer fires, and a user who stays looks at the end of
\* the list: its last row asks for more each time it is drawn.
FairSpec ==
    /\ Spec
    /\ WF_vars(\E get \in gets : Answered(get) \/ Failed(get))
    /\ WF_vars(Retry /\ UNCHANGED << pagingVars, session, game, logins >>)
    /\ SF_vars(ScrollDown)

-----------------------------------------------------------------------------
\* A tab in a game has one EventSource or a timer that will make one, never both nor
\* neither, and they are of the game it shows; a tab in none has none.
OneStreamOfTheGame ==
    /\ game = None => source = "none" /\ retryID = "off"
    /\ game # None => (source # "none") # (retryID # "off") /\ streamOf = game

Mixed == \E e \in events : e.game \notin {Local, game}

\* Events of a game are shown with another's, or with none, only if an answer comes too late
\* (a GET of an earlier login, or a login of JoinMenu or the page's when there is a game
\* already) or the session of the storage is asked for a page without a game.
OnlyLateAnswersMix ==
    [][~Mixed /\ Mixed' =>
        \/ \E get \in gets : (get.late \/ game = None) /\ GetAnswer(get)
        \/ game # None /\ \E login \in logins : login.kind # "switch" /\ HandleLogin(login)]_vars

\* An event from before the page was opened that the list passes over.
Gap(g) ==
    \E e \in history[g] :
        /\ e.shown /\ e.id <= Opened
        /\ [game |-> g, id |-> e.id] \notin events
        /\ \E f \in events : f.game = g /\ f.id < e.id

\* The pages leave no event out in between, unless the place one was asked from is not in the
\* list when it comes: that of a local event, or of an event that is deleted or cleared away.
OnlyLostPlacesMakeGaps ==
    [][\A g \in Games : ~Gap(g) /\ Gap(g)' =>
        \E get \in gets :
            /\ GetAnswer(get) /\ get.kind = "page" /\ get.game = g
            /\ \A e \in events : e.game = g => e.id > get.newest]_vars

\* There is no page that starts where the list ends, or it shows nothing more.
NoNextPage ==
    \/ events = {}
    \/ session = None
    \/ Shown(session, Page(NextPage(session))) \subseteq events

\* Who stays in a game and at the end of the list gets to the end of the history, or where
\* a page shows nothing new, unless the first GET failed.
PagingEnds ==
    <>[](game # None /\ logins = {} /\ AtEnd) =>
        <>[](historyFetch = "finished" \/ NoNextPage \/ (historyFetch = "fetching" /\ gets = {}))

\* A server that stays away is in the end asked again only after RETRY_MAX.
BacksOff ==
    <>[](game # None /\ source # "open" /\ logins = {}) => <>[](retryID # "now")

\* web/src/event/index.ts: once historyRetrieval === "finished", we only miss events by
\* losing connection, events that are newer than the newest seen.
FinishedShowsHistory ==
    game # None /\ historyFetch = "finished" =>
        \A e \in history[game] :
            e.shown /\ e.id <= Opened => [game |-> game, id |-> e.id] \in events
=============================================================================
