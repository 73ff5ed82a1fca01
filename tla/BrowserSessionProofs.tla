-------------------------- MODULE BrowserSessionProofs --------------------------
(***************************************************************************)
(* A tab has one stream, of the game it shows, and shows the events of     *)
(* that game: for any number of games, of requests in flight and of retry  *)
(* delays.                                                                 *)
(***************************************************************************)
EXTENDS BrowserSession, FiniteSetTheorems, WellFoundedInduction, TLAPS

-----------------------------------------------------------------------------
\* A login that is handled is of a game, so a tab that handles it shows one.
IInv ==
    /\ StreamTypeOK
    /\ session \in Games \cup {None}
    /\ game \in Games \cup {None}
    /\ logins \subseteq Login
    /\ OneStreamOfTheGame

Shows == {"offline", "errored", "disconnected", "connected"}

LEMMA InitInv == Init => IInv
  <1> SUFFICES ASSUME Init PROVE IInv
    OBVIOUS
  <1>1. logins \subseteq Login
    BY DEF Init, Reauth, Login
  <1>2. StreamTypeOK
    BY ClientStreamAssumption DEF Init, AtFirst, StreamInit, StreamTypeOK, Connections
  <1> QED BY <1>1, <1>2 DEF Init, StreamInit, IInv, OneStreamOfTheGame

\* What only shows something else of the connection, or nothing.
LEMMA ShowStep ==
    ASSUME IInv, UNCHANGED game, session' \in Games \cup {None}, logins' \subseteq Login,
           \/ UNCHANGED streamVars
           \/ \E shown \in Shows : ShowConnection(shown)
    PROVE  IInv'
  <1>1. UNCHANGED << source, retryID, streamOf, retries >> /\ connection' \in Connections
    BY DEF ShowConnection, streamVars, IInv, StreamTypeOK, Connections, Shows
  <1> QED BY <1>1 DEF IInv, StreamTypeOK, OneStreamOfTheGame

LEMMA HandleLoginStep ==
    ASSUME IInv, NEW login \in logins, HandleLogin(login)
    PROVE  IInv'
  <1>1. login.game \in Games /\ login.game # None
    BY BrowserAssumption, PagingAssumption DEF IInv, Login
  <1>2. /\ source' = "opening" /\ retryID' = "off" /\ streamOf' = login.game /\ retries' = 0
        /\ game' = login.game /\ session' = login.game /\ connection' = "connecting"
        /\ logins' \subseteq logins
    BY DEF HandleLogin, Connect
  <1>3. StreamTypeOK'
    BY <1>1, <1>2, ClientStreamAssumption, BrowserAssumption DEF StreamTypeOK, Connections
  <1> QED BY <1>1, <1>2, <1>3 DEF IInv, OneStreamOfTheGame

\* Logging out and loading the page again leave neither an EventSource nor a timer.
LEMMA LeaveStep ==
    ASSUME IInv, Logout \/ Reload
    PROVE  IInv'
  <1>1. /\ source' = "none" /\ retryID' = "off" /\ streamOf' = NoTarget /\ retries' = 0
        /\ game' = None /\ session' = session
        /\ connection' \in {"offline", "disconnected"}
    BY DEF Logout, Reload, AtFirst, ClearStream
  <1>2. logins' \subseteq Login
    BY DEF Logout, Reload, Reauth, IInv, Login
  <1>3. StreamTypeOK'
    BY <1>1, ClientStreamAssumption DEF StreamTypeOK, Connections
  <1> QED BY <1>1, <1>2, <1>3 DEF IInv, OneStreamOfTheGame

\* The EventSource gives way to the timer and the timer to the EventSource.
LEMMA StreamStep ==
    ASSUME IInv, StreamChanges
    PROVE  IInv'
  <1>1. UNCHANGED << session, game, logins >>
    BY DEF StreamChanges
  <1>2. /\ source \in {"none", "opening", "open"} /\ retryID \in {"off", "now", "later"}
        /\ retries \in 0 .. NumDelays + 1 /\ NumDelays \in Nat
    BY ClientStreamAssumption DEF IInv, StreamTypeOK
  <1>3. CASE StreamOpens
    BY <1>1, <1>2, <1>3 DEF StreamOpens, IInv, StreamTypeOK, OneStreamOfTheGame, Connections
  <1>4. CASE StreamFails
    <2>1. retryID' \in {"now", "later"}
      BY <1>4 DEF StreamFails, Delay
    <2> QED BY <1>1, <1>2, <1>4, <2>1
        DEF StreamFails, IInv, StreamTypeOK, OneStreamOfTheGame, Connections
  <1>5. CASE Retry
    <2>1. retries' \in 0 .. NumDelays + 1
      BY <1>2, <1>5 DEF Retry, Connect, Count
    <2>2. source = "none" /\ game # None
      BY <1>2, <1>5 DEF Retry, IInv, OneStreamOfTheGame
    <2> QED BY <1>1, <1>2, <1>5, <2>1, <2>2
        DEF Retry, Connect, IInv, StreamTypeOK, OneStreamOfTheGame, Connections
  <1> QED BY <1>3, <1>4, <1>5 DEF StreamChanges

LEMMA StepInv == IInv /\ [Next]_vars => IInv'
  <1> SUFFICES ASSUME IInv, [Next]_vars PROVE IInv'
    OBVIOUS
  <1>1. CASE UNCHANGED vars
    BY <1>1, ShowStep DEF vars, IInv
  <1>2. ASSUME NEW g \in Games, Join(g) \/ SwitchGame(g)
        PROVE  IInv'
    <2>1. logins' \subseteq Login
      BY <1>2 DEF Join, SwitchGame, AskToLogIn, IInv, Login
    <2> QED BY <1>2, <2>1, ShowStep DEF Join, SwitchGame, AskToLogIn, IInv
  <1>3. CASE ScrollDown \/ \E g \in Games : Post(g) \/ Delete(g)
    BY <1>3, ShowStep DEF ScrollDown, Post, Delete, IInv
  <1>4. ASSUME NEW login \in logins, HandleLogin(login)
        PROVE  IInv'
    BY <1>4, HandleLoginStep
  <1>5. ASSUME NEW login \in logins, LoginFails(login)
        PROVE  IInv'
    BY <1>5, ShowStep DEF LoginFails, IInv, Shows
  <1>6. ASSUME NEW get \in gets, Answered(get) \/ Failed(get)
        PROVE  IInv'
    BY <1>6, ShowStep DEF Answered, Failed, IInv, Shows
  <1> QED BY <1>1, <1>2, <1>3, <1>4, <1>5, <1>6, LeaveStep, StreamStep DEF Next

\* Whatever order logins, logouts, failures and timers come in, a tab in a game has one
\* EventSource or one timer that will make one, both of that game; a tab in none has
\* neither (sseStream/Provider.tsx, server/auth.ts).
THEOREM OneStream == Spec => []OneStreamOfTheGame
  <1>1. IInv => OneStreamOfTheGame
    BY DEF IInv
  <1> QED BY InitInv, StepInv, <1>1, PTL DEF Spec

-----------------------------------------------------------------------------
(* Types.                                                                  *)

Evts == SUBSET [game : Games \cup {Local}, id : Nat]

\* A list that is not empty has a last event, and there is a page from it.
LEMMA NextPageIs ==
    ASSUME NEW evts \in Evts, evts # {}
    PROVE  Min({e.id : e \in evts}) \in Nat
  <1> DEFINE ids == {e.id : e \in evts}
  <1>1. ids \subseteq Nat /\ ids # {}
    BY DEF Evts
  <1>2. PICK n \in ids : \A m \in ids : n <= m
    <2> DEFINE less == OpToRel(<, Nat)
    <2>1. \A j, k \in Nat : << j, k >> \in less <=> j < k
      BY DEF OpToRel
    <2>2. IsWellFoundedOn(less, Nat)
      BY NatLessThanWellFounded
    <2> HIDE DEF less
    <2>3. PICK k \in ids : \A m \in ids : << m, k >> \notin less
      BY <1>1, <2>2, WFMin
    <2>4. \A m \in ids : k \in Nat /\ m \in Nat /\ ~ (m < k)
      BY <1>1, <2>1, <2>3
    <2> HIDE DEF ids
    <2>5. \A m \in ids : k <= m
      BY <2>4
    <2> QED BY <2>3, <2>5
  <1>3. Min(ids) \in ids
    BY <1>2 DEF Min
  <1> QED BY <1>1, <1>3

LEMMA FewerTyped ==
    ASSUME PagingTypeOK, UNCHANGED << history, now >>, events' \subseteq events, gets' \subseteq gets,
           historyFetch' \in {"ready", "fetching", "finished"}
    PROVE  PagingTypeOK'
  BY DEF PagingTypeOK

LEMMA AnswerTyped ==
    ASSUME PagingTypeOK, NEW get \in gets, GetAnswer(get) \/ GetFails(get)
    PROVE  PagingTypeOK'
  <1>1. CASE GetFails(get)
    BY <1>1, FewerTyped DEF GetFails, PagingTypeOK
  <1>2. CASE GetAnswer(get)
    <2>1. get.game \in Games
      BY <1>2 DEF GetAnswer, PagingTypeOK, Get
    <2>2. history[get.game] \subseteq [id : Nat, shown : BOOLEAN]
      BY <2>1 DEF PagingTypeOK
    <2>3. \A e \in Page(get) : e.id \in Nat
      BY <2>2 DEF Page, Fetched, NewestOf
    <2>4. Shown(get.game, Page(get)) \subseteq [game : Games \cup {Local}, id : Nat]
      BY <2>1, <2>3 DEF Shown
    <2>5. historyFetch' \in {"ready", "fetching", "finished"}
      BY <1>2 DEF GetAnswer
    <2> QED BY <1>2, <2>4, <2>5 DEF GetAnswer, PagingTypeOK
  <1> QED BY <1>1, <1>2

LEMMA AllLateTyped ==
    ASSUME PagingTypeOK
    PROVE  AllLate \subseteq Get
  <1> SUFFICES ASSUME NEW get \in gets
               PROVE  [kind |-> get.kind, game |-> get.game, newest |-> get.newest,
                       late |-> TRUE] \in Get
    BY DEF AllLate
  <1>1. get \in Get
    BY DEF PagingTypeOK
  <1>2. get.kind \in {"first", "page"} /\ get.game \in Games \cup {None} /\ get.newest \in Nat
    BY <1>1 DEF Get
  <1> QED BY <1>2 DEF Get

LEMMA PagingStep == IInv /\ PagingTypeOK /\ [Next]_vars => PagingTypeOK'
  <1> SUFFICES ASSUME IInv, PagingTypeOK, [Next]_vars PROVE PagingTypeOK'
    OBVIOUS
  <1>1. ASSUME UNCHANGED pagingVars
        PROVE  PagingTypeOK'
    BY <1>1, FewerTyped DEF pagingVars, PagingTypeOK
  <1>2. ASSUME NEW login \in logins, HandleLogin(login)
        PROVE  PagingTypeOK'
    <2>1. [kind |-> "first", game |-> login.game, newest |-> 0, late |-> FALSE] \in Get
      BY DEF IInv, Login, Get
    <2>2. gets' \subseteq Get
      BY <1>2, <2>1, AllLateTyped DEF HandleLogin, FirstGet
    <2> QED BY <1>2, <2>2 DEF HandleLogin, FirstGet, Kept, LocalEvents, PagingTypeOK
  <1>3. CASE Logout
    BY <1>3, AllLateTyped DEF Logout, ClearEvents, LocalEvents, PagingTypeOK
  <1>4. CASE Reload
    BY <1>4, FewerTyped DEF Reload
  <1>5. CASE ScrollDown
    <2>1. Min({e.id : e \in events}) \in Nat
      BY <1>5, NextPageIs DEF ScrollDown, LoadMore, PagingTypeOK, Evts
    <2>2. NextPage(session) \in Get
      BY <2>1 DEF NextPage, Get, IInv
    <2> QED BY <1>5, <2>2 DEF ScrollDown, LoadMore, PagingTypeOK
  <1>6. ASSUME NEW get \in gets, Answered(get) \/ Failed(get)
        PROVE  PagingTypeOK'
    BY <1>6, AnswerTyped DEF Answered, Failed
  <1>7. ASSUME NEW g \in Games, Post(g)
        PROVE  PagingTypeOK'
    <2>1. now' \in Nat
      BY <1>7, PagingAssumption DEF Post, PostTo, PagingTypeOK
    <2>2. history' \in [Games -> SUBSET [id : Nat, shown : BOOLEAN]]
      <3>1. [id |-> now', shown |-> TRUE] \in [id : Nat, shown : BOOLEAN]
        BY <2>1
      <3>2. history' = [history EXCEPT ![g] = @ \cup {[id |-> now', shown |-> TRUE]}]
        BY <1>7 DEF Post, PostTo
      <3> QED BY <3>1, <3>2 DEF PagingTypeOK
    <2>3. events' \subseteq [game : Games \cup {Local}, id : Nat]
      BY <1>7, <2>1 DEF Post, PostTo, PagingTypeOK
    <2> QED BY <1>7, <2>1, <2>2, <2>3 DEF Post, PostTo, PagingTypeOK
  <1>8. ASSUME NEW g \in Games, Delete(g)
        PROVE  PagingTypeOK'
    <2>1. PICK e \in history[g] : DeleteFrom(g, e, Streaming(g))
      BY <1>8 DEF Delete
    <2> QED BY <2>1 DEF DeleteFrom, PagingTypeOK
  <1>9. CASE \/ StreamChanges \/ UNCHANGED vars
             \/ \E g \in Games : Join(g) \/ SwitchGame(g)
             \/ \E login \in logins : LoginFails(login)
    BY <1>1, <1>9 DEF StreamChanges, vars, Join, SwitchGame, AskToLogIn, LoginFails
  <1> QED BY <1>2, <1>3, <1>4, <1>5, <1>6, <1>7, <1>8, <1>9 DEF Next

\* Every variable keeps its type: a page is only asked for from an event that there is.
THEOREM BrowserTyped == Spec => []TypeOK
  <1>1. Init => PagingTypeOK
    <2> SUFFICES ASSUME Init PROVE PagingTypeOK
      OBVIOUS
    <2>1. history \in [Games -> SUBSET [id : Nat, shown : BOOLEAN]] /\ now \in Nat
      BY PagingAssumption DEF Init, PagingInit
    <2>2. events \subseteq [game : Games \cup {Local}, id : Nat]
      <3>1. PICK ids \in SUBSET LocalIDs : events = [game : {Local}, id : ids]
        BY DEF Init, PagingInit
      <3>2. ids \subseteq Nat
        BY PagingAssumption
      <3>3. SUFFICES ASSUME NEW e \in events
                     PROVE  e \in [game : Games \cup {Local}, id : Nat]
        OBVIOUS
      <3>4. e \in [game : {Local}, id : ids]
        BY <3>1
      <3> QED BY <3>2, <3>4
    <2> QED BY <2>1, <2>2 DEF Init, PagingInit, PagingTypeOK
  <1>2. IInv /\ PagingTypeOK => TypeOK
    BY DEF IInv, TypeOK
  <1> QED BY <1>1, <1>2, InitInv, StepInv, PagingStep, PTL DEF Spec

-----------------------------------------------------------------------------
(* Whose events the list shows.                                            *)

\* A request for events that was not left behind by a login or logout is for the game that the
\* page shows, or has no game (and is never answered).
AsksForGame(get) ==
    /\ \E kind, g, newest, late :
         get = [kind |-> kind, game |-> g, newest |-> newest, late |-> late]
    /\ game # None /\ ~get.late => get.game \in {game, None}

AskInv ==
    /\ game # None => session \in {game, None}
    /\ \A get \in gets : AsksForGame(get)
    /\ \A e \in events : e.game # None

LEMMA LateAsks ==
    ASSUME AskInv, NEW get \in AllLate
    PROVE  AsksForGame(get)' /\ get.late
  <1>1. \E kind, g, newest :
          get = [kind |-> kind, game |-> g, newest |-> newest, late |-> TRUE]
    BY DEF AllLate
  <1>2. get.late
    BY <1>1
  <1>3. \E kind, g, newest, late :
          get = [kind |-> kind, game |-> g, newest |-> newest, late |-> late]
    BY <1>1
  <1> QED BY <1>2, <1>3 DEF AsksForGame

\* The events there may come to be in the list.
LEMMA EventsOfGames ==
    ASSUME AskInv, [Next]_vars
    PROVE  \A e \in events' : e.game # None
  <1>1. Local # None /\ None \notin Games
    BY PagingAssumption
  <1>2. CASE events' \subseteq events
    BY <1>2 DEF AskInv
  <1>3. ASSUME NEW login \in logins, HandleLogin(login)
        PROVE  events' \subseteq events
    BY <1>3 DEF HandleLogin, FirstGet, Kept, LocalEvents
  <1>4. ASSUME NEW get \in gets, Answered(get)
        PROVE  \A e \in events' : e.game # None
    BY <1>4 DEF Answered, GetAnswer, Shown, AskInv
  <1>5. ASSUME NEW g \in Games, Post(g)
        PROVE  \A e \in events' : e.game # None
    BY <1>1, <1>5 DEF Post, PostTo, AskInv
  <1>6. ASSUME NEW g \in Games, Delete(g)
        PROVE  events' \subseteq events
    BY <1>6 DEF Delete, DeleteFrom
  <1>7. CASE \/ Logout \/ Reload \/ ScrollDown \/ StreamChanges \/ UNCHANGED vars
             \/ \E g \in Games : Join(g) \/ SwitchGame(g)
             \/ \E get \in gets : Failed(get)
             \/ \E login \in logins : LoginFails(login)
    <2>1. events' \subseteq events
      BY <1>7 DEF Logout, ClearEvents, LocalEvents, Reload, ScrollDown, LoadMore, StreamChanges,
         Join, SwitchGame, AskToLogIn, Failed, GetFails, LoginFails, vars, pagingVars
    <2> QED BY <1>2, <2>1
  <1> QED BY <1>2, <1>3, <1>4, <1>5, <1>6, <1>7 DEF Next

\* Steps that keep the game, and at most forget the session.
LEMMA SameGameAsks ==
    ASSUME IInv, AskInv, UNCHANGED game, session' \in {session, None},
           gets' \subseteq gets \/ gets' = gets \cup {NextPage(session)},
           \A e \in events' : e.game # None
    PROVE  AskInv'
  <1>1. PICK page : page = NextPage(session)
    OBVIOUS
  <1>2. page = [kind |-> "page", game |-> session,
                newest |-> Min({e.id : e \in events}), late |-> FALSE]
    BY <1>1 DEF NextPage
  <1>3. AsksForGame(page)'
    BY <1>2 DEF AskInv, AsksForGame
  <1>4. \A get \in gets : AsksForGame(get)'
    BY DEF AskInv, AsksForGame
  <1>5. \A get \in gets' : AsksForGame(get)'
    BY <1>1, <1>3, <1>4
  <1> QED BY <1>5 DEF AskInv

LEMMA AskStep == IInv /\ AskInv /\ [Next]_vars => AskInv'
  <1> SUFFICES ASSUME IInv, AskInv, [Next]_vars PROVE AskInv'
    OBVIOUS
  <1>0. \A e \in events' : e.game # None
    BY EventsOfGames
  <1>1. CASE UNCHANGED vars
    BY <1>0, <1>1, SameGameAsks DEF vars, pagingVars
  <1>2. ASSUME NEW login \in logins, HandleLogin(login)
        PROVE  AskInv'
    <2>1. /\ game' = login.game /\ session' = login.game
          /\ gets' = AllLate \cup
               {[kind |-> "first", game |-> login.game, newest |-> 0, late |-> FALSE]}
      BY <1>2 DEF HandleLogin, FirstGet
    <2> QED BY <1>0, <2>1, LateAsks DEF AskInv, AsksForGame
  <1>3. CASE Logout
    BY <1>0, <1>3, LateAsks DEF Logout, ClearEvents, AskInv
  <1>4. CASE Reload
    BY <1>0, <1>4 DEF Reload, AskInv
  <1>5. CASE ScrollDown
    BY <1>0, <1>5, SameGameAsks DEF ScrollDown, LoadMore
  <1>6. ASSUME NEW get \in gets, Answered(get) \/ Failed(get)
        PROVE  AskInv'
    BY <1>0, <1>6, SameGameAsks DEF Answered, Failed, GetAnswer, GetFails
  <1>7. ASSUME NEW login \in logins, LoginFails(login)
        PROVE  AskInv'
    BY <1>0, <1>7, SameGameAsks DEF LoginFails, pagingVars
  <1>8. CASE StreamChanges \/ \E g \in Games : Join(g) \/ SwitchGame(g) \/ Post(g) \/ Delete(g)
    BY <1>0, <1>8, SameGameAsks DEF StreamChanges, Join, SwitchGame, AskToLogIn, Post, PostTo, Delete,
       DeleteFrom, pagingVars
  <1> QED BY <1>1, <1>2, <1>3, <1>4, <1>5, <1>6, <1>7, <1>8 DEF Next

LEMMA AskInvariant == Spec => [](IInv /\ AskInv)
  <1>1. Init => AskInv
    BY PagingAssumption DEF Init, PagingInit, AskInv
  <1> QED BY <1>1, InitInv, StepInv, AskStep, PTL DEF Spec

\* The excuses of OnlyLateAnswersMix.
Late ==
    \/ \E get \in gets : (get.late \/ game = None) /\ GetAnswer(get)
    \/ game # None /\ \E login \in logins : login.kind # "switch" /\ HandleLogin(login)

\* Events are only left out, or added to by the game itself.
LEMMA KeepsUnmixed ==
    ASSUME ~Mixed, UNCHANGED game,
           \A e \in events' : e \in events \/ e.game = game
    PROVE  ~Mixed'
  BY DEF Mixed

LEMMA MixStep ==
    ASSUME IInv, AskInv, Next, ~Mixed, Mixed'
    PROVE  Late
  <1> SUFFICES ASSUME ~Late PROVE FALSE
    OBVIOUS
  <1>1. ASSUME NEW login \in logins, HandleLogin(login)
        PROVE  FALSE
    <2>1. game' = login.game /\ events' = Kept(login)
      BY <1>1 DEF HandleLogin, FirstGet
    <2>2. game = None \/ login.kind = "switch"
      BY <1>1 DEF Late
    <2>3. \A e \in events' : e.game = Local
      BY <2>1, <2>2 DEF Kept, LocalEvents, Mixed, AskInv
    <2> QED BY <2>3 DEF Mixed
  <1>2. CASE Logout \/ Reload
    <2>1. \A e \in events' : e.game = Local
      BY <1>2 DEF Logout, ClearEvents, LocalEvents, Reload
    <2> QED BY <2>1 DEF Mixed
  <1>3. ASSUME NEW get \in gets, Answered(get)
        PROVE  FALSE
    <2>1. get.game # None /\ ~get.late /\ game # None
      BY <1>3 DEF Answered, GetAnswer, Late
    <2>2. get.game = game
      BY <2>1 DEF AskInv, AsksForGame
    <2>3. \A e \in events' : e \in events \/ e.game = game
      BY <1>3, <2>2 DEF Answered, GetAnswer, Shown
    <2> QED BY <1>3, <2>3, KeepsUnmixed DEF Answered
  <1>4. ASSUME NEW g \in Games, Post(g)
        PROVE  FALSE
    <2>1. Streaming(g) => game = g
      BY DEF Streaming, IInv, OneStreamOfTheGame
    <2>2. \A e \in events' : e \in events \/ e.game = game
      BY <1>4, <2>1 DEF Post, PostTo
    <2> QED BY <1>4, <2>2, KeepsUnmixed DEF Post
  <1>5. ASSUME NEW g \in Games, Delete(g)
        PROVE  FALSE
    BY <1>5, KeepsUnmixed DEF Delete, DeleteFrom
  <1>6. ASSUME UNCHANGED << events, game >>
        PROVE  FALSE
    BY <1>6, KeepsUnmixed
  <1>7. CASE \/ ScrollDown \/ StreamChanges
             \/ \E g \in Games : Join(g) \/ SwitchGame(g)
             \/ \E get \in gets : Failed(get)
             \/ \E login \in logins : LoginFails(login)
    BY <1>6, <1>7 DEF ScrollDown, LoadMore, StreamChanges, Join, SwitchGame, AskToLogIn, Failed,
       GetFails, LoginFails, pagingVars
  <1> QED BY <1>1, <1>2, <1>3, <1>4, <1>5, <1>7 DEF Next

\* Only an answer that comes too late, or a session without a game, brings another game's
\* events into the list, for any number of games and requests in flight
\* (server/auth.ts, history/LoadingEventList.tsx).
THEOREM OnlyLateMix == Spec => OnlyLateAnswersMix
  <1> DEFINE Excused == ~Mixed /\ Mixed' => Late
  <1>1. IInv /\ AskInv /\ [Next]_vars => [Excused]_vars
    BY MixStep
  <1>2. Spec => [][Excused]_vars
    BY <1>1, AskInvariant, PTL DEF Spec
  <1> QED BY <1>2 DEF OnlyLateAnswersMix, Late

-----------------------------------------------------------------------------
(* What the pages leave out.                                               *)

\* No two events have the same ID.
UniqueIDs(histories) ==
    \A g, h \in Games : \A e \in histories[g], f \in histories[h] :
        e.id = f.id => g = h /\ e = f

HistoriesInv ==
    /\ Opened <= now
    /\ \A g \in Games : \A e \in history[g] : e.id <= now
    /\ UniqueIDs(history)

LEMMA HistoriesStep == PagingTypeOK /\ HistoriesInv /\ [Next]_vars => HistoriesInv'
  <1> SUFFICES ASSUME PagingTypeOK, HistoriesInv, [Next]_vars PROVE HistoriesInv'
    OBVIOUS
  <1>1. ASSUME UNCHANGED now, \A g \in Games : history'[g] \subseteq history[g]
        PROVE  HistoriesInv'
    BY <1>1 DEF HistoriesInv, UniqueIDs
  <1>2. ASSUME NEW g \in Games, Post(g)
        PROVE  HistoriesInv'
    <2>1. now' = now + 1 /\ now \in Nat /\ Opened \in Nat
      BY <1>2, PagingAssumption DEF Post, PostTo, PagingTypeOK
    <2>2. PICK new : new = [id |-> now', shown |-> TRUE]
      OBVIOUS
    <2>3. \A h \in Games : \A e \in history'[h] : e \in history[h] \/ (e = new /\ h = g)
      BY <1>2, <2>2 DEF Post, PostTo, PagingTypeOK
    <2>4. \A h \in Games : \A e \in history[h] : e.id \in Nat /\ e.id <= now
      BY DEF PagingTypeOK, HistoriesInv
    <2>5. \A h \in Games : \A e \in history[h] : e.id < now' /\ e.id <= now'
      BY <2>1, <2>4
    <2>6. new.id = now' /\ Opened <= now' /\ now' <= now'
      BY <2>1, <2>2 DEF HistoriesInv
    <2>7. \A h \in Games : \A e \in history[h] : e.id # new.id
      BY <2>1, <2>4, <2>6
    <2>8. \A h \in Games : \A e \in history'[h] : e.id <= now'
      BY <2>3, <2>5, <2>6
    <2>9. UniqueIDs(history')
      BY <2>3, <2>7 DEF HistoriesInv, UniqueIDs
    <2> QED BY <2>6, <2>8, <2>9 DEF HistoriesInv, UniqueIDs
  <1>3. ASSUME NEW g \in Games, Delete(g)
        PROVE  HistoriesInv'
    <2>1. PICK e \in history[g] : DeleteFrom(g, e, Streaming(g))
      BY <1>3 DEF Delete
    <2>2. UNCHANGED now /\ \A h \in Games : history'[h] \subseteq history[h]
      BY <2>1 DEF DeleteFrom, PagingTypeOK
    <2> QED BY <1>1, <2>2
  <1>4. ASSUME UNCHANGED << history, now >>
        PROVE  HistoriesInv'
    BY <1>1, <1>4
  <1>5. CASE ~ \E g \in Games : Post(g) \/ Delete(g)
    <2>1. UNCHANGED << history, now >>
      BY <1>5 DEF Next, Join, SwitchGame, AskToLogIn, HandleLogin, FirstGet, LoginFails, Logout,
         ClearEvents, Reload, StreamChanges, ScrollDown, LoadMore, Answered, GetAnswer, Failed,
         GetFails, vars, pagingVars
    <2> QED BY <1>4, <2>1
  <1> QED BY <1>2, <1>3, <1>5

\* A page that holds an event holds the newer ones of those it is taken from.
LEMMA PageIsUpwardClosed ==
    ASSUME NEW evts, NEW n \in Nat, evts \subseteq [id : Nat, shown : BOOLEAN],
           \A e \in evts : e.id <= n,
           \A e, f \in evts : e.id = f.id => e = f,
           NEW f \in NewestOf(evts), NEW e \in evts, f.id < e.id
    PROVE  e \in NewestOf(evts)
  <1>1. \A x \in evts : x.id \in Nat
    OBVIOUS
  <1>2. IsFiniteSet(evts)
    <2> DEFINE id == [x \in evts |-> x.id]
    <2>1. \A x \in evts : x.id \in 0 .. n
      BY <1>1
    <2>2. id \in Injection(evts, 0 .. n)
      BY <2>1 DEF Injection, IsInjective
    <2>3. IsFiniteSet(0 .. n)
      BY FS_Interval
    <2> HIDE DEF id
    <2> QED BY <2>2, <2>3, FS_Injection
  <1> DEFINE Above(k) == {x \in evts : x.id > k}
  <1>3. f \in evts /\ Cardinality(Above(f.id)) < MaxEventRange
    BY DEF NewestOf
  <1>4. Above(e.id) \subseteq Above(f.id) /\ Above(f.id) \subseteq evts
    BY <1>1, <1>3
  <1>5. IsFiniteSet(Above(f.id)) /\ IsFiniteSet(Above(e.id))
    BY <1>2, <1>4, FS_Subset
  <1>6. Cardinality(Above(e.id)) <= Cardinality(Above(f.id))
    BY <1>4, <1>5, FS_Subset
  <1>7. Cardinality(Above(e.id)) \in Nat /\ Cardinality(Above(f.id)) \in Nat /\ MaxEventRange \in Nat
    BY <1>5, FS_CardinalityType, PagingAssumption
  <1> HIDE DEF Above
  <1>8. Cardinality(Above(e.id)) < MaxEventRange
    BY <1>3, <1>6, <1>7
  <1> QED BY <1>8 DEF Above, NewestOf

\* What the answer to a GET may leave out below its events was left out before.
LEMMA AnswerKeepsGapless ==
    ASSUME PagingTypeOK, HistoriesInv, NEW g \in Games, ~Gap(g),
           NEW get \in gets, GetAnswer(get),
           get.game = g /\ get.kind = "page" => \E e \in events : e.game = g /\ e.id <= get.newest
    PROVE  ~Gap(g)'
  <1> SUFFICES ASSUME NEW e \in history'[g], e.shown, e.id <= Opened,
                      [game |-> g, id |-> e.id] \notin events',
                      NEW f \in events', f.game = g, f.id < e.id
               PROVE  FALSE
    BY DEF Gap
  <1>1. /\ history' = history /\ get.game \in Games
        /\ events' = events \cup Shown(get.game, Page(get))
    BY DEF GetAnswer, PagingTypeOK, Get
  <1>2. e \in history[g] /\ [game |-> g, id |-> e.id] \notin events
    BY <1>1
  <1>3. f \notin events
    BY <1>2 DEF Gap
  <1>4. get.game = g
    BY <1>1, <1>3 DEF Shown
  <1>5. PICK x \in Page(get) : f.id = x.id
    BY <1>1, <1>3 DEF Shown
  <1> DEFINE evts == {y \in history[g] : get.kind = "page" => y.id <= get.newest}
  <1>6. Fetched(get) = NewestOf(evts)
    BY <1>4 DEF Fetched
  <1>7. history[g] \subseteq [id : Nat, shown : BOOLEAN] /\ now \in Nat
    BY DEF PagingTypeOK
  <1>8. /\ \A y \in history[g] : y.id <= now
        /\ \A y, z \in history[g] : y.id = z.id => y = z
    BY DEF HistoriesInv, UniqueIDs
  <1>9. x \in NewestOf(evts) /\ x.id < e.id
    BY <1>5, <1>6 DEF Page
  <1>10. e \notin evts
    <2> SUFFICES ASSUME e \in evts PROVE FALSE
      OBVIOUS
    <2>1. e \in NewestOf(evts)
      BY <1>7, <1>8, <1>9, PageIsUpwardClosed
    <2>2. e \in Page(get)
      BY <1>6, <2>1 DEF Page
    <2> QED BY <1>1, <1>4, <2>2 DEF Shown
  <1>11. get.kind = "page" /\ ~ (e.id <= get.newest)
    BY <1>2, <1>10
  <1>12. PICK low \in events : low.game = g /\ low.id <= get.newest
    BY <1>4, <1>11
  <1>13. low.id \in Nat /\ e.id \in Nat /\ get.newest \in Nat
    BY <1>2, <1>7 DEF PagingTypeOK, Get
  <1>14. low.id < e.id
    BY <1>11, <1>12, <1>13
  <1> QED BY <1>2, <1>12, <1>14 DEF Gap

\* What only takes events away, adds newer ones than the page, or clears the list of a game's.
LEMMA KeepsGapless ==
    ASSUME NEW g \in Games, ~Gap(g),
           \A e \in history'[g] : e.id <= Opened => e \in history[g],
           \/ \A f \in events' : f.game # g
           \/ /\ \A f \in events' : f \in events \/ f.game # g \/ ~ \E i \in 0 .. Opened : f.id < i
              /\ \A e \in history'[g] : e.id <= Opened => e.id \in 0 .. Opened
              /\ \A e \in history'[g] :
                   [game |-> g, id |-> e.id] \in events => [game |-> g, id |-> e.id] \in events'
    PROVE  ~Gap(g)'
  BY DEF Gap

\* The excuse of OnlyLostPlacesMakeGaps.
PlaceLost(g) ==
    \E get \in gets :
        /\ GetAnswer(get) /\ get.kind = "page" /\ get.game = g
        /\ \A e \in events : e.game = g => e.id > get.newest

LEMMA GapStep ==
    ASSUME PagingTypeOK, HistoriesInv, Next, NEW g \in Games, ~Gap(g), ~PlaceLost(g)
    PROVE  ~Gap(g)'
  <1>0. /\ Local # g /\ Opened \in Nat
        /\ \A h \in Games : \A e \in history[h] : e.id \in Nat
        /\ \A e \in history[g] : e.id <= Opened => e.id \in 0 .. Opened
    BY PagingAssumption DEF PagingTypeOK
  <1>1. ASSUME UNCHANGED << history, events >>
        PROVE  ~Gap(g)'
    BY <1>1 DEF Gap
  <1>2. ASSUME NEW login \in logins, HandleLogin(login)
        PROVE  ~Gap(g)'
    <2>1. history' = history /\ events' = Kept(login)
      BY <1>2 DEF HandleLogin, FirstGet
    <2>2. CASE login.kind = "switch"
      BY <1>0, <2>1, <2>2, KeepsGapless DEF Kept, LocalEvents
    <2>3. CASE login.kind # "switch"
      BY <1>1, <2>1, <2>3 DEF Kept
    <2> QED BY <2>2, <2>3
  <1>3. CASE Logout
    BY <1>0, <1>3, KeepsGapless DEF Logout, ClearEvents, LocalEvents
  <1>4. CASE Reload
    BY <1>4, KeepsGapless DEF Reload
  <1>5. ASSUME NEW get \in gets, Answered(get)
        PROVE  ~Gap(g)'
    <2>1. GetAnswer(get)
      BY <1>5 DEF Answered
    <2>2. ASSUME get.game = g, get.kind = "page"
          PROVE  \E e \in events : e.game = g /\ e.id <= get.newest
      <3>1. PICK e \in events : e.game = g /\ ~ (e.id > get.newest)
        BY <2>1, <2>2 DEF PlaceLost
      <3>2. e.id \in Nat /\ get.newest \in Nat
        BY DEF PagingTypeOK, Get
      <3> QED BY <3>1, <3>2
    <2> QED BY <2>1, <2>2, AnswerKeepsGapless
  <1>6. ASSUME NEW h \in Games, Post(h)
        PROVE  ~Gap(g)'
    <2>1. now' = now + 1 /\ now \in Nat /\ Opened <= now
      BY <1>6 DEF Post, PostTo, PagingTypeOK, HistoriesInv
    <2>2. ~ \E i \in 0 .. Opened : now' < i
      BY <1>0, <2>1
    <2>3. ~ (now' <= Opened)
      BY <1>0, <2>1
    <2>4. \A e \in history'[g] : e.id <= Opened => e \in history[g]
      BY <1>6, <2>3 DEF Post, PostTo, PagingTypeOK
    <2>5. /\ events \subseteq events'
          /\ \A f \in events' : f \in events \/ f.id = now'
      BY <1>6 DEF Post, PostTo
    <2> QED BY <1>0, <2>2, <2>4, <2>5, KeepsGapless
  <1>7. ASSUME NEW h \in Games, Delete(h)
        PROVE  ~Gap(g)'
    <2>1. PICK d \in history[h] : DeleteFrom(h, d, Streaming(h))
      BY <1>7 DEF Delete
    <2>2. \A e \in history'[g] : e \in history[g] /\ (g = h => e # d)
      BY <2>1 DEF DeleteFrom, PagingTypeOK
    <2>3. \A e \in history'[g] : e.id # d.id
      BY <2>2 DEF HistoriesInv, UniqueIDs
    <2>4. events' \subseteq events /\ \A f \in events : f.id # d.id => f \in events'
      BY <2>1 DEF DeleteFrom
    <2>5. \A e \in history'[g] :
            [game |-> g, id |-> e.id] \in events => [game |-> g, id |-> e.id] \in events'
      BY <2>3, <2>4
    <2> QED BY <1>0, <2>2, <2>4, <2>5, KeepsGapless
  <1>8. CASE \/ ScrollDown \/ StreamChanges
             \/ \E h \in Games : Join(h) \/ SwitchGame(h)
             \/ \E get \in gets : Failed(get)
             \/ \E login \in logins : LoginFails(login)
    BY <1>1, <1>8 DEF ScrollDown, LoadMore, StreamChanges, Join, SwitchGame, AskToLogIn, Failed,
       GetFails, LoginFails, pagingVars
  <1> QED BY <1>2, <1>3, <1>4, <1>5, <1>6, <1>7, <1>8 DEF Next

\* However many pages, deletions, logins and answers that come too late: if no two events of
\* the games' histories have one ID, a page leaves out none in between unless it is asked for
\* from a place the list has lost (handleEvents in server/routes/game.go,
\* history/LoadingEventList.tsx).
THEOREM OnlyLostPlaces ==
    ASSUME \A histories \in Histories : UniqueIDs(histories)
    PROVE  Spec => OnlyLostPlacesMakeGaps
  <1> DEFINE Excused == \A g \in Games : ~Gap(g) /\ Gap(g)' => PlaceLost(g)
  <1>1. Init => HistoriesInv
    <2> SUFFICES ASSUME Init PROVE HistoriesInv
      OBVIOUS
    <2>1. history \in Histories /\ now = Opened /\ Opened \in Nat
      BY PagingAssumption DEF Init, PagingInit
    <2>2. \A g \in Games : \A e \in history[g] : e.id \in 0 .. Opened
      BY <2>1, PagingAssumption
    <2> QED BY <2>1, <2>2 DEF HistoriesInv
  <1>2. PagingTypeOK /\ HistoriesInv /\ [Next]_vars => [Excused]_vars
    BY GapStep
  <1>3. TypeOK => PagingTypeOK
    BY DEF TypeOK
  <1>4. Spec => [][Excused]_vars
    BY <1>1, <1>2, <1>3, HistoriesStep, BrowserTyped, PTL DEF Spec
  <1> QED BY <1>4 DEF OnlyLostPlacesMakeGaps, PlaceLost
=============================================================================
