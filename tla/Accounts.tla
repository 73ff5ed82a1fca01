-------------------------------- MODULE Accounts --------------------------------
(***************************************************************************)
(* Players, games and who may log in: the hashes player:<id>, the map      *)
(* player_ids from usernames to them, the sets players:<game> and the keys *)
(* game:<game> (server/player, server/game), which the server fills when   *)
(* it starts (server/setup), administrators change (server/routes/task.go) *)
(* and logins read (server/auth, server/routes/auth.go).                   *)
(*                                                                         *)
(* A handler that reads and then writes does so in two steps.  Nothing in  *)
(* the code deletes a player that has its username.                        *)
(***************************************************************************)
EXTENDS Sessions, Sequences, Functions

CONSTANTS
    PlayerIDs,           \* the IDs player.Make may generate
    Usernames, Games,
    HardcodedUsernames,  \* those of the configuration, in order
    HardcodedGames,
    Requests,            \* the requests that are served at once
    None

ASSUME AccountsAssumption ==
    /\ None \notin PlayerIDs \cup Usernames
    /\ HardcodedUsernames \in Seq(Usernames) /\ IsInjective(HardcodedUsernames)
    /\ HardcodedGames \subseteq Games
    /\ IsFiniteSet(PlayerIDs) /\ IsFiniteSet(Games)

VARIABLES
    players,      \* the username in each player's hash, None if there is no hash
    idOf,         \* player_ids
    games,        \* the keys game:<game>
    members,      \* players:<game>
    owner,        \* the player and game of each session
    server,       \* down, games, players (setting up), serving, panicked
    todo,         \* what the setup has yet to do
    req           \* what each request has read

accountVars == << players, idOf, games, members >>
vars == << accountVars, sessions, owner, server, todo, req >>

Idle == [step |-> "idle"]
Nothing == [games |-> {}, names |-> <<>>, player |-> None, joins |-> {}]
NoOwner == [player |-> None, game |-> None]

\* What a request is to write, by what it has read.
Pending ==
    {Idle}
    \cup [step : {"undo"}, player : PlayerIDs]
    \cup [step : {"addPlayer", "login"}, player : PlayerIDs, game : Games]
    \cup [step : {"createGame", "deleteGame"}, game : Games]
    \cup [step : {"reauth", "removeSession"}, session : SessionIDs]
    \cup [step : {"clear", "timeout"}, sessions : SUBSET SessionIDs]

TypeOK ==
    /\ SessionsTypeOK
    /\ players \in [PlayerIDs -> Usernames \cup {None}]
    /\ idOf \in [Usernames -> PlayerIDs \cup {None}]
    /\ games \subseteq Games
    /\ members \in [Games -> SUBSET PlayerIDs]
    /\ owner \in [SessionIDs -> {NoOwner} \cup [player : PlayerIDs, game : Games]]
    /\ server \in {"down", "games", "players", "serving", "panicked"}
    /\ todo \in [games : SUBSET HardcodedGames, names : Seq(Usernames),
                 player : PlayerIDs \cup {None}, joins : SUBSET HardcodedGames]
    /\ req \in [Requests -> Pending]

Init ==
    /\ SessionsInit
    /\ players = [p \in PlayerIDs |-> None]
    /\ idOf = [u \in Usernames |-> None]
    /\ games = {}
    /\ members = [g \in Games |-> {}]
    /\ owner = [i \in SessionIDs |-> NoOwner]
    /\ server = "down"
    /\ todo = Nothing
    /\ req = [r \in Requests |-> Idle]

-----------------------------------------------------------------------------
(* player.Create.                                                          *)

Fresh(p) == players[p] = None

Taken(u) == idOf[u] # None

\* MULTI: the username if it is free, and the player in either case.
WritePlayer(p, u) ==
    /\ Fresh(p)
    /\ players' = [players EXCEPT ![p] = u]
    /\ idOf' = IF Taken(u) THEN idOf ELSE [idOf EXCEPT ![u] = p]

-----------------------------------------------------------------------------
(* The setup, before the server listens.                                   *)

Start ==
    /\ server \in {"down", "panicked"}
    /\ server' = "games"
    /\ todo' = [Nothing EXCEPT !.games =
           IF Cardinality(games) < Cardinality(HardcodedGames) THEN HardcodedGames ELSE {}]
    /\ UNCHANGED << accountVars, sessions, owner, req >>

AddHardcodedGame(g) ==
    /\ server = "games" /\ g \in todo.games
    /\ games' = games \cup {g}
    /\ todo' = [todo EXCEPT !.games = @ \ {g}]
    /\ UNCHANGED << players, idOf, members, sessions, owner, server, req >>

\* Mutant: off by one, the players are created again once all are there.
CountPlayersOffByOne ==
    /\ server = "games" /\ todo.games = {}
    /\ server' = "players"
    /\ todo' = [todo EXCEPT !.names =
           IF Cardinality({p \in PlayerIDs : players[p] # None}) <= Len(HardcodedUsernames)
           THEN HardcodedUsernames ELSE <<>>]
    /\ UNCHANGED << accountVars, sessions, owner, req >>

\* If there are fewer players than names in the configuration, all are created.
CountPlayers ==
    /\ server = "games" /\ todo.games = {}
    /\ server' = "players"
    /\ todo' = [todo EXCEPT !.names =
           IF Cardinality({p \in PlayerIDs : players[p] # None}) < Len(HardcodedUsernames)
           THEN HardcodedUsernames ELSE <<>>]
    /\ UNCHANGED << accountVars, sessions, owner, req >>

CreateHardcodedPlayer(p) ==
    /\ server = "players" /\ todo.joins = {} /\ todo.names # <<>>
    /\ ~Taken(Head(todo.names))
    /\ WritePlayer(p, Head(todo.names))
    /\ todo' = [todo EXCEPT !.names = Tail(@), !.player = p, !.joins = HardcodedGames]
    /\ UNCHANGED << games, members, sessions, owner, server, req >>

\* The new player is deleted again, unless that fails, and main panics.
PanicOnTakenName ==
    /\ server = "players" /\ todo.joins = {} /\ todo.names # <<>>
    /\ Taken(Head(todo.names))
    /\ \/ UNCHANGED << players, idOf >>
       \/ \E p \in PlayerIDs : WritePlayer(p, Head(todo.names))
    /\ server' = "panicked"
    /\ todo' = Nothing
    /\ UNCHANGED << games, members, sessions, owner, req >>

AddHardcodedPlayer(g) ==
    /\ server = "players" /\ g \in todo.joins
    /\ members' = [members EXCEPT ![g] = @ \cup {todo.player}]
    /\ todo' = [todo EXCEPT !.joins = @ \ {g}]
    /\ UNCHANGED << players, idOf, games, sessions, owner, server, req >>

Serve ==
    /\ server = "players" /\ todo.joins = {} /\ todo.names = <<>>
    /\ server' = "serving"
    /\ todo' = Nothing
    /\ UNCHANGED << accountVars, sessions, owner, req >>

\* The process stops: killed, or by an error of Redis in the setup.
Crash ==
    /\ server \notin {"down", "panicked"}
    /\ server' = "down"
    /\ todo' = Nothing
    /\ req' = [r \in Requests |-> Idle]
    /\ UNCHANGED << accountVars, sessions, owner >>

-----------------------------------------------------------------------------
(* Requests.                                                               *)

\* The handler has read, and goes on to write.
Read(r, pending) ==
    /\ server = "serving" /\ req[r] = Idle
    /\ req' = [req EXCEPT ![r] = pending]
    /\ UNCHANGED << accountVars, sessions, owner, server, todo >>

Finish(r, step) ==
    /\ req[r].step = step
    /\ req' = [req EXCEPT ![r] = Idle]
    /\ UNCHANGED << server, todo >>

\* Redis fails, the request is cancelled, or what was read is answered by an error.
Abort(r) ==
    /\ req[r] # Idle
    /\ req' = [req EXCEPT ![r] = Idle]
    /\ UNCHANGED << accountVars, sessions, owner, server, todo >>

HandleCreatePlayer(r) ==
    /\ server = "serving" /\ req[r] = Idle
    /\ \E p \in PlayerIDs, u \in Usernames :
         /\ WritePlayer(p, u)
         /\ req' = [req EXCEPT ![r] = IF Taken(u) THEN [step |-> "undo", player |-> p] ELSE Idle]
    /\ UNCHANGED << games, members, sessions, owner, server, todo >>

\* Mutant: the player of the username that was to be taken is deleted.
UndoPlayerOfName(r) ==
    /\ Finish(r, "undo")
    /\ players' = [players EXCEPT ![idOf[players[req[r].player]]] = None]
    /\ UNCHANGED << idOf, games, members, sessions, owner >>

UndoPlayer(r) ==
    /\ Finish(r, "undo")
    /\ players' = [players EXCEPT ![req[r].player] = None]
    /\ UNCHANGED << idOf, games, members, sessions, owner >>

\* GetByUsername.  Whether there is such a game is not asked.
HandleAddToGame(r) ==
    \E u \in Usernames, g \in Games :
        /\ Taken(u) /\ players[idOf[u]] # None
        /\ Read(r, [step |-> "addPlayer", player |-> idOf[u], game |-> g])

\* Mutant: SADD of the username.
AddPlayerByName(r) ==
    /\ Finish(r, "addPlayer")
    /\ members' = [members EXCEPT ![req[r].game] = @ \cup {players[req[r].player]}]
    /\ UNCHANGED << players, idOf, games, sessions, owner >>

\* MULTI: SADD and PUBLISH.  A player who was in the game is an error after the fact.
AddPlayer(r) ==
    /\ Finish(r, "addPlayer")
    /\ members' = [members EXCEPT ![req[r].game] = @ \cup {req[r].player}]
    /\ UNCHANGED << players, idOf, games, sessions, owner >>

HandleCreateGame(r) ==
    \E g \in Games \ games : Read(r, [step |-> "createGame", game |-> g])

CreateGame(r) ==
    /\ Finish(r, "createGame")
    /\ games' = games \cup {req[r].game}
    /\ UNCHANGED << players, idOf, members, sessions, owner >>

HandleDeleteGame(r) ==
    \E g \in games : Read(r, [step |-> "deleteGame", game |-> g])

\* MULTI: DEL of both keys.  Sessions in the game, its gamemasters and its history stay.
DeleteGame(r) ==
    /\ Finish(r, "deleteGame")
    /\ games' = games \ {req[r].game}
    /\ members' = [members EXCEPT ![req[r].game] = {}]
    /\ UNCHANGED << players, idOf, sessions, owner >>

\* Mutant: a login asks whether there is such a game, not who is in it.
HandleLoginToAnyGame(r) ==
    \E u \in Usernames, g \in games :
        /\ Taken(u) /\ players[idOf[u]] # None
        /\ Read(r, [step |-> "login", player |-> idOf[u], game |-> g])

\* LogPlayerIn.  A game is found by its players alone.
HandleLogin(r) ==
    \E u \in Usernames, g \in Games :
        /\ Taken(u) /\ players[idOf[u]] # None
        /\ idOf[u] \in members[g]
        /\ Read(r, [step |-> "login", player |-> idOf[u], game |-> g])

\* The session is created, or Redis fails on the way.
CreateSession(r) ==
    /\ Finish(r, "login")
    /\ \E i \in SessionIDs :
         /\ Create(i) \/ FailCreate(i)
         /\ owner' = [owner EXCEPT ![i] = [player |-> req[r].player, game |-> req[r].game]]
    /\ UNCHANGED accountVars

HandleReauth(r) ==
    \E i \in SessionIDs :
        /\ Exists(i)
        /\ Read(r, [step |-> "reauth", session |-> i])

\* A session whose game has no players, whose player is not among them, or whose
\* player does not exist is to be removed.
CheckReauth(r) ==
    /\ req[r].step = "reauth"
    /\ LET i == req[r].session
       IN  req' = [req EXCEPT ![r] =
               IF owner[i].player \in members[owner[i].game] /\ players[owner[i].player] # None
               THEN Idle ELSE [step |-> "removeSession", session |-> i]]
    /\ UNCHANGED << accountVars, sessions, owner, server, todo >>

HandleLogout(r) ==
    \E i \in SessionIDs :
        /\ Exists(i)
        /\ Read(r, [step |-> "removeSession", session |-> i])

\* One that is gone already is an error.
RemoveSession(r) ==
    /\ Finish(r, "removeSession")
    /\ Remove(req[r].session)
    /\ UNCHANGED << accountVars, owner >>

HandleClearSessions(r) ==
    Read(r, [step |-> "clear", sessions |-> {i \in SessionIDs : Exists(i)}])

ClearSessions(r) ==
    /\ Finish(r, "clear")
    /\ sessions' = [i \in SessionIDs |->
           IF i \in req[r].sessions /\ Exists(i) THEN "gone" ELSE sessions[i]]
    /\ UNCHANGED << accountVars, owner >>

HandleTimeoutAllSessions(r) ==
    Read(r, [step |-> "timeout", sessions |-> {i \in SessionIDs : Exists(i)}])

TimeoutAllSessions(r) ==
    /\ Finish(r, "timeout")
    /\ sessions' = [i \in SessionIDs |->
           IF i \in req[r].sessions /\ Exists(i) THEN "expiring" ELSE sessions[i]]
    /\ UNCHANGED << accountVars, owner >>

SessionTimesOut(i) ==
    /\ TimeOut(i)
    /\ UNCHANGED << accountVars, owner, server, todo, req >>

-----------------------------------------------------------------------------
SetUp ==
    \/ Start \/ CountPlayers \/ PanicOnTakenName \/ Serve
    \/ \E p \in PlayerIDs : CreateHardcodedPlayer(p)
    \/ \E g \in HardcodedGames : AddHardcodedGame(g) \/ AddHardcodedPlayer(g)

Next ==
    \/ SetUp \/ Crash
    \/ \E r \in Requests :
        \/ HandleCreatePlayer(r) \/ UndoPlayer(r)
        \/ HandleAddToGame(r) \/ AddPlayer(r)
        \/ HandleCreateGame(r) \/ CreateGame(r)
        \/ HandleDeleteGame(r) \/ DeleteGame(r)
        \/ HandleLogin(r) \/ CreateSession(r)
        \/ HandleReauth(r) \/ CheckReauth(r)
        \/ HandleLogout(r) \/ RemoveSession(r)
        \/ HandleClearSessions(r) \/ ClearSessions(r)
        \/ HandleTimeoutAllSessions(r) \/ TimeoutAllSessions(r)
        \/ Abort(r)
    \/ \E i \in SessionIDs : SessionTimesOut(i)

Spec == Init /\ [][Next]_vars

\* A setup that has begun goes on, and somebody starts the server again.
FairSpec == Spec /\ WF_vars(SetUp)

-----------------------------------------------------------------------------
\* Whatever requests overlap, fail or are cut short, each username leads to a player
\* with that name, and nobody is in a game, has a session or is about to have one
\* who is not the player of a username.  (game.GetPlayers fails for the whole game
\* if one of its players is missing, and with it every login.)
Named(p) == players[p] # None /\ idOf[players[p]] = p

NoDanglingPlayers ==
    /\ \A u \in Usernames : Taken(u) => players[idOf[u]] = u
    /\ \A g \in Games : \A p \in members[g] : Named(p)
    /\ \A i \in SessionIDs : Exists(i) => Named(owner[i].player)
    /\ \A r \in Requests : req[r].step \in {"addPlayer", "login"} => Named(req[r].player)

\* The players with a session, or about to have one, each with the game it is of.
LoggedIn ==
    {owner[i] : i \in {i \in SessionIDs : Exists(i)}}
    \cup {[player |-> req[r].player, game |-> req[r].game] :
             r \in {r \in Requests : req[r].step = "login"}}

\* They are no longer, or not, in that game.
Strangers == {l \in LoggedIn : l.player \notin members[l.game]}

\* Whoever is logged in is in the game: players become strangers to it only when it is
\* deleted, by which time they may have a session, or be on the way from the lookup
\* (LogPlayerIn) to the creation of one.
OnlyDeletionsMakeStrangers ==
    [][\A l \in Strangers' :
        \/ l \in Strangers
        \/ \E r \in Requests : DeleteGame(r) /\ req[r].game = l.game]_vars

\* The first setup was cut short: the players it made are in the way of the others.
HalfDone ==
    /\ HardcodedUsernames # <<>>
    /\ Taken(Head(HardcodedUsernames))
    /\ ~Taken(HardcodedUsernames[Len(HardcodedUsernames)])

\* The setup of the players fails only where an earlier one was cut short.  (It then does
\* so at every start.)
PanicsOnlyHalfDone == server = "panicked" => HalfDone

\* A server that does not stop any more comes up.
ComesUp == <>[](server # "down") => <>[](server = "serving" \/ HalfDone)
=============================================================================
