-------------------------------- MODULE Presence --------------------------------
(***************************************************************************)
(* Who is shown as online: the `connections` counter each player's Redis   *)
(* hash keeps (server/game/playerManager.go), the update streams that      *)
(* count themselves in it (server/routes/gameSubscription.go), the online  *)
(* mode a player may choose (server/routes/player.go) and the online flag  *)
(* that the other players' tabs show (web/src/game).                       *)
(*                                                                         *)
(* A stream changes the counter in one round trip to Redis and announces   *)
(* what it makes of the answer in the next.  A player has one counter for  *)
(* all games; a stream announces to its own game alone.                    *)
(***************************************************************************)
EXTENDS Integers, FiniteSets, SequencesExt

CONSTANTS
    Players,       \* the players
    Games,         \* the games they are in
    Streams,       \* the connections their tabs may have
    PlayerOf,      \* the player of each
    GameOf,        \* the game of each: that of the session it was opened with
    Watchers,      \* the tabs that show who is online
    WatchedGame,   \* the game each is in
    ChosenModes,   \* the online modes players choose
    Races,         \* the timings and failures this instance lets happen, see AllRaces
    MaxRetries,    \* how often the Redis client sends a command again (config.RedisRetries)
    MaxMail,       \* bound: no stream opens and no mode is sent with this many updates unread
    MaxConnections,\* bound: no stream opens with this many counted
    MaxRepeated    \* bound: no decrement is sent again when this many were repeated

\* What the code leaves open, each of which an instance may rule out:
\*   reordered      other streams run between a stream's change of the counter and
\*                  its announcement
\*   failed         Redis does not answer, or the request's context is cancelled
\*   retried        the reply to a command is lost, and the Redis client sends it again
\*   crash          the server stops without running its deferred calls
\*   missedUpdates  a watcher's stream opens after its login was answered, or breaks
AllRaces == {"reordered", "failed", "retried", "crash", "missedUpdates"}

OnlineModes == {"auto", "online", "offline"}

ASSUME PresenceAssumption ==
    /\ IsFiniteSet(Streams)
    /\ PlayerOf \in [Streams -> Players]
    /\ GameOf \in [Streams -> Games]
    /\ WatchedGame \in [Watchers -> Games]
    /\ "nowhere" \notin Games
    /\ ChosenModes \subseteq OnlineModes
    /\ Races \subseteq AllRaces
    /\ MaxRetries \in Nat
    /\ MaxMail \in Nat /\ MaxConnections \in Nat /\ MaxRepeated \in Nat

VARIABLES
    connections,   \* HGET player:<id> connections
    mode,          \* HGET player:<id> onlineMode
    pc,            \* what each stream's handler has done
    tries,         \* how often the command each handler waits for was executed in vain
    edit,          \* each player's POST /player/update, between its read and its write
    watch,         \* each watcher: out, joined (not subscribed), following
    shown,         \* the online flags each watcher shows
    mail           \* the flags published to each watcher for each player, not yet read

\* What only the properties read.
VARIABLES
    leftFrom,      \* the game of the stream that last brought each player's counter to 0
    repeated       \* the decrements of each player's that came after a stream's first one

history == << leftFrom, repeated >>
vars == << connections, mode, pc, tries, edit, watch, shown, mail, leftFrom, repeated >>

NoEdit == [mode |-> "none"]

\* saysOnline, saysOffline: the counter is changed and the announcement is due.
PCs == {"closed", "saysOnline", "open", "saysOffline"}

TypeOK ==
    /\ connections \in [Players -> Int]
    /\ mode \in [Players -> OnlineModes]
    /\ pc \in [Streams -> PCs]
    /\ tries \in [Streams -> Nat]
    /\ edit \in [Players -> {NoEdit} \cup [mode : OnlineModes, game : Games,
                                          before : BOOLEAN, after : BOOLEAN]]
    /\ watch \in [Watchers -> {"out", "joined", "following"}]
    /\ shown \in [Watchers -> [Players -> BOOLEAN]]
    /\ mail \in [Watchers -> [Players -> Seq(BOOLEAN)]]
    /\ leftFrom \in [Players -> Games \cup {"nowhere"}]
    /\ repeated \in [Players -> Nat]

-----------------------------------------------------------------------------
IsOnline(onlineMode, conns) ==
    onlineMode = "online" \/ (onlineMode = "auto" /\ conns > 0)

\* The watchers' mail once the player's online flag is published to a game.
Told(p, game, online) ==
    [w \in Watchers |-> IF watch[w] = "following" /\ WatchedGame[w] = game
                        THEN [mail[w] EXCEPT ![p] = Append(@, online)]
                        ELSE mail[w]]

NoMail == [p \in Players |-> <<>>]

Init ==
    /\ connections = [p \in Players |-> 0]
    /\ mode = [p \in Players |-> "auto"]
    /\ pc = [s \in Streams |-> "closed"]
    /\ tries = [s \in Streams |-> 0]
    /\ edit = [p \in Players |-> NoEdit]
    /\ watch = [w \in Watchers |-> "out"]
    /\ shown = [w \in Watchers |-> [p \in Players |-> FALSE]]
    /\ mail = [w \in Watchers |-> NoMail]
    /\ leftFrom = [p \in Players |-> "nowhere"]
    /\ repeated = [p \in Players |-> 0]

-----------------------------------------------------------------------------
(* Streams.                                                                *)

\* No other stream of the player is about to announce, unless that may happen.
MayGo(p) ==
    "reordered" \in Races
    \/ \A s \in Streams : PlayerOf[s] = p => pc[s] \notin {"saysOnline", "saysOffline"}

HasRoom(p) ==
    /\ connections[p] < MaxConnections
    /\ \A w \in Watchers : Len(mail[w][p]) < MaxMail

\* HINCRBY, executed once.
HIncrBy(s, mod) ==
    LET p == PlayerOf[s]
    IN  /\ connections' = [connections EXCEPT ![p] = @ + mod]
        /\ leftFrom' = IF connections'[p] = 0 /\ mod < 0
                       THEN [leftFrom EXCEPT ![p] = GameOf[s]] ELSE leftFrom

\* A stream's HINCRBY -1, which may not be its first.
Decrement(s) ==
    /\ HIncrBy(s, -1)
    /\ repeated' = IF tries[s] = 0 THEN repeated ELSE [repeated EXCEPT ![PlayerOf[s]] = @ + 1]

\* The handler has its answer, or gives up.
Proceed(s, next) ==
    /\ pc' = [pc EXCEPT ![s] = next]
    /\ tries' = [tries EXCEPT ![s] = 0]
    /\ UNCHANGED << mode, edit, watch, shown >>

\* HINCRBY +1.  The new value 1 is to be announced.
Increase(s) ==
    /\ pc[s] = "closed" /\ MayGo(PlayerOf[s]) /\ HasRoom(PlayerOf[s])
    /\ HIncrBy(s, 1)
    /\ Proceed(s, IF connections'[PlayerOf[s]] = 1 THEN "saysOnline" ELSE "open")
    /\ UNCHANGED << mail, repeated >>

\* Mutant: the last stream but one announces that the player is gone.
DecreaseOneEarly(s) ==
    /\ pc[s] = "open" /\ MayGo(PlayerOf[s])
    /\ Decrement(s)
    /\ Proceed(s, IF connections'[PlayerOf[s]] = 1 THEN "saysOffline" ELSE "closed")
    /\ UNCHANGED mail

\* The deferred HINCRBY -1, whatever ended the stream.  The new value 0 is to be
\* announced.
Decrease(s) ==
    /\ pc[s] = "open" /\ MayGo(PlayerOf[s])
    /\ Decrement(s)
    /\ Proceed(s, IF connections'[PlayerOf[s]] = 0 THEN "saysOffline" ELSE "closed")
    /\ UNCHANGED mail

\* Mutant: the player's departure is announced to any one of the games.
AnnounceAnywhere(s) ==
    /\ \/ /\ pc[s] = "saysOnline"
          /\ mail' = Told(PlayerOf[s], GameOf[s], TRUE)
          /\ Proceed(s, "open")
       \/ /\ pc[s] = "saysOffline"
          /\ \E game \in Games : mail' = Told(PlayerOf[s], game, FALSE)
          /\ Proceed(s, "closed")
    /\ UNCHANGED << connections, history >>

\* PUBLISH update:<game>, to those who watch the game of the stream.
Announce(s) ==
    /\ \/ /\ pc[s] = "saysOnline"
          /\ mail' = Told(PlayerOf[s], GameOf[s], TRUE)
          /\ Proceed(s, "open")
       \/ /\ pc[s] = "saysOffline"
          /\ mail' = Told(PlayerOf[s], GameOf[s], FALSE)
          /\ Proceed(s, "closed")
    /\ UNCHANGED << connections, history >>

\* The command a handler waits for is executed, its reply lost, and the Redis client
\* sends the command again: what was done is done, and the handler knows nothing.
Resend(s) ==
    /\ "retried" \in Races
    /\ tries[s] < MaxRetries
    /\ tries' = [tries EXCEPT ![s] = @ + 1]
    /\ UNCHANGED << mode, pc, edit, watch, shown >>

ResendIncrease(s) ==
    /\ pc[s] = "closed" /\ HasRoom(PlayerOf[s])
    /\ Resend(s)
    /\ HIncrBy(s, 1)
    /\ UNCHANGED << mail, repeated >>

ResendDecrease(s) ==
    /\ pc[s] = "open" /\ repeated[PlayerOf[s]] < MaxRepeated
    /\ Resend(s)
    /\ Decrement(s)
    /\ UNCHANGED mail

ResendAnnounce(s) ==
    /\ pc[s] \in {"saysOnline", "saysOffline"}
    /\ Resend(s)
    /\ mail' = Told(PlayerOf[s], GameOf[s], pc[s] = "saysOnline")
    /\ UNCHANGED << connections, history >>

\* Mutant: the decrement is deferred before the increment is known to be made.
FailIncreaseDeferredFirst(s) ==
    /\ "failed" \in Races
    /\ pc[s] = "closed" /\ HasRoom(PlayerOf[s])
    /\ \E made \in {0, 1} : HIncrBy(s, made - 1)
    /\ Proceed(s, "closed")
    /\ UNCHANGED << mail, repeated >>

\* The first HINCRBY fails, or its answer is lost: the handler halts before it
\* defers the decrement.
FailIncrease(s) ==
    /\ "failed" \in Races
    /\ pc[s] = "closed" /\ HasRoom(PlayerOf[s])
    /\ \E made \in {0, 1} : HIncrBy(s, made)
    /\ Proceed(s, "closed")
    /\ UNCHANGED << mail, repeated >>

\* The deferred HINCRBY fails, or its answer is lost: the error is logged.
FailDecrease(s) ==
    /\ "failed" \in Races
    /\ pc[s] = "open"
    /\ Decrement(s) \/ UNCHANGED << connections, history >>
    /\ Proceed(s, "closed")
    /\ UNCHANGED mail

\* The announcement fails, or its answer is lost.  Of the first one the handler
\* halts, and does not decrement; of the last one the error is logged.
FailAnnounce(s) ==
    /\ "failed" \in Races
    /\ pc[s] \in {"saysOnline", "saysOffline"}
    /\ mail' \in {mail, Told(PlayerOf[s], GameOf[s], pc[s] = "saysOnline")}
    /\ Proceed(s, "closed")
    /\ UNCHANGED << connections, history >>

\* The server is killed: every handler ends where it is and every stream breaks.
Crash ==
    /\ "crash" \in Races
    /\ \E s \in Streams : pc[s] # "closed" \/ tries[s] # 0
    /\ pc' = [s \in Streams |-> "closed"]
    /\ tries' = [s \in Streams |-> 0]
    /\ edit' = [p \in Players |-> NoEdit]
    /\ watch' = [w \in Watchers |-> IF watch[w] = "following" THEN "joined" ELSE watch[w]]
    /\ mail' = [w \in Watchers |-> NoMail]
    /\ UNCHANGED << connections, mode, shown, history >>

-----------------------------------------------------------------------------
(* POST /player/update, of the online mode.                                *)

\* Mutant: the mode is stored without a check that it is one.
HandleUpdatePlayerUnchecked(p) ==
    /\ edit[p] = NoEdit /\ \A w \in Watchers : Len(mail[w][p]) < MaxMail
    /\ \E chosen \in ChosenModes \cup {"3"}, game \in Games :
           edit' = [edit EXCEPT ![p] = [mode   |-> chosen, game |-> game,
                                        before |-> IsOnline(mode[p], connections[p]),
                                        after  |-> IsOnline(chosen, connections[p])]]
    /\ UNCHANGED << connections, mode, pc, tries, watch, shown, mail, history >>

\* The handler reads the player, and compares what is with what will be shown.  The
\* request's session is of one of the games.
HandleUpdatePlayer(p) ==
    /\ edit[p] = NoEdit /\ \A w \in Watchers : Len(mail[w][p]) < MaxMail
    /\ \E chosen \in ChosenModes, game \in Games :
           edit' = [edit EXCEPT ![p] = [mode   |-> chosen, game |-> game,
                                        before |-> IsOnline(mode[p], connections[p]),
                                        after  |-> IsOnline(chosen, connections[p])]]
    /\ UNCHANGED << connections, mode, pc, tries, watch, shown, mail, history >>

\* MULTI: HSET onlineMode, and PUBLISH the online flag to the game if it is to change.
\* The Redis client does not send a MULTI again once its reply is lost.
UpdatePlayer(p) ==
    /\ edit[p] # NoEdit
    /\ mode' = [mode EXCEPT ![p] = edit[p].mode]
    /\ mail' = IF edit[p].before # edit[p].after THEN Told(p, edit[p].game, edit[p].after) ELSE mail
    /\ edit' = [edit EXCEPT ![p] = NoEdit]
    /\ UNCHANGED << connections, pc, tries, watch, shown, history >>

AbortUpdate(p) ==
    /\ "failed" \in Races
    /\ edit[p] # NoEdit
    /\ edit' = [edit EXCEPT ![p] = NoEdit]
    /\ UNCHANGED << connections, mode, pc, tries, watch, shown, mail, history >>

-----------------------------------------------------------------------------
(* Watchers.                                                               *)

\* The login is answered with the game's players, each read by itself (what is
\* said of one player below does not depend on when another was read), and the
\* tab's stream is subscribed after that.
Login(w) ==
    /\ watch[w] = "out"
    /\ shown' = [shown EXCEPT ![w] = [p \in Players |-> IsOnline(mode[p], connections[p])]]
    /\ \E next \in {"joined", "following"} :
         /\ next = "joined" => "missedUpdates" \in Races
         /\ watch' = [watch EXCEPT ![w] = next]
    /\ UNCHANGED << connections, mode, pc, tries, edit, mail, history >>

Subscribe(w) ==
    /\ watch[w] = "joined"
    /\ watch' = [watch EXCEPT ![w] = "following"]
    /\ UNCHANGED << connections, mode, pc, tries, edit, shown, mail, history >>

\* The stream breaks; when it is back, nothing is asked for again.
LoseConnection(w) ==
    /\ "missedUpdates" \in Races
    /\ watch[w] = "following"
    /\ watch' = [watch EXCEPT ![w] = "joined"]
    /\ mail' = [mail EXCEPT ![w] = NoMail]
    /\ UNCHANGED << connections, mode, pc, tries, edit, shown, history >>

\* The tab logs out, or is reloaded.
Leave(w) ==
    /\ watch[w] # "out"
    /\ watch' = [watch EXCEPT ![w] = "out"]
    /\ shown' = [shown EXCEPT ![w] = [p \in Players |-> FALSE]]
    /\ mail' = [mail EXCEPT ![w] = NoMail]
    /\ UNCHANGED << connections, mode, pc, tries, edit, history >>

\* gameReduce updatePlayer.
ReadUpdate(w, p) ==
    /\ mail[w][p] # <<>>
    /\ shown' = [shown EXCEPT ![w][p] = Head(mail[w][p])]
    /\ mail' = [mail EXCEPT ![w][p] = Tail(mail[w][p])]
    /\ UNCHANGED << connections, mode, pc, tries, edit, watch, history >>

-----------------------------------------------------------------------------
Stream(s) ==
    \/ Increase(s) \/ Decrease(s) \/ Announce(s)
    \/ ResendIncrease(s) \/ ResendDecrease(s) \/ ResendAnnounce(s)
    \/ FailIncrease(s) \/ FailDecrease(s) \/ FailAnnounce(s)

Next ==
    \/ \E s \in Streams : Stream(s)
    \/ Crash
    \/ \E p \in Players : HandleUpdatePlayer(p) \/ UpdatePlayer(p) \/ AbortUpdate(p)
    \/ \E w \in Watchers :
           \/ Login(w) \/ Subscribe(w) \/ LoseConnection(w) \/ Leave(w)
           \/ \E p \in Players : ReadUpdate(w, p)

Spec == Init /\ [][Next]_vars

\* A handler that has a step to make makes it, and a tab reads its stream.  No
\* stream has to open, and none has to close.
Fairness ==
    /\ \A s \in Streams : WF_vars(Announce(s))
    /\ \A w \in Watchers, p \in Players : WF_vars(ReadUpdate(w, p))

FairSpec == Spec /\ Fairness
-----------------------------------------------------------------------------
(* What is to be shown.                                                    *)

StreamsOf(p) == {s \in Streams : PlayerOf[s] = p}

\* What a watcher will show of a player once it has read what it was sent.
WillShow(w, p) == IF mail[w][p] = <<>> THEN shown[w][p] ELSE Last(mail[w][p])

\* The watcher is in the game that the player's last stream was of (any, as long as
\* the player has had none): the announcement that the player has gone is for it.
LastSeenIn(w, p) == leftFrom[p] \in {"nowhere", WatchedGame[w]}

\* A player none of whose streams, in any game, is open or has anything left to
\* announce is shown as offline in the game left last: what playerManager.go expects of
\* its announcements although they may come out of order.
GoneMeansOffline ==
    \A w \in Watchers, p \in Players :
        /\ watch[w] = "following" /\ LastSeenIn(w, p)
        /\ mode[p] = "auto"
        /\ \A s \in StreamsOf(p) : pc[s] = "closed"
        => ~WillShow(w, p)

\* The streams that are to be in the player's counter.
Counted(p) ==
    {s \in StreamsOf(p) : pc[s] = "saysOnline" \/ (pc[s] = "open" /\ tries[s] = 0)}

\* Whatever fails, the counter falls below the player's open streams (and so a
\* connected player's to 0, or anybody's below 0) only by as many decrements as the Redis
\* client has sent again: playerManager.go assumes one decrement for each increment.
NeverUndercounted ==
    \A p \in Players : connections[p] + repeated[p] >= Cardinality(Counted(p))

\* A player who leaves for good is in due course shown as offline for good in the
\* game left last.
SettlesOffline ==
    \A w \in Watchers, p \in Players :
        <>[](/\ watch[w] = "following" /\ LastSeenIn(w, p)
             /\ \A s \in StreamsOf(p) : pc[s] \in {"closed", "saysOffline"})
            => <>[](~shown[w][p])
=============================================================================
