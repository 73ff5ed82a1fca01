----------------------------- MODULE AccountsProofs -----------------------------
(***************************************************************************)
(* Players and their usernames, for any number of players, games, sessions *)
(* and requests.                                                           *)
(***************************************************************************)
EXTENDS Accounts, FiniteSetTheorems, TLAPS

-----------------------------------------------------------------------------
(* The invariant.                                                          *)

Good(p) == p \in PlayerIDs /\ Named(p)

\* A player that was made for a username that was taken, and is not deleted yet.
Surplus(p) ==
    /\ p \in PlayerIDs /\ players[p] \in Usernames
    /\ idOf[players[p]] \notin {None, p}

NamesInv ==
    /\ players \in [PlayerIDs -> Usernames \cup {None}]
    /\ idOf \in [Usernames -> PlayerIDs \cup {None}]
    /\ \A u \in Usernames : Taken(u) => players[idOf[u]] = u

MembersInv ==
    /\ members \in [Games -> SUBSET PlayerIDs]
    /\ \A g \in Games : \A p \in members[g] : Good(p)

OwnersInv ==
    /\ SessionsTypeOK
    /\ owner \in [SessionIDs -> {NoOwner} \cup [player : PlayerIDs, game : Games]]
    /\ \A i \in SessionIDs : Exists(i) => Good(owner[i].player)

Todo ==
    [games : SUBSET HardcodedGames, names : Seq(Usernames),
     player : PlayerIDs \cup {None}, joins : SUBSET HardcodedGames]

SetupInv ==
    /\ todo \in Todo
    /\ todo.joins # {} => Good(todo.player)

\* What a request holds: a player it is to delete is nobody else's.
Right(x) ==
    /\ x.step \in {"addPlayer", "login"} => Good(x.player)
    /\ x.step = "undo" => Surplus(x.player)

RequestsInv ==
    /\ req \in [Requests -> Pending]
    /\ \A r \in Requests : Right(req[r])
    /\ \A r, q \in Requests :
         req[r].step = "undo" /\ req[q].step = "undo" /\ r # q => req[r].player # req[q].player

GamesInv == games \subseteq Games

IInv ==
    /\ NamesInv
    /\ MembersInv
    /\ OwnersInv
    /\ SetupInv
    /\ RequestsInv

LEMMA PendingIs ==
    ASSUME NEW x \in Pending
    PROVE  /\ x.step = "undo" => x \in [step : {"undo"}, player : PlayerIDs]
           /\ x.step \in {"addPlayer", "login"} => x.player \in PlayerIDs /\ x.game \in Games
           /\ x.step \in {"createGame", "deleteGame"} => x.game \in Games
           /\ x.step \in {"reauth", "removeSession"} => x.session \in SessionIDs
  BY DEF Pending, Idle

-----------------------------------------------------------------------------
(* What becomes of players.                                                *)

\* Nobody loses a username.
Kept ==
    /\ NamesInv'
    /\ \A p \in PlayerIDs : Good(p) => Good(p)'

LEMMA WriteKeeps ==
    ASSUME NamesInv, NEW p \in PlayerIDs, NEW u \in Usernames, WritePlayer(p, u)
    PROVE  /\ Kept
           /\ \A q \in PlayerIDs : Surplus(q) => Surplus(q)' /\ q # p
           /\ Taken(u) => Surplus(p)'
           /\ ~Taken(u) => Good(p)'
           /\ \A v \in Usernames : Taken(v) => idOf'[v] = idOf[v]
  <1> USE AccountsAssumption DEF NamesInv
  <1>1. /\ players[p] = None /\ players' = [players EXCEPT ![p] = u]
        /\ players' \in [PlayerIDs -> Usernames \cup {None}]
    BY DEF WritePlayer, Fresh
  <1>2. /\ idOf' \in [Usernames -> PlayerIDs \cup {None}]
        /\ \A v \in Usernames : Taken(v) => idOf'[v] = idOf[v]
        /\ \A v \in Usernames : ~Taken(v) /\ v # u => idOf'[v] = None
        /\ ~Taken(u) => idOf'[u] = p
    BY DEF WritePlayer, Taken
  <1>3. \A v \in Usernames : Taken(v) => idOf[v] # p /\ idOf[v] \in PlayerIDs
    BY <1>1 DEF Taken
  <1>4. \A v \in Usernames : Taken(v)' => players'[idOf'[v]] = v
    BY <1>1, <1>2, <1>3 DEF Taken
  <1>5. NamesInv'
    BY <1>1, <1>2, <1>4
  <1>6. \A q \in PlayerIDs : Good(q) => Good(q)'
    BY <1>1, <1>2 DEF Good, Named, Taken
  <1>7. \A q \in PlayerIDs : Surplus(q) => Surplus(q)' /\ q # p
    BY <1>1, <1>2 DEF Surplus, Taken
  <1>8. Taken(u) => Surplus(p)'
    BY <1>1, <1>2, <1>3 DEF Surplus, Taken
  <1>9. ~Taken(u) => Good(p)'
    BY <1>1, <1>2 DEF Good, Named
  <1> QED BY <1>2, <1>5, <1>6, <1>7, <1>8, <1>9 DEF Kept

\* A surplus player leads no username.
LEMMA DeleteKeeps ==
    ASSUME NamesInv, NEW p \in PlayerIDs, Surplus(p), idOf' = idOf,
           players' = [players EXCEPT ![p] = None]
    PROVE  /\ Kept
           /\ \A q \in PlayerIDs : Surplus(q) /\ q # p => Surplus(q)'
  <1> USE AccountsAssumption DEF NamesInv
  <1>1. \A u \in Usernames : Taken(u) => idOf[u] # p
    BY DEF Surplus
  <1>2. NamesInv'
    BY <1>1 DEF Taken
  <1>3. \A q \in PlayerIDs : Good(q) => Good(q)'
    BY DEF Good, Named, Surplus
  <1>4. \A q \in PlayerIDs : Surplus(q) /\ q # p => Surplus(q)'
    BY DEF Surplus
  <1> QED BY <1>2, <1>3, <1>4 DEF Kept

LEMMA NothingKeeps ==
    ASSUME NamesInv, UNCHANGED << players, idOf >>
    PROVE  /\ Kept
           /\ \A q \in PlayerIDs : Surplus(q) => Surplus(q)'
  BY DEF Kept, NamesInv, Taken, Good, Named, Surplus

-----------------------------------------------------------------------------
(* What holds of the others while nobody loses a username.                 *)

LEMMA SameMembers ==
    ASSUME MembersInv, Kept, UNCHANGED members
    PROVE  MembersInv'
  BY DEF MembersInv, Kept

LEMMA SameOwners ==
    ASSUME OwnersInv, Kept, UNCHANGED << sessions, owner >>
    PROVE  OwnersInv'
  <1>1. \A i \in SessionIDs : Exists(i)' => Good(owner[i].player)
    BY DEF OwnersInv, Exists
  <1> QED BY <1>1 DEF OwnersInv, SessionsTypeOK, Kept, Good

LEMMA SameSetup ==
    ASSUME SetupInv, Kept, UNCHANGED todo
    PROVE  SetupInv'
  BY DEF SetupInv, Kept, Good

\* One request goes on.
LEMMA RequestGoes ==
    ASSUME RequestsInv, Kept, NEW r \in Requests, NEW x \in Pending,
           req' = [req EXCEPT ![r] = x], Right(x)',
           \A q \in Requests \ {r} : req[q].step = "undo" =>
               /\ Surplus(req[q].player)'
               /\ x.step = "undo" => x.player # req[q].player
    PROVE  RequestsInv'
  <1>1. req' \in [Requests -> Pending] /\ req'[r] = x
    BY DEF RequestsInv
  <1>2. \A q \in Requests \ {r} : req'[q] = req[q]
    BY DEF RequestsInv
  <1>3. ASSUME NEW q \in Requests
        PROVE  Right(req[q])'
    <2>1. CASE q = r
      BY <1>1, <2>1 DEF Right, Good, Surplus, Named
    <2>2. CASE q # r
      <3>1. req[q].step \in {"addPlayer", "login"} => Good(req[q].player)'
        BY <1>2, <2>2 DEF RequestsInv, Right, Kept, Good
      <3> QED BY <1>2, <2>2, <3>1 DEF Right, Good, Surplus, Named
    <2> QED BY <2>1, <2>2
  <1>4. ASSUME NEW p \in Requests, NEW q \in Requests, p # q,
               req'[p].step = "undo", req'[q].step = "undo"
        PROVE  req'[p].player # req'[q].player
    BY <1>1, <1>2, <1>4 DEF RequestsInv
  <1> QED BY <1>1, <1>3, <1>4 DEF RequestsInv

\* ... and there is nothing new that it is to delete.
LEMMA RequestReads ==
    ASSUME IInv, UNCHANGED << players, idOf >>, NEW r \in Requests, NEW x \in Pending,
           req' = [req EXCEPT ![r] = x], x.step # "undo",
           x.step \in {"addPlayer", "login"} => Good(x.player)
    PROVE  RequestsInv'
  <1>1. Kept /\ \A q \in PlayerIDs : Surplus(q) => Surplus(q)'
    BY NothingKeeps DEF IInv
  <1>2. Right(x)'
    BY <1>1 DEF Right, Kept, Good
  <1>3. \A q \in Requests \ {r} : req[q].step = "undo" => Surplus(req[q].player)'
    BY <1>1 DEF IInv, RequestsInv, Right, Surplus
  <1> QED BY <1>1, <1>2, <1>3, RequestGoes DEF IInv

LEMMA SameRequests ==
    ASSUME RequestsInv, UNCHANGED req, Kept, \A q \in PlayerIDs : Surplus(q) => Surplus(q)'
    PROVE  RequestsInv'
  <1>1. \A r \in Requests : Right(req[r])'
    BY DEF RequestsInv, Right, Kept, Good, Surplus
  <1> QED BY <1>1 DEF RequestsInv

LEMMA Idles == Idle \in Pending /\ Idle.step \notin {"undo", "addPlayer", "login"}
  BY DEF Idle, Pending

-----------------------------------------------------------------------------
(* Steps.                                                                  *)

LEMMA HeadOfNames ==
    ASSUME NEW names \in Seq(Usernames), names # <<>>
    PROVE  Head(names) \in Usernames /\ Tail(names) \in Seq(Usernames)
  OBVIOUS

LEMMA SetUpStep ==
    ASSUME IInv, SetUp
    PROVE  IInv'
  <1>1. todo \in Todo
    BY DEF IInv, SetupInv
  <1>2. CASE \E p \in PlayerIDs : CreateHardcodedPlayer(p)
    <2>1. PICK p \in PlayerIDs : CreateHardcodedPlayer(p)
      BY <1>2
    <2> DEFINE u == Head(todo.names)
    <2>2. todo.names \in Seq(Usernames) /\ todo.names # <<>>
      BY <1>1, <2>1 DEF Todo, CreateHardcodedPlayer
    <2>3. u \in Usernames /\ Tail(todo.names) \in Seq(Usernames)
      BY <2>2, HeadOfNames
    <2>4. /\ Kept /\ Good(p)'
          /\ \A q \in PlayerIDs : Surplus(q) => Surplus(q)'
      BY <2>1, <2>3, WriteKeeps DEF CreateHardcodedPlayer, IInv
    <2>5. /\ todo' \in Todo /\ todo'.player = p
          /\ UNCHANGED << members, sessions, owner, req >>
      BY <1>1, <2>1, <2>3 DEF CreateHardcodedPlayer, Todo
    <2>6. SetupInv'
      BY <2>4, <2>5 DEF SetupInv, Good
    <2> QED BY <2>4, <2>5, <2>6, SameMembers, SameOwners, SameRequests DEF IInv, Kept
  <1>3. CASE PanicOnTakenName
    <2> DEFINE u == Head(todo.names)
    <2>1. todo.names \in Seq(Usernames) /\ todo.names # <<>>
      BY <1>1, <1>3 DEF Todo, PanicOnTakenName
    <2>2. u \in Usernames
      BY <2>1, HeadOfNames
    <2>3. Kept /\ \A q \in PlayerIDs : Surplus(q) => Surplus(q)'
      <3>1. CASE UNCHANGED << players, idOf >>
        BY <3>1, NothingKeeps DEF IInv
      <3>2. CASE \E p \in PlayerIDs : WritePlayer(p, u)
        BY <2>2, <3>2, WriteKeeps DEF IInv
      <3> QED BY <1>3, <3>1, <3>2 DEF PanicOnTakenName
    <2>4. Nothing \in Todo /\ Nothing.joins = {}
      BY DEF Nothing, Todo
    <2>5. SetupInv' /\ UNCHANGED << members, sessions, owner, req >>
      BY <1>3, <2>4 DEF PanicOnTakenName, SetupInv
    <2> QED BY <2>3, <2>5, SameMembers, SameOwners, SameRequests DEF IInv, Kept
  <1>4. ASSUME UNCHANGED << players, idOf, sessions, owner, req >>, SetupInv', MembersInv'
        PROVE  IInv'
    <2>1. Kept /\ \A q \in PlayerIDs : Surplus(q) => Surplus(q)'
      BY <1>4, NothingKeeps DEF IInv
    <2> QED BY <1>4, <2>1, SameOwners, SameRequests DEF IInv, Kept
  <1>5. CASE Start
    <2>0. PICK gs \in SUBSET HardcodedGames : todo' = [Nothing EXCEPT !.games = gs]
      BY <1>5 DEF Start
    <2>4. <<>> \in Seq(Usernames)
      OBVIOUS
    <2>1. todo' \in Todo /\ todo'.joins = {}
      BY <2>0, <2>4 DEF Todo, Nothing
    <2>2. SetupInv'
      BY <2>1 DEF SetupInv
    <2>3. MembersInv'
      BY <1>5, NothingKeeps, SameMembers DEF Start, accountVars, IInv
    <2> QED BY <1>4, <1>5, <2>2, <2>3 DEF Start, accountVars
  <1>6. CASE \E g \in HardcodedGames : AddHardcodedGame(g)
    <2>1. /\ todo' \in Todo /\ todo'.joins = todo.joins /\ todo'.player = todo.player
          /\ UNCHANGED << players, idOf, sessions, owner, req, members >>
      BY <1>1, <1>6 DEF AddHardcodedGame, Todo
    <2>2. Kept /\ MembersInv'
      BY <2>1, NothingKeeps, SameMembers DEF IInv
    <2>3. SetupInv'
      BY <2>1, <2>2 DEF IInv, SetupInv, Kept, Good
    <2> QED BY <1>4, <2>1, <2>2, <2>3
  <1>7. CASE CountPlayers
    <2> DEFINE chosen == IF Cardinality({p \in PlayerIDs : players[p] # None})
                              < Len(HardcodedUsernames)
                         THEN HardcodedUsernames ELSE <<>>
    <2>3. chosen \in Seq(Usernames)
      BY AccountsAssumption
    <2>4. todo' = [todo EXCEPT !.names = chosen]
      BY <1>7 DEF CountPlayers
    <2> HIDE DEF chosen
    <2>0. PICK names \in Seq(Usernames) : todo' = [todo EXCEPT !.names = names]
      BY <2>3, <2>4
    <2>1. /\ todo' \in Todo /\ todo'.joins = todo.joins /\ todo'.player = todo.player
          /\ UNCHANGED << players, idOf, sessions, owner, req, members >>
      BY <1>1, <1>7, <2>0 DEF CountPlayers, Todo, accountVars
    <2>2. Kept /\ MembersInv'
      BY <2>1, NothingKeeps, SameMembers DEF IInv
    <2>5. SetupInv'
      BY <2>1, <2>2 DEF IInv, SetupInv, Kept, Good
    <2> QED BY <1>4, <2>1, <2>2, <2>5
  <1>8. CASE \E g \in HardcodedGames : AddHardcodedPlayer(g)
    <2>1. PICK g \in HardcodedGames : AddHardcodedPlayer(g)
      BY <1>8
    <2>2. /\ todo' \in Todo /\ todo'.joins \subseteq todo.joins /\ todo'.player = todo.player
          /\ g \in todo.joins
          /\ members' = [members EXCEPT ![g] = @ \cup {todo.player}]
          /\ UNCHANGED << players, idOf, sessions, owner, req >>
      BY <1>1, <2>1 DEF AddHardcodedPlayer, Todo
    <2>3. Good(todo.player)
      BY <2>2 DEF IInv, SetupInv
    <2>4. Kept
      BY <2>2, NothingKeeps DEF IInv
    <2>5. SetupInv'
      BY <2>2, <2>3, <2>4 DEF SetupInv, Kept, Good
    <2>6. todo.player \in PlayerIDs /\ g \in Games
      BY <2>3, AccountsAssumption DEF Good
    <2>7. MembersInv'
      BY <2>2, <2>3, <2>4, <2>6 DEF IInv, MembersInv, Kept, Good, Named
    <2> QED BY <1>4, <2>2, <2>5, <2>7
  <1>9. CASE Serve
    <2>1. Nothing \in Todo /\ Nothing.joins = {}
      BY DEF Nothing, Todo
    <2>2. SetupInv' /\ UNCHANGED << players, idOf, sessions, owner, req, members >>
      BY <1>9, <2>1 DEF Serve, SetupInv, accountVars
    <2>3. MembersInv'
      BY <2>2, NothingKeeps, SameMembers DEF IInv
    <2> QED BY <1>4, <2>2, <2>3
  <1> QED BY <1>2, <1>3, <1>5, <1>6, <1>7, <1>8, <1>9 DEF SetUp

LEMMA CrashStep ==
    ASSUME IInv, Crash
    PROVE  IInv'
  <1>1. Kept /\ UNCHANGED << members, sessions, owner >>
    BY NothingKeeps DEF IInv, Crash, accountVars
  <1>2. Nothing \in Todo /\ Nothing.joins = {}
    BY DEF Nothing, Todo
  <1>3. SetupInv'
    BY <1>2 DEF Crash, SetupInv
  <1>4. RequestsInv'
    BY Idles DEF Crash, RequestsInv, Right
  <1> QED BY <1>1, <1>3, <1>4, SameMembers, SameOwners DEF IInv, Kept

\* A request writes what concerns neither players nor members.
LEMMA WritesElsewhere ==
    ASSUME IInv, UNCHANGED << players, idOf, todo >>, MembersInv', OwnersInv', NEW r \in Requests,
           NEW x \in Pending, req' = [req EXCEPT ![r] = x], x.step # "undo",
           x.step \in {"addPlayer", "login"} => Good(x.player)
    PROVE  IInv'
  <1>1. Kept
    BY NothingKeeps DEF IInv
  <1>2. SetupInv'
    BY <1>1, SameSetup DEF IInv
  <1> QED BY <1>1, <1>2, RequestReads DEF IInv, Kept

LEMMA PendingReads ==
    /\ \A g \in Games : /\ [step |-> "createGame", game |-> g] \in Pending
                        /\ [step |-> "deleteGame", game |-> g] \in Pending
    /\ \A i \in SessionIDs : /\ [step |-> "reauth", session |-> i] \in Pending
                             /\ [step |-> "removeSession", session |-> i] \in Pending
  BY DEF Pending

\* The first step of a request.
LEMMA ReadStep ==
    ASSUME IInv, GamesInv, NEW r \in Requests,
           \/ HandleAddToGame(r) \/ HandleCreateGame(r) \/ HandleDeleteGame(r) \/ HandleLogin(r)
           \/ HandleReauth(r) \/ HandleLogout(r) \/ HandleClearSessions(r)
           \/ HandleTimeoutAllSessions(r)
    PROVE  IInv'
  <1>1. \A u \in Usernames : Taken(u) => Good(idOf[u])
    BY AccountsAssumption DEF IInv, NamesInv, Taken, Good, Named
  <1>2. \E x \in Pending :
          /\ Read(r, x) /\ x.step # "undo"
          /\ x.step \in {"addPlayer", "login"} => Good(x.player)
    <2>1. CASE HandleAddToGame(r)
      BY <1>1, <2>1 DEF HandleAddToGame, Pending, Good
    <2>2. CASE HandleLogin(r)
      BY <1>1, <2>2 DEF HandleLogin, Pending, Good
    <2>3. CASE HandleCreateGame(r) \/ HandleDeleteGame(r)
      <3>1. PICK g \in Games : \/ Read(r, [step |-> "createGame", game |-> g])
                              \/ Read(r, [step |-> "deleteGame", game |-> g])
        BY <2>3 DEF HandleCreateGame, HandleDeleteGame, GamesInv
      <3> QED BY <3>1, PendingReads
    <2>5. CASE HandleReauth(r) \/ HandleLogout(r)
      <3>1. PICK i \in SessionIDs : \/ Read(r, [step |-> "reauth", session |-> i])
                                   \/ Read(r, [step |-> "removeSession", session |-> i])
        BY <2>5 DEF HandleReauth, HandleLogout
      <3> QED BY <3>1, PendingReads
    <2>4. CASE HandleClearSessions(r) \/ HandleTimeoutAllSessions(r)
      BY <2>4 DEF HandleClearSessions, HandleTimeoutAllSessions, Pending
    <2> QED BY <2>1, <2>2, <2>3, <2>4, <2>5
  <1>3. PICK x \in Pending :
          /\ Read(r, x) /\ x.step # "undo"
          /\ x.step \in {"addPlayer", "login"} => Good(x.player)
    BY <1>2
  <1>4. Kept /\ UNCHANGED << players, idOf, members, sessions, owner, todo >>
    BY <1>3, NothingKeeps DEF IInv, Read, accountVars
  <1> QED BY <1>3, <1>4, SameMembers, SameOwners, WritesElsewhere DEF IInv, Read

LEMMA CreatePlayerStep ==
    ASSUME IInv, NEW r \in Requests, HandleCreatePlayer(r)
    PROVE  IInv'
  <1>1. PICK p \in PlayerIDs, u \in Usernames :
          /\ WritePlayer(p, u)
          /\ req' = [req EXCEPT ![r] =
                        IF Taken(u) THEN [step |-> "undo", player |-> p] ELSE Idle]
    BY DEF HandleCreatePlayer
  <1>2. req[r] = Idle /\ UNCHANGED << members, sessions, owner, todo >>
    BY DEF HandleCreatePlayer
  <1>3. /\ Kept
        /\ \A q \in PlayerIDs : Surplus(q) => Surplus(q)' /\ q # p
        /\ Taken(u) => Surplus(p)'
    BY <1>1, WriteKeeps DEF IInv
  <1>4. \A q \in Requests \ {r} : req[q].step = "undo" =>
            Surplus(req[q].player) /\ req[q].player \in PlayerIDs /\ req'[q] = req[q]
    BY <1>1 DEF IInv, RequestsInv, Right, Surplus
  <1>5. RequestsInv'
    <2>1. PICK x : x = IF Taken(u) THEN [step |-> "undo", player |-> p] ELSE Idle
      OBVIOUS
    <2>2. x \in Pending
      BY <2>1 DEF Pending
    <2>3. x.step = "undo" => x.player = p /\ Taken(u)
      BY <2>1, Idles
    <2>4. x.step \notin {"addPlayer", "login"}
      BY <2>1, Idles
    <2>5. Right(x)'
      BY <1>3, <2>3, <2>4 DEF Right, Surplus
    <2>6. req' = [req EXCEPT ![r] = x]
      BY <1>1, <2>1
    <2>7. \A q \in Requests \ {r} : req[q].step = "undo" =>
              Surplus(req[q].player)' /\ (x.step = "undo" => x.player # req[q].player)
      BY <1>3, <1>4, <2>3 DEF Surplus
    <2> QED BY <1>3, <2>2, <2>5, <2>6, <2>7, RequestGoes DEF IInv
  <1> QED BY <1>2, <1>3, <1>5, SameMembers, SameOwners, SameSetup DEF IInv, Kept

LEMMA UndoStep ==
    ASSUME IInv, NEW r \in Requests, UndoPlayer(r)
    PROVE  IInv'
  <1> DEFINE p == req[r].player
  <1>1. /\ req[r].step = "undo" /\ req' = [req EXCEPT ![r] = Idle]
        /\ players' = [players EXCEPT ![p] = None]
        /\ UNCHANGED << idOf, members, sessions, owner, todo >>
    BY DEF UndoPlayer, Finish
  <1>2. p \in PlayerIDs /\ Surplus(p)
    BY <1>1 DEF IInv, RequestsInv, Right, Surplus
  <1>3. Kept /\ \A q \in PlayerIDs : Surplus(q) /\ q # p => Surplus(q)'
    BY <1>1, <1>2, DeleteKeeps DEF IInv
  <1>4. \A q \in Requests \ {r} : req[q].step = "undo" =>
            /\ Surplus(req[q].player) /\ req[q].player \in PlayerIDs
            /\ req[q].player # p /\ req'[q] = req[q]
    BY <1>1 DEF IInv, RequestsInv, Right, Surplus
  <1>5. Right(Idle)'
    BY Idles DEF Right
  <1>6. \A q \in Requests \ {r} : req[q].step = "undo" => Surplus(req[q].player)'
    BY <1>3, <1>4 DEF Surplus
  <1>7. RequestsInv'
    BY <1>1, <1>3, <1>5, <1>6, Idles, RequestGoes DEF IInv
  <1> QED BY <1>1, <1>3, <1>7, SameMembers, SameOwners, SameSetup DEF IInv, Kept

\* The second step of a request about games and members.
LEMMA GameWriteStep ==
    ASSUME IInv, NEW r \in Requests,
           AddPlayer(r) \/ CreateGame(r) \/ DeleteGame(r) \/ CheckReauth(r) \/ Abort(r)
    PROVE  IInv'
  <1>1. UNCHANGED << players, idOf, sessions, owner, todo >>
    BY DEF AddPlayer, CreateGame, DeleteGame, CheckReauth, Abort, Finish, accountVars
  <1>2. Kept /\ OwnersInv'
    BY <1>1, NothingKeeps, SameOwners DEF IInv
  <1>3. MembersInv'
    <2>1. CASE AddPlayer(r)
      <3>1. req[r].step = "addPlayer" /\ req[r] \in Pending
        BY <2>1 DEF AddPlayer, Finish, IInv, RequestsInv
      <3>2. Good(req[r].player) /\ req[r].player \in PlayerIDs /\ req[r].game \in Games
        BY <3>1, PendingIs DEF IInv, RequestsInv, Right
      <3>3. members' = [members EXCEPT ![req[r].game] = @ \cup {req[r].player}]
        BY <2>1 DEF AddPlayer
      <3> QED BY <1>1, <3>2, <3>3 DEF IInv, MembersInv, Good, Named
    <2>2. CASE DeleteGame(r)
      BY <1>1, <2>2 DEF DeleteGame, IInv, MembersInv, Good, Named
    <2>3. CASE CreateGame(r) \/ CheckReauth(r) \/ Abort(r)
      <3>1. UNCHANGED members
        BY <2>3 DEF CreateGame, CheckReauth, Abort, accountVars
      <3> QED BY <1>2, <3>1, SameMembers DEF IInv
    <2> QED BY <2>1, <2>2, <2>3
  <1>4. \E x \in Pending : /\ req' = [req EXCEPT ![r] = x]
                           /\ x.step \notin {"undo", "addPlayer", "login"}
    <2>1. CASE CheckReauth(r)
      <3>1. req[r].step = "reauth" /\ req[r] \in Pending
        BY <2>1 DEF CheckReauth, IInv, RequestsInv
      <3>2. req[r].session \in SessionIDs
        BY <3>1, PendingIs
      <3>3. [step |-> "removeSession", session |-> req[r].session] \in Pending
        BY <3>2, PendingReads
      <3>4. \/ req' = [req EXCEPT ![r] = Idle]
            \/ req' = [req EXCEPT ![r] = [step |-> "removeSession", session |-> req[r].session]]
        BY <2>1 DEF CheckReauth
      <3> QED BY <3>3, <3>4, Idles
    <2>2. CASE AddPlayer(r) \/ CreateGame(r) \/ DeleteGame(r) \/ Abort(r)
      BY <2>2, Idles DEF AddPlayer, CreateGame, DeleteGame, Abort, Finish
    <2> QED BY <2>1, <2>2
  <1> QED BY <1>1, <1>2, <1>3, <1>4, WritesElsewhere

\* The second step of a request about sessions.
LEMMA SessionWriteStep ==
    ASSUME IInv, NEW r \in Requests,
           CreateSession(r) \/ RemoveSession(r) \/ ClearSessions(r) \/ TimeoutAllSessions(r)
    PROVE  IInv'
  <1>1. UNCHANGED << players, idOf, members, todo >> /\ req' = [req EXCEPT ![r] = Idle]
    BY DEF CreateSession, RemoveSession, ClearSessions, TimeoutAllSessions, Finish, accountVars
  <1>2. Kept /\ MembersInv'
    BY <1>1, NothingKeeps, SameMembers DEF IInv
  <1>3. sessions \in [SessionIDs -> SessionStates]
    BY DEF IInv, OwnersInv, SessionsTypeOK
  <1>4. OwnersInv'
    <2>1. CASE CreateSession(r)
      <3>1. req[r].step = "login" /\ req[r] \in Pending
        BY <2>1 DEF CreateSession, Finish, IInv, RequestsInv
      <3>2. Good(req[r].player) /\ req[r].player \in PlayerIDs /\ req[r].game \in Games
        BY <3>1, PendingIs DEF IInv, RequestsInv, Right
      <3>3. PICK i \in SessionIDs :
              /\ Create(i) \/ FailCreate(i)
              /\ owner' = [owner EXCEPT ![i] = [player |-> req[r].player, game |-> req[r].game]]
        BY <2>1 DEF CreateSession
      <3>4. \E state \in SessionStates : sessions' = [sessions EXCEPT ![i] = state]
        BY <3>3 DEF Create, FailCreate, SessionStates
      <3>5. SessionsTypeOK' /\ \A j \in SessionIDs \ {i} : sessions'[j] = sessions[j]
        BY <1>3, <3>4 DEF SessionsTypeOK
      <3>6. owner' \in [SessionIDs -> {NoOwner} \cup [player : PlayerIDs, game : Games]]
        BY <3>2, <3>3 DEF IInv, OwnersInv
      <3>7. owner'[i].player = req[r].player
        BY <3>3 DEF IInv, OwnersInv
      <3>8. \A j \in SessionIDs \ {i} : owner'[j] = owner[j]
        BY <3>3 DEF IInv, OwnersInv
      <3>9. ASSUME NEW j \in SessionIDs, Exists(j)'
            PROVE  Good(owner'[j].player)
        <4>1. CASE j = i
          BY <3>2, <3>7, <4>1
        <4>2. CASE j # i
          BY <3>5, <3>8, <3>9, <4>2 DEF IInv, OwnersInv, Exists
        <4> QED BY <4>1, <4>2
      <3> QED BY <1>1, <3>5, <3>6, <3>9 DEF OwnersInv, Good, Named
    <2>2. CASE RemoveSession(r) \/ ClearSessions(r) \/ TimeoutAllSessions(r)
      <3>1. SessionsTypeOK' /\ owner' = owner
        <4>1. CASE RemoveSession(r)
          BY <1>3, <4>1 DEF RemoveSession, Remove, SessionsTypeOK, SessionStates
        <4>2. CASE ClearSessions(r)
          BY <1>3, <4>2 DEF ClearSessions, SessionsTypeOK, SessionStates
        <4>3. CASE TimeoutAllSessions(r)
          BY <1>3, <4>3 DEF TimeoutAllSessions, SessionsTypeOK, SessionStates
        <4> QED BY <2>2, <4>1, <4>2, <4>3
      <3>2. \A i \in SessionIDs : Exists(i)' => Exists(i)
        <4>1. CASE RemoveSession(r)
          BY <1>3, <4>1 DEF RemoveSession, Remove, Exists
        <4>2. CASE ClearSessions(r)
          BY <1>3, <4>2 DEF ClearSessions, Exists
        <4>3. CASE TimeoutAllSessions(r)
          BY <1>3, <4>3 DEF TimeoutAllSessions, Exists
        <4> QED BY <2>2, <4>1, <4>2, <4>3
      <3> QED BY <1>1, <3>1, <3>2 DEF IInv, OwnersInv, Good, Named
    <2> QED BY <2>1, <2>2
  <1> QED BY <1>1, <1>2, <1>4, Idles, WritesElsewhere

LEMMA TimesOutStep ==
    ASSUME IInv, NEW i \in SessionIDs, SessionTimesOut(i)
    PROVE  IInv'
  <1>1. /\ Kept /\ \A q \in PlayerIDs : Surplus(q) => Surplus(q)'
        /\ UNCHANGED << players, idOf, members, owner, todo, req >>
    BY NothingKeeps DEF IInv, SessionTimesOut, accountVars
  <1>2. OwnersInv'
    BY <1>1 DEF SessionTimesOut, TimeOut, IInv, OwnersInv, SessionsTypeOK, SessionStates, Exists,
                Good, Named
  <1> QED BY <1>1, <1>2, SameMembers, SameSetup, SameRequests DEF IInv, Kept

-----------------------------------------------------------------------------
LEMMA InitInv == Init => IInv /\ GamesInv
  <1> SUFFICES ASSUME Init PROVE IInv /\ GamesInv
    OBVIOUS
  <1>1. NamesInv /\ MembersInv /\ GamesInv
    BY DEF Init, NamesInv, Taken, MembersInv, GamesInv
  <1>2. OwnersInv
    BY DEF Init, OwnersInv, SessionsInit, SessionsTypeOK, SessionStates, Exists
  <1>3. <<>> \in Seq(Usernames)
    OBVIOUS
  <1>4. SetupInv
    BY <1>3 DEF Init, SetupInv, Todo, Nothing
  <1>5. RequestsInv
    BY Idles DEF Init, RequestsInv, Right
  <1> QED BY <1>1, <1>2, <1>4, <1>5 DEF IInv

LEMMA GamesStep ==
    ASSUME IInv, GamesInv, [Next]_vars
    PROVE  GamesInv'
  <1>1. ASSUME NEW g \in HardcodedGames, AddHardcodedGame(g)
        PROVE  GamesInv'
    BY <1>1, AccountsAssumption DEF AddHardcodedGame, GamesInv
  <1>2. ASSUME NEW r \in Requests, CreateGame(r)
        PROVE  GamesInv'
    BY <1>2, PendingIs DEF CreateGame, Finish, GamesInv, IInv, RequestsInv
  <1>3. ASSUME NEW r \in Requests, DeleteGame(r)
        PROVE  GamesInv'
    BY <1>3 DEF DeleteGame, GamesInv
  <1>4. ASSUME \/ Start \/ CountPlayers \/ PanicOnTakenName \/ Serve \/ Crash
               \/ \E p \in PlayerIDs : CreateHardcodedPlayer(p)
               \/ \E g \in HardcodedGames : AddHardcodedPlayer(g)
               \/ \E i \in SessionIDs : SessionTimesOut(i)
               \/ UNCHANGED vars
        PROVE  games' = games
    BY <1>4 DEF Start, CountPlayers, PanicOnTakenName, Serve, Crash, CreateHardcodedPlayer,
       AddHardcodedPlayer, SessionTimesOut, vars, accountVars
  <1>5. ASSUME NEW r \in Requests,
               \/ HandleCreatePlayer(r) \/ UndoPlayer(r) \/ HandleAddToGame(r) \/ AddPlayer(r)
               \/ HandleCreateGame(r) \/ HandleDeleteGame(r)
               \/ HandleLogin(r) \/ CreateSession(r) \/ HandleReauth(r) \/ CheckReauth(r)
               \/ HandleLogout(r) \/ RemoveSession(r) \/ HandleClearSessions(r) \/ ClearSessions(r)
               \/ HandleTimeoutAllSessions(r) \/ TimeoutAllSessions(r) \/ Abort(r)
        PROVE  games' = games
    BY <1>5 DEF HandleCreatePlayer, UndoPlayer, HandleAddToGame, AddPlayer, HandleCreateGame,
       HandleDeleteGame, HandleLogin, CreateSession, HandleReauth, CheckReauth, HandleLogout,
       RemoveSession, HandleClearSessions, ClearSessions, HandleTimeoutAllSessions,
       TimeoutAllSessions, Abort, Read, accountVars
  <1> QED BY <1>1, <1>2, <1>3, <1>4, <1>5 DEF Next, SetUp, GamesInv

LEMMA StepInv == IInv /\ GamesInv /\ [Next]_vars => IInv' /\ GamesInv'
  <1> SUFFICES ASSUME IInv, GamesInv, [Next]_vars PROVE IInv'
    BY GamesStep
  <1>1. CASE UNCHANGED vars
    <2>1. /\ Kept /\ \A q \in PlayerIDs : Surplus(q) => Surplus(q)'
          /\ UNCHANGED << members, sessions, owner, todo, req >>
      BY <1>1, NothingKeeps DEF IInv, vars, accountVars
    <2> QED BY <2>1, SameMembers, SameOwners, SameSetup, SameRequests DEF IInv, Kept
  <1>2. ASSUME NEW r \in Requests,
               \/ HandleCreatePlayer(r) \/ UndoPlayer(r)
               \/ HandleAddToGame(r) \/ AddPlayer(r)
               \/ HandleCreateGame(r) \/ CreateGame(r)
               \/ HandleDeleteGame(r) \/ DeleteGame(r)
               \/ HandleLogin(r) \/ CreateSession(r)
               \/ HandleReauth(r) \/ CheckReauth(r)
               \/ HandleLogout(r) \/ RemoveSession(r)
               \/ HandleClearSessions(r) \/ ClearSessions(r)
               \/ HandleTimeoutAllSessions(r) \/ TimeoutAllSessions(r)
               \/ Abort(r)
        PROVE  IInv'
    BY <1>2, CreatePlayerStep, UndoStep, ReadStep, GameWriteStep, SessionWriteStep
  <1> QED BY <1>1, <1>2, SetUpStep, CrashStep, TimesOutStep DEF Next

LEMMA Invariant == Spec => [](IInv /\ GamesInv)
  BY InitInv, StepInv, PTL DEF Spec

-----------------------------------------------------------------------------
(* Types.                                                                  *)

ServerInv == server \in {"down", "games", "players", "serving", "panicked"}

LEMMA ServerStep == ServerInv /\ [Next]_vars => ServerInv'
  <1> SUFFICES ASSUME ServerInv, [Next]_vars PROVE ServerInv'
    OBVIOUS
  <1>1. CASE SetUp \/ Crash \/ UNCHANGED vars
    BY <1>1 DEF SetUp, Start, AddHardcodedGame, CountPlayers, CreateHardcodedPlayer,
       PanicOnTakenName, AddHardcodedPlayer, Serve, Crash, vars, ServerInv
  <1>2. ASSUME NEW r \in Requests,
               \/ HandleCreatePlayer(r) \/ HandleAddToGame(r) \/ HandleCreateGame(r)
               \/ HandleDeleteGame(r) \/ HandleLogin(r) \/ HandleReauth(r) \/ CheckReauth(r)
               \/ HandleLogout(r) \/ HandleClearSessions(r) \/ HandleTimeoutAllSessions(r)
               \/ Abort(r)
        PROVE  server' = server
    BY <1>2 DEF HandleCreatePlayer, HandleAddToGame, HandleCreateGame, HandleDeleteGame,
       HandleLogin, HandleReauth, CheckReauth, HandleLogout, HandleClearSessions,
       HandleTimeoutAllSessions, Abort, Read
  <1>3. ASSUME NEW r \in Requests,
               \/ UndoPlayer(r) \/ AddPlayer(r) \/ CreateGame(r) \/ DeleteGame(r)
               \/ CreateSession(r) \/ RemoveSession(r) \/ ClearSessions(r)
               \/ TimeoutAllSessions(r)
        PROVE  server' = server
    BY <1>3 DEF UndoPlayer, AddPlayer, CreateGame, DeleteGame, CreateSession, RemoveSession,
       ClearSessions, TimeoutAllSessions, Finish
  <1>4. ASSUME NEW i \in SessionIDs, SessionTimesOut(i)
        PROVE  server' = server
    BY <1>4 DEF SessionTimesOut
  <1> QED BY <1>1, <1>2, <1>3, <1>4 DEF Next, ServerInv

\* Every variable keeps its type: nothing but the IDs of players is in the games and the map
\* of usernames, nothing but pending writes in the requests.
THEOREM AccountsTyped == Spec => []TypeOK
  <1>1. Init => ServerInv
    BY DEF Init, ServerInv
  <1>2. IInv /\ GamesInv /\ ServerInv => TypeOK
    BY DEF IInv, NamesInv, MembersInv, OwnersInv, SetupInv, Todo, RequestsInv, GamesInv,
       ServerInv, TypeOK
  <1> QED BY <1>1, <1>2, ServerStep, Invariant, PTL DEF Spec

\* However requests, setups and failures overlap, nobody is in a game, has a session or is
\* about to have one who is not the player of a username, for any number of
\* requests, players and games (player.Create, game.AddPlayer, auth.LogPlayerIn).
THEOREM NobodyDangles == Spec => []NoDanglingPlayers
  <1>1. IInv => NoDanglingPlayers
    BY DEF IInv, NamesInv, MembersInv, OwnersInv, RequestsInv, Right, Good, NoDanglingPlayers
  <1> QED BY Invariant, <1>1, PTL

-----------------------------------------------------------------------------
(* Who is logged in.                                                       *)

LEMMA SameLogins ==
    ASSUME \A i \in SessionIDs : Exists(i)' => Exists(i) /\ owner'[i] = owner[i],
           \A q \in Requests : req'[q].step = "login" => req'[q] = req[q]
    PROVE  LoggedIn' \subseteq LoggedIn
  <1> SUFFICES ASSUME NEW l \in LoggedIn'
               PROVE  l \in LoggedIn
    OBVIOUS
  <1>1. CASE \E i \in SessionIDs : Exists(i)' /\ l = owner'[i]
    BY <1>1 DEF LoggedIn
  <1>2. CASE \E q \in Requests :
               req'[q].step = "login" /\ l = [player |-> req'[q].player, game |-> req'[q].game]
    <2>1. PICK q \in Requests :
            req'[q].step = "login" /\ l = [player |-> req'[q].player, game |-> req'[q].game]
      BY <1>2
    <2>2. req'[q] = req[q]
      BY <2>1
    <2> QED BY <2>1, <2>2 DEF LoggedIn
  <1> QED BY <1>1, <1>2 DEF LoggedIn

\* Nobody comes to be logged in but by a lookup that finds the player in the game.
LEMMA LoginsStep ==
    ASSUME IInv, Next, NEW l \in LoggedIn'
    PROVE  \/ l \in LoggedIn
           \/ l.game \in Games /\ l.player \in members[l.game] /\ members' = members
  <1>0. req \in [Requests -> Pending]
    BY DEF IInv, RequestsInv
  <1>1. Idle.step # "login"
    BY Idles
  <1>2. ASSUME \/ SetUp \/ \E r \in Requests : HandleAddToGame(r) \/ HandleCreateGame(r)
                  \/ HandleDeleteGame(r) \/ HandleReauth(r) \/ CheckReauth(r)
                  \/ HandleLogout(r) \/ HandleClearSessions(r) \/ HandleTimeoutAllSessions(r)
                  \/ HandleCreatePlayer(r) \/ UndoPlayer(r) \/ AddPlayer(r)
                  \/ CreateGame(r) \/ DeleteGame(r) \/ Abort(r)
        PROVE  sessions' = sessions /\ owner' = owner
    BY <1>2 DEF SetUp, Start, CountPlayers, PanicOnTakenName, Serve, CreateHardcodedPlayer,
       AddHardcodedGame, AddHardcodedPlayer, HandleAddToGame, HandleCreateGame,
       HandleDeleteGame, HandleReauth, CheckReauth, HandleLogout, HandleClearSessions,
       HandleTimeoutAllSessions, HandleCreatePlayer, UndoPlayer, AddPlayer, CreateGame,
       DeleteGame, Abort, Read
  <1>3. CASE SetUp
    <2>1. req' = req
      BY <1>3 DEF SetUp, Start, CountPlayers, PanicOnTakenName, Serve, CreateHardcodedPlayer,
         AddHardcodedGame, AddHardcodedPlayer
    <2> QED BY <1>2, <1>3, <2>1, SameLogins DEF Exists
  <1>4. CASE Crash
    <2>1. req' = [r \in Requests |-> Idle] /\ UNCHANGED << sessions, owner >>
      BY <1>4 DEF Crash
    <2> QED BY <1>1, <2>1, SameLogins DEF Exists
  <1>5. ASSUME NEW r \in Requests,
               \/ HandleAddToGame(r) \/ HandleCreateGame(r) \/ HandleDeleteGame(r)
               \/ HandleReauth(r) \/ CheckReauth(r) \/ HandleLogout(r)
               \/ HandleClearSessions(r) \/ HandleTimeoutAllSessions(r)
               \/ HandleCreatePlayer(r)
               \/ UndoPlayer(r) \/ AddPlayer(r) \/ CreateGame(r) \/ DeleteGame(r) \/ Abort(r)
        PROVE  l \in LoggedIn
    <2>1. \E x : x.step # "login" /\ req' = [req EXCEPT ![r] = x]
      BY <1>1, <1>5 DEF HandleAddToGame, HandleCreateGame,
       HandleDeleteGame, HandleReauth, CheckReauth, HandleLogout, HandleClearSessions,
       HandleTimeoutAllSessions, HandleCreatePlayer, UndoPlayer, AddPlayer, CreateGame,
       DeleteGame, Abort, Read, Finish
    <2>2. \A q \in Requests : req'[q].step = "login" => req'[q] = req[q]
      BY <1>0, <2>1
    <2> QED BY <1>2, <1>5, <2>2, SameLogins DEF Exists
  <1>6. ASSUME NEW r \in Requests, HandleLogin(r)
        PROVE  \/ l \in LoggedIn
               \/ l.game \in Games /\ l.player \in members[l.game] /\ members' = members
    <2>1. PICK u \in Usernames, g \in Games :
            /\ idOf[u] \in members[g]
            /\ Read(r, [step |-> "login", player |-> idOf[u], game |-> g])
      BY <1>6 DEF HandleLogin
    <2> DEFINE p == idOf[u]
    <2>2. /\ req' = [req EXCEPT ![r] = [step |-> "login", player |-> p, game |-> g]]
          /\ UNCHANGED << sessions, owner, members >>
      BY <2>1 DEF Read, accountVars
    <2>3. CASE l = [player |-> p, game |-> g]
      BY <2>1, <2>2, <2>3
    <2>4. CASE l # [player |-> p, game |-> g]
      <3>1. CASE \E i \in SessionIDs : Exists(i)' /\ l = owner'[i]
        BY <2>2, <3>1 DEF LoggedIn, Exists
      <3>2. CASE \E q \in Requests :
                   req'[q].step = "login" /\ l = [player |-> req'[q].player, game |-> req'[q].game]
        <4>1. PICK q \in Requests :
                req'[q].step = "login" /\ l = [player |-> req'[q].player, game |-> req'[q].game]
          BY <3>2
        <4>2. q # r
          BY <1>0, <2>2, <2>4, <4>1
        <4>3. req'[q] = req[q]
          BY <1>0, <2>2, <4>2
        <4> QED BY <4>1, <4>3 DEF LoggedIn
      <3> QED BY <3>1, <3>2 DEF LoggedIn
    <2> QED BY <2>3, <2>4
  <1>7. ASSUME NEW r \in Requests, CreateSession(r)
        PROVE  l \in LoggedIn
    <2>1. PICK i \in SessionIDs :
            /\ sessions[i] = "unused" /\ \E state : sessions' = [sessions EXCEPT ![i] = state]
            /\ owner' = [owner EXCEPT ![i] = [player |-> req[r].player, game |-> req[r].game]]
      BY <1>7 DEF CreateSession, Create, FailCreate
    <2>2. req[r].step = "login" /\ req' = [req EXCEPT ![r] = Idle]
      BY <1>7 DEF CreateSession, Finish
    <2>3. CASE \E j \in SessionIDs : Exists(j)' /\ l = owner'[j]
      <3>1. PICK j \in SessionIDs : Exists(j)' /\ l = owner'[j]
        BY <2>3
      <3>2. CASE j = i
        <4>1. l = [player |-> req[r].player, game |-> req[r].game]
          BY <2>1, <3>1, <3>2 DEF IInv, OwnersInv
        <4> QED BY <2>2, <4>1 DEF LoggedIn
      <3>3. CASE j # i
        <4>1. Exists(j) /\ l = owner[j]
          BY <2>1, <3>1, <3>3 DEF IInv, OwnersInv, SessionsTypeOK, Exists
        <4> QED BY <4>1 DEF LoggedIn
      <3> QED BY <3>2, <3>3
    <2>4. CASE \E q \in Requests :
                 req'[q].step = "login" /\ l = [player |-> req'[q].player, game |-> req'[q].game]
      <3>1. PICK q \in Requests :
              req'[q].step = "login" /\ l = [player |-> req'[q].player, game |-> req'[q].game]
        BY <2>4
      <3>2. req'[q] = req[q]
        BY <1>0, <1>1, <2>2, <3>1
      <3> QED BY <3>1, <3>2 DEF LoggedIn
    <2> QED BY <2>3, <2>4 DEF LoggedIn
  <1>8. ASSUME NEW r \in Requests,
               RemoveSession(r) \/ ClearSessions(r) \/ TimeoutAllSessions(r)
        PROVE  l \in LoggedIn
    <2>1. req' = [req EXCEPT ![r] = Idle] /\ owner' = owner
      BY <1>8 DEF RemoveSession, ClearSessions, TimeoutAllSessions, Finish
    <2>2. \A q \in Requests : req'[q].step = "login" => req'[q] = req[q]
      BY <1>0, <1>1, <2>1
    <2>3. \A i \in SessionIDs : Exists(i)' => Exists(i)
      <3>1. sessions \in [SessionIDs -> SessionStates]
        BY DEF IInv, OwnersInv, SessionsTypeOK
      <3>2. CASE RemoveSession(r)
        BY <3>1, <3>2 DEF RemoveSession, Remove, Exists
      <3>3. CASE ClearSessions(r) \/ TimeoutAllSessions(r)
        BY <3>3 DEF ClearSessions, TimeoutAllSessions, Exists
      <3> QED BY <1>8, <3>2, <3>3
    <2> QED BY <2>1, <2>2, <2>3, SameLogins
  <1>9. ASSUME NEW i \in SessionIDs, SessionTimesOut(i)
        PROVE  l \in LoggedIn
    <2>1. req' = req /\ owner' = owner
      BY <1>9 DEF SessionTimesOut
    <2>2. \A j \in SessionIDs : Exists(j)' => Exists(j)
      BY <1>9 DEF SessionTimesOut, TimeOut, Exists, IInv, OwnersInv, SessionsTypeOK
    <2> QED BY <2>1, <2>2, SameLogins
  <1> QED BY <1>3, <1>4, <1>5, <1>6, <1>7, <1>8, <1>9 DEF Next

\* Nobody leaves a game but by its deletion.
LEMMA MembersStay ==
    ASSUME IInv, Next, NEW g \in Games, NEW p \in members[g], p \notin members'[g]
    PROVE  \E r \in Requests : DeleteGame(r) /\ req[r].game = g
  <1>1. members \in [Games -> SUBSET PlayerIDs]
    BY DEF IInv, MembersInv
  <1>2. ASSUME NEW h, NEW q, members' = [members EXCEPT ![h] = @ \cup {q}]
        PROVE  FALSE
    BY <1>1, <1>2
  <1>3. ASSUME NEW r \in Requests, AddPlayer(r)
        PROVE  FALSE
    BY <1>2, <1>3 DEF AddPlayer
  <1>4. ASSUME NEW h \in HardcodedGames, AddHardcodedPlayer(h)
        PROVE  FALSE
    BY <1>2, <1>4 DEF AddHardcodedPlayer
  <1>5. ASSUME NEW r \in Requests, DeleteGame(r)
        PROVE  req[r].game = g
    BY <1>1, <1>5 DEF DeleteGame
  <1>6. ASSUME NEW r \in Requests,
               \/ HandleCreatePlayer(r) \/ UndoPlayer(r) \/ HandleAddToGame(r)
               \/ HandleCreateGame(r) \/ CreateGame(r) \/ HandleDeleteGame(r)
               \/ HandleLogin(r) \/ CreateSession(r) \/ HandleReauth(r) \/ CheckReauth(r)
               \/ HandleLogout(r) \/ RemoveSession(r) \/ HandleClearSessions(r) \/ ClearSessions(r)
               \/ HandleTimeoutAllSessions(r) \/ TimeoutAllSessions(r) \/ Abort(r)
        PROVE  members' = members
    BY <1>6 DEF HandleCreatePlayer, UndoPlayer, HandleAddToGame, HandleCreateGame, CreateGame,
       HandleDeleteGame, HandleLogin, CreateSession, HandleReauth, CheckReauth,
       HandleLogout, RemoveSession, HandleClearSessions, ClearSessions,
       HandleTimeoutAllSessions, TimeoutAllSessions, Abort, Read, accountVars
  <1>7. ASSUME \/ Start \/ CountPlayers \/ PanicOnTakenName \/ Serve \/ Crash
               \/ \E q \in PlayerIDs : CreateHardcodedPlayer(q)
               \/ \E h \in HardcodedGames : AddHardcodedGame(h)
               \/ \E i \in SessionIDs : SessionTimesOut(i)
        PROVE  members' = members
    BY <1>7 DEF Start, CountPlayers, PanicOnTakenName, Serve, Crash, CreateHardcodedPlayer,
       AddHardcodedGame, SessionTimesOut, accountVars
  <1> QED BY <1>3, <1>4, <1>5, <1>6, <1>7 DEF Next, SetUp

LEMMA StrangersStep ==
    ASSUME IInv, Next, NEW l \in Strangers', l \notin Strangers
    PROVE  \E r \in Requests : DeleteGame(r) /\ req[r].game = l.game
  <1>1. l \in LoggedIn' /\ l.player \notin members'[l.game]
    BY DEF Strangers
  <1>2. l \in LoggedIn
    BY <1>1, LoginsStep
  <1>3. l.player \in members[l.game]
    BY <1>2 DEF Strangers
  <1>4. l.game \in Games
    <2>1. CASE \E i \in SessionIDs : Exists(i) /\ l = owner[i]
      <3>1. PICK i \in SessionIDs : Exists(i) /\ l = owner[i]
        BY <2>1
      <3>2. owner[i].player \in PlayerIDs
        BY <3>1 DEF IInv, OwnersInv, Good
      <3>3. owner[i] # NoOwner
        BY <3>2, AccountsAssumption DEF NoOwner
      <3>4. owner[i] \in [player : PlayerIDs, game : Games]
        BY <3>3 DEF IInv, OwnersInv
      <3> QED BY <3>1, <3>4
    <2>2. CASE \E r \in Requests :
                 req[r].step = "login" /\ l = [player |-> req[r].player, game |-> req[r].game]
      BY <2>2, PendingIs DEF IInv, RequestsInv
    <2> QED BY <1>2, <2>1, <2>2 DEF LoggedIn
  <1> QED BY <1>1, <1>3, <1>4, MembersStay

\* Whoever has a session in a game, or is about to, is in the game, unless it was deleted
\* since, for any players, games and requests (LogPlayerIn in auth.go, handleDeleteGame).
THEOREM LoggedInAreMembers == Spec => OnlyDeletionsMakeStrangers
  <1> DEFINE Kin ==
        \A l \in Strangers' :
            \/ l \in Strangers
            \/ \E r \in Requests : DeleteGame(r) /\ req[r].game = l.game
  <1>1. IInv /\ [Next]_vars => [Kin]_vars
    BY StrangersStep
  <1>2. Spec => [][Kin]_vars
    BY <1>1, Invariant, PTL DEF Spec
  <1> QED BY <1>2 DEF OnlyDeletionsMakeStrangers

-----------------------------------------------------------------------------
(* Why the setup fails.  It creates the players of the configuration in    *)
(* order, so as long as there are fewer players than names, the names that *)
(* are taken are the first ones.  Players that last are counted apart from *)
(* those a request is about to delete.                                     *)

Last == Len(HardcodedUsernames)

Lasting ==
    {p \in PlayerIDs : /\ players[p] # None
                       /\ \A r \in Requests : req[r].step = "undo" => req[r].player # p}

Enough == Cardinality(Lasting) >= Last

\* The names before the k-th are taken, and no others.
UpTo(k) ==
    /\ \A j \in 1..(k - 1) : Taken(HardcodedUsernames[j])
    /\ \A j \in k..Last : ~Taken(HardcodedUsernames[j])

HalfWay == \E k \in 1..Last : UpTo(k)

\* What is to be created are the names from the m-th on.
From(m) ==
    /\ Len(todo.names) = Last - m + 1
    /\ \A j \in 1..Len(todo.names) : todo.names[j] = HardcodedUsernames[m + j - 1]

PanicInv ==
    /\ server # "serving" => \A r \in Requests : req[r] = Idle
    /\ server = "serving" => Enough
    /\ Enough \/ HalfWay
    /\ server = "players" /\ todo.names = <<>> => Enough
    /\ server = "players" /\ todo.names # <<>> =>
         \E k \in 1..Last : \E m \in {1, k} : UpTo(k) /\ From(m)
    /\ server = "panicked" => HalfDone

LEMMA Configured ==
    /\ Last \in Nat /\ HardcodedUsernames \in Seq(Usernames)
    /\ \A j \in 1..Last : HardcodedUsernames[j] \in Usernames
    /\ \A i, j \in 1..Last : HardcodedUsernames[i] = HardcodedUsernames[j] => i = j
  <1>1. HardcodedUsernames \in Seq(Usernames) /\ IsInjective(HardcodedUsernames)
    BY AccountsAssumption
  <1>2. DOMAIN HardcodedUsernames = 1..Last
    BY <1>1 DEF Last
  <1> QED BY <1>1, <1>2 DEF Last, IsInjective

LEMMA LastingFinite == IsFiniteSet(Lasting) /\ Cardinality(Lasting) \in Nat
  <1>1. IsFiniteSet(PlayerIDs) /\ Lasting \in SUBSET PlayerIDs
    BY AccountsAssumption DEF Lasting
  <1> QED BY <1>1, FS_Subset, FS_CardinalityType

LEMMA StaysEnough ==
    ASSUME Enough, Lasting \subseteq Lasting'
    PROVE  Enough'
  <1>1. Lasting' \in SUBSET PlayerIDs /\ IsFiniteSet(PlayerIDs)
    BY AccountsAssumption DEF Lasting
  <1>2. IsFiniteSet(Lasting') /\ Cardinality(Lasting') \in Nat
    BY <1>1, FS_Subset, FS_CardinalityType
  <1>3. Cardinality(Lasting) <= Cardinality(Lasting')
    BY <1>2, FS_Subset
  <1> QED BY <1>2, <1>3, LastingFinite, Configured DEF Enough, Last

\* Once all names are taken there are as many players: each name has its own.
LEMMA AllTakenEnough ==
    ASSUME NamesInv', \A r \in Requests : req'[r] = Idle,
           \A j \in 1..Last : idOf'[HardcodedUsernames[j]] # None
    PROVE  Enough'
  <1> DEFINE f == [j \in 1..Last |-> idOf'[HardcodedUsernames[j]]]
  <1>1. \A p \in PlayerIDs : players'[p] # None => p \in Lasting'
    BY Idles DEF Lasting
  <1>2. ASSUME NEW j \in 1..Last
        PROVE  f[j] \in Lasting' /\ players'[f[j]] = HardcodedUsernames[j]
    <2>1. HardcodedUsernames[j] \in Usernames /\ f[j] # None
      BY Configured
    <2>2. f[j] \in PlayerIDs /\ players'[f[j]] = HardcodedUsernames[j]
      BY <2>1 DEF NamesInv, Taken
    <2> QED BY <1>1, <2>1, <2>2, AccountsAssumption
  <1>3. f \in Injection(1..Last, Lasting')
    <2>1. f \in [1..Last -> Lasting']
      BY <1>2
    <2>2. \A i, j \in 1..Last : f[i] = f[j] => i = j
      BY <1>2, Configured
    <2> HIDE DEF f
    <2> QED BY <2>1, <2>2 DEF Injection, IsInjective
  <1>4. Cardinality(1..Last) = Last
    <2>1. \A n \in Nat : Cardinality(1..n) = n
      BY FS_Interval
    <2> QED BY <2>1, Configured
  <1>5. IsFiniteSet(Lasting') /\ Cardinality(Lasting') \in Nat
    <2>1. Lasting' \in SUBSET PlayerIDs /\ IsFiniteSet(PlayerIDs)
      BY AccountsAssumption DEF Lasting
    <2> QED BY <2>1, FS_Subset, FS_CardinalityType
  <1>6. Cardinality(1..Last) <= Cardinality(Lasting')
    BY <1>3, <1>5, FS_Injection
  <1> QED BY <1>4, <1>5, <1>6, Configured DEF Enough, Last

LEMMA SameNames ==
    ASSUME UNCHANGED idOf
    PROVE  /\ HalfWay => HalfWay'
           /\ HalfDone => HalfDone'
           /\ \A k : UpTo(k) => UpTo(k)'
  BY DEF HalfWay, HalfDone, UpTo, Taken

-----------------------------------------------------------------------------
LEMMA CreateHardcodedPanicInv ==
    ASSUME IInv, PanicInv, NEW p \in PlayerIDs, CreateHardcodedPlayer(p), NamesInv'
    PROVE  PanicInv'
  <1> DEFINE names == todo.names
  <1>1. /\ server = "players" /\ server' = server /\ req' = req /\ names # <<>>
        /\ ~Taken(Head(names)) /\ WritePlayer(p, Head(names))
    BY DEF CreateHardcodedPlayer
  <1>2. names \in Seq(Usernames) /\ todo'.names = Tail(names)
    BY DEF IInv, SetupInv, Todo, CreateHardcodedPlayer
  <1>3. PICK k \in 1..Last : UpTo(k) /\ \E m \in {1, k} : From(m)
    BY <1>1 DEF PanicInv
  <1>3a. PICK m \in {1, k} : From(m)
    BY <1>3
  <1>4. Head(names) = HardcodedUsernames[m] /\ m \in 1..Last
    <2>1. names[1] = HardcodedUsernames[m + 1 - 1]
      BY <1>1, <1>2, <1>3, <1>3a DEF From
    <2> QED BY <1>1, <1>2, <1>3, <2>1, Configured
  <1>5. m = k
    BY <1>1, <1>3, <1>4, Configured DEF UpTo
  <1>6. /\ \A j \in 1..Last : j # k => ((Taken(HardcodedUsernames[j]))' <=> Taken(HardcodedUsernames[j]))
        /\ (Taken(HardcodedUsernames[k]))'
    <2>1. /\ HardcodedUsernames[k] \in Usernames
          /\ idOf' = [idOf EXCEPT ![HardcodedUsernames[k]] = p]
      BY <1>1, <1>4, <1>5, Configured DEF WritePlayer
    <2>2. p # None /\ idOf \in [Usernames -> PlayerIDs \cup {None}]
      BY AccountsAssumption DEF IInv, NamesInv
    <2> QED BY <2>1, <2>2, Configured DEF Taken
  <1>7. UpTo(k + 1)'
    <2>1. \A j \in 1..k : Taken(HardcodedUsernames[j])'
      BY <1>3, <1>6, Configured DEF UpTo
    <2>2. \A j \in (k + 1)..Last : ~Taken(HardcodedUsernames[j])'
      BY <1>3, <1>6, Configured DEF UpTo
    <2> QED BY <2>1, <2>2, Configured DEF UpTo, Last
  <1>8. \A r \in Requests : req'[r] = Idle
    BY <1>1 DEF PanicInv
  <1>9. CASE k = Last
    <2>1. todo'.names = <<>>
      <3>1. Len(names) = 1
        BY <1>3a, <1>5, <1>9, Configured DEF From
      <3>2. Tail(names) \in Seq(Usernames) /\ Len(Tail(names)) = 0
        BY <1>1, <1>2, <3>1
      <3>3. \A s \in Seq(Usernames) : Len(s) = 0 => s = <<>>
        OBVIOUS
      <3> HIDE DEF names
      <3> QED BY <1>2, <3>2, <3>3
    <2>2. \A j \in 1..Last : Taken(HardcodedUsernames[j])'
      BY <1>7, <1>9, Configured DEF UpTo
    <2>3. Enough'
      BY <1>8, <2>2, AllTakenEnough DEF Taken
    <2> QED BY <1>1, <1>8, <2>1, <2>3 DEF PanicInv
  <1>10. CASE k # Last
    <2>1. k + 1 \in 1..Last
      BY <1>10, Configured
    <2>2. From(k + 1)'
      <3>1. Len(names) = Last - k + 1 /\ \A j \in 1..Len(names) : names[j] = HardcodedUsernames[k + j - 1]
        BY <1>3, <1>3a, <1>5 DEF From
      <3>2. /\ Len(Tail(names)) = Len(names) - 1
            /\ \A j \in 1..Len(Tail(names)) : Tail(names)[j] = names[j + 1] /\ j + 1 \in 1..Len(names)
        BY <1>1, <1>2
      <3>3. Len(Tail(names)) = Last - (k + 1) + 1
        BY <3>1, <3>2, Configured
      <3>4. \A j \in 1..Len(Tail(names)) : Tail(names)[j] = HardcodedUsernames[(k + 1) + j - 1]
        <4> TAKE j \in 1..Len(Tail(names))
        <4>1. Tail(names)[j] = HardcodedUsernames[k + (j + 1) - 1]
          BY <3>1, <3>2
        <4>2. k + (j + 1) - 1 = (k + 1) + j - 1
          BY Configured
        <4> QED BY <4>1, <4>2
      <3> QED BY <1>2, <3>3, <3>4 DEF From, Last
    <2>3. HalfWay'
      BY <1>7, <2>1 DEF HalfWay, Last
    <2>4. \E i \in 1..Last' : \E j \in {1, i} : UpTo(i)' /\ From(j)'
      BY <1>7, <2>1, <2>2 DEF Last
    <2>5. todo'.names # <<>>
      BY <1>2, <2>1, <2>2, Configured DEF From, Last
    <2> QED BY <1>1, <1>8, <2>3, <2>4, <2>5 DEF PanicInv
  <1> QED BY <1>9, <1>10

LEMMA PanicPanicInv ==
    ASSUME IInv, PanicInv, PanicOnTakenName
    PROVE  PanicInv'
  <1> DEFINE names == todo.names
  <1>1. /\ server = "players" /\ server' = "panicked" /\ req' = req /\ names # <<>>
        /\ Taken(Head(names))
        /\ \/ UNCHANGED << players, idOf >>
           \/ \E p \in PlayerIDs : WritePlayer(p, Head(names))
    BY DEF PanicOnTakenName
  <1>2. names \in Seq(Usernames)
    BY DEF IInv, SetupInv, Todo
  <1>3. PICK k \in 1..Last : UpTo(k) /\ \E m \in {1, k} : From(m)
    BY <1>1 DEF PanicInv
  <1>3a. PICK m \in {1, k} : From(m)
    BY <1>3
  <1>4. Head(names) = HardcodedUsernames[m] /\ m \in 1..Last
    <2>1. names[1] = HardcodedUsernames[m + 1 - 1]
      BY <1>1, <1>2, <1>3, <1>3a DEF From
    <2> QED BY <1>1, <1>2, <1>3, <2>1, Configured
  <1>5. HalfDone
    <2>1. m = 1
      BY <1>1, <1>3, <1>4, Configured DEF UpTo
    <2>2. HardcodedUsernames # <<>> /\ Head(HardcodedUsernames) = HardcodedUsernames[1]
      BY <1>3, <1>3a, Configured DEF Last
    <2>3. ~Taken(HardcodedUsernames[Last])
      BY <1>3, <1>3a, Configured DEF UpTo
    <2> QED BY <1>1, <1>4, <2>1, <2>2, <2>3 DEF HalfDone, Last
  <1>6. idOf' = idOf
    BY <1>1 DEF WritePlayer
  <1>7. Lasting \subseteq Lasting'
    <2>1. \A p \in PlayerIDs : players[p] # None => players'[p] # None
      BY <1>1, AccountsAssumption DEF WritePlayer, Fresh, IInv, NamesInv
    <2> QED BY <1>1, <2>1 DEF Lasting
  <1>8. \A r \in Requests : req'[r] = Idle
    BY <1>1 DEF PanicInv
  <1> QED BY <1>1, <1>5, <1>6, <1>7, <1>8, SameNames, StaysEnough DEF PanicInv

\* The rest of the setup changes no player.
LEMMA SetUpPanicInv ==
    ASSUME IInv, PanicInv, SetUp, NamesInv'
    PROVE  PanicInv'
  <1>1. ASSUME UNCHANGED << players, idOf, req >>
        PROVE  /\ Enough' = Enough /\ HalfWay' = HalfWay
               /\ \A k : UpTo(k)' <=> UpTo(k)
    BY <1>1 DEF Enough, HalfWay, UpTo, Taken, Lasting, Last
  <1>2. CASE Start
    BY <1>1, <1>2 DEF Start, PanicInv, accountVars
  <1>3. CASE \E g \in HardcodedGames : AddHardcodedGame(g)
    BY <1>1, <1>3 DEF AddHardcodedGame, PanicInv
  <1>4. CASE \E g \in HardcodedGames : AddHardcodedPlayer(g)
    <2>1. /\ UNCHANGED << players, idOf, req >> /\ server' = "players" /\ server = "players"
          /\ todo'.names = todo.names
      BY <1>4 DEF AddHardcodedPlayer, IInv, SetupInv, Todo
    <2>2. \A m : From(m)' <=> From(m)
      BY <2>1 DEF From, Last
    <2> QED BY <1>1, <2>1, <2>2 DEF PanicInv, Last
  <1>5. CASE CountPlayers
    <2>1. /\ UNCHANGED << players, idOf, req >> /\ server = "games" /\ server' = "players"
          /\ todo'.names = IF Cardinality({p \in PlayerIDs : players[p] # None})
                                  < Len(HardcodedUsernames)
                           THEN HardcodedUsernames ELSE <<>>
      BY <1>5 DEF CountPlayers, accountVars, IInv, SetupInv, Todo
    <2>2. {p \in PlayerIDs : players[p] # None} = Lasting
      BY <2>1, Idles DEF PanicInv, Lasting
    <2>3. CASE Cardinality(Lasting) < Last
      <3>1. todo'.names = HardcodedUsernames /\ ~Enough
        <4>1. ~Enough
          BY <2>3, LastingFinite, Configured DEF Enough
        <4> QED BY <2>1, <2>2, <2>3, <4>1 DEF Last
      <3>2. PICK k \in 1..Last : UpTo(k)
        BY <3>1 DEF PanicInv, HalfWay
      <3>3. From(1)'
        BY <3>1, Configured DEF From, Last
      <3>4. \E i \in 1..Last' : \E m \in {1, i} : UpTo(i)' /\ From(m)'
        BY <1>1, <2>1, <3>2, <3>3 DEF Last
      <3>5. todo'.names # <<>>
        BY <3>1, <3>2, Configured DEF Last
      <3> QED BY <1>1, <2>1, <3>4, <3>5 DEF PanicInv
    <2>4. CASE ~(Cardinality(Lasting) < Last)
      <3>1. todo'.names = <<>> /\ Enough
        <4>1. Enough
          BY <2>4, LastingFinite, Configured DEF Enough
        <4> QED BY <2>1, <2>2, <2>4, <4>1 DEF Last
      <3> QED BY <1>1, <2>1, <3>1 DEF PanicInv
    <2> QED BY <2>3, <2>4
  <1>6. CASE Serve
    BY <1>1, <1>6 DEF Serve, PanicInv, accountVars
  <1> QED BY <1>2, <1>3, <1>4, <1>5, <1>6, CreateHardcodedPanicInv, PanicPanicInv DEF SetUp

LEMMA CrashPanicInv ==
    ASSUME PanicInv, Crash
    PROVE  PanicInv'
  <1>1. \A r \in Requests : req'[r] = Idle
    BY DEF Crash
  <1>2. Lasting \subseteq Lasting'
    BY <1>1, Idles DEF Lasting, Crash, accountVars
  <1> QED BY <1>1, <1>2, SameNames, StaysEnough DEF PanicInv, Crash, accountVars

\* While the server runs, no player goes that was to last.
LEMMA ServingPanicInv ==
    ASSUME PanicInv, server = "serving", server' = server, Lasting \subseteq Lasting'
    PROVE  PanicInv'
  BY StaysEnough DEF PanicInv

LEMMA RequestPanicInv ==
    ASSUME IInv, PanicInv, NEW r \in Requests,
           \/ HandleCreatePlayer(r) \/ UndoPlayer(r)
           \/ HandleAddToGame(r) \/ AddPlayer(r)
           \/ HandleCreateGame(r) \/ CreateGame(r)
           \/ HandleDeleteGame(r) \/ DeleteGame(r)
           \/ HandleLogin(r) \/ CreateSession(r)
           \/ HandleReauth(r) \/ CheckReauth(r)
           \/ HandleLogout(r) \/ RemoveSession(r)
           \/ HandleClearSessions(r) \/ ClearSessions(r)
           \/ HandleTimeoutAllSessions(r) \/ TimeoutAllSessions(r)
           \/ Abort(r)
    PROVE  PanicInv'
  <1>0. /\ req \in [Requests -> Pending] /\ players \in [PlayerIDs -> Usernames \cup {None}]
        /\ None \notin Usernames
    BY AccountsAssumption DEF IInv, RequestsInv, NamesInv
  <1>1. server = "serving" /\ server' = server
    <2>1. server = "serving" \/ req[r] = Idle
      BY DEF PanicInv
    <2>2. Idle.step = "idle"
      BY DEF Idle
    <2>3. CASE \/ HandleCreatePlayer(r) \/ HandleAddToGame(r) \/ HandleCreateGame(r)
               \/ HandleDeleteGame(r) \/ HandleLogin(r) \/ HandleReauth(r) \/ HandleLogout(r)
               \/ HandleClearSessions(r) \/ HandleTimeoutAllSessions(r)
      BY <2>3 DEF HandleCreatePlayer, HandleAddToGame, HandleCreateGame, HandleDeleteGame,
         HandleLogin, HandleReauth, HandleLogout, HandleClearSessions, HandleTimeoutAllSessions,
         Read
    <2>4. CASE \/ UndoPlayer(r) \/ AddPlayer(r) \/ CreateGame(r) \/ DeleteGame(r)
               \/ CreateSession(r) \/ RemoveSession(r) \/ ClearSessions(r)
               \/ TimeoutAllSessions(r) \/ CheckReauth(r) \/ Abort(r)
      BY <2>1, <2>2, <2>4 DEF UndoPlayer, AddPlayer, CreateGame, DeleteGame, CreateSession,
         RemoveSession, ClearSessions, TimeoutAllSessions, CheckReauth, Abort, Finish
    <2> QED BY <2>3, <2>4
  <1>2. ASSUME NEW x, req' = [req EXCEPT ![r] = x], players' = players, x.step # "undo"
        PROVE  Lasting \subseteq Lasting'
    <2>1. \A q \in Requests : req'[q].step = "undo" => req'[q] = req[q]
      BY <1>0, <1>2
    <2> QED BY <1>2, <2>1 DEF Lasting
  <1>3. CASE HandleCreatePlayer(r)
    <2>1. PICK p \in PlayerIDs, u \in Usernames :
            /\ WritePlayer(p, u)
            /\ req' = [req EXCEPT ![r] =
                          IF Taken(u) THEN [step |-> "undo", player |-> p] ELSE Idle]
      BY <1>3 DEF HandleCreatePlayer
    <2>2. players[p] = None /\ \A q \in PlayerIDs : players[q] # None => players'[q] # None
      BY <1>0, <2>1 DEF WritePlayer, Fresh
    <2>3. \A q \in Requests : req'[q].step = "undo" => req'[q] = req[q] \/ req'[q].player = p
      BY <1>0, <2>1, Idles
    <2>4. Lasting \subseteq Lasting'
      BY <2>2, <2>3 DEF Lasting
    <2> QED BY <1>1, <2>4, ServingPanicInv
  <1>4. CASE UndoPlayer(r)
    <2>1. /\ req[r].step = "undo" /\ req' = [req EXCEPT ![r] = Idle]
          /\ players' = [players EXCEPT ![req[r].player] = None]
      BY <1>4 DEF UndoPlayer, Finish
    <2>2. \A q \in Requests : req'[q].step = "undo" => req'[q] = req[q]
      BY <1>0, <2>1, Idles
    <2>3. \A q \in Lasting : q # req[r].player /\ players'[q] = players[q]
      BY <1>0, <2>1 DEF Lasting
    <2>4. Lasting \subseteq Lasting'
      BY <2>2, <2>3 DEF Lasting
    <2> QED BY <1>1, <2>4, ServingPanicInv
  <1>5. CASE \/ AddPlayer(r) \/ CreateGame(r) \/ DeleteGame(r) \/ CreateSession(r)
             \/ RemoveSession(r) \/ ClearSessions(r) \/ TimeoutAllSessions(r) \/ Abort(r)
    <2>1. req' = [req EXCEPT ![r] = Idle] /\ players' = players
      BY <1>5 DEF AddPlayer, CreateGame, DeleteGame, CreateSession, RemoveSession,
         ClearSessions, TimeoutAllSessions, Abort, Finish, accountVars
    <2> QED BY <1>1, <1>2, <2>1, Idles, ServingPanicInv
  <1>6. CASE CheckReauth(r)
    <2>1. /\ players' = players
          /\ \/ req' = [req EXCEPT ![r] = Idle]
             \/ req' = [req EXCEPT ![r] = [step |-> "removeSession", session |-> req[r].session]]
      BY <1>6 DEF CheckReauth, accountVars
    <2> QED BY <1>1, <1>2, <2>1, Idles, ServingPanicInv
  <1>7. CASE \/ HandleAddToGame(r) \/ HandleCreateGame(r) \/ HandleDeleteGame(r)
             \/ HandleLogin(r) \/ HandleReauth(r) \/ HandleLogout(r)
             \/ HandleClearSessions(r) \/ HandleTimeoutAllSessions(r)
    <2>1. \E x : Read(r, x) /\ x.step # "undo"
      <3>1. CASE HandleAddToGame(r) \/ HandleLogin(r)
        <4>1. PICK u \in Usernames, g \in Games :
                  \/ Read(r, [step |-> "addPlayer", player |-> idOf[u], game |-> g])
                  \/ Read(r, [step |-> "login", player |-> idOf[u], game |-> g])
          BY <3>1 DEF HandleAddToGame, HandleLogin
        <4> QED BY <4>1
      <3>2. CASE HandleCreateGame(r) \/ HandleDeleteGame(r)
        <4>1. PICK g : \/ Read(r, [step |-> "createGame", game |-> g])
                       \/ Read(r, [step |-> "deleteGame", game |-> g])
          BY <3>2 DEF HandleCreateGame, HandleDeleteGame
        <4> QED BY <4>1
      <3>3. CASE HandleReauth(r) \/ HandleLogout(r)
        <4>1. PICK i : \/ Read(r, [step |-> "reauth", session |-> i])
                       \/ Read(r, [step |-> "removeSession", session |-> i])
          BY <3>3 DEF HandleReauth, HandleLogout
        <4> QED BY <4>1
      <3>4. CASE HandleClearSessions(r) \/ HandleTimeoutAllSessions(r)
        BY <3>4 DEF HandleClearSessions, HandleTimeoutAllSessions
      <3> QED BY <1>7, <3>1, <3>2, <3>3, <3>4
    <2>2. PICK x : Read(r, x) /\ x.step # "undo"
      BY <2>1
    <2> QED BY <1>1, <1>2, <2>2, ServingPanicInv DEF Read, accountVars
  <1> QED BY <1>3, <1>4, <1>5, <1>6, <1>7

LEMMA InitPanicInv == Init => PanicInv
  <1> SUFFICES ASSUME Init PROVE PanicInv
    OBVIOUS
  <1>1. \A u \in Usernames : ~Taken(u)
    BY DEF Init, Taken
  <1>2. Enough \/ HalfWay
    <2>1. CASE Last = 0
      BY <2>1, LastingFinite DEF Enough
    <2>2. CASE Last # 0
      <3>1. 1 \in 1..Last /\ UpTo(1)
        BY <1>1, <2>2, Configured DEF UpTo
      <3> QED BY <3>1 DEF HalfWay
    <2> QED BY <2>1, <2>2
  <1> QED BY <1>2 DEF Init, PanicInv

LEMMA StepPanicInv == IInv /\ GamesInv /\ PanicInv /\ [Next]_vars => PanicInv'
  <1> SUFFICES ASSUME IInv, GamesInv, PanicInv, [Next]_vars PROVE PanicInv'
    OBVIOUS
  <1>1. NamesInv'
    BY StepInv DEF IInv
  <1>2. CASE UNCHANGED vars \/ \E i \in SessionIDs : SessionTimesOut(i)
    <2>1. UNCHANGED << players, idOf, req, server, todo >>
      BY <1>2 DEF vars, accountVars, SessionTimesOut
    <2>2. /\ Enough' = Enough /\ HalfWay' = HalfWay /\ HalfDone' = HalfDone
          /\ \A k : /\ UpTo(k)' <=> UpTo(k)
                    /\ From(k)' <=> From(k)
      BY <2>1 DEF Enough, HalfWay, HalfDone, UpTo, From, Taken, Lasting, Last
    <2> QED BY <2>1, <2>2 DEF PanicInv, Last
  <1> QED BY <1>1, <1>2, SetUpPanicInv, CrashPanicInv, RequestPanicInv DEF Next

\* The setup of the players fails only over the players of a setup that was cut short,
\* for any configuration and whatever requests, failures and crashes came before
\* (addHardcodedPlayers in server/setup and player.Create).
THEOREM PanicsHalfDone == Spec => []PanicsOnlyHalfDone
  <1>1. PanicInv => PanicsOnlyHalfDone
    BY DEF PanicInv, PanicsOnlyHalfDone
  <1> QED BY <1>1, InitPanicInv, StepPanicInv, Invariant, PTL DEF Spec
=============================================================================
