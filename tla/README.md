# Shadowroller in TLA+

Shadowroller is a dice roller for groups of Shadowrun players. A Go server
(`src/server`) keeps games, players, sessions and the history of rolls in Redis
and pushes changes to the players' browsers over server-sent events; a React
client (`src/web`) shows the history and lets players roll, edit, share and
delete. This directory models the parts of it where several actors meet:
requests that read, think and then write; Redis pipelines; streams that open,
break and come back; and tabs that piece the history together from pages and
updates.

`tlc -workers 2 -config GameEvents_follow.cfg MCGameEvents.tla` checks one
configuration, `tlapm GameEventsProofs.tla` the proofs of one module.

## Inventory

| Component | State | Operations | Talks to | Must hold |
|---|---|---|---|---|
| Event sharing rules (`game/eventShare.go`, `event/share.go`, `update/`) | none | who sees an event; which packets, on which channels, past which filters | called by the event history, undone by the streams' filter | each player hears of each change once, in the right form; nobody else does |
| Event history (`game/eventManager.go`, `event/`) | sorted set `history:<game>`, score = ID = millisecond | post, delete, update, update share, bulk update | Redis MULTI or pipeline, publishes packets | one event per ID; a change is published exactly when it is made |
| Event requests (`routes/game.go`, `event.go`, `initiative.go`) | none between requests; the event it read within one | roll, reroll, roll/edit initiative, edit, share, delete, GET events | read, then write through the history | only an event's author changes it; what was checked still holds when it is written |
| Update streams (`routes/gameSubscription.go`, `game/subscribe.go`) | one handler goroutine and one Redis subscription per tab | upgrade, subscribe, count, forward, clean up | Redis pub/sub, sessions, presence, shutdown | forwards what its player may see, in order; always cleans up |
| Browser event list (`web/src/event`, `sseStream`, `server/auth.ts`) | list of events, fetch state, retry timer | login, merge page, apply update, reconnect, log out | streams, GET events | shows the history as the player may see it |
| Games and gamemasters (`game/game.go`) | `game:<id>`, `players:<id>`, `gms:<id>` | create, add GM, HasGM, get info | login, streams, GET events | a gamemaster is treated as one |
| Player presence (`game/playerManager.go`, `routes/player.go`, `player/`) | `connections` (one for all games), `onlineMode` | count up, count down, announce to one game, choose mode | streams; other tabs' player lists | shown online exactly when connected (or as chosen) |
| Sessions (`session/`, `routes/auth.go`, `auth/`) | `session:<id>` and its expiry | create, re-authenticate, expire, unexpire, remove | login, streams | a session in use does not end; an unused one does |
| Shutdown and tasks (`shutdown/`, `taskCtx/`, `main/`) | task table, wait group, stage | register, release, interrupt | streams, HTTP server, dice | stops after every task has released, and does stop |
| Dice (`roll/`) | buffered channel of bytes or dice, generator goroutine | fill, roll, reroll, explode sixes | roll requests, shutdown | a pool has the dice asked for, within bounds |
| Accounts (`player/`, `task/`, `setup/`) | `player:<id>`, `player_ids` | create player, create game, add player | Redis | one player per username, also when a step fails |
| Rate limit (`http/middleware.go`) | `ratelimit:<address>:<10 s>` | check, count | every request | at most the limit per bucket |
| Maintenance (`task/`, `routes/task.go`) | progress of a migration | rewrite old events in batches | event history | loses or duplicates no event |
| Roll math (`web/src/math`) | none | tokenize, parse, evaluate | roll form | value of the expression as written |

Hard behaviours, in the order of how much can go wrong: every change of an
event is a read in one round trip and a write in another, and a player may have
two tabs; edits are pipelines that are not transactions; a change of share is
two or three messages on channels whose listeners overlap; the page of history
and the stream of updates are fetched at once and neither waits for the other;
the connection counter and its announcement are two round trips, and the counter is one for
all games while an announcement goes to one; the Redis client sends commands again whose replies are lost; clean-up runs
in deferred calls after the request's own context has ended, and before the process
may; the browser cancels no request, so answers of an earlier login still arrive. `PROJECT.json`
lists each hazard at its line.

## Modules

| Module | Models |
|---|---|
| `EventSharing` | The sharing rules as operators: events, shares, visibility, channels, packets, filters. |
| `GameEvents` | Event history, event requests, streams and browser lists of one game: the composition in which the rules are used. |
| `SharedHistory` | The promise: one history, each event changed by its author, and everyone who follows has before them what they may see. `GameEvents` implements it. |
| `Presence` | The connection counter, its announcements, online modes and the flags other tabs show. |
| `Sessions` | What Redis holds under the ID of a session, and the operations on it. Used by the next two. |
| `Shutdown` | The table of clients of the shutdown package, its wait group, the interrupt. |
| `Subscription` | The handler of a stream from upgrade to release, with its session and the shutdown: composes the two above with `main` and the HTTP server. |
| `Accounts` | Players, usernames, games, members and sessions: the setup, its panics and restarts, and the administrators' and players' requests. |
| `RateLimit` | The counter of requests per 10 seconds. |
| `DicePool` | The generator of dice, its channel, and the rollers. |
| `Rolls` | A request for a roll from the rate limit to its dice: composes the two above. |
| `ClientStream` | The browser's EventSource and its retry timer. |
| `HistoryPaging` | Pages of GET /events and the list they are merged into. |
| `BrowserSession` | A tab from login to logout or reload: composes the two above. |
| `MCGameEvents`, `MCPresence`, `MCSubscription`, `MCAccounts`, `MCRolls`, `MCBrowserSession` | Small instances for TLC. |
| `EventSharingProofs`, `GameEventsProofs`, `GameSyncProofs`, `PresenceProofs`, `SubscriptionProofs`, `AccountsProofs`, `RollsProofs`, `BrowserSessionProofs` | Theorems. |

The compositions follow what the parts share. A stream is in three of them:
`GameEvents` has what it delivers, `Presence` what it counts, `Subscription` how it begins and
ends. They do not constrain one another: each lets a stream open and end at any time.

### GameEvents and the code

* `history` is the set of members of the sorted set. Redis keeps any number of
  members with one score, so nothing in the model makes IDs unique.
* `now` is the last millisecond an event was made in. Each new event takes a
  later one, unless the race `sameMillisecond` is on.
* `req[t]` is the request a tab has in flight, after its handler has read and
  checked (`HandleShareEvent`, `HandleUpdateEvent`, ...) and before it writes
  (`PostEvent`, `DeleteEvent`, `ReplaceEvent`). It holds the event as it was
  read, which is what goes stale. A reroll is a deletion and then a post, in two
  transactions. `Abort` ends a request between two round trips.
* `UpdateEvent` and `UpdateEventShare` use a pipeline without MULTI. With the race
  `splitPipeline` its commands are steps of their own (`RemoveOld`, `AddNew`,
  `PublishNext`); otherwise it is one step (`ReplaceEvent`).
* `stream[t]` is `opening` between the SSE upgrade and the Redis subscription.
* `mail[t]` is what was published to the tab's subscription and passed the
  filter, in order. Redis delivers to one subscriber in the order of publication and
  one goroutine forwards, so it is a FIFO queue; a broken connection empties it.
* `fetch[t]` and `page[t]` are a GET /events: `HandleEvents` computes the answer,
  `MergePage` merges it into the list. `view[t]` is the list.
* `Merged` is `appendEventsReduce`, a merge of two sorted lists where an event of
  the new list takes the place of one of the old with its ID; `Applied` the other
  cases of the reducer.

`title` stands for every field a player may edit; dice, names and edit times are
left out because no property distinguishes them. A tab has one request in flight
at a time; two tabs of one player give the overlaps of two requests (run `own_tabs`). `Authors` and `Listeners` bound which tabs
send requests and which open a stream.

`Races` names the timings the code leaves open, so that a run can say which of
them a property survives: with no race `InSync` holds, and under "Where the code does
otherwise" is what each race breaks. No run turns on `sameMillisecond`; the theorems that
hold with it cover it.

`GMs` and `GMKey` are separate because the code keeps gamemasters under
`gms:<game>` and looks them up under `gm:<game>`. Nothing in the repository writes
the latter, so with this code as it stands `GMKey` is empty and nobody receives what is
shared with the gamemasters (run `gms`). The other runs about sharing give
`GMKey` its intended content, so that the routing for gamemasters is
checked as well; the theorems hold for every value.

### Presence and the code

* `connections` and `mode` are fields of the player's hash: one counter for the streams of all games
  (`player.go:342`). `pc[s]` is what the handler of stream `s` has done: after `Increase` (HINCRBY +1) to 1 or
  `Decrease` to 0 it has an announcement to make (`Announce`, a PUBLISH to the game `GameOf[s]` alone).
* `FailIncrease`, `FailDecrease` and `FailAnnounce` are the error paths, and the lost
  replies where the command was executed all the same. An error
  in opening halts the handler before it defers the decrement.
* With the race `retried`, `ResendIncrease`, `ResendDecrease` and `ResendAnnounce` execute the command a handler waits for
  once more than it will know: its reply was lost and the Redis client, configured with `MaxRetries` (`redis.go:38`), sends it again. `tries[s]` counts
  these. A MULTI is not sent again once its reply is lost.
* `leftFrom` and `repeated` are not in the code; the properties need them. They are the game in which the counter last came to 0, and the
  decrements that were executed again.
* `edit[p]` is a POST /player/update between reading the player and the MULTI
  that stores the mode and publishes the flag.
* A watcher gets the flags with its login and changes them by updates.
  Updates about different players touch different entries, so `mail` has a queue
  per player.

### Subscription and the code

* `sessions[i]` is the hash `session:<i>` and whether it has a time to live. `session.New`
  writes the hash and sets its expiry by two commands (`FailCreate`); `Expire`,
  `Unexpire` and `Remove` are EXPIRE, PERSIST and DEL, which leave a missing key
  alone. How long a time to live is does not matter: one that runs may run out. `TimeoutSession` is /task/timeout-all-sessions, which
  sets the expiry of every session, in use or not.
* `registered`, `cancelled`, `terminating` and `waitGroup` are the shutdown package. Its goroutine reads
  registrations, releases and the signal from unbuffered channels and never blocks while
  it handles one, so each is one step of its sender. The wait group
  counts that goroutine too.
* `pc[s]` is what `handleSubscription` has done. Its deferred calls run in reverse order
  from the point it was halted at: an error in `KeepSession` comes before the expiry
  is deferred, so `FailKeepSession` skips it. A session removed while a stream
  opens is no error: PERSIST of a missing key does nothing.
* `FailCleanUp` is the unsubscription that fails: the clean-up sends its error on an
  unbuffered channel that only the same goroutine reads, and is `stuck`.
* `main` and `http` are the main goroutine and `RunServer`: set up, listen, and after a signal stop
  listening, drain for at most 10 seconds (`Drain` to `timedOut`), wait for the wait group, return. Go's `Wait` is released by the step that takes the wait
  group to 0 (`WakeMain`: main is `woken`); what registers after that is not waited for, and if main finds the wait group raised when it
  runs, `Wait` panics (`LeaveWait`). `Crash` kills the
  process at any point and `Restart` starts the next; Redis keeps the sessions.
* `Background` are the other registered goroutines (the dice, the exporter of traces).

### Accounts and the code

* `players` has the hash of each ID, `idOf` is `player_ids`, `members` is `players:<game>`. `player.Create`
  is one MULTI that writes the hash and, if the name is free, the name: it learns only
  afterwards that it was not, and `UndoPlayer` deletes the hash again. `Abort` in between, or a
  failed deletion in the setup, leaves a hash without a name for ever.
* `server` and `todo` are the setup: the games one by one, then, if there are fewer players
  than names in the configuration, all of them in order, each added to its games. It panics on a
  name that is taken. `Crash` stops it anywhere.
* `req[r]` is a request between its read and its write: adding a player to a game, creating and
  deleting a game, login, re-authentication, logout, and the tasks over all sessions.
* A game that is deleted keeps its sessions, gamemasters and history, and adding a player to it makes
  `players:<game>` anew without `game:<game>`; logins look only at the former. Re-authentication
  notices a player who is not in the game and removes the session, but then goes
  on to answer with it (`routes/auth.go:126` has no return). The answer is not modelled.

### Rolls and the code

* `gate[r]` is a request between the GET of the counter and its INCR; `bucket` is the key,
  named after the clock when it was read. `passed` is not in the code; the
  property needs it.
* `dice` is the buffered channel, in order. `Generate` reads a random byte, skips it above
  `inputByteMax`, and sends its remainder plus one. `EndGenerator` and `FailGenerator` close the channel;
  what is buffered can still be received.
* `roll[r]` has the rounds a request has completed and the dice of the current one. `TakeDie` is one
  receive; concurrent rolls therefore interleave die by die. `NextRound` decides whether
  exploding sixes need another round. `FindClosed` is what each caller makes of
  `ErrChannelClosed`: `handleRollInitiative` alone ignores it and posts dice that are 0.

### BrowserSession and the code

* `source` and `retryID` are module variables of the client, `streamOf` the session they were made
  with. `StreamFails` closes the EventSource and sets the timer by the table of delays. One failure before the end
  of the table the delay is undefined and the browser retries at once
  (`Provider.tsx:85`); after that `RETRY_MAX` applies. `retries` saturates there.
* `gets` are the requests for pages in flight. Nothing cancels one or tells whom it was for, so `late` marks those
  sent before the last login or logout; `GetAnswer` does not look at it, as the code does not. An answer
  is computed when it is delivered: the race between answer and delivery
  is the subject of `GameEvents`.
* `historyFetch` and `events` are the reducer's state. `LoadMore` asks from the last event of the list, whatever
  it is. `ClearEvents` keeps local events; a logout does not touch `historyFetch`.
* `HandleLogin` is the answer to a re-authentication on loading, to `JoinMenu` or to the game switch of
  `EditMenu`; only the last clears the list. `LoginFails` of a re-authentication shows it and may forget the session,
  even when the user has joined another game meanwhile (`Shadowroller.tsx:88`).
* `Logout` keeps the session in the storage, and the POST that removes it on the server may be lost:
  `Reload` then logs in again.

## Runs

| Run | Instance | Shows |
|---|---|---|
| `follow` | a tab each, both author, 2 events, no race | `InSync`: a tab's list and unread updates together are always what its player may see; `RoutingIsExact`; `OnlyViewersAreTold` |
| `edits` | the gamemaster has a roll, makes another event, edits titles and initiative too; fair | `ImplementsSharedHistory`, `EventuallyShown` |
| `own_tabs` | a gamemaster's tab and two of a player, all of them authors, no streams, the gamemaster's roll and one event more, two titles | `OnlyOwnTabsCollide`: what a request has read is outdated only by another tab of its player, and if it is not the write is one change of the history; `NoDuplicates` |
| `races` | every race of streams and pipelines, 1 event and a legacy one | `TypeOK`, `NothingLeaks`, `OnlyAuthorsChange` |
| `order` | one player with 2 streams in each of 2 games, a watcher in each game, announcements in any order; fair | `GoneMeansOffline`, `SettlesOffline` |
| `faults` | a player with streams in two games, a watcher, all modes, failures, re-sent commands, crashes, lost updates | `TypeOK`, `NeverUndercounted` |
| `streams` | two streams of one session, the dice as background task, failures, signal, crash and restart; fair | `WaitsForStreams`: main's wait ends only after all deferred calls, but for requests the drain gave up; `SessionsAreHanded`: only a failure leaves a session that never ends; `OnlyOthersEndUse`; `Stops`; `AbandonedSessionsEnd`; `TypeOK` |
| `accounts` | two configured names and a third, 3 player IDs, 1 game, 1 session, 2 requests; fair | `NoDanglingPlayers`, `OnlyDeletionsMakeStrangers`: whoever is logged in is in the game unless it was deleted; `PanicsOnlyHalfDone`, `ComesUp`, `TypeOK` |
| `rolls` | two requests, limit 0, two periods of 10 seconds, pools of 2, a channel of 1, at most 2 sixes; fair | `OvershootIsBounded`, `DiceAreFair`, `PoolsAreComplete`, `BlanksOnlyAtTheEnd`, `RollersAreServed`, `TypeOK` |
| `browser` | two games, a history of 4 in pages of 2, a local event, one event posted and one deleted, 2 GETs and 1 login in flight; fair | `OneStreamOfTheGame`, `OnlyLateAnswersMix`, `OnlyLostPlacesMakeGaps`, `PagingEnds`, `BacksOff`, `TypeOK` |

### Bounds

* Sharing: two players are enough, since the rules treat a player by three
  facts (author or not, gamemaster or not, on the channel or not), and an author
  who is a gamemaster, one who is not, a gamemaster who is not the author and a
  bystander all occur with a gamemaster `gm` and a player `pc` as authors in turn
  (`GMKey` empty gives the bystander). Two events are enough for an update to hit the wrong one.
  `MaxStamp` bounds the events ever made (a reroll makes one), `MaxMail` the
  updates unread when a request starts, and `MaxConnections` the counter, which failures
  can raise for ever. A change of share adds up to two updates for one tab and
  several may be written after `MaxMail` was checked, so queues get longer than the
  bound.
* `own_tabs`: two tabs collide over one event; the gamemaster's tab and event are what a write must leave alone. What streams are sent is the
  subject of the other runs, so none is open.
* `order`: with two streams in each of two games the counter passes 1 and 0 with the streams in every order, within a game and across.
  `faults` needs only two streams, as `NeverUndercounted` counts them; `MaxRetries` lets a command run three times and `MaxRepeated` bounds the decrements
  run again.
* `streams`: streams affect each other only through their session and the wait group; two
  on one session have every order of opening and closing that matters to it. A session ID is
  made once, as the code's are random.
* `accounts`: two configured names give a setup cut short between them; a third name and a
  third ID give requests something to collide with. IDs used up by undone players bound the run.
* `rolls`: `Bytes` has one byte for a die that is not a six, the largest that is accepted (a six)
  and the smallest that is not; `MaxSixes` bounds exploding, `MaxCount` the requests counted,
  `MaxBucket` the time. With limit 0 two requests already overshoot.
* `browser`: an event may be hidden, so that full pages show less; `MaxStamp` allows one new event,
  `Deletable` one deletion, of the newest event, which may be the only one the list has.
  `NumDelays` is 1: before the end of the table, at it and past it.

Deadlock is checked in every run but `rolls` and `own_tabs`: in the former the generator may have ended, the time and the counts be
at their bounds and every request be over, in the latter the last ID be used and every event be gone, with nothing left to happen.

### Where the code does otherwise than it says

| Run | Property | What happens |
|---|---|---|
| `gms` | `GMsSeeShared` | gamemasters are stored under one key and looked up under another |
| `history_end` | `FinishedShowsHistory` | a page of which every event is hidden from the player is taken for the end of the history |

`history_end` has other causes that give the same end: a page that is answered by an error
counts as the last, and a page asked for from a local event that is older than anything in the history is empty
(`LoadingEventList.tsx:107`).

More are in the models and come out when a configuration is changed:

* `follow` with `Tabs <- ThreeTabs`, `PlayerOf <- PlayersTwoTabs`, `Authors = {tab2, tab3}` and `Listeners = {tab2}` breaks `InSync` and `OnlyViewersAreTold`: an
  edit built on a read from before the player's other tab changed the share silently puts the old share
  back, and one from before a deletion brings the event back (`routes/game.go:55`); a deletion
  announces the share it read (`routes/game.go:136`). `OnlyOwnTabsCollide` says that nobody else can do that to a player.
* `own_tabs` with `Races = {"splitPipeline"}` breaks `NoDuplicates`: two interleaved
  pipelines leave two events with one ID.
* `races` with `Races = {"sameMillisecond"}` and `MaxStamp = 2` breaks `OnlyAuthorsChange`: deleting one of two events
  made in a millisecond deletes both.
* `follow` with `Races = {"fetchBeforeSubscribe"}` breaks `InSync`: the
  browser asks for the page without waiting for its stream to be subscribed, and
  an event posted in between is missed (`web/src/event/index.ts:122` expects
  events to be missed only by losing the connection). So does each of the other races alone:
  with `updateBeforePage` an update is overwritten by a page from before it, with
  `lostConnection` nothing fetches what was missed, with `splitPipeline` an event is gone
  between two commands, and with `sameMillisecond` a list shows one of two events with one ID.
* `gms` with `Titles <- TwoTitles` breaks `ShowsHistory`, whatever `GMKey` is: an edit of an event shared with the
  gamemasters is published to their channel alone, so an author who is none keeps seeing the event as it was.
  (In `edits` the gamemaster is the author.)
* A player who chose to be shown as offline is shown as online once a stream opens: `UpdatePlayerConnections` announces the changes of
  the counter without reading the mode (`playerManager.go:62`), although `player.go:29` says the player "will always be shown as
  offline" (`IsOnline` honours it at login). With `ChosenModes = {"offline"}` in `order` a watcher shows such a player as online.
* A player with streams in two games is shown in one of them as online for good: open one in game A (1, A is told), open one in
  B (2), close that in A (1), close that in B (0, only B is told). A player who is first in A and then in B is never announced
  in B. Nothing in the code reconciles the two. `GoneMeansOffline` speaks of the game left last (`LastSeenIn`); without that condition it fails in `order`.
* `order` with `"failed"` in `Races` breaks `GoneMeansOffline`: a failure in opening a stream
  leaves its increment for ever. So does `"retried"`: an HINCRBY that is executed twice takes the counter past the 1 or the
  0 that is announced, and what follows is off by one. A decrement executed twice takes the counter below the open streams, even below 0,
  where `playerManager.go:57` expects to be only until the increments come: `NeverUndercounted` says that nothing else does.
* `Presence` shows a connected player as offline in `order` when the announcement
  of a closed stream overtakes that of an opened one; only the last word after
  everything has closed is right.
* `ConnectedKeepsSession` fails in `streams`: a tab that closes starts the expiry of the session another tab
  uses (`docs/database.org:17` says sessions are kept while a player is connected), and so does an administrator who times out all
  sessions (`routes/task.go:66`). `OnlyOthersEndUse` says that there is no third way.
* A stream that registers after the shutdown is "still track[ed]" (`shutdown.go:81`), but not waited for once the wait group was at 0: when the
  server gives up draining after 10 seconds, a request that it had let in may register while main is on its way out. Its deferred calls are then cut off, and the session it
  took the expiry from is kept for ever, or `Wait` panics because the wait group was added to. `WaitsForStreams` says that this is the only case.
* Deleting a game keeps the sessions of its players (`OnlyDeletionsMakeStrangers`): they are members of nothing until they
  re-authenticate, and go on requesting.

The excuses named in `PagingEnds` and `OnlyLateAnswersMix` are behaviours of the code as well. A visible event
followed by as many hidden ones as fill a page is a page
that is asked for again and again, as it starts and ends where the list does. A list that
deletions emptied, or whose first GET failed (`auth.ts:87` only logs it), never asks for
anything. Pages of an earlier game are merged into the list of the
current one (`auth.ts:74`).

## Fairness

* `GameEvents!Fairness` makes a request that has decided what to write write it, a
  stream that is opening subscribe, and a tab read what it was sent: handlers are
  goroutines that the Go scheduler runs, Redis calls have timeouts, and the browser's
  event loop dispatches messages. Failing (`Abort`, `LoseConnection`) is never
  forced nor ruled out, and nobody is obliged to send a request or connect.
  `Presence!Fairness` is the same for announcements and tabs.
* `Subscription!Fairness`: each handler goes on, whichever way its next step turns out; main, the server and
  its drain (which has a timeout) likewise; cancelled tasks end; Redis removes what has run out.
  Nobody has to open or close a stream, send the signal or restart.
* `Accounts!FairSpec`: a setup that has begun goes on and a server that is down is started again.
* `Rolls!FairSpec`: weak for the generator, strong for a roller (`InPool`): Go serves the receivers that wait
  on a channel in the order they came, so a roller is not passed over for ever.
* `BrowserSession!FairSpec`: weak for the answers to GETs and the timer; strong for `ScrollDown`, because the row past the end of
  the list asks again each time it is drawn and the state it needs comes and goes with answers. This is
  a user who stays at the end of the list; without one nothing has to be fetched.

## Proofs

The safety properties that hold in the runs are all theorems as well: for every number of players, tabs, streams,
requests, games and IDs, every `GMKey` and initial history, and unless said otherwise every set of races.

Events:

* `CreateIsExact`, `ShareIsExact` (`EventSharingProofs`): the packets of a creation,
  deletion or change of share give each player exactly one update of the right
  kind, or none. By cases on the shares and the recipient's three facts.
* `TypeCorrect`, `RoutingAlwaysExact` (`GameEventsProofs`): from `TypeOK` being inductive and the two above.
* `Confidential` (`NothingLeaks`): what is in flight is safe. The invariant must also
  speak of packets that a split pipeline has yet to publish (`LeakInv`):
  each carries contents only to players who may see the event it was made from.
* `AuthorsOnly`, without `sameMillisecond`: the ID a request was sent for belongs
  to its author for good. `AuthorInv` says that every event known anywhere (in the
  history, or held by a request) has, for one ID, one author, that no
  ID is above the clock, and that only `Authors` have requests.
* `OneEventPerID`, without `sameMillisecond` and `splitPipeline`: `UniqueInv` adds that an ID
  waiting to be posted is in no other request and not in the history.
* `ViewersOnly` (`OnlyViewersAreTold`), without those two races and with `OneTabWrites`: of each player's tabs at most one
  sends requests, while any number may watch. `FreshInv` says that
  what a request is about to change is in the history just as it was read. When two tabs of a player send requests this is
  false, and so is the property.
* `OwnTabsAlone` (`OnlyOwnTabsCollide`), without the same two races but for any number of tabs that write: a write whose request is
  `Current`, that is, built on the event as it is and changing one field of it, is a step of `SharedHistory` with nobody looking (`Unseen`, its
  instance without tabs): `PostEvent` maps to `Post`, `DeleteEvent` to `Delete`, `ReplaceEvent` to `Change`. A handler's request is current when it
  has read (`HandleCurrent`), and stays so, because by `AuthorsWrite` only a request of the event's author takes it out of the
  history (`StaysOrOutdated`). With `OneTabWrites` every request is current always (`CurrentInv`), which the proofs below need.

Server and tabs in step (`GameSyncProofs`):

* `AlwaysInSync` (`InSync`) and `QuietTabsShow` (`ShowsHistory`), for any number of players, gamemasters, tabs, titles and
  unread updates, from three assumptions:
  - `OneTabWrites`, as above;
  - `EditsReachAuthors`: who sends requests is a gamemaster, or there is only one title, because an edit of an event shared with the
    gamemasters is published to them alone;
  - `Races = {}`.

  Without any one of these it is false; the counterexamples are under "Where the code does otherwise".
* The inductive invariant is `GameInv`. `InSync` speaks of tabs that have been answered. A tab that has only subscribed
  collects updates and may ask for the events at any time, and then reads updates of changes its page already
  contains. `SyncInv` says of it that replaying any suffix of what is unread on what it may now see changes nothing (`Steady`), and that
  the list it shows, those updates applied, has no ID that is not among the visible ones (`Covers`), so that merging the
  page loses nothing and leaves nothing behind. `AddressedInv` says that the packets a request is about to publish are those for the event as it is.
* `WriteTells` is the step from packets to updates: a write sends each tab nothing if the change does not concern what its player sees, and otherwise
  one update that makes the old visible events the new ones. The proof takes the packets of each write and share through
  the channels and filters.
* `ApplyAt`, `ApplyTwice` and `ApplyAlike` are what the reducer promises: an update acts on the event of one ID, reading it again changes nothing,
  and two lists that agree on an ID still do after it. `ReplayRelated` carries a relation between two lists through a
  whole queue.
* `OneSharedHistory` (`ImplementsSharedHistory`), from the same assumptions: `PostEvent`, `DeleteEvent` and `ReplaceEvent` map to `Post`, `Delete` and
  `Change` on every following screen at once, `HandleEvents` to `Follow`, `Reload` to `Leave`, and everything else, reading an
  update included, to a stutter.

A queue of updates is replayed by a recursive function on its positions. What is proved about it goes by induction over a set of
positions (`Induction`, from the well-foundedness of the natural numbers) and from the existence of a run of the
function (`RunExists`), so no theorem with an operator parameter is needed.

Presence (`PresenceProofs`), with `PresenceTyped` for the types:

* `CounterCovers` (`NeverUndercounted`): for any number of streams and games, through
  failures, re-sent commands and crashes.
* `GoneIsOffline` (`GoneMeansOffline`), without failures, re-sent commands, crashes or missed
  updates and with mode `auto`, but with announcements in any order and streams in any number of games: the counter
  equals the number of counted streams, an announcement of being online is only ever due from a
  counted stream, and when the counter comes to 0 the stream that brought it there has yet to tell its game, which is the one in `leftFrom`. So whenever the counter
  is 0 the last word there is `offline` or still to come.

Streams, sessions and shutdown (`SubscriptionProofs`):

* `TypeCorrect` and `ShutdownWaits` (`WaitsForStreams`). `TypeOK` alone is not inductive: that the wait group
  stays a natural number needs `CountInv`, which equates it with the number of registered tasks and the shutdown goroutine.
  `StreamsInv` ties being registered to `pc`, and `MainInv` and `StoppedInv` to where main and the server are. What holds when main is let out of its wait
  holds at that step only; the property is therefore one of steps.
* `SessionsHanded` (`SessionsAreHanded`): step by step from the same invariant.
* `UseEndsByOthers` (`OnlyOthersEndUse`) needs `UsedInv`: a session in use has not gone back to unused.

Accounts (`AccountsProofs`):

* `AccountsTyped`, `NobodyDangles`, `LoggedInAreMembers` (`OnlyDeletionsMakeStrangers`). The invariant has a part for each of names, members, owners, the setup, the
  requests, games and the server. Its core are the surplus players: an `undo` is only ever due for a
  player whose name leads to somebody else, so it never takes one that is in use.
* `PanicsHalfDone` (`PanicsOnlyHalfDone`): as long as the setup sees fewer players than configured
  names, the taken ones are a proper prefix of the configuration. The proof counts: names inject into players.

Rolls (`RollsProofs`):

* `RollsTyped`, `DiceFair`. The latter computes how many of the 252 accepted bytes each die has.
* `OvershootBounded`: `LimitInv` says for each 10 seconds that what has passed and what is past the check but not counted
  is at most the limit plus the number of requests.
* `PoolsComplete`, `BlanksAtTheEnd`: `PoolInv` says what a roll in progress has got: chained rounds, the
  current one incomplete, blanks only in a suffix.

Browser (`BrowserSessionProofs`):

* `BrowserTyped`, `OneStream`.
* `OnlyLateMix` (`OnlyLateAnswersMix`): `AskInv` says that a GET that is not late is for the game the page shows.
* `OnlyLostPlaces` (`OnlyLostPlacesMakeGaps`): for any page size, history and deletions, if no two events of the
  games have one ID. `HistoriesInv` keeps that, and that new events are newer than the page. The
  lemma behind it is that a page holds, of what it is taken from, everything newer than anything it holds.

Left to TLC: liveness (`EventuallyShown`, `SettlesOffline`, `Stops`, `AbandonedSessionsEnd`, `ComesUp`, `RollersAreServed`,
`PagingEnds`, `BacksOff`), which needs ENABLED, and the two counterexamples.

## Plan

What remains, in this order:

1. `Migration`: BulkUpdate in batches beside live edits, on the actions of `GameEvents`.
2. Larger instances: a third stream of another session, two sessions and games in `Accounts`.

## Not modelled

* HTTP routing, headers, CORS, the frontend's files, logging, tracing and configuration; the second server that only redirects, and
  the retry of a listener that failed: no state of the other parts depends on them.
* Rendering and styling; local edits of local events and the editing state of menus.
* The contents of rolls beyond the dice; the evaluator of dice expressions (`web/src/math`), a pure function over strings.
* The command-line migrations, run by hand with nobody playing, and BulkUpdate, which only they call.
* go-redis's own retries outside `Presence`. The other commands that it may send again are EXPIRE, PERSIST, DEL and EXISTS on sessions, which may run twice
  without a difference; the pipeline of an edit, which gives the same event and updates again unless the author's other tab wrote in between; and INCR of the
  rate limit, which then counts a request twice. A MULTI is not sent again once its reply is lost.

`PROJECT.json` has the status of each component, and the lines each definition models.
