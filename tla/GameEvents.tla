------------------------------- MODULE GameEvents -------------------------------
(***************************************************************************)
(* The event history of one game: the Redis sorted set that keeps it, the  *)
(* HTTP handlers that change it (server/routes/{game,event,initiative}.go),*)
(* the transactions and pipelines by which they do (server/game/           *)
(* eventManager.go), the update streams of the connected browser tabs      *)
(* (server/routes/gameSubscription.go) and the list of events each tab     *)
(* shows (web/src/event, web/src/server/auth.ts, web/src/sseStream).       *)
(*                                                                         *)
(* A handler that changes an event first reads it and then, in a later     *)
(* round trip to Redis, writes what it made of it: every request is        *)
(* therefore two or more steps, and other requests run between them.       *)
(***************************************************************************)
EXTENDS EventSharing, FiniteSets

CONSTANTS
    Tabs,            \* the browser tabs (each has one stream and one request at a time)
    PlayerOf,        \* the player each tab is logged in as
    GMs,             \* the members of the Redis set gms:<game>, which AddGM fills
    GMKey,           \* the members of the Redis set gm:<game>, which HasGM reads
    InitialHistory,  \* what the sorted set holds at the start
    Races,           \* the timings this instance lets happen, see AllRaces
    Authors,         \* bound: the tabs that send requests
    Listeners,       \* bound: the tabs that open a stream
    PostTypes,       \* bound: the types of event posted
    MaxStamp,        \* bound: the last millisecond an event is posted in
    MaxMail          \* bound: no request starts with this many updates unread

\* Timings the code leaves open, each of which an instance may rule out:
\*   sameMillisecond       two events are made in the same millisecond
\*   splitPipeline         Redis serves another client between two commands of a pipeline
\*   fetchBeforeSubscribe  a tab's GET /events is served before its stream is subscribed
\*   updateBeforePage      a tab reads an update before the answer to a GET /events served earlier
\*   lostConnection        a stream breaks and the tab reconnects by itself
AllRaces == {"sameMillisecond", "splitPipeline", "fetchBeforeSubscribe",
             "updateBeforePage", "lostConnection"}

ASSUME GameAssumption ==
    /\ PlayerOf \in [Tabs -> Players]
    /\ GMs \subseteq Players
    /\ GMKey \subseteq Players
    /\ InitialHistory \subseteq Event
    /\ \A e, f \in InitialHistory : e.id = 0 /\ e = f
    /\ Races \subseteq AllRaces
    /\ Authors \subseteq Tabs
    /\ Listeners \subseteq Tabs
    /\ PostTypes \subseteq {"roll", "edgeRoll", "initiativeRoll"}
    /\ MaxStamp \in Nat /\ MaxMail \in Nat

VARIABLES
    now,       \* the last event ID handed out: the server's millisecond clock
    history,   \* history:<game>: the members of the sorted set (an event's score is its id)
    req,       \* what each tab's request is about to send to Redis
    stream,    \* each tab's SSE connection: closed, opening (not yet subscribed), open
    mail,      \* the updates published to each tab's subscription, not yet read by the tab
    fetch,     \* each tab's historyFetch: ready, fetching, finished
    page,      \* the answer to a tab's GET /events, while it is fetching
    view       \* the events each tab shows

serverVars == << now, history, req >>
tabVars == << stream, fetch, page, view >>
vars == << now, history, req, stream, mail, fetch, page, view >>

Update ==
    [ty : {"+evt"}, id : Nat, evt : Event] \cup
    [ty : {"-evt"}, id : Nat] \cup
    [ty : {"~evt"}, id : Nat, diff : [field : {"share"}, value : Shares] \cup
                                     [field : {"title"}, value : Titles]]

Idle == [pc |-> "idle"]

\* pc is the command a request sends next; old the event it read, new the one it writes.
Request ==
    {Idle} \cup
    [pc : {"post"}, new : Event] \cup
    [pc : {"delete"}, old : Event] \cup
    [pc : {"reroll"}, old : Event, new : Event] \cup
    [pc : {"replace", "add", "publish"}, new : Event, packets : Seq(PacketOf(Update)) \ {<<>>}]

TypeOK ==
    /\ now \in Nat
    /\ history \in SUBSET Event
    /\ req \in [Tabs -> Request]
    /\ stream \in [Tabs -> {"closed", "opening", "open"}]
    /\ mail \in [Tabs -> Seq(Update)]
    /\ fetch \in [Tabs -> {"ready", "fetching", "finished"}]
    /\ page \in [Tabs -> SUBSET Event]
    /\ view \in [Tabs -> SUBSET Event]

-----------------------------------------------------------------------------
WithID(events, id) == {e \in events : e.id = id}

HasGM(plr) == plr \in GMKey

IsGM(t) == HasGM(PlayerOf[t])

\* What GET /events answers a tab: the events its player can see.
VisibleTo(t) == {e \in history : PlayerCanSeeEvent(PlayerOf[t], IsGM(t), e)}

\* The tabs' mail once the packets are published.
Published(packets) ==
    [t \in Tabs |-> IF stream[t] = "open"
                    THEN mail[t] \o Arrivals(PlayerOf[t], IsGM(t), packets)
                    ELSE mail[t]]

\* NewEventID: the current millisecond.
NewEventIDs ==
    {s \in 1 .. MaxStamp : s = now + 1 \/ ("sameMillisecond" \in Races /\ s = now)}

Init ==
    /\ now = 0
    /\ history = InitialHistory
    /\ req = [t \in Tabs |-> Idle]
    /\ stream = [t \in Tabs |-> "closed"]
    /\ mail = [t \in Tabs |-> <<>>]
    /\ fetch = [t \in Tabs |-> "ready"]
    /\ page = [t \in Tabs |-> {}]
    /\ view = [t \in Tabs |-> {}]

-----------------------------------------------------------------------------
(* Requests: what a handler reads and decides before it writes.            *)

CanRequest(t) ==
    /\ t \in Authors
    /\ req[t] = Idle
    /\ \A u \in Tabs : Len(mail[u]) < MaxMail

\* Mutant: the author of the event is not compared with the session.
ChangeableByAnyone(t, evt) == evt \in history /\ evt.ty # "playerJoin"

\* An event the player of t may change, as event.GetByID found it.
Changeable(t, evt) ==
    /\ evt \in history
    /\ evt.pID = PlayerOf[t]
    /\ evt.ty # "playerJoin"

Proceed(t, request) ==
    /\ req' = [req EXCEPT ![t] = request]
    /\ UNCHANGED << history, mail, tabVars >>

MakeEvent(t, types) ==
    /\ CanRequest(t)
    /\ \E s \in NewEventIDs, ty \in PostTypes \cap types, share \in Shares, title \in Titles :
         /\ now' = s
         /\ Proceed(t, [pc |-> "post",
                        new |-> [id |-> s, ty |-> ty, pID |-> PlayerOf[t],
                                 share |-> share, title |-> title]])

HandleRoll(t) == MakeEvent(t, {"roll", "edgeRoll"})

HandleRollInitiative(t) == MakeEvent(t, {"initiativeRoll"})

EditEvent(t, evt) ==
    /\ CanRequest(t)
    /\ \E title \in Titles :
         LET edited == [evt EXCEPT !.title = title]
         IN  Proceed(t, [pc |-> "replace", new |-> edited, packets |-> editPackets(edited)])
    /\ UNCHANGED now

HandleUpdateEvent(t) ==
    \E evt \in history : Changeable(t, evt) /\ EditEvent(t, evt)

HandleEditInitiative(t) ==
    \E evt \in history :
        evt.ty = "initiativeRoll" /\ evt.pID = PlayerOf[t] /\ EditEvent(t, evt)

HandleShareEvent(t) ==
    /\ CanRequest(t)
    /\ \E evt \in history, share \in Shares :
         /\ Changeable(t, evt)
         /\ evt.share # share
         /\ Proceed(t, [pc |-> "replace", new |-> [evt EXCEPT !.share = share],
                        packets |-> sharePacketsModifyingEvent(evt, share)])
    /\ UNCHANGED now

HandleDeleteEvent(t) ==
    /\ CanRequest(t)
    /\ \E evt \in history :
         Changeable(t, evt) /\ Proceed(t, [pc |-> "delete", old |-> evt])
    /\ UNCHANGED now

\* The rerolled event has the share and title of the roll and an ID of its own.
HandleReroll(t) ==
    /\ CanRequest(t)
    /\ \E evt \in history, s \in NewEventIDs :
         /\ evt.ty = "roll" /\ evt.pID = PlayerOf[t]
         /\ now' = s
         /\ Proceed(t, [pc |-> "reroll", old |-> evt,
                        new |-> [evt EXCEPT !.id = s, !.ty = "rerollFailures"]])

-----------------------------------------------------------------------------
(* Requests: what they write.                                              *)

\* MULTI: ZADD NX, PUBLISH each packet.
PostEvent(t) ==
    LET evt == req[t].new
    IN  /\ req[t].pc = "post"
        /\ history' = history \cup {evt}
        /\ mail' = Published(createOrDeletePackets(evt, ForNewEvent(evt)))
        /\ req' = [req EXCEPT ![t] = Idle]
        /\ UNCHANGED << now, tabVars >>

\* Mutant: the range removed starts at the beginning of the sorted set.
DeleteEventAndOlder(t) ==
    LET evt == req[t].old
    IN  /\ req[t].pc \in {"delete", "reroll"}
        /\ history' = {e \in history : e.id > evt.id}
        /\ mail' = Published(createOrDeletePackets(evt, ForEventDelete(evt.id)))
        /\ req' = [req EXCEPT ![t] = IF req[t].pc = "delete" THEN Idle
                                     ELSE [pc |-> "post", new |-> req[t].new]]
        /\ UNCHANGED << now, tabVars >>

\* MULTI: ZREMRANGEBYSCORE id id, PUBLISH each packet.  A reroll goes on to post.
DeleteEvent(t) ==
    LET evt == req[t].old
    IN  /\ req[t].pc \in {"delete", "reroll"}
        /\ history' = history \ WithID(history, evt.id)
        /\ mail' = Published(createOrDeletePackets(evt, ForEventDelete(evt.id)))
        /\ req' = [req EXCEPT ![t] = IF req[t].pc = "delete" THEN Idle
                                     ELSE [pc |-> "post", new |-> req[t].new]]
        /\ UNCHANGED << now, tabVars >>

\* Mutant: the event is added without removing what the sorted set had for its ID.
ReplaceEventAddOnly(t) ==
    /\ "splitPipeline" \notin Races
    /\ req[t].pc = "replace"
    /\ history' = history \cup {req[t].new}
    /\ mail' = Published(req[t].packets)
    /\ req' = [req EXCEPT ![t] = Idle]
    /\ UNCHANGED << now, tabVars >>

\* UpdateEvent and UpdateEventShare, their pipeline run in one piece:
\* ZREMRANGEBYSCORE id id, ZADD NX, PUBLISH each packet.
ReplaceEvent(t) ==
    LET evt == req[t].new
    IN  /\ "splitPipeline" \notin Races
        /\ req[t].pc = "replace"
        /\ history' = (history \ WithID(history, evt.id)) \cup {evt}
        /\ mail' = Published(req[t].packets)
        /\ req' = [req EXCEPT ![t] = Idle]
        /\ UNCHANGED << now, tabVars >>

\* The same pipeline, command by command.
RemoveOld(t) ==
    /\ "splitPipeline" \in Races
    /\ req[t].pc = "replace"
    /\ history' = history \ WithID(history, req[t].new.id)
    /\ req' = [req EXCEPT ![t].pc = "add"]
    /\ UNCHANGED << now, mail, tabVars >>

AddNew(t) ==
    /\ req[t].pc = "add"
    /\ history' = history \cup {req[t].new}
    /\ req' = [req EXCEPT ![t].pc = "publish"]
    /\ UNCHANGED << now, mail, tabVars >>

PublishNext(t) ==
    LET unsent == Tail(req[t].packets)
    IN  /\ req[t].pc = "publish"
        /\ mail' = Published(<< Head(req[t].packets) >>)
        /\ req' = [req EXCEPT ![t] = IF unsent = <<>> THEN Idle
                                     ELSE [req[t] EXCEPT !.packets = unsent]]
        /\ UNCHANGED << now, history, tabVars >>

\* The request fails before its next round trip: the browser went away and the
\* request's context is cancelled, or Redis answered with an error.  A pipeline
\* served command by command may lose the connection to Redis in the middle.
Abort(t) ==
    /\ req[t] # Idle
    /\ req' = [req EXCEPT ![t] = Idle]
    /\ UNCHANGED << now, history, mail, tabVars >>

-----------------------------------------------------------------------------
(* Tabs.                                                                   *)

\* The subscription handler upgrades to SSE: the tab's stream is open to it...
Connect(t) ==
    /\ t \in Listeners
    /\ stream[t] = "closed"
    /\ stream' = [stream EXCEPT ![t] = "opening"]
    /\ UNCHANGED << serverVars, mail, fetch, page, view >>

\* ...before the handler has subscribed to the player's channels.
Subscribe(t) ==
    /\ stream[t] = "opening"
    /\ stream' = [stream EXCEPT ![t] = "open"]
    /\ UNCHANGED << serverVars, mail, fetch, page, view >>

\* The stream breaks: what was published but not read is lost, the list stays.
LoseConnection(t) ==
    /\ "lostConnection" \in Races
    /\ stream[t] # "closed"
    /\ stream' = [stream EXCEPT ![t] = "closed"]
    /\ mail' = [mail EXCEPT ![t] = <<>>]
    /\ UNCHANGED << serverVars, fetch, page, view >>

\* The page is reloaded, or the player logs out.
Reload(t) ==
    /\ stream[t] # "closed"
    /\ stream' = [stream EXCEPT ![t] = "closed"]
    /\ mail' = [mail EXCEPT ![t] = <<>>]
    /\ fetch' = [fetch EXCEPT ![t] = "ready"]
    /\ page' = [page EXCEPT ![t] = {}]
    /\ view' = [view EXCEPT ![t] = {}]
    /\ UNCHANGED serverVars

\* handleLogin asks for the events as soon as it has asked for the stream;
\* the history is short enough for one page.
HandleEvents(t) ==
    /\ fetch[t] = "ready"
    /\ stream[t] = "open" \/ "fetchBeforeSubscribe" \in Races
    /\ fetch' = [fetch EXCEPT ![t] = "fetching"]
    /\ page' = [page EXCEPT ![t] = VisibleTo(t)]
    /\ UNCHANGED << serverVars, mail, stream, view >>

\* appendEventsReduce: a new event takes the place of a shown one with its ID.
\* The lists are merged pairwise, so when an ID occurs more than once as many
\* shown events go as there are new ones: a set of possible results.
Merged(shown, new) ==
    LET Replaced == {gone \in SUBSET shown :
            \A e \in shown :
                LET n == Cardinality(WithID(new, e.id))
                IN  IF n >= Cardinality(WithID(shown, e.id))
                    THEN e \in gone
                    ELSE Cardinality(WithID(gone, e.id)) = n}
    IN  {(shown \ gone) \cup new : gone \in Replaced}

\* handleUpdate and eventReduce: newEvent, deleteEvent, modifyShare, modifyEvent.
Applied(shown, update) ==
    CASE update.ty = "+evt" -> Merged(shown, {update.evt})
      [] update.ty = "-evt" -> { shown \ WithID(shown, update.id) }
      [] update.ty = "~evt" ->
           LET Modified(e) ==
                   IF e.id # update.id THEN e
                   ELSE IF update.diff.field = "share"
                        THEN [e EXCEPT !.share = update.diff.value]
                   ELSE IF e.ty # "playerJoin"
                        THEN [e EXCEPT !.title = update.diff.value] ELSE e
           IN  { {Modified(e) : e \in shown} }

MergePage(t) ==
    /\ fetch[t] = "fetching"
    /\ \E shown \in Merged(view[t], page[t]) : view' = [view EXCEPT ![t] = shown]
    /\ fetch' = [fetch EXCEPT ![t] = "finished"]
    /\ page' = [page EXCEPT ![t] = {}]
    /\ UNCHANGED << serverVars, mail, stream >>

ReadUpdate(t) ==
    /\ mail[t] # <<>>
    /\ fetch[t] # "fetching" \/ "updateBeforePage" \in Races
    /\ \E shown \in Applied(view[t], Head(mail[t])) : view' = [view EXCEPT ![t] = shown]
    /\ mail' = [mail EXCEPT ![t] = Tail(@)]
    /\ UNCHANGED << serverVars, stream, fetch, page >>

-----------------------------------------------------------------------------
Handle(t) ==
    \/ HandleRoll(t) \/ HandleRollInitiative(t) \/ HandleUpdateEvent(t)
    \/ HandleEditInitiative(t) \/ HandleShareEvent(t) \/ HandleDeleteEvent(t)
    \/ HandleReroll(t)

Write(t) ==
    \/ PostEvent(t) \/ DeleteEvent(t) \/ ReplaceEvent(t)
    \/ RemoveOld(t) \/ AddNew(t) \/ PublishNext(t)

Tab(t) ==
    \/ Connect(t) \/ Subscribe(t) \/ LoseConnection(t) \/ Reload(t)
    \/ HandleEvents(t) \/ MergePage(t) \/ ReadUpdate(t)

Next == \E t \in Tabs : Handle(t) \/ Write(t) \/ Abort(t) \/ Tab(t)

Spec == Init /\ [][Next]_vars

\* Every goroutine runs, Redis answers, and a tab whose stream is open reads it
\* and gets the answers to its requests.  Nobody is obliged to send a request,
\* to connect or to ask for the events.
Fairness == \A t \in Tabs : /\ WF_vars(Write(t))
                            /\ WF_vars(Subscribe(t))
                            /\ WF_vars(MergePage(t))
                            /\ WF_vars(ReadUpdate(t))

FairSpec == Spec /\ Fairness
-----------------------------------------------------------------------------
(* What the parts promise together.                                        *)

\* The tab listens, and has asked for (or has) what was there before it did.
Follows(t) == stream[t] = "open" /\ fetch[t] # "ready"

\* What a tab that shows these events shows once it has read these updates.
ReplayFrom(shown, updates) ==
    LET after[n \in 0 .. Len(updates)] ==
            IF n = 0 THEN shown
            ELSE CHOOSE s \in Applied(after[n - 1], updates[n]) : TRUE
    IN  after[Len(updates)]

\* What a tab that has been answered shows: the page merged in, once that happens.
Loaded(t) ==
    IF fetch[t] = "fetching" THEN CHOOSE s \in Merged(view[t], page[t]) : TRUE ELSE view[t]

\* What a tab will show once the page and the updates it was sent are in.
Replay(t) == ReplayFrom(Loaded(t), mail[t])

\* A tab that follows the game is always exactly as far behind the history as
\* the updates it has not read: no update is missing, superfluous, wrong or out
\* of order (the packets of eventManager.go against web/src/event's reducer).
InSync == \A t \in Tabs : Follows(t) => Replay(t) = VisibleTo(t)

\* The history implements the shared history of that module, at the resolution of
\* one write to Redis: each step of the server changes one event, by its author,
\* and leaves every following tab with the updates that amount to the change.
Shared == INSTANCE SharedHistory WITH
    Gamemasters <- GMKey,
    InitialEvents <- InitialHistory,
    events <- history,
    following <- {t \in Tabs : Follows(t)},
    screen <- [t \in Tabs |-> IF Follows(t) THEN Replay(t) ELSE {}]

ImplementsSharedHistory == Shared!Spec

\* What of that concerns the server alone: the history when nobody looks at it.
Unseen == INSTANCE SharedHistory WITH
    Tabs <- {},
    Gamemasters <- GMKey,
    InitialEvents <- InitialHistory,
    events <- history,
    following <- {},
    screen <- [t \in {} |-> {}]

\* f is e after a change of its share or its title.
Changed(e, f) ==
    /\ f.id = e.id /\ f.ty = e.ty /\ f.pID = e.pID
    /\ f.share = e.share \/ f.title = e.title

\* What a request is to change may be changed, and is in the history as it was read.
Current(t) ==
    /\ req[t].pc \in {"delete", "reroll"} =>
         req[t].old \in history /\ req[t].old.ty # "playerJoin"
    /\ req[t].pc = "replace" =>
         \E e \in history : /\ e.pID = PlayerOf[t] /\ e.ty # "playerJoin"
                            /\ Changed(e, req[t].new)

OneChange == Unseen!Next \/ \E t \in Tabs : ~Current(t) /\ req'[t] # req[t]

Outdated(t) ==
    \E u \in Tabs \ {t} :
        PlayerOf[u] = PlayerOf[t] /\ req'[u] # req[u] /\ history' # history

\* A handler writes all of an event, or deletes it by its ID, on what it read a round
\* trip earlier.  Only another tab of the same player can come between: what a request
\* has read becomes outdated by nothing else, whatever the others send, and as long as
\* it is not, the write makes one event with an ID of its own, deletes one, or changes
\* either the share or the title of one, and puts nothing back (routes/game.go,
\* game/eventManager.go).
OnlyOwnTabsCollide ==
    [][ /\ history' = history \/ OneChange
        /\ \A t \in Tabs : Current(t) => Current(t)' \/ Outdated(t) ]_vars

\* No tab is ever sent the contents of an event its player may not see, in an
\* update or in an answer to GET /events, however requests and streams overlap.
NothingLeaks ==
    \A t \in Tabs :
        LET MaySee(e) == PlayerCanSeeEvent(PlayerOf[t], IsGM(t), e)
        IN  /\ \A i \in 1 .. Len(mail[t]) : mail[t][i].ty = "+evt" => MaySee(mail[t][i].evt)
            /\ \A e \in page[t] : MaySee(e)

\* Whatever its author may do to an event of the history, each tab will be told
\* of it once and in the form the change has for its player.
RoutingIsExact ==
    \A t \in Tabs, evt \in history :
        /\ CreateReaches(PlayerOf[t], IsGM(t), evt, ForEventDelete(evt.id))
        /\ \A share \in Shares \ {evt.share} :
               ShareReaches(PlayerOf[t], IsGM(t), evt, share)

\* The history holds one event per ID, though edits remove and re-add it and the
\* sorted set itself allows any number of members with one score.
NoDuplicates == \A e, f \in history : e.id = f.id => e = f

ChangedByAuthor ==
    \A e \in history \ history' : \E t \in Tabs :
        /\ PlayerOf[t] = e.pID /\ req'[t] # req[t]
        /\ \/ req[t].pc \in {"delete", "reroll"} /\ req[t].old.id = e.id
           \/ req[t].pc = "replace" /\ req[t].new.id = e.id

\* An event leaves the history or is changed in it only by a request of its own
\* author, sent for that event: the check of pID against the session, made when
\* the event was read, still holds when the command by ID runs.
OnlyAuthorsChange == [][ChangedByAuthor]_vars

\* An update reaches only tabs whose player could see its event before the
\* change or can see it after: not even that an event exists is given away.
OnlyViewersAreTold ==
    [][\A t \in Tabs : \A i \in Len(mail[t]) + 1 .. Len(mail'[t]) :
            \E e \in history \cup history' :
                /\ e.id = mail'[t][i].id
                /\ PlayerCanSeeEvent(PlayerOf[t], IsGM(t), e)]_vars

\* An event a following tab's player can see is in due course shown there, as
\* long as it is not deleted or unshared and the tab goes on following.
EventuallyShown ==
    \A t \in Tabs, id \in 0 .. MaxStamp :
        (Follows(t) /\ WithID(VisibleTo(t), id) # {})
            ~> (~Follows(t) \/ WithID(VisibleTo(t), id) = {} \/ WithID(view[t], id) # {})

-----------------------------------------------------------------------------
(* What documents and comments of the repository say, checked where the    *)
(* code does otherwise.                                                    *)

\* Nothing is under way: every request has ended and every update was read.
Quiet == \A t \in Tabs : req[t] = Idle /\ mail[t] = <<>> /\ fetch[t] # "fetching"

\* docs/database.org: the server broadcasts state changes (i.e. event
\* edited/deleted) to all players via updates.  Once all is quiet, a tab that
\* follows the game shows the history as it is.
ShowsHistory == Quiet => \A t \in Tabs : Follows(t) => view[t] = VisibleTo(t)

\* server/event/share.go: ShareGMs shares with the gamemasters, the players that
\* AddGM made so, in addition to the originator.
GMsSeeShared ==
    Quiet => \A t \in Tabs : Follows(t) /\ PlayerOf[t] \in GMs =>
                 \A e \in history : e.share = "gms" => e \in view[t]
=============================================================================
