--------------------------- MODULE EventSharingProofs ---------------------------
(***************************************************************************)
(* Proofs about the addressing rules of EventSharing, for every set of     *)
(* players, every author and every choice of GMs.                          *)
(***************************************************************************)
EXTENDS EventSharing, TLAPS

LEMMA ChannelsDiffer ==
    ASSUME NEW p \in Players, NEW q \in Players
    PROVE  /\ GameChannel # GMsChannel
           /\ GameChannel # PlayerChannel(p)
           /\ GMsChannel # PlayerChannel(p)
           /\ PlayerChannel(p) = PlayerChannel(q) <=> p = q
  BY PlayersAssumption DEF GameChannel, GMsChannel, PlayerChannel

\* A packet for the game reaches everybody.
LEMMA GameReaches ==
    ASSUME NEW p \in Players, NEW owner \in Players, NEW isGM \in BOOLEAN, NEW u
    PROVE  Receives(p, isGM, Packet(GameChannel, {}, u)) <=> TRUE
  BY ChannelsDiffer, PlayersAssumption DEF Receives, Channels, Packet, shouldSendUpdate

\* With a filter, everybody but the author.
LEMMA GameButOwnerReaches ==
    ASSUME NEW p \in Players, NEW owner \in Players, NEW isGM \in BOOLEAN, NEW u
    PROVE  Receives(p, isGM, Packet(GameChannel, {owner}, u)) <=> p # owner
  BY ChannelsDiffer, PlayersAssumption DEF Receives, Channels, Packet, shouldSendUpdate

\* With both filters, everybody but the author and the GMs.
LEMMA GameButGMsReaches ==
    ASSUME NEW p \in Players, NEW owner \in Players, NEW isGM \in BOOLEAN, NEW u
    PROVE  Receives(p, isGM, Packet(GameChannel, {owner, "gms"}, u)) <=> p # owner /\ ~isGM
  BY ChannelsDiffer, PlayersAssumption DEF Receives, Channels, Packet, shouldSendUpdate

\* A packet for the GMs skips a GM who is the author.
LEMMA GMsReaches ==
    ASSUME NEW p \in Players, NEW owner \in Players, NEW isGM \in BOOLEAN, NEW u
    PROVE  Receives(p, isGM, Packet(GMsChannel, {owner}, u)) <=> isGM /\ p # owner
  BY ChannelsDiffer, PlayersAssumption DEF Receives, Channels, Packet, shouldSendUpdate

\* A packet for one player reaches no other.
LEMMA PlayerReaches ==
    ASSUME NEW p \in Players, NEW owner \in Players, NEW isGM \in BOOLEAN, NEW u
    PROVE  Receives(p, isGM, Packet(PlayerChannel(owner), {}, u)) <=> p = owner
  BY ChannelsDiffer, PlayersAssumption DEF Receives, Channels, Packet, shouldSendUpdate

LEMMA PacketUpdate ==
    ASSUME NEW c, NEW f, NEW u
    PROVE  Packet(c, f, u).update = u
  BY DEF Packet

LEMMA ArrivalsOf1 ==
    ASSUME NEW p, NEW isGM, NEW a
    PROVE  /\ Receives(p, isGM, a) => Arrivals(p, isGM, <<a>>) = << a.update >>
           /\ ~Receives(p, isGM, a) => Arrivals(p, isGM, <<a>>) = <<>>
  BY DEF Arrivals

\* Of two packets of which at most one is received.
LEMMA ArrivalsOf2 ==
    ASSUME NEW p, NEW isGM, NEW a, NEW b
    PROVE  /\ Receives(p, isGM, a) /\ ~Receives(p, isGM, b)
                => Arrivals(p, isGM, <<a, b>>) = << a.update >>
           /\ ~Receives(p, isGM, a) /\ Receives(p, isGM, b)
                => Arrivals(p, isGM, <<a, b>>) = << b.update >>
           /\ ~Receives(p, isGM, a) /\ ~Receives(p, isGM, b)
                => Arrivals(p, isGM, <<a, b>>) = <<>>
  <1> DEFINE s == << a, b >>
             Copy(x) == IF Receives(p, isGM, x) THEN << x.update >> ELSE <<>>
  <1>1. Len(s) = 2 /\ s[1] = a /\ s[2] = b /\ ~(3 <= Len(s))
    OBVIOUS
  <1>2. Arrivals(p, isGM, s) = Copy(a) \o Copy(b) \o <<>>
    <2> HIDE DEF s
    <2> QED BY <1>1 DEF Arrivals
  <1>3. \A u : <<>> \o <<u>> \o <<>> = <<u>> /\ <<u>> \o <<>> \o <<>> = <<u>>
    OBVIOUS
  <1>4. <<>> \o <<>> \o <<>> = <<>>
    OBVIOUS
  <1> QED BY <1>2, <1>3, <1>4

\* Of three packets of which exactly one is received.
LEMMA ArrivalsOf3 ==
    ASSUME NEW p, NEW isGM, NEW a, NEW b, NEW c
    PROVE  /\ Receives(p, isGM, a) /\ ~Receives(p, isGM, b) /\ ~Receives(p, isGM, c)
                => Arrivals(p, isGM, <<a, b, c>>) = << a.update >>
           /\ ~Receives(p, isGM, a) /\ Receives(p, isGM, b) /\ ~Receives(p, isGM, c)
                => Arrivals(p, isGM, <<a, b, c>>) = << b.update >>
           /\ ~Receives(p, isGM, a) /\ ~Receives(p, isGM, b) /\ Receives(p, isGM, c)
                => Arrivals(p, isGM, <<a, b, c>>) = << c.update >>
  <1> DEFINE s == << a, b, c >>
             Copy(x) == IF Receives(p, isGM, x) THEN << x.update >> ELSE <<>>
  <1>1. Len(s) = 3 /\ s[1] = a /\ s[2] = b /\ s[3] = c
    OBVIOUS
  <1>2. Arrivals(p, isGM, s) = Copy(a) \o Copy(b) \o Copy(c)
    <2> HIDE DEF s
    <2> QED BY <1>1 DEF Arrivals
  <1>3. \A u : /\ <<u>> \o <<>> \o <<>> = <<u>>
               /\ <<>> \o <<u>> \o <<>> = <<u>>
               /\ <<>> \o <<>> \o <<u>> = <<u>>
    OBVIOUS
  <1> QED BY <1>2, <1>3

\* Creating or deleting an event tells exactly those who can see it, once.
THEOREM CreateIsExact ==
    ASSUME NEW p \in Players, NEW isGM \in BOOLEAN, NEW evt \in Event, NEW update
    PROVE  CreateReaches(p, isGM, evt, update)
  <1> DEFINE owner  == evt.pID
             toGame == Packet(GameChannel, {}, update)
             toMe   == Packet(PlayerChannel(owner), {}, update)
             toGMs  == Packet(GMsChannel, {owner}, update)
  <1>0. owner \in Players /\ evt.share \in Shares
    BY DEF Event
  <1>1. CASE evt.share = "inGame"
    <2>1. createOrDeletePackets(evt, update) = << toGame >>
      BY <1>1 DEF createOrDeletePackets
    <2>2. Receives(p, isGM, toGame)
      BY GameReaches
    <2>3. toGame.update = update
      BY PacketUpdate
    <2> HIDE DEF toGame
    <2> QED BY <1>1, <2>1, <2>2, <2>3, ArrivalsOf1 DEF CreateReaches, PlayerCanSeeEvent
  <1>2. CASE evt.share = "private"
    <2>1. createOrDeletePackets(evt, update) = << toMe >>
      BY <1>2 DEF createOrDeletePackets
    <2>2. Receives(p, isGM, toMe) <=> p = owner
      BY <1>0, PlayerReaches
    <2>3. toMe.update = update
      BY PacketUpdate
    <2> HIDE DEF toMe
    <2> QED BY <1>2, <2>1, <2>2, <2>3, ArrivalsOf1 DEF CreateReaches, PlayerCanSeeEvent
  <1>3. CASE evt.share = "gms"
    <2>1. createOrDeletePackets(evt, update) = << toGMs, toMe >>
      BY <1>3 DEF createOrDeletePackets
    <2>2. /\ Receives(p, isGM, toMe) <=> p = owner
          /\ Receives(p, isGM, toGMs) <=> isGM /\ p # owner
      BY <1>0, PlayerReaches, GMsReaches
    <2>3. toMe.update = update /\ toGMs.update = update
      BY PacketUpdate
    <2> HIDE DEF toMe, toGMs
    <2> QED BY <1>3, <2>1, <2>2, <2>3, ArrivalsOf2 DEF CreateReaches, PlayerCanSeeEvent
  <1> QED BY <1>0, <1>1, <1>2, <1>3 DEF Shares

\* Changing an event's share tells each player exactly what the change is to
\* them: the event appears, disappears, is modified, or is none of their business.
THEOREM ShareIsExact ==
    ASSUME NEW p \in Players, NEW isGM \in BOOLEAN, NEW evt \in Event,
           NEW newShare \in Shares, evt.share # newShare
    PROVE  ShareReaches(p, isGM, evt, newShare)
  <1> DEFINE owner     == evt.pID
             oldShare  == evt.share
             shared    == [evt EXCEPT !.share = newShare]
             modify    == ForEventShare(shared)
             create    == ForNewEvent(shared)
             delete    == ForEventDelete(evt.id)
             modifyMe  == Packet(PlayerChannel(owner), {}, modify)
             modifyGMs == Packet(GMsChannel, {owner}, modify)
             told      == Arrivals(p, isGM, sharePacketsModifyingEvent(evt, newShare))
             before    == PlayerCanSeeEvent(p, isGM, evt)
             after     == PlayerCanSeeEvent(p, isGM, shared)
  <1>1. owner \in Players /\ oldShare \in Shares
    BY DEF Event
  <1>2. shared.pID = owner /\ shared.share = newShare
    BY DEF Event
  <1>3. /\ modifyMe.update = modify /\ modifyGMs.update = modify
        /\ Receives(p, isGM, modifyMe) <=> p = owner
        /\ Receives(p, isGM, modifyGMs) <=> isGM /\ p # owner
    BY <1>1, PacketUpdate, PlayerReaches, GMsReaches
  <1>4. /\ before <=> oldShare = "inGame" \/ p = owner \/ (oldShare = "gms" /\ isGM)
        /\ after <=> newShare = "inGame" \/ p = owner \/ (newShare = "gms" /\ isGM)
    BY <1>1, <1>2 DEF PlayerCanSeeEvent, Shares
  <1>5. SUFFICES told = CASE  before /\  after -> << modify >>
                          [] ~before /\  after -> << create >>
                          []  before /\ ~after -> << delete >>
                          [] ~before /\ ~after -> <<>>
    BY DEF ShareReaches
  <1> HIDE DEF modifyMe, modifyGMs, modify, create, delete, before, after
  <1>6. CASE newShare = "private"
    <2> DEFINE first == Packet(gameOrGMsChannel(oldShare), {owner}, delete)
    <2>1. told = Arrivals(p, isGM, << first, modifyMe >>)
      BY <1>6 DEF sharePacketsModifyingEvent, modifyMe, modify, delete
    <2>2. /\ first.update = delete
          /\ Receives(p, isGM, first) <=> p # owner /\ (oldShare = "inGame" \/ isGM)
      BY <1>1, <1>6, PacketUpdate, GameButOwnerReaches, GMsReaches DEF gameOrGMsChannel, Shares
    <2> HIDE DEF first, told
    <2> QED BY <1>1, <1>3, <1>4, <1>6, <2>1, <2>2, ArrivalsOf2 DEF Shares
  <1>7. CASE newShare # "private" /\ oldShare = "private"
    <2> DEFINE first == Packet(gameOrGMsChannel(newShare), {owner}, create)
    <2>1. told = Arrivals(p, isGM, << first, modifyMe >>)
      BY <1>7 DEF sharePacketsModifyingEvent, modifyMe, modify, create
    <2>2. /\ first.update = create
          /\ Receives(p, isGM, first) <=> p # owner /\ (newShare = "inGame" \/ isGM)
      BY <1>1, <1>7, PacketUpdate, GameButOwnerReaches, GMsReaches DEF gameOrGMsChannel, Shares
    <2> HIDE DEF first, told
    <2> QED BY <1>1, <1>3, <1>4, <1>7, <2>1, <2>2, ArrivalsOf2 DEF Shares
  <1>8. CASE oldShare = "gms" /\ newShare = "inGame"
    <2> DEFINE last == Packet(GameChannel, {owner, "gms"}, create)
    <2>1. told = Arrivals(p, isGM, << modifyGMs, modifyMe, last >>)
      BY <1>8 DEF sharePacketsModifyingEvent, modifyMe, modifyGMs, modify, create
    <2>2. /\ last.update = create
          /\ Receives(p, isGM, last) <=> p # owner /\ ~isGM
      BY <1>1, PacketUpdate, GameButGMsReaches
    <2> HIDE DEF last, told
    <2> QED BY <1>3, <1>4, <1>8, <2>1, <2>2, ArrivalsOf3
  <1>9. CASE oldShare = "inGame" /\ newShare = "gms"
    <2> DEFINE first == Packet(GameChannel, {owner, "gms"}, delete)
    <2>1. told = Arrivals(p, isGM, << first, modifyGMs, modifyMe >>)
      <3>1. {"gms", owner} = {owner, "gms"}
        OBVIOUS
      <3> QED BY <3>1, <1>9 DEF sharePacketsModifyingEvent, modifyMe, modifyGMs, modify, delete
    <2>2. /\ first.update = delete
          /\ Receives(p, isGM, first) <=> p # owner /\ ~isGM
      BY <1>1, PacketUpdate, GameButGMsReaches
    <2> HIDE DEF first, told
    <2> QED BY <1>3, <1>4, <1>9, <2>1, <2>2, ArrivalsOf3
  <1> QED BY <1>1, <1>6, <1>7, <1>8, <1>9 DEF Shares
=============================================================================
