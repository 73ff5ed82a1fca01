---------------------------- MODULE GameEventsProofs ----------------------------
(***************************************************************************)
(* Invariants of GameEvents, for every game: any players, tabs and GMs,    *)
(* and every timing of requests, pipelines and streams.                    *)
(***************************************************************************)
EXTENDS GameEvents, EventSharingProofs, TLAPS

-----------------------------------------------------------------------------
(* Types of updates, packets and what arrives of them.                     *)

LEMMA UpdateTypes ==
    ASSUME NEW evt \in Event
    PROVE  /\ ForNewEvent(evt) \in Update
           /\ ForEventDelete(evt.id) \in Update
           /\ ForEventDiff(evt) \in Update
           /\ ForEventShare(evt) \in Update
  <1>1. evt.id \in Nat /\ evt.title \in Titles /\ evt.share \in Shares
    BY DEF Event
  <1>2. ForNewEvent(evt) \in [ty : {"+evt"}, id : Nat, evt : Event]
    BY <1>1 DEF ForNewEvent
  <1>3. ForEventDelete(evt.id) \in [ty : {"-evt"}, id : Nat]
    BY <1>1 DEF ForEventDelete
  <1>4. ForEventDiff(evt) \in [ty : {"~evt"}, id : Nat, diff : [field : {"title"}, value : Titles]]
    BY <1>1 DEF ForEventDiff
  <1>5. ForEventShare(evt) \in [ty : {"~evt"}, id : Nat, diff : [field : {"share"}, value : Shares]]
    BY <1>1 DEF ForEventShare
  <1> QED BY <1>2, <1>3, <1>4, <1>5 DEF Update

LEMMA PacketType ==
    ASSUME NEW u \in Update, NEW owner \in Players
    PROVE  /\ Packet(GameChannel, {}, u) \in PacketOf(Update)
           /\ Packet(GameChannel, {owner}, u) \in PacketOf(Update)
           /\ Packet(GameChannel, {owner, "gms"}, u) \in PacketOf(Update)
           /\ Packet(GMsChannel, {}, u) \in PacketOf(Update)
           /\ Packet(GMsChannel, {owner}, u) \in PacketOf(Update)
           /\ Packet(PlayerChannel(owner), {}, u) \in PacketOf(Update)
  BY DEF Packet, PacketOf

LEMMA CreatePacketsType ==
    ASSUME NEW evt \in Event, NEW u \in Update
    PROVE  createOrDeletePackets(evt, u) \in Seq(PacketOf(Update)) \ {<<>>}
  <1>1. evt.pID \in Players /\ evt.share \in Shares
    BY DEF Event
  <1>2. \A a, b \in PacketOf(Update) : /\ <<a>> \in Seq(PacketOf(Update)) \ {<<>>}
                                       /\ <<a, b>> \in Seq(PacketOf(Update)) \ {<<>>}
    OBVIOUS
  <1>3. CASE evt.share = "inGame"
    BY <1>2, <1>3, PacketType, <1>1 DEF createOrDeletePackets
  <1>4. CASE evt.share = "private"
    BY <1>2, <1>4, PacketType, <1>1 DEF createOrDeletePackets
  <1>5. CASE evt.share = "gms"
    BY <1>2, <1>5, PacketType, <1>1 DEF createOrDeletePackets
  <1> QED BY <1>1, <1>3, <1>4, <1>5 DEF Shares

LEMMA EditPacketsType ==
    ASSUME NEW evt \in Event
    PROVE  editPackets(evt) \in Seq(PacketOf(Update)) \ {<<>>}
  <1>1. evt.pID \in Players /\ evt.share \in Shares /\ ForEventDiff(evt) \in Update
    BY UpdateTypes DEF Event
  <1>2. Packet(UpdateChannel(evt.pID, evt.share), {}, ForEventDiff(evt)) \in PacketOf(Update)
    BY <1>1, PacketType DEF UpdateChannel, Shares
  <1> QED BY <1>2 DEF editPackets

LEMMA SharePacketsType ==
    ASSUME NEW evt \in Event, NEW newShare \in Shares, evt.share # newShare
    PROVE  sharePacketsModifyingEvent(evt, newShare) \in Seq(PacketOf(Update)) \ {<<>>}
  <1> DEFINE shared == [evt EXCEPT !.share = newShare]
             owner  == evt.pID
             P      == PacketOf(Update)
             modify == ForEventShare(shared)
             create == ForNewEvent(shared)
             delete == ForEventDelete(evt.id)
  <1>1. owner \in Players /\ evt.share \in Shares /\ shared \in Event
    BY DEF Event
  <1>2. modify \in Update /\ create \in Update /\ delete \in Update
    BY <1>1, UpdateTypes
  <1>3. \A a, b, c \in P : /\ <<a, b>> \in Seq(P) \ {<<>>}
                           /\ <<a, b, c>> \in Seq(P) \ {<<>>}
    <2> HIDE DEF P
    <2> QED OBVIOUS
  <1> HIDE DEF modify, create, delete, P
  <1>4. /\ Packet(PlayerChannel(owner), {}, modify) \in P
        /\ Packet(GMsChannel, {owner}, modify) \in P
        /\ Packet(GameChannel, {owner, "gms"}, create) \in P
        /\ Packet(GameChannel, {"gms", owner}, delete) \in P
    <2>1. {"gms", owner} = {owner, "gms"}
      OBVIOUS
    <2> QED BY <1>1, <1>2, <2>1, PacketType DEF P
  <1>5. CASE newShare = "private"
    <2>1. Packet(gameOrGMsChannel(evt.share), {owner}, delete) \in P
      BY <1>1, <1>2, <1>5, PacketType DEF gameOrGMsChannel, Shares, P
    <2> QED BY <1>3, <1>4, <1>5, <2>1 DEF sharePacketsModifyingEvent, modify, delete, P
  <1>6. CASE newShare # "private" /\ evt.share = "private"
    <2>1. Packet(gameOrGMsChannel(newShare), {owner}, create) \in P
      BY <1>1, <1>2, <1>6, PacketType DEF gameOrGMsChannel, Shares, P
    <2> QED BY <1>3, <1>4, <1>6, <2>1 DEF sharePacketsModifyingEvent, modify, create, P
  <1>7. CASE evt.share = "gms" /\ newShare = "inGame"
    BY <1>3, <1>4, <1>7 DEF sharePacketsModifyingEvent, modify, create, P
  <1>8. CASE evt.share = "inGame" /\ newShare = "gms"
    BY <1>3, <1>4, <1>8 DEF sharePacketsModifyingEvent, modify, delete, P
  <1> QED BY <1>1, <1>5, <1>6, <1>7, <1>8 DEF Shares

\* What arrives are updates of packets that were received.
LEMMA ArrivalsType ==
    ASSUME NEW p, NEW isGM, NEW packets \in Seq(PacketOf(Update))
    PROVE  /\ Arrivals(p, isGM, packets) \in Seq(Update)
           /\ \A i \in 1 .. Len(Arrivals(p, isGM, packets)) :
                \E j \in 1 .. Len(packets) :
                    /\ Receives(p, isGM, packets[j])
                    /\ Arrivals(p, isGM, packets)[i] = packets[j].update
  <1> DEFINE Copy(i) == IF i <= Len(packets) /\ Receives(p, isGM, packets[i])
                        THEN << packets[i].update >> ELSE <<>>
             Good(s) == /\ s \in Seq(Update)
                        /\ \A i \in 1 .. Len(s) : \E j \in 1 .. Len(packets) :
                               Receives(p, isGM, packets[j]) /\ s[i] = packets[j].update
  <1>1. \A j \in 1 .. Len(packets) : packets[j].update \in Update
    <2>1. \A x \in PacketOf(Update) : x.update \in Update
      BY DEF PacketOf
    <2>2. \A j \in 1 .. Len(packets) : packets[j] \in PacketOf(Update)
      OBVIOUS
    <2> QED BY <2>1, <2>2
  <1>2. \A j \in 1 .. 3 : Good(Copy(j))
    <2> TAKE j \in 1 .. 3
    <2>1. CASE j <= Len(packets) /\ Receives(p, isGM, packets[j])
      <3>1. j \in 1 .. Len(packets) /\ Copy(j) = << packets[j].update >>
        BY <2>1
      <3>2. \A u \in Update : << u >> \in Seq(Update) /\ Len(<< u >>) = 1 /\ << u >>[1] = u
        OBVIOUS
      <3> QED BY <1>1, <2>1, <3>1, <3>2
    <2>2. CASE ~(j <= Len(packets) /\ Receives(p, isGM, packets[j]))
      BY <2>2
    <2> QED BY <2>1, <2>2
  <1> HIDE DEF Copy
  <1>3. \A s, r : Good(s) /\ Good(r) => Good(s \o r)
    <2> TAKE s, r
    <2> HAVE Good(s) /\ Good(r)
    <2>1. s \o r \in Seq(Update) /\ Len(s \o r) = Len(s) + Len(r)
      OBVIOUS
    <2>2. ASSUME NEW i \in 1 .. Len(s \o r)
          PROVE  (i \in 1 .. Len(s) /\ (s \o r)[i] = s[i])
                 \/ (i - Len(s) \in 1 .. Len(r) /\ (s \o r)[i] = r[i - Len(s)])
      BY <2>1
    <2> QED BY <2>1, <2>2
  <1>4. Arrivals(p, isGM, packets) = Copy(1) \o Copy(2) \o Copy(3)
    BY DEF Arrivals, Copy
  <1> HIDE DEF Good
  <1>5. Good(Arrivals(p, isGM, packets))
    BY <1>2, <1>3, <1>4
  <1> QED BY <1>5 DEF Good
-----------------------------------------------------------------------------
(* Types of what a tab shows.                                              *)

LEMMA MergedType ==
    ASSUME NEW shown \in SUBSET Event, NEW new \in SUBSET Event,
           NEW s \in Merged(shown, new)
    PROVE  s \in SUBSET Event
  BY DEF Merged

LEMMA AppliedType ==
    ASSUME NEW shown \in SUBSET Event, NEW update \in Update,
           NEW s \in Applied(shown, update)
    PROVE  s \in SUBSET Event
  <1>1. CASE update.ty = "+evt"
    <2>1. update.evt \in Event
      BY <1>1 DEF Update
    <2>2. s \in Merged(shown, {update.evt})
      BY <1>1 DEF Applied
    <2> QED BY <2>1, <2>2, MergedType
  <1>2. CASE update.ty = "-evt"
    BY <1>2 DEF Applied
  <1>3. CASE update.ty = "~evt"
    <2>1. \/ update.diff.field = "share" /\ update.diff.value \in Shares
          \/ update.diff.field = "title" /\ update.diff.value \in Titles
      BY <1>3 DEF Update
    <2>2. \A e \in Event : /\ \A x \in Shares : [e EXCEPT !.share = x] \in Event
                           /\ \A x \in Titles : [e EXCEPT !.title = x] \in Event
      BY DEF Event
    <2> QED BY <1>3, <2>1, <2>2 DEF Applied
  <1> QED BY <1>1, <1>2, <1>3 DEF Update

-----------------------------------------------------------------------------
(* Type correctness.                                                       *)

LEMMA PublishedType ==
    ASSUME TypeOK, NEW packets \in Seq(PacketOf(Update))
    PROVE  Published(packets) \in [Tabs -> Seq(Update)]
  <1>1. \A t \in Tabs : mail[t] \o Arrivals(PlayerOf[t], IsGM(t), packets) \in Seq(Update)
    BY ArrivalsType DEF TypeOK
  <1> QED BY <1>1 DEF Published, TypeOK

\* What a request of each kind holds.
LEMMA RequestFields ==
    ASSUME NEW r \in Request
    PROVE  /\ r.pc \in {"post", "reroll", "replace", "add", "publish"} => r.new \in Event
           /\ r.pc \in {"delete", "reroll"} => r.old \in Event
           /\ r.pc \in {"replace", "add", "publish"} =>
                  r.packets \in Seq(PacketOf(Update)) \ {<<>>}
  BY DEF Request, Idle

LEMMA InitTypeOK == Init => TypeOK
  BY GameAssumption DEF Init, TypeOK, Request

\* An edited, shared or rerolled event is an event.
LEMMA ModifiedType ==
    ASSUME NEW evt \in Event
    PROVE  /\ \A title \in Titles : [evt EXCEPT !.title = title] \in Event
           /\ \A share \in Shares : [evt EXCEPT !.share = share] \in Event
           /\ \A id \in Nat : [evt EXCEPT !.id = id, !.ty = "rerollFailures"] \in Event
  BY DEF Event, EventTypes

LEMMA ProceedType ==
    ASSUME TypeOK, NEW t \in Tabs, NEW r \in Request, Proceed(t, r), now' \in Nat
    PROVE  TypeOK'
  BY DEF TypeOK, Proceed, tabVars

LEMMA HandleType ==
    ASSUME TypeOK, NEW t \in Tabs, Handle(t)
    PROVE  TypeOK'
  <1>0. history \in SUBSET Event /\ now \in Nat /\ NewEventIDs \subseteq Nat
    BY GameAssumption DEF TypeOK, NewEventIDs
  <1>1. ASSUME NEW types, MakeEvent(t, types)
        PROVE  TypeOK'
    <2>1. PICK s \in NewEventIDs, ty \in PostTypes \cap types, share \in Shares, title \in Titles :
              /\ now' = s
              /\ Proceed(t, [pc |-> "post",
                             new |-> [id |-> s, ty |-> ty, pID |-> PlayerOf[t],
                                      share |-> share, title |-> title]])
      BY <1>1 DEF MakeEvent
    <2>2. [id |-> s, ty |-> ty, pID |-> PlayerOf[t], share |-> share, title |-> title] \in Event
      BY <1>0, GameAssumption DEF Event, EventTypes
    <2> QED BY <1>0, <2>1, <2>2, ProceedType DEF Request
  <1>2. ASSUME NEW evt \in history, EditEvent(t, evt)
        PROVE  TypeOK'
    <2>1. PICK title \in Titles :
              Proceed(t, [pc |-> "replace", new |-> [evt EXCEPT !.title = title],
                          packets |-> editPackets([evt EXCEPT !.title = title])])
      BY <1>2 DEF EditEvent
    <2> DEFINE edited == [evt EXCEPT !.title = title]
    <2>2. edited \in Event
      BY <1>0, ModifiedType
    <2>3. editPackets(edited) \in Seq(PacketOf(Update)) \ {<<>>}
      BY <2>2, EditPacketsType
    <2> HIDE DEF edited
    <2>4. [pc |-> "replace", new |-> edited, packets |-> editPackets(edited)] \in Request
      BY <2>2, <2>3 DEF Request
    <2>5. now' \in Nat
      BY <1>0, <1>2 DEF EditEvent
    <2> QED BY <2>1, <2>4, <2>5, ProceedType DEF edited
  <1>3. CASE HandleShareEvent(t)
    <2>1. PICK evt \in history, share \in Shares :
              /\ evt.share # share
              /\ Proceed(t, [pc |-> "replace", new |-> [evt EXCEPT !.share = share],
                             packets |-> sharePacketsModifyingEvent(evt, share)])
      BY <1>3 DEF HandleShareEvent
    <2> DEFINE shared == [evt EXCEPT !.share = share]
               packets == sharePacketsModifyingEvent(evt, share)
    <2>2. shared \in Event /\ packets \in Seq(PacketOf(Update)) \ {<<>>}
      BY <1>0, <2>1, ModifiedType, SharePacketsType
    <2> HIDE DEF shared, packets
    <2>3. [pc |-> "replace", new |-> shared, packets |-> packets] \in Request
      BY <2>2 DEF Request
    <2>4. now' \in Nat
      BY <1>0, <1>3 DEF HandleShareEvent
    <2> QED BY <2>1, <2>3, <2>4, ProceedType DEF shared, packets
  <1>4. CASE HandleDeleteEvent(t)
    <2>1. PICK evt \in history : Proceed(t, [pc |-> "delete", old |-> evt])
      BY <1>4 DEF HandleDeleteEvent
    <2>2. [pc |-> "delete", old |-> evt] \in Request /\ now' \in Nat
      BY <1>0, <1>4 DEF Request, HandleDeleteEvent
    <2> QED BY <2>1, <2>2, ProceedType
  <1>5. CASE HandleReroll(t)
    <2>1. PICK evt \in history, s \in NewEventIDs :
              /\ now' = s
              /\ Proceed(t, [pc |-> "reroll", old |-> evt,
                             new |-> [evt EXCEPT !.id = s, !.ty = "rerollFailures"]])
      BY <1>5 DEF HandleReroll
    <2>2. [evt EXCEPT !.id = s, !.ty = "rerollFailures"] \in Event
      BY <1>0, ModifiedType
    <2> QED BY <1>0, <2>1, <2>2, ProceedType DEF Request
  <1> QED BY <1>1, <1>2, <1>3, <1>4, <1>5 DEF Handle, HandleRoll, HandleRollInitiative,
             HandleUpdateEvent, HandleEditInitiative

LEMMA WriteType ==
    ASSUME TypeOK, NEW t \in Tabs, Write(t)
    PROVE  TypeOK'
  <1> DEFINE r == req[t]
  <1>0. r \in Request /\ history \in SUBSET Event /\ Idle \in Request
    BY DEF TypeOK, Request
  <1>1. CASE PostEvent(t)
    <2>1. r.new \in Event
      BY <1>0, <1>1, RequestFields DEF PostEvent
    <2>2. Published(createOrDeletePackets(r.new, ForNewEvent(r.new))) \in [Tabs -> Seq(Update)]
      BY <2>1, PublishedType, CreatePacketsType, UpdateTypes
    <2> QED BY <1>0, <1>1, <2>1, <2>2 DEF PostEvent, TypeOK, tabVars
  <1>2. CASE DeleteEvent(t)
    <2>1. r.old \in Event /\ (r.pc = "reroll" => r.new \in Event)
      BY <1>0, <1>2, RequestFields DEF DeleteEvent
    <2>2. Published(createOrDeletePackets(r.old, ForEventDelete(r.old.id))) \in [Tabs -> Seq(Update)]
      BY <2>1, PublishedType, CreatePacketsType, UpdateTypes
    <2>3. r.pc # "delete" => [pc |-> "post", new |-> r.new] \in Request
      BY <1>2, <2>1 DEF Request, DeleteEvent
    <2> QED BY <1>0, <1>2, <2>1, <2>2, <2>3 DEF DeleteEvent, TypeOK, tabVars
  <1>3. CASE ReplaceEvent(t)
    <2>1. r.new \in Event /\ r.packets \in Seq(PacketOf(Update))
      BY <1>0, <1>3, RequestFields DEF ReplaceEvent
    <2>2. Published(r.packets) \in [Tabs -> Seq(Update)]
      BY <2>1, PublishedType
    <2> QED BY <1>0, <1>3, <2>1, <2>2 DEF ReplaceEvent, TypeOK, tabVars
  <1>4. CASE RemoveOld(t)
    <2>1. [r EXCEPT !.pc = "add"] \in Request
      BY <1>0, <1>4 DEF RemoveOld, Request, Idle
    <2> QED BY <1>0, <1>4, <2>1 DEF RemoveOld, TypeOK, tabVars
  <1>5. CASE AddNew(t)
    <2>1. [r EXCEPT !.pc = "publish"] \in Request /\ r.new \in Event
      BY <1>0, <1>5, RequestFields DEF AddNew, Request, Idle
    <2> QED BY <1>0, <1>5, <2>1 DEF AddNew, TypeOK, tabVars
  <1>6. CASE PublishNext(t)
    <2>1. r.packets \in Seq(PacketOf(Update)) \ {<<>>}
      BY <1>0, <1>6, RequestFields DEF PublishNext
    <2>2. << Head(r.packets) >> \in Seq(PacketOf(Update))
      BY <2>1
    <2>3. Tail(r.packets) \in Seq(PacketOf(Update))
      <3>1. r.packets \in Seq(PacketOf(Update)) /\ r.packets # <<>>
        BY <2>1
      <3> QED BY <3>1
    <2>4. ASSUME Tail(r.packets) # <<>>
          PROVE  [r EXCEPT !.packets = Tail(r.packets)] \in Request
      <3>1. r \in [pc : {"replace", "add", "publish"}, new : Event,
                   packets : Seq(PacketOf(Update)) \ {<<>>}]
        BY <1>0, <1>6 DEF PublishNext, Request, Idle
      <3>2. [r EXCEPT !.packets = Tail(r.packets)] \in
                [pc : {"replace", "add", "publish"}, new : Event,
                 packets : Seq(PacketOf(Update)) \ {<<>>}]
        BY <3>1, <2>3, <2>4
      <3> QED BY <3>2 DEF Request
    <2>5. mail' \in [Tabs -> Seq(Update)]
      BY <1>6, <2>2, PublishedType DEF PublishNext
    <2>6. req' \in [Tabs -> Request]
      BY <1>0, <1>6, <2>4 DEF PublishNext, TypeOK
    <2> QED BY <1>6, <2>5, <2>6 DEF PublishNext, TypeOK, tabVars
  <1> QED BY <1>1, <1>2, <1>3, <1>4, <1>5, <1>6 DEF Write

LEMMA TabType ==
    ASSUME TypeOK, NEW t \in Tabs, Tab(t)
    PROVE  TypeOK'
  <1>0. <<>> \in Seq(Update)
    OBVIOUS
  <1>1. CASE Connect(t) \/ Subscribe(t)
    BY <1>1 DEF Connect, Subscribe, TypeOK, serverVars
  <1>5. CASE LoseConnection(t)
    BY <1>0, <1>5 DEF LoseConnection, TypeOK, serverVars
  <1>6. CASE Reload(t)
    BY <1>0, <1>6 DEF Reload, TypeOK, serverVars
  <1>2. CASE HandleEvents(t)
    BY <1>2 DEF HandleEvents, TypeOK, serverVars, VisibleTo
  <1>3. CASE MergePage(t)
    <2>1. view[t] \in SUBSET Event /\ page[t] \in SUBSET Event
      BY DEF TypeOK
    <2>2. PICK shown \in Merged(view[t], page[t]) : view' = [view EXCEPT ![t] = shown]
      BY <1>3 DEF MergePage
    <2>3. shown \in SUBSET Event
      BY <2>1, <2>2, MergedType
    <2> QED BY <1>3, <2>2, <2>3 DEF MergePage, TypeOK, serverVars
  <1>4. CASE ReadUpdate(t)
    <2>1. mail[t] \in Seq(Update) /\ mail[t] # <<>>
      BY <1>4 DEF ReadUpdate, TypeOK
    <2>2. Head(mail[t]) \in Update /\ Tail(mail[t]) \in Seq(Update)
      BY <2>1
    <2>3. view' \in [Tabs -> SUBSET Event]
      BY <1>4, <2>2, AppliedType DEF ReadUpdate, TypeOK
    <2> QED BY <1>4, <2>2, <2>3 DEF ReadUpdate, TypeOK, serverVars
  <1> QED BY <1>1, <1>2, <1>3, <1>4, <1>5, <1>6 DEF Tab

LEMMA NextTypeOK == TypeOK /\ [Next]_vars => TypeOK'
  <1> SUFFICES ASSUME TypeOK, [Next]_vars
               PROVE  TypeOK'
    OBVIOUS
  <1>1. ASSUME NEW t \in Tabs, Abort(t)
        PROVE  TypeOK'
    BY <1>1 DEF Abort, TypeOK, tabVars, Request
  <1>2. CASE UNCHANGED vars
    BY <1>2 DEF vars, TypeOK
  <1> QED BY <1>1, <1>2, HandleType, WriteType, TabType DEF Next

\* Every variable keeps its type, and every request its fields: a handler never
\* writes an event, a packet or an update that was not built from a valid event.
THEOREM TypeCorrect == Spec => []TypeOK
  BY InitTypeOK, NextTypeOK, PTL DEF Spec

-----------------------------------------------------------------------------
(* Routing.                                                                *)

\* Whatever happened so far, a deletion or a change of share of any event of the
\* history would reach every tab once and in the form it has for its player.
THEOREM RoutingAlwaysExact == Spec => []RoutingIsExact
  <1>1. TypeOK => RoutingIsExact
    <2> SUFFICES ASSUME TypeOK, NEW t \in Tabs, NEW evt \in history
                 PROVE  /\ CreateReaches(PlayerOf[t], IsGM(t), evt, ForEventDelete(evt.id))
                        /\ \A share \in Shares \ {evt.share} :
                               ShareReaches(PlayerOf[t], IsGM(t), evt, share)
      BY DEF RoutingIsExact
    <2>1. evt \in Event /\ PlayerOf[t] \in Players /\ IsGM(t) \in BOOLEAN
      BY GameAssumption DEF TypeOK, IsGM, HasGM
    <2> QED BY <2>1, CreateIsExact, ShareIsExact
  <1> QED BY <1>1, TypeCorrect, PTL

-----------------------------------------------------------------------------
(* Confidentiality.  The contents of an event travel in "+evt" updates; a  *)
(* packet is safe when each player it would reach may see what it creates. *)
(* The invariant: all packets a request still has to publish are safe.     *)

SafePacket(packet) ==
    \A p \in Players : packet.update.ty = "+evt" /\ Receives(p, HasGM(p), packet)
                          => PlayerCanSeeEvent(p, HasGM(p), packet.update.evt)

Safe(packets) == \A i \in 1 .. Len(packets) : SafePacket(packets[i])

LeakInv ==
    /\ NothingLeaks
    /\ \A t \in Tabs : req[t].pc \in {"replace", "add", "publish"} => Safe(req[t].packets)

LEMMA HasGMBoolean ==
    ASSUME NEW p
    PROVE  HasGM(p) \in BOOLEAN
  BY DEF HasGM

\* A packet that creates nothing is safe.
LEMMA HarmlessPacket ==
    ASSUME NEW c, NEW f, NEW u, u.ty # "+evt"
    PROVE  SafePacket(Packet(c, f, u))
  BY DEF SafePacket, Packet

\* A packet that creates an event is safe when its recipients may see the event.
LEMMA CreatingPacket ==
    ASSUME NEW c, NEW f, NEW u, NEW evt, u.evt = evt,
           \A p \in Players : Receives(p, HasGM(p), Packet(c, f, u))
                                  => PlayerCanSeeEvent(p, HasGM(p), evt)
    PROVE  SafePacket(Packet(c, f, u))
  <1>1. Packet(c, f, u).update.evt = evt
    BY PacketUpdate
  <1> QED BY <1>1 DEF SafePacket

LEMMA HarmlessUpdates ==
    ASSUME NEW evt
    PROVE  /\ ForEventDelete(evt.id).ty # "+evt"
           /\ ForEventDiff(evt).ty # "+evt"
           /\ ForEventShare(evt).ty # "+evt"
           /\ ForNewEvent(evt).evt = evt
  BY DEF ForEventDelete, ForEventDiff, ForEventShare, ForNewEvent

LEMMA SafeSequences ==
    ASSUME NEW a, NEW b, NEW c
    PROVE  /\ SafePacket(a) => Safe(<<a>>)
           /\ SafePacket(a) /\ SafePacket(b) => Safe(<<a, b>>)
           /\ SafePacket(a) /\ SafePacket(b) /\ SafePacket(c) => Safe(<<a, b, c>>)
  BY DEF Safe

LEMMA CreatePacketsSafe ==
    ASSUME NEW evt \in Event
    PROVE  /\ Safe(createOrDeletePackets(evt, ForNewEvent(evt)))
           /\ Safe(createOrDeletePackets(evt, ForEventDelete(evt.id)))
  <1> DEFINE owner == evt.pID
             u == ForNewEvent(evt)
             d == ForEventDelete(evt.id)
  <1>1. owner \in Players /\ evt.share \in Shares /\ u.evt = evt /\ d.ty # "+evt"
    BY HarmlessUpdates DEF Event
  <1>2. /\ SafePacket(Packet(GameChannel, {}, d))
        /\ SafePacket(Packet(PlayerChannel(owner), {}, d))
        /\ SafePacket(Packet(GMsChannel, {owner}, d))
    BY <1>1, HarmlessPacket
  <1>3. Safe(createOrDeletePackets(evt, d))
    BY <1>1, <1>2, SafeSequences DEF createOrDeletePackets, Shares
  <1> HIDE DEF u
  <1>4. ASSUME evt.share = "inGame"
        PROVE  SafePacket(Packet(GameChannel, {}, u))
    <2>1. \A p \in Players : PlayerCanSeeEvent(p, HasGM(p), evt)
      BY <1>4 DEF PlayerCanSeeEvent
    <2> QED BY <1>1, <2>1, CreatingPacket
  <1>5. evt.share \in {"private", "gms"} => SafePacket(Packet(PlayerChannel(owner), {}, u))
    <2>1. \A p \in Players : Receives(p, HasGM(p), Packet(PlayerChannel(owner), {}, u)) => p = owner
      BY <1>1, PlayerReaches, HasGMBoolean
    <2>2. evt.share \in {"private", "gms"} => PlayerCanSeeEvent(owner, HasGM(owner), evt)
      BY DEF PlayerCanSeeEvent
    <2> QED BY <1>1, <2>1, <2>2, CreatingPacket
  <1>6. evt.share = "gms" => SafePacket(Packet(GMsChannel, {owner}, u))
    <2>1. \A p \in Players : Receives(p, HasGM(p), Packet(GMsChannel, {owner}, u)) => HasGM(p)
      BY <1>1, GMsReaches, HasGMBoolean
    <2>2. evt.share = "gms" => \A p \in Players : HasGM(p) => PlayerCanSeeEvent(p, HasGM(p), evt)
      BY DEF PlayerCanSeeEvent
    <2> QED BY <1>1, <2>1, <2>2, CreatingPacket
  <1>7. Safe(createOrDeletePackets(evt, u))
    BY <1>1, <1>4, <1>5, <1>6, SafeSequences DEF createOrDeletePackets, Shares
  <1> QED BY <1>3, <1>7 DEF u

LEMMA EditPacketsSafe ==
    ASSUME NEW evt \in Event
    PROVE  Safe(editPackets(evt))
  BY HarmlessUpdates, HarmlessPacket, SafeSequences DEF editPackets

LEMMA SharePacketsSafe ==
    ASSUME NEW evt \in Event, NEW newShare \in Shares, evt.share # newShare
    PROVE  Safe(sharePacketsModifyingEvent(evt, newShare))
  <1> DEFINE shared == [evt EXCEPT !.share = newShare]
             owner  == evt.pID
             modify == ForEventShare(shared)
             create == ForNewEvent(shared)
             delete == ForEventDelete(evt.id)
  <1>1. /\ owner \in Players /\ evt.share \in Shares
        /\ shared.pID = owner /\ shared.share = newShare
    BY DEF Event
  <1>2. modify.ty # "+evt" /\ delete.ty # "+evt" /\ create.evt = shared
    BY HarmlessUpdates
  <1> HIDE DEF modify, create, delete
  <1>3. \A c, f : SafePacket(Packet(c, f, modify)) /\ SafePacket(Packet(c, f, delete))
    BY <1>2, HarmlessPacket
  <1>4. newShare = "inGame" => \A c, f : SafePacket(Packet(c, f, create))
    <2>1. newShare = "inGame" => \A p \in Players : PlayerCanSeeEvent(p, HasGM(p), shared)
      BY <1>1 DEF PlayerCanSeeEvent
    <2> QED BY <1>2, <2>1, CreatingPacket
  <1>5. newShare = "gms" => SafePacket(Packet(GMsChannel, {owner}, create))
    <2>1. \A p \in Players : Receives(p, HasGM(p), Packet(GMsChannel, {owner}, create)) => HasGM(p)
      BY <1>1, GMsReaches, HasGMBoolean
    <2>2. newShare = "gms" => \A p \in Players : HasGM(p) => PlayerCanSeeEvent(p, HasGM(p), shared)
      BY <1>1 DEF PlayerCanSeeEvent
    <2> QED BY <1>2, <2>1, <2>2, CreatingPacket
  <1>6. CASE newShare = "private"
    BY <1>3, <1>6, SafeSequences DEF sharePacketsModifyingEvent, modify, delete
  <1>7. CASE newShare # "private" /\ evt.share = "private"
    <2>1. SafePacket(Packet(gameOrGMsChannel(newShare), {owner}, create))
      BY <1>4, <1>5, <1>7 DEF gameOrGMsChannel, Shares
    <2> QED BY <1>3, <1>7, <2>1, SafeSequences DEF sharePacketsModifyingEvent, modify, create
  <1>8. CASE evt.share = "gms" /\ newShare = "inGame"
    BY <1>3, <1>4, <1>8, SafeSequences DEF sharePacketsModifyingEvent, modify, create
  <1>9. CASE evt.share = "inGame" /\ newShare = "gms"
    BY <1>3, <1>9, SafeSequences DEF sharePacketsModifyingEvent, modify, delete
  <1> QED BY <1>1, <1>6, <1>7, <1>8, <1>9 DEF Shares

\* What is sent to a tab may be seen by its player.
Seeable(t, updates) ==
    \A i \in 1 .. Len(updates) :
        updates[i].ty = "+evt" => PlayerCanSeeEvent(PlayerOf[t], IsGM(t), updates[i].evt)

LEMMA NothingLeaksIs ==
    NothingLeaks <=> \A t \in Tabs :
        /\ Seeable(t, mail[t])
        /\ \A e \in page[t] : PlayerCanSeeEvent(PlayerOf[t], IsGM(t), e)
  BY DEF NothingLeaks, Seeable

LEMMA PublishedSeeable ==
    ASSUME TypeOK, NothingLeaks, NEW packets \in Seq(PacketOf(Update)), Safe(packets),
           NEW t \in Tabs
    PROVE  Seeable(t, Published(packets)[t])
  <1> DEFINE new == Arrivals(PlayerOf[t], IsGM(t), packets)
  <1>1. PlayerOf[t] \in Players /\ mail[t] \in Seq(Update) /\ Seeable(t, mail[t])
    BY GameAssumption, NothingLeaksIs DEF TypeOK
  <1>2. /\ new \in Seq(Update)
        /\ \A i \in 1 .. Len(new) : \E j \in 1 .. Len(packets) :
               Receives(PlayerOf[t], IsGM(t), packets[j]) /\ new[i] = packets[j].update
    BY ArrivalsType
  <1>3. Seeable(t, new)
    <2> SUFFICES ASSUME NEW i \in 1 .. Len(new), new[i].ty = "+evt"
                 PROVE  PlayerCanSeeEvent(PlayerOf[t], IsGM(t), new[i].evt)
      BY DEF Seeable
    <2>1. PICK j \in 1 .. Len(packets) :
              Receives(PlayerOf[t], IsGM(t), packets[j]) /\ new[i] = packets[j].update
      BY <1>2
    <2>2. SafePacket(packets[j])
      BY DEF Safe
    <2> QED BY <1>1, <2>1, <2>2 DEF SafePacket, IsGM
  <1> HIDE DEF new
  <1>4. Seeable(t, mail[t] \o new)
    <2> DEFINE both == mail[t] \o new
    <2> SUFFICES ASSUME NEW i \in 1 .. Len(both), both[i].ty = "+evt"
                 PROVE  PlayerCanSeeEvent(PlayerOf[t], IsGM(t), both[i].evt)
      BY DEF Seeable
    <2>1. \/ i \in 1 .. Len(mail[t]) /\ both[i] = mail[t][i]
          \/ i - Len(mail[t]) \in 1 .. Len(new) /\ both[i] = new[i - Len(mail[t])]
      BY <1>1, <1>2
    <2> QED BY <1>1, <1>3, <2>1 DEF Seeable
  <1> QED BY <1>1, <1>4 DEF Published, new

\* Publishing safe packets keeps the secret.
LEMMA PublishingLeaksNothing ==
    ASSUME TypeOK, NothingLeaks, NEW packets \in Seq(PacketOf(Update)), Safe(packets),
           mail' = Published(packets), UNCHANGED tabVars
    PROVE  NothingLeaks'
  <1>1. \A t \in Tabs : Seeable(t, mail'[t])
    BY PublishedSeeable
  <1>2. page' = page
    BY DEF tabVars
  <1> QED BY <1>1, <1>2, NothingLeaksIs DEF NothingLeaks, Seeable

LEMMA SilenceLeaksNothing ==
    ASSUME NothingLeaks, UNCHANGED << mail, page >>
    PROVE  NothingLeaks'
  BY DEF NothingLeaks

\* A request that changes to r leaves the others as they are.
LEMMA OneRequestSafe ==
    ASSUME TypeOK, LeakInv, NEW t \in Tabs, NEW r, req' = [req EXCEPT ![t] = r],
           r.pc \in {"replace", "add", "publish"} => Safe(r.packets)
    PROVE  \A u \in Tabs : req'[u].pc \in {"replace", "add", "publish"} => Safe(req'[u].packets)
  BY DEF TypeOK, LeakInv

LEMMA InitLeakInv == Init => LeakInv
  <1> SUFFICES ASSUME Init
               PROVE  LeakInv
    OBVIOUS
  <1>1. NothingLeaks
    BY DEF Init, NothingLeaks
  <1>2. \A t \in Tabs : req[t].pc = "idle"
    BY DEF Init, Idle
  <1> QED BY <1>1, <1>2 DEF LeakInv

LEMMA HandleLeakInv ==
    ASSUME TypeOK, LeakInv, NEW t \in Tabs, Handle(t)
    PROVE  LeakInv'
  <1>0. history \in SUBSET Event
    BY DEF TypeOK
  <1>1. ASSUME NEW r, Proceed(t, r), r.pc \in {"replace", "add", "publish"} => Safe(r.packets)
        PROVE  LeakInv'
    <2>1. UNCHANGED << mail, page >> /\ req' = [req EXCEPT ![t] = r]
      BY <1>1 DEF Proceed, tabVars
    <2>2. NothingLeaks'
      BY <2>1, SilenceLeaksNothing DEF LeakInv
    <2>3. \A u \in Tabs : req'[u].pc \in {"replace", "add", "publish"} => Safe(req'[u].packets)
      BY <1>1, <2>1, OneRequestSafe
    <2> QED BY <2>2, <2>3 DEF LeakInv, Safe, SafePacket
  <1>2. ASSUME NEW types, MakeEvent(t, types)
        PROVE  LeakInv'
    BY <1>1, <1>2 DEF MakeEvent
  <1>3. ASSUME NEW evt \in history, EditEvent(t, evt)
        PROVE  LeakInv'
    <2>1. PICK title \in Titles :
              Proceed(t, [pc |-> "replace", new |-> [evt EXCEPT !.title = title],
                          packets |-> editPackets([evt EXCEPT !.title = title])])
      BY <1>3 DEF EditEvent
    <2>2. Safe(editPackets([evt EXCEPT !.title = title]))
      BY <1>0, ModifiedType, EditPacketsSafe
    <2> QED BY <1>1, <2>1, <2>2
  <1>4. CASE HandleShareEvent(t)
    <2>1. PICK evt \in history, share \in Shares :
              /\ evt.share # share
              /\ Proceed(t, [pc |-> "replace", new |-> [evt EXCEPT !.share = share],
                             packets |-> sharePacketsModifyingEvent(evt, share)])
      BY <1>4 DEF HandleShareEvent
    <2>2. Safe(sharePacketsModifyingEvent(evt, share))
      BY <1>0, <2>1, SharePacketsSafe
    <2> QED BY <1>1, <2>1, <2>2
  <1>5. CASE HandleDeleteEvent(t)
    BY <1>1, <1>5 DEF HandleDeleteEvent
  <1>6. CASE HandleReroll(t)
    BY <1>1, <1>6 DEF HandleReroll
  <1> QED BY <1>2, <1>3, <1>4, <1>5, <1>6 DEF Handle, HandleRoll, HandleRollInitiative,
             HandleUpdateEvent, HandleEditInitiative

LEMMA WriteLeakInv ==
    ASSUME TypeOK, LeakInv, NEW t \in Tabs, Write(t)
    PROVE  LeakInv'
  <1> DEFINE r == req[t]
             Rest(x) == x.pc \in {"replace", "add", "publish"} => Safe(x.packets)
  <1>0. /\ r \in Request /\ NothingLeaks /\ Rest(r)
        /\ req \in [Tabs -> Request] /\ Idle.pc = "idle"
    BY DEF TypeOK, LeakInv, Idle
  <1>1. ASSUME NEW x, req' = [req EXCEPT ![t] = x], Rest(x), NothingLeaks'
        PROVE  LeakInv'
    <2>1. \A u \in Tabs : Rest(req'[u])
      BY <1>1, OneRequestSafe
    <2> QED BY <1>1, <2>1 DEF LeakInv, Safe, SafePacket
  <1>2. CASE PostEvent(t)
    <2>1. r.new \in Event
      BY <1>0, <1>2, RequestFields DEF PostEvent
    <2> DEFINE packets == createOrDeletePackets(r.new, ForNewEvent(r.new))
    <2>2. packets \in Seq(PacketOf(Update)) /\ Safe(packets)
      BY <2>1, CreatePacketsType, CreatePacketsSafe, UpdateTypes
    <2>3. mail' = Published(packets) /\ UNCHANGED tabVars
      BY <1>2 DEF PostEvent
    <2> HIDE DEF packets
    <2>4. NothingLeaks'
      BY <1>0, <2>2, <2>3, PublishingLeaksNothing
    <2> QED BY <1>0, <1>1, <1>2, <2>4 DEF PostEvent
  <1>3. CASE DeleteEvent(t)
    <2>1. r.old \in Event
      BY <1>0, <1>3, RequestFields DEF DeleteEvent
    <2> DEFINE packets == createOrDeletePackets(r.old, ForEventDelete(r.old.id))
               left == IF r.pc = "delete" THEN Idle ELSE [pc |-> "post", new |-> r.new]
    <2>2. packets \in Seq(PacketOf(Update)) /\ Safe(packets)
      BY <2>1, CreatePacketsType, CreatePacketsSafe, UpdateTypes
    <2>3. mail' = Published(packets) /\ UNCHANGED tabVars
      BY <1>3 DEF DeleteEvent
    <2> HIDE DEF packets
    <2>4. NothingLeaks'
      BY <1>0, <2>2, <2>3, PublishingLeaksNothing
    <2>5. req' = [req EXCEPT ![t] = left] /\ Rest(left)
      BY <1>0, <1>3 DEF DeleteEvent
    <2> QED BY <1>1, <2>4, <2>5
  <1>4. CASE ReplaceEvent(t)
    <2>1. r.packets \in Seq(PacketOf(Update)) /\ Safe(r.packets)
      BY <1>0, <1>4, RequestFields DEF ReplaceEvent
    <2>2. NothingLeaks'
      BY <1>0, <1>4, <2>1, PublishingLeaksNothing DEF ReplaceEvent
    <2> QED BY <1>0, <1>1, <1>4, <2>2 DEF ReplaceEvent
  <1>5. CASE RemoveOld(t) \/ AddNew(t)
    <2>1. UNCHANGED << mail, page >>
      BY <1>5 DEF RemoveOld, AddNew, tabVars
    <2>2. PICK pc \in {"add", "publish"} : req' = [req EXCEPT ![t] = [r EXCEPT !.pc = pc]]
      BY <1>5 DEF RemoveOld, AddNew
    <2>3. Rest([r EXCEPT !.pc = pc])
      BY <1>0, <1>5 DEF RemoveOld, AddNew, Request, Idle
    <2> QED BY <1>0, <1>1, <2>1, <2>2, <2>3, SilenceLeaksNothing
  <1>6. CASE PublishNext(t)
    <2>1. r.packets \in Seq(PacketOf(Update)) /\ r.packets # <<>> /\ Safe(r.packets)
      BY <1>0, <1>6, RequestFields DEF PublishNext
    <2> DEFINE first == << Head(r.packets) >>
               unsent == Tail(r.packets)
    <2>2. first \in Seq(PacketOf(Update)) /\ Safe(first) /\ Safe(unsent)
      BY <2>1 DEF Safe
    <2>3. mail' = Published(first) /\ UNCHANGED tabVars
      BY <1>6 DEF PublishNext
    <2> HIDE DEF first
    <2>4. NothingLeaks'
      BY <1>0, <2>2, <2>3, PublishingLeaksNothing
    <2>5. Rest(IF unsent = <<>> THEN Idle ELSE [r EXCEPT !.packets = unsent])
      BY <1>0, <1>6, <2>2 DEF PublishNext, Request, Idle
    <2> QED BY <1>1, <1>6, <2>4, <2>5 DEF PublishNext
  <1> QED BY <1>2, <1>3, <1>4, <1>5, <1>6 DEF Write

LEMMA TabLeakInv ==
    ASSUME TypeOK, LeakInv, NEW t \in Tabs, Tab(t)
    PROVE  LeakInv'
  <1>0. /\ mail \in [Tabs -> Seq(Update)] /\ page \in [Tabs -> SUBSET Event]
        /\ \A u \in Tabs : Seeable(u, mail[u])
        /\ \A u \in Tabs : \A e \in page[u] : PlayerCanSeeEvent(PlayerOf[u], IsGM(u), e)
    BY NothingLeaksIs DEF TypeOK, LeakInv
  <1>1. UNCHANGED << history, req >>
    BY DEF Tab, Connect, Subscribe, LoseConnection, Reload, HandleEvents, MergePage, ReadUpdate,
           serverVars
  <1>2. Seeable(t, <<>>)
    BY DEF Seeable
  <1>3. SUFFICES /\ \A u \in Tabs : Seeable(u, mail'[u])
                 /\ \A u \in Tabs : \A e \in page'[u] : PlayerCanSeeEvent(PlayerOf[u], IsGM(u), e)
    <2>1. NothingLeaks'
      BY <1>3 DEF NothingLeaks, Seeable
    <2> QED BY <1>1, <2>1 DEF LeakInv, Safe, SafePacket
  <1>4. CASE Connect(t) \/ Subscribe(t)
    BY <1>0, <1>4 DEF Connect, Subscribe
  <1>5. CASE LoseConnection(t) \/ Reload(t)
    BY <1>0, <1>2, <1>5 DEF LoseConnection, Reload
  <1>6. CASE HandleEvents(t)
    BY <1>0, <1>6 DEF HandleEvents, VisibleTo
  <1>7. CASE MergePage(t)
    BY <1>0, <1>7 DEF MergePage
  <1>8. CASE ReadUpdate(t)
    <2>1. mail[t] \in Seq(Update) /\ mail[t] # <<>> /\ page' = page
          /\ mail' = [mail EXCEPT ![t] = Tail(mail[t])]
      BY <1>0, <1>8 DEF ReadUpdate
    <2>2. Seeable(t, Tail(mail[t]))
      <3> DEFINE m == mail[t]
      <3>1. m \in Seq(Update) /\ m # <<>> /\ Seeable(t, m)
        BY <1>0, <2>1
      <3> HIDE DEF m
      <3>2. \A i \in 1 .. Len(Tail(m)) : i + 1 \in 1 .. Len(m) /\ Tail(m)[i] = m[i + 1]
        BY <3>1
      <3>3. Seeable(t, Tail(m))
        BY <3>1, <3>2 DEF Seeable
      <3> QED BY <3>3 DEF m
    <2> QED BY <1>0, <2>1, <2>2
  <1> QED BY <1>4, <1>5, <1>6, <1>7, <1>8 DEF Tab

LEMMA NextLeakInv == TypeOK /\ LeakInv /\ [Next]_vars => LeakInv'
  <1> SUFFICES ASSUME TypeOK, LeakInv, [Next]_vars
               PROVE  LeakInv'
    OBVIOUS
  <1>1. ASSUME NEW t \in Tabs, Abort(t)
        PROVE  LeakInv'
    <2>1. NothingLeaks'
      BY <1>1, SilenceLeaksNothing DEF Abort, tabVars, LeakInv
    <2>2. req' = [req EXCEPT ![t] = Idle] /\ Idle.pc = "idle"
      BY <1>1 DEF Abort, Idle
    <2>3. \A u \in Tabs : req'[u].pc \in {"replace", "add", "publish"} => Safe(req'[u].packets)
      BY <2>2, OneRequestSafe
    <2> QED BY <2>1, <2>3 DEF LeakInv, Safe, SafePacket
  <1>2. CASE UNCHANGED vars
    BY <1>2, SilenceLeaksNothing DEF vars, LeakInv, Safe, SafePacket
  <1> QED BY <1>1, <1>2, HandleLeakInv, WriteLeakInv, TabLeakInv DEF Next

\* No tab is ever sent an event its player may not see, whatever requests, aborted
\* pipelines, reconnections and page loads overlap.
THEOREM Confidential == Spec => []NothingLeaks
  <1>1. LeakInv => NothingLeaks
    BY DEF LeakInv
  <1> QED BY <1>1, InitLeakInv, NextLeakInv, TypeCorrect, PTL DEF Spec

-----------------------------------------------------------------------------
(* Authorship.  Handlers check the author of the event they read, and then *)
(* send commands that name the event by its ID alone.  That is sound as    *)
(* long as no ID is handed out twice: the invariant says that events, in   *)
(* the history or held by a request, agree on the author of each ID.       *)

Held(t) ==
    (IF req[t].pc \in {"delete", "reroll"} THEN {req[t].old} ELSE {}) \cup
    (IF req[t].pc \in {"post", "reroll", "replace", "add", "publish"} THEN {req[t].new} ELSE {})

Known == history \cup UNION {Held(t) : t \in Tabs}

Alike(e, k) == e.id = k.id /\ e.pID = k.pID

AuthorInv ==
    /\ \A e \in Known : e.id <= now
    /\ \A e, f \in Known : e.id = f.id => e.pID = f.pID
    /\ \A t \in Tabs : \A e \in Held(t) : e.pID = PlayerOf[t]
    /\ \A t \in Tabs \ Authors : req[t] = Idle

LEMMA HeldType ==
    ASSUME TypeOK, NEW t \in Tabs
    PROVE  Held(t) \subseteq Event
  <1>1. req[t] \in Request
    BY DEF TypeOK
  <1> QED BY <1>1, RequestFields DEF Held

LEMMA KnownType ==
    ASSUME TypeOK
    PROVE  Known \subseteq Event
  BY HeldType DEF TypeOK, Known

\* What a step has to show: every event it leaves is one there was, or a form of
\* one, or it is the new one of the player that acts.
LEMMA AuthorStep ==
    ASSUME TypeOK, AuthorInv, NEW t \in Tabs, now' \in {now, now + 1},
           \A e \in Known' : \/ \E k \in Known : Alike(e, k)
                             \/ now' = now + 1 /\ e.id = now' /\ e.pID = PlayerOf[t],
           \A u \in Tabs : \A e \in Held(u)' : e.pID = PlayerOf[u],
           \A u \in Tabs \ Authors : req'[u] = Idle
    PROVE  AuthorInv'
  <1>1. now \in Nat /\ \A k \in Known : k.id \in Nat
    BY KnownType DEF TypeOK, Event
  <1>2. \A e \in Known' : e.id <= now'
    BY <1>1 DEF AuthorInv, Alike
  <1>3. ASSUME NEW e \in Known', NEW f \in Known', e.id = f.id
        PROVE  e.pID = f.pID
    BY <1>1, <1>3 DEF AuthorInv, Alike
  <1> QED BY <1>2, <1>3 DEF AuthorInv

\* A step that gives t the request r, and the history no event that is not held.
LEMMA AuthorRequest ==
    ASSUME TypeOK, AuthorInv, NEW t \in Tabs, t \in Authors, NEW r, req' = [req EXCEPT ![t] = r],
           now' \in {now, now + 1}, \A e \in history' : \E k \in Known : Alike(e, k),
           \A e \in Held(t)' : /\ e.pID = PlayerOf[t]
                               /\ \/ \E k \in Known : Alike(e, k)
                                  \/ now' = now + 1 /\ e.id = now'
    PROVE  AuthorInv'
  <1>1. \A u \in Tabs : u # t => Held(u)' = Held(u)
    BY DEF Held, TypeOK
  <1>2. \A u \in Tabs : \A e \in Held(u)' : e.pID = PlayerOf[u]
    BY <1>1 DEF AuthorInv
  <1>3. \A u \in Tabs : u # t => Held(u)' \subseteq Known
    BY <1>1 DEF Known
  <1>4. \A e \in Known : Alike(e, e)
    BY DEF Alike
  <1>5. ASSUME NEW e \in Known'
        PROVE  \/ \E k \in Known : Alike(e, k)
               \/ now' = now + 1 /\ e.id = now' /\ e.pID = PlayerOf[t]
    <2>1. CASE e \in history'
      BY <2>1
    <2>2. ASSUME NEW u \in Tabs, e \in Held(u)'
          PROVE  \/ \E k \in Known : Alike(e, k)
                 \/ now' = now + 1 /\ e.id = now' /\ e.pID = PlayerOf[t]
      BY <1>3, <1>4, <2>2
    <2> QED BY <2>1, <2>2 DEF Known
  <1>6. \A u \in Tabs \ Authors : req'[u] = Idle
    BY DEF AuthorInv, TypeOK
  <1> QED BY <1>2, <1>5, <1>6, AuthorStep

LEMMA InitAuthorInv == Init => AuthorInv
  <1> SUFFICES ASSUME Init
               PROVE  AuthorInv
    OBVIOUS
  <1>1. \A t \in Tabs : Held(t) = {}
    BY DEF Init, Held, Idle
  <1>2. Known = InitialHistory /\ now = 0
    BY <1>1 DEF Known, Init
  <1>3. \A e, f \in InitialHistory : e.id = 0 /\ e = f
    BY GameAssumption
  <1> QED BY <1>1, <1>2, <1>3 DEF AuthorInv, Init

LEMMA HandleAuthorInv ==
    ASSUME TypeOK, AuthorInv, "sameMillisecond" \notin Races, NEW t \in Tabs, Handle(t)
    PROVE  AuthorInv'
  <1>0. /\ history \subseteq Known /\ history \subseteq Event
        /\ req \in [Tabs -> Request] /\ \A e : Alike(e, e)
        /\ \A s \in NewEventIDs : s = now + 1
    BY DEF Known, TypeOK, Alike, NewEventIDs
  <1>author. t \in Authors
    BY DEF Handle, HandleRoll, HandleRollInitiative, HandleUpdateEvent, HandleEditInitiative,
           HandleShareEvent, HandleDeleteEvent, HandleReroll, MakeEvent, EditEvent, CanRequest
  <1>1. ASSUME NEW r, Proceed(t, r), now' \in {now, now + 1},
               \A e \in Held(t)' : /\ e.pID = PlayerOf[t]
                                   /\ \/ \E k \in Known : Alike(e, k)
                                      \/ now' = now + 1 /\ e.id = now'
        PROVE  AuthorInv'
    BY <1>0, <1>author, <1>1, AuthorRequest DEF Proceed
  <1>2. ASSUME NEW r, Proceed(t, r)
        PROVE  req'[t] = r
    BY <1>0, <1>2 DEF Proceed
  <1>3. ASSUME NEW types, MakeEvent(t, types)
        PROVE  AuthorInv'
    <2>1. PICK s, new :
              /\ s \in NewEventIDs /\ now' = s /\ new.id = s /\ new.pID = PlayerOf[t]
              /\ Proceed(t, [pc |-> "post", new |-> new])
      BY <1>3 DEF MakeEvent
    <2>2. Held(t)' = {new}
      BY <1>2, <2>1 DEF Held
    <2> QED BY <1>0, <1>1, <2>1, <2>2
  <1>4. ASSUME NEW evt \in history, evt.pID = PlayerOf[t], EditEvent(t, evt)
        PROVE  AuthorInv'
    <2>1. PICK title \in Titles :
              /\ now' = now
              /\ Proceed(t, [pc |-> "replace", new |-> [evt EXCEPT !.title = title],
                             packets |-> editPackets([evt EXCEPT !.title = title])])
      BY <1>4 DEF EditEvent
    <2>2. Held(t)' = {[evt EXCEPT !.title = title]}
      BY <1>2, <2>1 DEF Held
    <2>3. Alike([evt EXCEPT !.title = title], evt)
      BY <1>0 DEF Alike, Event
    <2> QED BY <1>0, <1>1, <1>4, <2>1, <2>2, <2>3 DEF Alike
  <1>5. CASE HandleShareEvent(t)
    <2>1. PICK evt \in history, share \in Shares :
              /\ now' = now /\ evt.pID = PlayerOf[t]
              /\ Proceed(t, [pc |-> "replace", new |-> [evt EXCEPT !.share = share],
                             packets |-> sharePacketsModifyingEvent(evt, share)])
      BY <1>5 DEF HandleShareEvent, Changeable
    <2>2. Held(t)' = {[evt EXCEPT !.share = share]}
      BY <1>2, <2>1 DEF Held
    <2>3. Alike([evt EXCEPT !.share = share], evt)
      BY <1>0 DEF Alike, Event
    <2> QED BY <1>0, <1>1, <2>1, <2>2, <2>3 DEF Alike
  <1>6. CASE HandleDeleteEvent(t)
    <2>1. PICK evt \in history :
              now' = now /\ evt.pID = PlayerOf[t] /\ Proceed(t, [pc |-> "delete", old |-> evt])
      BY <1>6 DEF HandleDeleteEvent, Changeable
    <2>2. Held(t)' = {evt}
      BY <1>2, <2>1 DEF Held
    <2> QED BY <1>0, <1>1, <2>1, <2>2
  <1>7. CASE HandleReroll(t)
    <2>1. PICK evt \in history, s \in NewEventIDs :
              /\ now' = s /\ evt.pID = PlayerOf[t]
              /\ Proceed(t, [pc |-> "reroll", old |-> evt,
                             new |-> [evt EXCEPT !.id = s, !.ty = "rerollFailures"]])
      BY <1>7 DEF HandleReroll
    <2> DEFINE new == [evt EXCEPT !.id = s, !.ty = "rerollFailures"]
    <2>2. Held(t)' = {evt, new}
      BY <1>2, <2>1 DEF Held
    <2>3. new.id = s /\ new.pID = evt.pID
      BY <1>0 DEF Event
    <2> QED BY <1>0, <1>1, <2>1, <2>2, <2>3
  <1> QED BY <1>3, <1>4, <1>5, <1>6, <1>7 DEF Handle, HandleRoll, HandleRollInitiative,
             HandleUpdateEvent, HandleEditInitiative, Changeable

\* Writing adds to the history nothing but what the request holds, and leaves the
\* request holding nothing else.
LEMMA WriteAuthorInv ==
    ASSUME TypeOK, AuthorInv, NEW t \in Tabs, Write(t) \/ Abort(t)
    PROVE  AuthorInv'
  <1>0. /\ req \in [Tabs -> Request] /\ req[t] \in Request
        /\ Held(t) \subseteq Known /\ history \subseteq Known
        /\ \A e : Alike(e, e) /\ Idle.pc = "idle"
    BY DEF TypeOK, Known, Alike, Idle
  <1>author. t \in Authors
    <2>1. req[t] # Idle
      BY DEF Write, PostEvent, DeleteEvent, ReplaceEvent, RemoveOld, AddNew, PublishNext, Abort, Idle
    <2> QED BY <2>1 DEF AuthorInv
  <1>1. /\ now' = now
        /\ history' \subseteq history \cup Held(t)
    BY DEF Write, PostEvent, DeleteEvent, ReplaceEvent, RemoveOld, AddNew, PublishNext, Abort, Held
  <1>2. \E r : req' = [req EXCEPT ![t] = r]
    BY DEF Write, PostEvent, DeleteEvent, ReplaceEvent, RemoveOld, AddNew, PublishNext, Abort
  <1>3. Held(t)' \subseteq Held(t)
    <2>1. CASE req'[t].pc = "idle"
      BY <2>1 DEF Held
    <2>2. CASE RemoveOld(t) \/ AddNew(t)
      BY <1>0, <2>2 DEF RemoveOld, AddNew, Held, Request, Idle
    <2>3. CASE PublishNext(t)
      BY <1>0, <2>3 DEF PublishNext, Held, Request, Idle
    <2>4. CASE DeleteEvent(t)
      BY <1>0, <2>4 DEF DeleteEvent, Held
    <2>5. CASE PostEvent(t) \/ ReplaceEvent(t) \/ Abort(t)
      BY <1>0, <2>1, <2>5 DEF PostEvent, ReplaceEvent, Abort
    <2> QED BY <2>2, <2>3, <2>4, <2>5 DEF Write
  <1>4. \A e \in history' : \E k \in Known : Alike(e, k)
    BY <1>0, <1>1
  <1>5. \A e \in Held(t)' : e.pID = PlayerOf[t] /\ \E k \in Known : Alike(e, k)
    BY <1>0, <1>3 DEF AuthorInv
  <1>6. PICK r : req' = [req EXCEPT ![t] = r]
    BY <1>2
  <1> QED BY <1>author, <1>1, <1>4, <1>5, <1>6, AuthorRequest

LEMMA NextAuthorInv ==
    ASSUME "sameMillisecond" \notin Races
    PROVE  TypeOK /\ AuthorInv /\ [Next]_vars => AuthorInv'
  <1> SUFFICES ASSUME TypeOK, AuthorInv, [Next]_vars
               PROVE  AuthorInv'
    OBVIOUS
  <1>1. CASE UNCHANGED serverVars
    BY <1>1 DEF serverVars, AuthorInv, Known, Held
  <1>2. ASSUME NEW t \in Tabs, Tab(t)
        PROVE  UNCHANGED serverVars
    BY <1>2 DEF Tab, Connect, Subscribe, LoseConnection, Reload, HandleEvents, MergePage, ReadUpdate
  <1>3. CASE UNCHANGED vars
    BY <1>1, <1>3 DEF vars, serverVars
  <1> QED BY <1>1, <1>2, <1>3, HandleAuthorInv, WriteAuthorInv DEF Next

\* A step that takes an event from the history is a write of its author's.
LEMMA AuthorsWrite ==
    ASSUME TypeOK, AuthorInv, [Next]_vars
    PROVE  ChangedByAuthor
  <1> SUFFICES ASSUME NEW e \in history \ history'
               PROVE  \E t \in Tabs :
                         /\ PlayerOf[t] = e.pID /\ req'[t] # req[t]
                         /\ \/ req[t].pc \in {"delete", "reroll"} /\ req[t].old.id = e.id
                            \/ req[t].pc = "replace" /\ req[t].new.id = e.id
    BY DEF ChangedByAuthor
  <1>1. PICK t \in Tabs : DeleteEvent(t) \/ ReplaceEvent(t) \/ RemoveOld(t)
    BY DEF Next, vars, tabVars, serverVars, Handle, Write, Tab, Abort, HandleRoll,
           HandleRollInitiative, HandleUpdateEvent, HandleEditInitiative, HandleShareEvent,
           HandleDeleteEvent, HandleReroll, MakeEvent, EditEvent, Proceed, PostEvent, AddNew,
           PublishNext, Connect, Subscribe, LoseConnection, Reload, HandleEvents, MergePage,
           ReadUpdate
  <1>2. req \in [Tabs -> Request] /\ e \in Known /\ Idle.pc = "idle"
    BY DEF TypeOK, Known, Idle
  <1>3. \A k \in Held(t) : k.id = e.id => e.pID = PlayerOf[t]
    BY <1>2 DEF AuthorInv, Known
  <1>4. CASE DeleteEvent(t)
    <2>1. req[t].old.id = e.id /\ req[t].old \in Held(t)
      BY <1>4 DEF DeleteEvent, WithID, Held
    <2>2. req'[t].pc # req[t].pc
      BY <1>2, <1>4 DEF DeleteEvent
    <2> QED BY <1>3, <1>4, <2>1, <2>2 DEF DeleteEvent
  <1>5. CASE ReplaceEvent(t) \/ RemoveOld(t)
    <2>1. req[t].pc = "replace" /\ req[t].new.id = e.id /\ req[t].new \in Held(t)
      BY <1>5 DEF ReplaceEvent, RemoveOld, WithID, Held
    <2>2. req'[t].pc # req[t].pc
      BY <1>2, <1>5, <2>1 DEF ReplaceEvent, RemoveOld, Request, Idle
    <2> QED BY <1>3, <2>1, <2>2
  <1> QED BY <1>1, <1>4, <1>5

\* As long as no two events are made in one millisecond, events are deleted and
\* changed by their authors only: the check made when an event is read is as good
\* as one made when the command runs, pipelines served in pieces included.
THEOREM AuthorsOnly ==
    ASSUME "sameMillisecond" \notin Races
    PROVE  Spec => OnlyAuthorsChange
  <1>1. TypeOK /\ AuthorInv /\ [Next]_vars => [ChangedByAuthor]_vars
    BY AuthorsWrite
  <1> QED BY <1>1, InitAuthorInv, NextAuthorInv, TypeCorrect, InitTypeOK, NextTypeOK, PTL
          DEF Spec, OnlyAuthorsChange

-----------------------------------------------------------------------------
(* One event per ID.  An event about to be posted has an ID that neither   *)
(* the history nor any other request has.                                  *)

FreshID(t) ==
    req[t].pc \in {"post", "reroll"} =>
        /\ \A e \in history : e.id # req[t].new.id
        /\ \A u \in Tabs \ {t} : \A e \in Held(u) : e.id # req[t].new.id

UniqueInv ==
    /\ NoDuplicates
    /\ \A t \in Tabs : req[t].pc \notin {"add", "publish"}
    /\ \A t \in Tabs : FreshID(t)

LEMMA InitUniqueInv == Init => UniqueInv
  <1> SUFFICES ASSUME Init
               PROVE  UniqueInv
    OBVIOUS
  <1>1. NoDuplicates
    BY GameAssumption DEF Init, NoDuplicates
  <1>2. \A t \in Tabs : req[t].pc = "idle"
    BY DEF Init, Idle
  <1> QED BY <1>1, <1>2 DEF UniqueInv, FreshID

\* Reading changes no event, and holds one of the history or makes a fresh one.
LEMMA UniqueProceed ==
    ASSUME TypeOK, UniqueInv, NEW t \in Tabs, NEW r, Proceed(t, r),
           r.pc \notin {"add", "publish"},
           \A e \in Held(t)' : \/ \E k \in history : e.id = k.id
                              \/ \A k \in Known : e.id # k.id,
           r.pc \in {"post", "reroll"} => \A k \in Known : r.new.id # k.id
    PROVE  UniqueInv'
  <1>1. /\ history' = history /\ req'[t] = r
        /\ \A u \in Tabs : u # t => req'[u] = req[u] /\ Held(u)' = Held(u)
    BY DEF Proceed, TypeOK, Held
  <1>2. NoDuplicates'
    BY <1>1 DEF UniqueInv, NoDuplicates
  <1>3. FreshID(t)'
    BY <1>1 DEF FreshID, Known
  <1>4. ASSUME NEW u \in Tabs, u # t
        PROVE  FreshID(u)'
    <2> SUFFICES ASSUME req[u].pc \in {"post", "reroll"}
                 PROVE  /\ \A e \in history : e.id # req[u].new.id
                        /\ \A v \in Tabs \ {u} : \A e \in Held(v)' : e.id # req[u].new.id
      BY <1>1, <1>4 DEF FreshID
    <2>1. /\ \A e \in history : e.id # req[u].new.id
          /\ \A v \in Tabs \ {u} : \A e \in Held(v) : e.id # req[u].new.id
          /\ req[u].new \in Known
      BY DEF UniqueInv, FreshID, Known, Held
    <2>2. \A e \in Held(t)' : e.id # req[u].new.id
      BY <2>1
    <2> QED BY <1>1, <2>1, <2>2
  <1> QED BY <1>1, <1>2, <1>3, <1>4 DEF UniqueInv

LEMMA HandleUniqueInv ==
    ASSUME TypeOK, AuthorInv, UniqueInv, "sameMillisecond" \notin Races, NEW t \in Tabs, Handle(t)
    PROVE  UniqueInv'
  <1>0. /\ history \subseteq Event /\ req \in [Tabs -> Request]
        /\ \A s \in NewEventIDs : \A k \in Known : s # k.id
    <2>1. now \in Nat /\ \A k \in Known : k.id \in Nat /\ k.id <= now
      BY KnownType DEF TypeOK, Event, AuthorInv
    <2> QED BY <2>1 DEF TypeOK, NewEventIDs
  <1>1. ASSUME NEW r, Proceed(t, r)
        PROVE  req'[t] = r
    BY <1>0, <1>1 DEF Proceed
  <1>2. ASSUME NEW types, MakeEvent(t, types)
        PROVE  UniqueInv'
    <2>1. PICK s, new :
              s \in NewEventIDs /\ new.id = s /\ Proceed(t, [pc |-> "post", new |-> new])
      BY <1>2 DEF MakeEvent
    <2>2. Held(t)' = {new}
      BY <1>1, <2>1 DEF Held
    <2> QED BY <1>0, <2>1, <2>2, UniqueProceed
  <1>3. ASSUME NEW evt \in history, EditEvent(t, evt)
        PROVE  UniqueInv'
    <2>1. PICK title \in Titles :
              Proceed(t, [pc |-> "replace", new |-> [evt EXCEPT !.title = title],
                          packets |-> editPackets([evt EXCEPT !.title = title])])
      BY <1>3 DEF EditEvent
    <2>2. Held(t)' = {[evt EXCEPT !.title = title]}
      BY <1>1, <2>1 DEF Held
    <2>3. [evt EXCEPT !.title = title].id = evt.id
      BY <1>0 DEF Event
    <2> QED BY <2>1, <2>2, <2>3, UniqueProceed
  <1>4. CASE HandleShareEvent(t)
    <2>1. PICK evt \in history, share \in Shares :
              Proceed(t, [pc |-> "replace", new |-> [evt EXCEPT !.share = share],
                          packets |-> sharePacketsModifyingEvent(evt, share)])
      BY <1>4 DEF HandleShareEvent
    <2>2. Held(t)' = {[evt EXCEPT !.share = share]}
      BY <1>1, <2>1 DEF Held
    <2>3. [evt EXCEPT !.share = share].id = evt.id
      BY <1>0 DEF Event
    <2> QED BY <2>1, <2>2, <2>3, UniqueProceed
  <1>5. CASE HandleDeleteEvent(t)
    <2>1. PICK evt \in history : Proceed(t, [pc |-> "delete", old |-> evt])
      BY <1>5 DEF HandleDeleteEvent
    <2>2. Held(t)' = {evt}
      BY <1>1, <2>1 DEF Held
    <2> QED BY <2>1, <2>2, UniqueProceed
  <1>6. CASE HandleReroll(t)
    <2>1. PICK evt \in history, s \in NewEventIDs :
              Proceed(t, [pc |-> "reroll", old |-> evt,
                          new |-> [evt EXCEPT !.id = s, !.ty = "rerollFailures"]])
      BY <1>6 DEF HandleReroll
    <2> DEFINE new == [evt EXCEPT !.id = s, !.ty = "rerollFailures"]
    <2>2. Held(t)' = {evt, new}
      BY <1>1, <2>1 DEF Held
    <2>3. new.id = s
      BY <1>0 DEF Event
    <2> HIDE DEF new
    <2> QED BY <1>0, <2>1, <2>2, <2>3, UniqueProceed DEF new
  <1> QED BY <1>2, <1>3, <1>4, <1>5, <1>6 DEF Handle, HandleRoll, HandleRollInitiative,
             HandleUpdateEvent, HandleEditInitiative

\* A write that ends t's request, or leaves it a post, keeps what is fresh fresh.
LEMMA UniqueWrite ==
    ASSUME TypeOK, UniqueInv, NEW t \in Tabs, NEW r, req' = [req EXCEPT ![t] = r],
           NoDuplicates', r.pc \in {"idle", "post"},
           \A e \in history' : e \in history \/ e \in Held(t),
           r.pc = "post" => /\ req[t].pc = "reroll" /\ r.new = req[t].new
                            /\ history' \subseteq history
    PROVE  UniqueInv'
  <1>1. req'[t] = r /\ \A u \in Tabs : u # t => req'[u] = req[u] /\ Held(u)' = Held(u)
    BY DEF TypeOK, Held
  <1>2. Held(t)' \subseteq Held(t)
    BY <1>1 DEF Held
  <1>3. FreshID(t)'
    BY <1>1 DEF FreshID, UniqueInv
  <1>4. ASSUME NEW u \in Tabs, u # t
        PROVE  FreshID(u)'
    BY <1>1, <1>2, <1>4 DEF FreshID, UniqueInv
  <1> QED BY <1>1, <1>3, <1>4 DEF UniqueInv

LEMMA WriteUniqueInv ==
    ASSUME TypeOK, UniqueInv, "splitPipeline" \notin Races, NEW t \in Tabs, Write(t) \/ Abort(t)
    PROVE  UniqueInv'
  <1>0. Idle.pc = "idle" /\ NoDuplicates /\ FreshID(t)
    BY DEF Idle, UniqueInv
  <1>1. CASE PostEvent(t)
    <2>1. history' = history \cup {req[t].new} /\ req[t].new \in Held(t) /\ req[t].pc = "post"
      BY <1>1 DEF PostEvent, Held
    <2>2. NoDuplicates'
      BY <1>0, <2>1 DEF NoDuplicates, FreshID
    <2> QED BY <1>0, <1>1, <2>1, <2>2, UniqueWrite DEF PostEvent
  <1>2. CASE DeleteEvent(t)
    <2>1. history' \subseteq history
      BY <1>2 DEF DeleteEvent
    <2>2. NoDuplicates'
      BY <1>0, <2>1 DEF NoDuplicates
    <2> DEFINE r == IF req[t].pc = "delete" THEN Idle ELSE [pc |-> "post", new |-> req[t].new]
    <2>3. /\ req' = [req EXCEPT ![t] = r] /\ r.pc \in {"idle", "post"}
          /\ r.pc = "post" => req[t].pc = "reroll" /\ r.new = req[t].new
      BY <1>0, <1>2 DEF DeleteEvent
    <2> HIDE DEF r
    <2> QED BY <2>1, <2>2, <2>3, UniqueWrite
  <1>3. CASE ReplaceEvent(t)
    <2>1. /\ history' = (history \ WithID(history, req[t].new.id)) \cup {req[t].new}
          /\ req[t].new \in Held(t)
      BY <1>3 DEF ReplaceEvent, Held
    <2>2. NoDuplicates'
      BY <1>0, <2>1 DEF NoDuplicates, WithID
    <2> QED BY <1>0, <1>3, <2>1, <2>2, UniqueWrite DEF ReplaceEvent
  <1>4. CASE Abort(t)
    <2>1. NoDuplicates' /\ history' = history
      BY <1>0, <1>4 DEF Abort, NoDuplicates
    <2> QED BY <1>0, <1>4, <2>1, UniqueWrite DEF Abort
  <1> QED BY <1>1, <1>2, <1>3, <1>4 DEF Write, RemoveOld, AddNew, PublishNext, UniqueInv

LEMMA NextUniqueInv ==
    ASSUME "sameMillisecond" \notin Races, "splitPipeline" \notin Races
    PROVE  TypeOK /\ AuthorInv /\ UniqueInv /\ [Next]_vars => UniqueInv'
  <1> SUFFICES ASSUME TypeOK, AuthorInv, UniqueInv, [Next]_vars
               PROVE  UniqueInv'
    OBVIOUS
  <1>1. CASE UNCHANGED serverVars
    BY <1>1 DEF serverVars, UniqueInv, FreshID, NoDuplicates, Held
  <1>2. ASSUME NEW t \in Tabs, Tab(t)
        PROVE  UNCHANGED serverVars
    BY <1>2 DEF Tab, Connect, Subscribe, LoseConnection, Reload, HandleEvents, MergePage, ReadUpdate
  <1>3. CASE UNCHANGED vars
    BY <1>1, <1>3 DEF vars, serverVars
  <1> QED BY <1>1, <1>2, <1>3, HandleUniqueInv, WriteUniqueInv DEF Next

\* When Redis runs each pipeline in one piece and no two events are made in one
\* millisecond, the history never holds two events of one ID, whatever stale
\* copies the tabs of a player write back.
THEOREM OneEventPerID ==
    ASSUME "sameMillisecond" \notin Races, "splitPipeline" \notin Races
    PROVE  Spec => []NoDuplicates
  <1>1. UniqueInv => NoDuplicates
    BY DEF UniqueInv
  <1> QED BY <1>1, InitUniqueInv, NextUniqueInv, InitAuthorInv, NextAuthorInv, InitTypeOK,
             NextTypeOK, PTL DEF Spec

-----------------------------------------------------------------------------
(* Who is told.  A change is addressed by the event as it was read.  As    *)
(* long as its author has no other tab at work that event is still there   *)
(* when the change is written.                                             *)

\* Of a player's tabs at most one sends requests; any number may watch.
OneTabWrites == \A t, u \in Authors : PlayerOf[t] = PlayerOf[u] => t = u

\* The packet is about the event, and reaches only players who may see it before the
\* change or after it.
PacketToViewers(packet, before, after) ==
    /\ packet.update.id = before.id
    /\ \A p \in Players : Receives(p, HasGM(p), packet) =>
           \/ PlayerCanSeeEvent(p, HasGM(p), before)
           \/ PlayerCanSeeEvent(p, HasGM(p), after)

ToViewers(packets, before, after) ==
    \A j \in 1 .. Len(packets) : PacketToViewers(packets[j], before, after)

\* What a request is to change is in the history as it was read.
Fresh(t) ==
    /\ req[t].pc \in {"delete", "reroll"} => req[t].old \in history
    /\ req[t].pc = "replace" =>
         \E e \in history : /\ e.id = req[t].new.id /\ e.pID = PlayerOf[t]
                            /\ ToViewers(req[t].packets, e, req[t].new)

FreshInv == \A t \in Tabs : Fresh(t)

LEMMA UpdateIDs ==
    ASSUME NEW evt
    PROVE  /\ ForNewEvent(evt).id = evt.id
           /\ ForEventDelete(evt.id).id = evt.id
           /\ ForEventDiff(evt).id = evt.id
           /\ ForEventShare(evt).id = evt.id
  BY DEF ForNewEvent, ForEventDelete, ForEventDiff, ForEventShare

LEMMA SequencesToViewers ==
    ASSUME NEW a, NEW b, NEW c, NEW before, NEW after, PacketToViewers(a, before, after)
    PROVE  /\ ToViewers(<<a>>, before, after)
           /\ PacketToViewers(b, before, after) => ToViewers(<<a, b>>, before, after)
           /\ PacketToViewers(b, before, after) /\ PacketToViewers(c, before, after)
                => ToViewers(<<a, b, c>>, before, after)
  BY DEF ToViewers

\* The author's channel, the gamemasters' and the game's, for an event of which one form is
\* seen by those who listen.
LEMMA ChannelsToViewers ==
    ASSUME NEW before, NEW after, NEW u, u.id = before.id, before.pID \in Players,
           before.share \in Shares, after.share \in Shares, after.pID = before.pID
    PROVE  LET owner == before.pID IN
           /\ PacketToViewers(Packet(PlayerChannel(owner), {}, u), before, after)
           /\ "gms" \in {before.share, after.share} =>
                /\ PacketToViewers(Packet(GMsChannel, {owner}, u), before, after)
                /\ PacketToViewers(Packet(GMsChannel, {}, u), before, after)
           /\ "inGame" \in {before.share, after.share} =>
                \A c, f : PacketToViewers(Packet(c, f, u), before, after)
  <1> DEFINE owner == before.pID
  <1>1. \A c, f : Packet(c, f, u).update = u
    BY PacketUpdate
  <1>2. ASSUME NEW p \in Players
        PROVE  /\ Receives(p, HasGM(p), Packet(PlayerChannel(owner), {}, u)) => p = owner
               /\ Receives(p, HasGM(p), Packet(GMsChannel, {owner}, u)) => HasGM(p)
               /\ Receives(p, HasGM(p), Packet(GMsChannel, {}, u)) => HasGM(p)
    <2>1. HasGM(p) \in BOOLEAN
      BY HasGMBoolean
    <2>2. Receives(p, HasGM(p), Packet(GMsChannel, {}, u)) => HasGM(p)
      BY ChannelsDiffer, <1>2, <2>1 DEF Receives, Channels, Packet
    <2> QED BY <2>1, <2>2, PlayerReaches, GMsReaches
  <1>3. PlayerCanSeeEvent(owner, HasGM(owner), before)
    BY DEF PlayerCanSeeEvent, Shares
  <1>4. \A p \in Players :
          /\ "inGame" \in {before.share, after.share} =>
               \/ PlayerCanSeeEvent(p, HasGM(p), before)
               \/ PlayerCanSeeEvent(p, HasGM(p), after)
          /\ "gms" \in {before.share, after.share} /\ HasGM(p) =>
               \/ PlayerCanSeeEvent(p, HasGM(p), before)
               \/ PlayerCanSeeEvent(p, HasGM(p), after)
    BY DEF PlayerCanSeeEvent
  <1> QED BY <1>1, <1>2, <1>3, <1>4 DEF PacketToViewers

LEMMA CreateToViewers ==
    ASSUME NEW evt \in Event, NEW u, u.id = evt.id
    PROVE  ToViewers(createOrDeletePackets(evt, u), evt, evt)
  <1>1. evt.pID \in Players /\ evt.share \in Shares
    BY DEF Event
  <1>2. CASE evt.share = "inGame"
    <2>1. PacketToViewers(Packet(GameChannel, {}, u), evt, evt)
      BY <1>1, <1>2, ChannelsToViewers
    <2> QED BY <1>2, <2>1, SequencesToViewers DEF createOrDeletePackets
  <1>3. CASE evt.share = "private"
    <2>1. PacketToViewers(Packet(PlayerChannel(evt.pID), {}, u), evt, evt)
      BY <1>1, ChannelsToViewers
    <2> QED BY <1>3, <2>1, SequencesToViewers DEF createOrDeletePackets
  <1>4. CASE evt.share = "gms"
    <2>1. /\ PacketToViewers(Packet(PlayerChannel(evt.pID), {}, u), evt, evt)
          /\ PacketToViewers(Packet(GMsChannel, {evt.pID}, u), evt, evt)
      BY <1>1, <1>4, ChannelsToViewers
    <2> QED BY <1>4, <2>1, SequencesToViewers DEF createOrDeletePackets
  <1> QED BY <1>1, <1>2, <1>3, <1>4 DEF Shares

LEMMA EditToViewers ==
    ASSUME NEW evt \in Event, NEW edited \in Event,
           edited.id = evt.id, edited.pID = evt.pID, edited.share = evt.share
    PROVE  ToViewers(editPackets(edited), evt, edited)
  <1> DEFINE u == ForEventDiff(edited)
  <1>1. evt.pID \in Players /\ evt.share \in Shares /\ u.id = evt.id
    BY UpdateIDs DEF Event
  <1> HIDE DEF u
  <1>2. /\ PacketToViewers(Packet(PlayerChannel(evt.pID), {}, u), evt, edited)
        /\ evt.share = "gms" => PacketToViewers(Packet(GMsChannel, {}, u), evt, edited)
        /\ evt.share = "inGame" => PacketToViewers(Packet(GameChannel, {}, u), evt, edited)
    BY <1>1, ChannelsToViewers
  <1>3. PacketToViewers(Packet(UpdateChannel(evt.pID, evt.share), {}, u), evt, edited)
    BY <1>1, <1>2 DEF UpdateChannel, Shares
  <1> QED BY <1>3, SequencesToViewers DEF editPackets, u

LEMMA ShareToViewers ==
    ASSUME NEW evt \in Event, NEW newShare \in Shares, evt.share # newShare
    PROVE  LET shared == [evt EXCEPT !.share = newShare] IN
           ToViewers(sharePacketsModifyingEvent(evt, newShare), evt, shared)
  <1> DEFINE shared == [evt EXCEPT !.share = newShare]
             owner  == evt.pID
             modify == ForEventShare(shared)
             create == ForNewEvent(shared)
             delete == ForEventDelete(evt.id)
             Ok(packet) == PacketToViewers(packet, evt, shared)
  <1>1. /\ owner \in Players /\ evt.share \in Shares /\ shared.id = evt.id
        /\ shared.pID = owner /\ shared.share = newShare
    BY DEF Event
  <1>2. modify.id = evt.id /\ create.id = evt.id /\ delete.id = evt.id
    BY <1>1, UpdateIDs
  <1> HIDE DEF modify, create, delete, shared
  <1>3. ASSUME NEW u \in {modify, create, delete}
        PROVE  /\ Ok(Packet(PlayerChannel(owner), {}, u))
               /\ "gms" \in {evt.share, newShare} => Ok(Packet(GMsChannel, {owner}, u))
               /\ "inGame" \in {evt.share, newShare} => \A c, f : Ok(Packet(c, f, u))
    BY <1>1, <1>2, ChannelsToViewers
  <1> HIDE DEF Ok
  <1>4. ASSUME NEW a, NEW b, NEW c, Ok(a)
        PROVE  /\ Ok(b) => ToViewers(<<a, b>>, evt, shared)
               /\ Ok(b) /\ Ok(c) => ToViewers(<<a, b, c>>, evt, shared)
    BY <1>4, SequencesToViewers DEF Ok
  <1>5. CASE newShare = "private"
    <2>1. Ok(Packet(gameOrGMsChannel(evt.share), {owner}, delete))
      BY <1>1, <1>3, <1>5 DEF gameOrGMsChannel, Shares
    <2> QED BY <1>3, <1>4, <1>5, <2>1 DEF sharePacketsModifyingEvent, modify, delete, shared
  <1>6. CASE newShare # "private" /\ evt.share = "private"
    <2>1. Ok(Packet(gameOrGMsChannel(newShare), {owner}, create))
      BY <1>1, <1>3, <1>6 DEF gameOrGMsChannel, Shares
    <2> QED BY <1>3, <1>4, <1>6, <2>1 DEF sharePacketsModifyingEvent, modify, create, shared
  <1>7. CASE evt.share = "gms" /\ newShare = "inGame"
    BY <1>3, <1>4, <1>7 DEF sharePacketsModifyingEvent, modify, create, shared
  <1>8. CASE evt.share = "inGame" /\ newShare = "gms"
    BY <1>3, <1>4, <1>8 DEF sharePacketsModifyingEvent, modify, delete, shared
  <1> QED BY <1>1, <1>5, <1>6, <1>7, <1>8 DEF Shares

\* A player's events stay in the history as they are while a request of u does: only
\* their author could take them away, and u is the only tab of the author's to send requests.
LEMMA OwnEventsStay ==
    ASSUME TypeOK, AuthorInv, OneTabWrites, [Next]_vars,
           NEW u \in Tabs, req[u] # Idle, req'[u] = req[u],
           NEW e \in history, e.pID = PlayerOf[u]
    PROVE  e \in history'
  <1> SUFFICES ASSUME e \notin history'
               PROVE  FALSE
    OBVIOUS
  <1>1. ChangedByAuthor
    BY AuthorsWrite
  <1>2. PICK t \in Tabs : PlayerOf[t] = e.pID /\ req'[t] # req[t] /\ req[t] # Idle
    BY <1>1 DEF ChangedByAuthor, Idle
  <1>3. t \in Authors /\ u \in Authors
    BY <1>2 DEF AuthorInv
  <1> QED BY <1>2, <1>3 DEF OneTabWrites

\* So does the event a request of u is to change.
LEMMA StaysFresh ==
    ASSUME TypeOK, AuthorInv, OneTabWrites, [Next]_vars,
           NEW u \in Tabs, Fresh(u), req'[u] = req[u]
    PROVE  Fresh(u)'
  <1>0. req[u].pc # "idle" => req[u] # Idle
    BY DEF Idle
  <1>1. req[u].pc # "idle" => \A e \in history : e.pID = PlayerOf[u] => e \in history'
    BY <1>0, OwnEventsStay
  <1>2. ASSUME req[u].pc \in {"delete", "reroll"}
        PROVE  req[u].old \in history'
    <2>1. req[u].old \in Held(u)
      BY <1>2 DEF Held
    <2> QED BY <1>1, <1>2, <2>1 DEF Fresh, AuthorInv
  <1>3. ASSUME req[u].pc = "replace"
        PROVE  \E e \in history' : /\ e.id = req[u].new.id /\ e.pID = PlayerOf[u]
                                   /\ ToViewers(req[u].packets, e, req[u].new)
    BY <1>1, <1>3 DEF Fresh
  <1>4. \A packets, e, f : ToViewers(packets, e, f)' <=> ToViewers(packets, e, f)
    BY DEF ToViewers, PacketToViewers
  <1>5. /\ req'[u].pc \in {"delete", "reroll"} => req'[u].old \in history'
        /\ req'[u].pc = "replace" =>
             \E e \in history' : /\ e.id = req'[u].new.id /\ e.pID = PlayerOf[u]
                                 /\ ToViewers(req'[u].packets, e, req'[u].new)
    BY <1>2, <1>3
  <1> QED BY <1>5 DEF Fresh, ToViewers, PacketToViewers

\* A request of t that is fresh when made; those of the other tabs stay so.
LEMMA FreshRequest ==
    ASSUME TypeOK, AuthorInv, OneTabWrites, FreshInv, [Next]_vars, NEW t \in Tabs,
           \A u \in Tabs \ {t} : req'[u] = req[u], Fresh(t)'
    PROVE  FreshInv'
  <1>1. \A u \in Tabs \ {t} : Fresh(u)'
    BY StaysFresh DEF FreshInv
  <1> QED BY <1>1 DEF FreshInv

LEMMA HandleFreshInv ==
    ASSUME TypeOK, AuthorInv, OneTabWrites, FreshInv, [Next]_vars, NEW t \in Tabs, Handle(t)
    PROVE  FreshInv'
  <1>0. history \subseteq Event /\ req \in [Tabs -> Request]
    BY DEF TypeOK
  <1>1. ASSUME NEW r, Proceed(t, r),
               r.pc \in {"delete", "reroll"} => r.old \in history,
               r.pc = "replace" =>
                 \E e \in history : /\ e.id = r.new.id /\ e.pID = PlayerOf[t]
                                    /\ ToViewers(r.packets, e, r.new)
        PROVE  FreshInv'
    <2>1. /\ req'[t] = r /\ history' = history
          /\ \A u \in Tabs \ {t} : req'[u] = req[u]
      BY <1>0, <1>1 DEF Proceed
    <2>2. Fresh(t)'
      BY <1>1, <2>1 DEF Fresh, ToViewers, PacketToViewers
    <2> QED BY <2>1, <2>2, FreshRequest
  <1>2. ASSUME NEW types, MakeEvent(t, types)
        PROVE  FreshInv'
    <2>1. PICK new : Proceed(t, [pc |-> "post", new |-> new])
      BY <1>2 DEF MakeEvent
    <2> QED BY <1>1, <2>1
  <1>3. ASSUME NEW evt \in history, evt.pID = PlayerOf[t], EditEvent(t, evt)
        PROVE  FreshInv'
    <2>1. PICK title \in Titles :
              Proceed(t, [pc |-> "replace", new |-> [evt EXCEPT !.title = title],
                          packets |-> editPackets([evt EXCEPT !.title = title])])
      BY <1>3 DEF EditEvent
    <2> DEFINE edited == [evt EXCEPT !.title = title]
    <2>2. edited \in Event /\ edited.id = evt.id /\ edited.pID = evt.pID /\ edited.share = evt.share
      BY <1>0 DEF Event
    <2> HIDE DEF edited
    <2>3. ToViewers(editPackets(edited), evt, edited)
      BY <1>0, <2>2, EditToViewers
    <2>4. Proceed(t, [pc |-> "replace", new |-> edited, packets |-> editPackets(edited)])
      BY <2>1 DEF edited
    <2> QED BY <1>1, <1>3, <2>2, <2>3, <2>4
  <1>4. CASE HandleShareEvent(t)
    <2>1. PICK evt \in history, share \in Shares :
              /\ evt.pID = PlayerOf[t] /\ evt.share # share
              /\ Proceed(t, [pc |-> "replace", new |-> [evt EXCEPT !.share = share],
                             packets |-> sharePacketsModifyingEvent(evt, share)])
      BY <1>4 DEF HandleShareEvent, Changeable
    <2> DEFINE shared == [evt EXCEPT !.share = share]
               packets == sharePacketsModifyingEvent(evt, share)
    <2>2. shared.id = evt.id
      BY <1>0 DEF Event
    <2>3. ToViewers(packets, evt, shared)
      BY <1>0, <2>1, ShareToViewers
    <2>4. Proceed(t, [pc |-> "replace", new |-> shared, packets |-> packets])
      BY <2>1
    <2> HIDE DEF shared, packets
    <2> QED BY <1>1, <2>1, <2>2, <2>3, <2>4
  <1>5. CASE HandleDeleteEvent(t)
    <2>1. PICK evt \in history : Proceed(t, [pc |-> "delete", old |-> evt])
      BY <1>5 DEF HandleDeleteEvent
    <2> QED BY <1>1, <2>1
  <1>6. CASE HandleReroll(t)
    <2>1. PICK evt \in history : \E new : Proceed(t, [pc |-> "reroll", old |-> evt, new |-> new])
      BY <1>6 DEF HandleReroll
    <2> QED BY <1>1, <2>1
  <1> QED BY <1>2, <1>3, <1>4, <1>5, <1>6 DEF Handle, HandleRoll, HandleRollInitiative,
             HandleUpdateEvent, HandleEditInitiative, Changeable

LEMMA WriteFreshInv ==
    ASSUME TypeOK, AuthorInv, UniqueInv, OneTabWrites, FreshInv, [Next]_vars,
           NEW t \in Tabs, Write(t) \/ Abort(t), "splitPipeline" \notin Races
    PROVE  FreshInv'
  <1>1. PICK r : req' = [req EXCEPT ![t] = r] /\ r.pc \in {"idle", "post"}
    <2>1. Idle.pc = "idle"
      BY DEF Idle
    <2>2. ~RemoveOld(t) /\ ~AddNew(t) /\ ~PublishNext(t)
      BY DEF RemoveOld, AddNew, PublishNext, UniqueInv
    <2> QED BY <2>1, <2>2 DEF Write, PostEvent, DeleteEvent, ReplaceEvent, Abort
  <1>2. req'[t] = r /\ \A u \in Tabs \ {t} : req'[u] = req[u]
    BY <1>1 DEF TypeOK
  <1>3. Fresh(t)'
    BY <1>1, <1>2 DEF Fresh
  <1> QED BY <1>2, <1>3, FreshRequest

LEMMA InitFreshInv == Init => FreshInv
  BY DEF Init, FreshInv, Fresh, Idle

LEMMA NextFreshInv ==
    ASSUME OneTabWrites, "splitPipeline" \notin Races
    PROVE  TypeOK /\ AuthorInv /\ UniqueInv /\ FreshInv /\ [Next]_vars => FreshInv'
  <1> SUFFICES ASSUME TypeOK, AuthorInv, UniqueInv, FreshInv, [Next]_vars
               PROVE  FreshInv'
    OBVIOUS
  <1>1. CASE UNCHANGED serverVars
    BY <1>1, StaysFresh DEF serverVars, FreshInv
  <1>2. ASSUME NEW t \in Tabs, Tab(t)
        PROVE  UNCHANGED serverVars
    BY <1>2 DEF Tab, Connect, Subscribe, LoseConnection, Reload, HandleEvents, MergePage, ReadUpdate
  <1>3. CASE UNCHANGED vars
    BY <1>1, <1>3 DEF vars, serverVars
  <1> QED BY <1>1, <1>2, <1>3, HandleFreshInv, WriteFreshInv DEF Next

ViewersTold ==
    \A t \in Tabs : \A i \in Len(mail[t]) + 1 .. Len(mail'[t]) :
        \E e \in history \cup history' :
            /\ e.id = mail'[t][i].id
            /\ PlayerCanSeeEvent(PlayerOf[t], IsGM(t), e)

\* Publishing packets for viewers tells viewers.
LEMMA PublishedToViewers ==
    ASSUME TypeOK, NEW packets \in Seq(PacketOf(Update)), mail' = Published(packets),
           NEW before \in history \cup history', NEW after \in history \cup history',
           before.id = after.id, ToViewers(packets, before, after)
    PROVE  ViewersTold
  <1> SUFFICES ASSUME NEW t \in Tabs, NEW i \in Len(mail[t]) + 1 .. Len(mail'[t])
               PROVE  \E e \in history \cup history' :
                          /\ e.id = mail'[t][i].id
                          /\ PlayerCanSeeEvent(PlayerOf[t], IsGM(t), e)
    BY DEF ViewersTold
  <1> DEFINE new == Arrivals(PlayerOf[t], IsGM(t), packets)
  <1>1. PlayerOf[t] \in Players /\ mail[t] \in Seq(Update)
    BY GameAssumption DEF TypeOK
  <1>2. /\ new \in Seq(Update)
        /\ \A k \in 1 .. Len(new) : \E j \in 1 .. Len(packets) :
               Receives(PlayerOf[t], IsGM(t), packets[j]) /\ new[k] = packets[j].update
    BY ArrivalsType
  <1>3. mail'[t] = IF stream[t] = "open" THEN mail[t] \o new ELSE mail[t]
    BY DEF Published
  <1> HIDE DEF new
  <1>4. i - Len(mail[t]) \in 1 .. Len(new) /\ mail'[t][i] = new[i - Len(mail[t])]
    BY <1>1, <1>2, <1>3
  <1>5. PICK j \in 1 .. Len(packets) :
            Receives(PlayerOf[t], IsGM(t), packets[j]) /\ mail'[t][i] = packets[j].update
    BY <1>2, <1>4
  <1>6. PacketToViewers(packets[j], before, after)
    BY DEF ToViewers
  <1> QED BY <1>1, <1>5, <1>6 DEF PacketToViewers, IsGM

LEMMA NextTellsViewers ==
    ASSUME TypeOK, UniqueInv, FreshInv, Next
    PROVE  ViewersTold
  <1> PICK t \in Tabs : Handle(t) \/ Write(t) \/ Abort(t) \/ Tab(t)
    BY DEF Next
  <1> DEFINE r == req[t]
  <1>0. r \in Request /\ history \subseteq Event /\ Fresh(t)
    BY DEF TypeOK, FreshInv
  <1>1. CASE PostEvent(t)
    <2>1. r.new \in Event
      BY <1>0, <1>1, RequestFields DEF PostEvent
    <2> DEFINE u == ForNewEvent(r.new)
               packets == createOrDeletePackets(r.new, u)
    <2>2. packets \in Seq(PacketOf(Update)) /\ ToViewers(packets, r.new, r.new)
      BY <2>1, CreatePacketsType, UpdateTypes, UpdateIDs, CreateToViewers
    <2>3. r.new \in history' /\ mail' = Published(packets)
      BY <1>1 DEF PostEvent
    <2> HIDE DEF packets
    <2> QED BY <2>2, <2>3, PublishedToViewers
  <1>2. CASE DeleteEvent(t)
    <2>1. r.old \in history /\ r.old \in Event
      BY <1>0, <1>2 DEF DeleteEvent, Fresh
    <2> DEFINE u == ForEventDelete(r.old.id)
               packets == createOrDeletePackets(r.old, u)
    <2>2. packets \in Seq(PacketOf(Update)) /\ ToViewers(packets, r.old, r.old)
      BY <2>1, CreatePacketsType, UpdateTypes, UpdateIDs, CreateToViewers
    <2>3. mail' = Published(packets)
      BY <1>2 DEF DeleteEvent
    <2> HIDE DEF packets
    <2> QED BY <2>1, <2>2, <2>3, PublishedToViewers
  <1>3. CASE ReplaceEvent(t)
    <2>1. r.packets \in Seq(PacketOf(Update))
      BY <1>0, <1>3, RequestFields DEF ReplaceEvent
    <2>2. PICK e \in history : e.id = r.new.id /\ ToViewers(r.packets, e, r.new)
      BY <1>0, <1>3 DEF ReplaceEvent, Fresh
    <2>3. r.new \in history' /\ mail' = Published(r.packets)
      BY <1>3 DEF ReplaceEvent
    <2> QED BY <2>1, <2>2, <2>3, PublishedToViewers
  <1>4. ~AddNew(t) /\ ~PublishNext(t)
    BY DEF AddNew, PublishNext, UniqueInv
  <1>5. CASE \A v \in Tabs : Len(mail'[v]) <= Len(mail[v])
    <2>1. \A v \in Tabs : Len(mail[v]) \in Nat /\ Len(mail'[v]) \in Nat
      <3>1. mail' \in [Tabs -> Seq(Update)]
        BY NextTypeOK DEF TypeOK
      <3> QED BY <3>1 DEF TypeOK
    <2> QED BY <1>5, <2>1 DEF ViewersTold
  <1>6. ASSUME mail' = mail
        PROVE  \A v \in Tabs : Len(mail'[v]) <= Len(mail[v])
    BY <1>6 DEF TypeOK
  <1>7. CASE Handle(t) \/ RemoveOld(t) \/ Abort(t)
    <2>1. mail' = mail
      BY <1>7 DEF Handle, RemoveOld, Abort, HandleRoll, HandleRollInitiative,
         HandleUpdateEvent, HandleEditInitiative, HandleShareEvent, HandleDeleteEvent,
         HandleReroll, MakeEvent, EditEvent, Proceed
    <2> QED BY <1>5, <1>6, <2>1
  <1>8. CASE Tab(t)
    <2>1. \A v \in Tabs : Len(mail'[v]) <= Len(mail[v])
      <3>1. ASSUME NEW s \in {<<>>, Tail(mail[t])}, mail' = [mail EXCEPT ![t] = s],
                   mail[t] # <<>> \/ s = <<>>
            PROVE  \A v \in Tabs : Len(mail'[v]) <= Len(mail[v])
        <4>1. Len(s) <= Len(mail[t])
          BY <3>1 DEF TypeOK
        <4>2. \A v \in Tabs : mail'[v] = IF v = t THEN s ELSE mail[v]
          BY <3>1 DEF TypeOK
        <4>3. \A v \in Tabs : Len(mail[v]) \in Nat
          BY DEF TypeOK
        <4> QED BY <4>1, <4>2, <4>3
      <3>2. mail' = mail \/ \E s \in {<<>>, Tail(mail[t])} :
                mail' = [mail EXCEPT ![t] = s] /\ (mail[t] # <<>> \/ s = <<>>)
        BY <1>8 DEF Tab, Connect, Subscribe, LoseConnection, Reload, HandleEvents, MergePage,
           ReadUpdate
      <3> QED BY <1>6, <3>1, <3>2
    <2> QED BY <1>5, <2>1
  <1> QED BY <1>1, <1>2, <1>3, <1>4, <1>7, <1>8 DEF Write

\* When each player has one tab at work, pipelines run in one piece and no two
\* events are made in one millisecond, an update never reaches a player who could
\* see its event neither before nor after: the event as a request read it, by which
\* its packets are addressed, is still the one in the history when they are sent.
THEOREM ViewersOnly ==
    ASSUME OneTabWrites, "sameMillisecond" \notin Races, "splitPipeline" \notin Races
    PROVE  Spec => OnlyViewersAreTold
  <1>1. TypeOK /\ UniqueInv /\ FreshInv /\ [Next]_vars => [ViewersTold]_vars
    BY NextTellsViewers
  <1> QED BY <1>1, InitFreshInv, NextFreshInv, InitUniqueInv, NextUniqueInv, InitAuthorInv,
             NextAuthorInv, InitTypeOK, NextTypeOK, PTL
          DEF Spec, OnlyViewersAreTold, ViewersTold

-----------------------------------------------------------------------------
(* One event at a time.  What a request writes is one change of the        *)
(* history as it then is, unless another tab of its player came between.   *)

CurrentInv == \A t \in Tabs : Current(t)

LEMMA StaysWithEvents ==
    ASSUME AuthorInv, NEW u \in Tabs, Current(u), req'[u] = req[u],
           req[u].pc # "idle" => \A e \in history : e.pID = PlayerOf[u] => e \in history'
    PROVE  Current(u)'
  <1>1. ASSUME req[u].pc \in {"delete", "reroll"}
        PROVE  req[u].old \in history' /\ req[u].old.ty # "playerJoin"
    <2>1. req[u].old \in Held(u)
      BY <1>1 DEF Held
    <2> QED BY <1>1, <2>1 DEF Current, AuthorInv
  <1>2. ASSUME req[u].pc = "replace"
        PROVE  \E e \in history' : /\ e.pID = PlayerOf[u] /\ e.ty # "playerJoin"
                                   /\ Changed(e, req[u].new)
    BY <1>2 DEF Current
  <1> QED BY <1>1, <1>2 DEF Current, Changed

LEMMA StaysOrOutdated ==
    ASSUME TypeOK, AuthorInv, [Next]_vars, NEW u \in Tabs, Current(u), req'[u] = req[u]
    PROVE  Current(u)' \/ Outdated(u)
  <1> SUFFICES ASSUME ~Outdated(u)
               PROVE  Current(u)'
    OBVIOUS
  <1>1. ASSUME NEW e \in history, e.pID = PlayerOf[u], e \notin history'
        PROVE  FALSE
    <2>1. ChangedByAuthor
      BY AuthorsWrite
    <2>2. PICK t \in Tabs : PlayerOf[t] = e.pID /\ req'[t] # req[t]
      BY <1>1, <2>1 DEF ChangedByAuthor
    <2> QED BY <1>1, <2>2 DEF Outdated
  <1> QED BY <1>1, StaysWithEvents

LEMMA StaysCurrent ==
    ASSUME TypeOK, AuthorInv, OneTabWrites, [Next]_vars,
           NEW u \in Tabs, Current(u), req'[u] = req[u]
    PROVE  Current(u)'
  <1>1. req[u].pc # "idle" => req[u] # Idle
    BY DEF Idle
  <1>2. req[u].pc # "idle" => \A e \in history : e.pID = PlayerOf[u] => e \in history'
    BY <1>1, OwnEventsStay
  <1> QED BY <1>2, StaysWithEvents

LEMMA CurrentRequest ==
    ASSUME TypeOK, AuthorInv, OneTabWrites, CurrentInv, [Next]_vars, NEW t \in Tabs,
           \A u \in Tabs \ {t} : req'[u] = req[u], Current(t)'
    PROVE  CurrentInv'
  <1>1. \A u \in Tabs \ {t} : Current(u)'
    BY StaysCurrent DEF CurrentInv
  <1> QED BY <1>1 DEF CurrentInv

\* What a handler goes on with is in the history as it read it.
LEMMA HandleCurrent ==
    ASSUME TypeOK, NEW t \in Tabs, Handle(t)
    PROVE  Current(t)' /\ \A u \in Tabs \ {t} : req'[u] = req[u]
  <1> DEFINE Goal == Current(t)' /\ \A u \in Tabs \ {t} : req'[u] = req[u]
  <1>0. history \subseteq Event /\ req \in [Tabs -> Request]
    BY DEF TypeOK
  <1>1. ASSUME NEW r, Proceed(t, r),
               r.pc \in {"delete", "reroll"} => r.old \in history /\ r.old.ty # "playerJoin",
               r.pc = "replace" =>
                 \E e \in history : /\ e.pID = PlayerOf[t] /\ e.ty # "playerJoin"
                                    /\ Changed(e, r.new)
        PROVE  Goal
    <2>1. /\ req'[t] = r /\ history' = history
          /\ \A u \in Tabs \ {t} : req'[u] = req[u]
      BY <1>0, <1>1 DEF Proceed
    <2>2. Current(t)'
      BY <1>1, <2>1 DEF Current, Changed
    <2> QED BY <2>1, <2>2
  <1>2. ASSUME NEW types, MakeEvent(t, types)
        PROVE  Goal
    <2>1. PICK new : Proceed(t, [pc |-> "post", new |-> new])
      BY <1>2 DEF MakeEvent
    <2> QED BY <1>1, <2>1
  <1>3. ASSUME NEW evt \in history, evt.pID = PlayerOf[t], evt.ty # "playerJoin",
               EditEvent(t, evt)
        PROVE  Goal
    <2>1. PICK title \in Titles :
              Proceed(t, [pc |-> "replace", new |-> [evt EXCEPT !.title = title],
                          packets |-> editPackets([evt EXCEPT !.title = title])])
      BY <1>3 DEF EditEvent
    <2> DEFINE edited == [evt EXCEPT !.title = title]
               packets == editPackets(edited)
    <2>2. Changed(evt, edited)
      BY <1>0 DEF Event, Changed
    <2>3. Proceed(t, [pc |-> "replace", new |-> edited, packets |-> packets])
      BY <2>1
    <2> HIDE DEF edited, packets
    <2> QED BY <1>1, <1>3, <2>2, <2>3
  <1>4. CASE HandleShareEvent(t)
    <2>1. PICK evt \in history, share \in Shares :
              /\ evt.pID = PlayerOf[t] /\ evt.ty # "playerJoin"
              /\ Proceed(t, [pc |-> "replace", new |-> [evt EXCEPT !.share = share],
                             packets |-> sharePacketsModifyingEvent(evt, share)])
      BY <1>4 DEF HandleShareEvent, Changeable
    <2> DEFINE shared == [evt EXCEPT !.share = share]
               packets == sharePacketsModifyingEvent(evt, share)
    <2>2. Changed(evt, shared)
      BY <1>0 DEF Event, Changed
    <2>3. Proceed(t, [pc |-> "replace", new |-> shared, packets |-> packets])
      BY <2>1
    <2> HIDE DEF shared, packets
    <2> QED BY <1>1, <2>1, <2>2, <2>3
  <1>5. CASE HandleDeleteEvent(t)
    <2>1. PICK evt \in history :
              evt.ty # "playerJoin" /\ Proceed(t, [pc |-> "delete", old |-> evt])
      BY <1>5 DEF HandleDeleteEvent, Changeable
    <2> QED BY <1>1, <2>1
  <1>6. CASE HandleReroll(t)
    <2>1. PICK evt \in history :
              evt.ty = "roll" /\ \E new : Proceed(t, [pc |-> "reroll", old |-> evt, new |-> new])
      BY <1>6 DEF HandleReroll
    <2> QED BY <1>1, <2>1
  <1> QED BY <1>2, <1>3, <1>4, <1>5, <1>6 DEF Handle, HandleRoll, HandleRollInitiative,
             HandleUpdateEvent, HandleEditInitiative, Changeable

LEMMA WriteCurrent ==
    ASSUME TypeOK, UniqueInv, NEW t \in Tabs, Write(t) \/ Abort(t), "splitPipeline" \notin Races
    PROVE  Current(t)' /\ \A u \in Tabs \ {t} : req'[u] = req[u]
  <1>1. PICK r : req' = [req EXCEPT ![t] = r] /\ r.pc \in {"idle", "post"}
    <2>1. Idle.pc = "idle"
      BY DEF Idle
    <2>2. ~RemoveOld(t) /\ ~AddNew(t) /\ ~PublishNext(t)
      BY DEF RemoveOld, AddNew, PublishNext, UniqueInv
    <2> QED BY <2>1, <2>2 DEF Write, PostEvent, DeleteEvent, ReplaceEvent, Abort
  <1>2. req'[t] = r /\ \A u \in Tabs \ {t} : req'[u] = req[u]
    BY <1>1 DEF TypeOK
  <1>3. Current(t)'
    BY <1>1, <1>2 DEF Current
  <1> QED BY <1>2, <1>3

LEMMA NextCurrentInv ==
    ASSUME OneTabWrites, "splitPipeline" \notin Races
    PROVE  TypeOK /\ AuthorInv /\ UniqueInv /\ CurrentInv /\ [Next]_vars => CurrentInv'
  <1> SUFFICES ASSUME TypeOK, AuthorInv, UniqueInv, CurrentInv, [Next]_vars
               PROVE  CurrentInv'
    OBVIOUS
  <1>1. CASE UNCHANGED serverVars
    BY <1>1, StaysCurrent DEF serverVars, CurrentInv
  <1>2. ASSUME NEW t \in Tabs, Tab(t)
        PROVE  UNCHANGED serverVars
    BY <1>2 DEF Tab, Connect, Subscribe, LoseConnection, Reload, HandleEvents, MergePage, ReadUpdate
  <1>3. CASE UNCHANGED vars
    BY <1>1, <1>3 DEF vars, serverVars
  <1> QED BY <1>1, <1>2, <1>3, HandleCurrent, WriteCurrent, CurrentRequest DEF Next

\* Nobody's screen changes where nobody looks.
LEMMA BecomeUnseen ==
    ASSUME NEW events, history' = events
    PROVE  Unseen!Become(events)
  BY DEF Unseen!Become

LEMMA ChangeMaps ==
    ASSUME NEW p, NEW e \in history, e \in Event, e.pID = p, e.ty # "playerJoin",
           NEW f \in Event, Changed(e, f), history' = (history \ {e}) \cup {f}
    PROVE  Unseen!Change(p)
  <1>1. PICK share \in Shares, title \in Titles : share = f.share /\ title = f.title
    BY DEF Event
  <1>2. f = [e EXCEPT !.share = share, !.title = title]
    BY <1>1 DEF Event, Changed
  <1>3. Unseen!Become((history \ {e}) \cup {[e EXCEPT !.share = share, !.title = title]})
    BY <1>2, BecomeUnseen
  <1>4. share = e.share \/ title = e.title
    BY <1>1 DEF Changed
  <1>5. Unseen!Own(p, e) /\ share \in Unseen!Shares
    BY DEF Unseen!Own, Unseen!Shares, Shares
  <1> QED BY <1>3, <1>4, <1>5, Zenon DEF Unseen!Change

LEMMA WriteMaps ==
    ASSUME TypeOK, AuthorInv, UniqueInv, "splitPipeline" \notin Races,
           NEW t \in Tabs, Write(t), Current(t)
    PROVE  Unseen!Next
  <1> DEFINE p == PlayerOf[t]
             r == req[t]
  <1>0. /\ r \in Request /\ history \subseteq Event /\ Current(t) /\ FreshID(t)
        /\ p \in Players /\ NoDuplicates
    BY GameAssumption DEF TypeOK, UniqueInv
  <1>1. CASE PostEvent(t)
    <2>1. r.new \in Held(t) /\ r.new.pID = p
      BY <1>1 DEF PostEvent, Held, AuthorInv
    <2>2. \A e \in history : e.id # r.new.id
      BY <1>0, <1>1 DEF PostEvent, FreshID
    <2>3. history' = history \cup {r.new} /\ r.new \in history' \ history
      BY <1>1, <2>2 DEF PostEvent
    <2>4. Unseen!Become(history \cup {r.new})
      BY <2>3, BecomeUnseen
    <2>5. Unseen!Post(p)
      BY <2>1, <2>2, <2>3, <2>4 DEF Unseen!Post
    <2> QED BY <1>0, <2>5 DEF Unseen!Next
  <1>2. CASE DeleteEvent(t)
    <2>1. r.old \in history /\ r.old.ty # "playerJoin" /\ r.old.pID = p
      BY <1>0, <1>2 DEF DeleteEvent, Current, Held, AuthorInv
    <2>2. WithID(history, r.old.id) = {r.old}
      BY <1>0, <2>1 DEF WithID, NoDuplicates
    <2>3. Unseen!Become(history \ {r.old})
      BY <1>2, <2>2, BecomeUnseen DEF DeleteEvent
    <2>4. Unseen!Delete(p)
      BY <2>1, <2>3 DEF Unseen!Delete, Unseen!Own
    <2> QED BY <1>0, <2>4 DEF Unseen!Next
  <1>3. CASE ReplaceEvent(t)
    <2>1. PICK e \in history : e.pID = p /\ e.ty # "playerJoin" /\ Changed(e, r.new)
      BY <1>0, <1>3 DEF ReplaceEvent, Current
    <2>2. r.new \in Event /\ e \in Event
      BY <1>0, <1>3, RequestFields DEF ReplaceEvent
    <2>3. WithID(history, r.new.id) = {e}
      BY <1>0, <2>1 DEF WithID, NoDuplicates, Changed
    <2>4. history' = (history \ {e}) \cup {r.new}
      BY <1>3, <2>3 DEF ReplaceEvent
    <2>5. Unseen!Change(p)
      BY <2>1, <2>2, <2>4, ChangeMaps
    <2> QED BY <1>0, <2>5 DEF Unseen!Next
  <1>4. ~RemoveOld(t) /\ ~AddNew(t) /\ ~PublishNext(t)
    BY DEF RemoveOld, AddNew, PublishNext, UniqueInv
  <1> QED BY <1>1, <1>2, <1>3, <1>4 DEF Write

\* A write ends its request, or turns a reroll into the post that follows.
LEMMA WriteMoves ==
    ASSUME TypeOK, UniqueInv, "splitPipeline" \notin Races, NEW t \in Tabs, Write(t)
    PROVE  req'[t] # req[t]
  <1>1. Idle.pc = "idle"
    BY DEF Idle
  <1>2. ~RemoveOld(t) /\ ~AddNew(t) /\ ~PublishNext(t)
    BY DEF RemoveOld, AddNew, PublishNext, UniqueInv
  <1>3. CASE PostEvent(t)
    BY <1>1, <1>3 DEF PostEvent, TypeOK
  <1>4. CASE DeleteEvent(t)
    BY <1>1, <1>4 DEF DeleteEvent, TypeOK
  <1>5. CASE ReplaceEvent(t)
    BY <1>1, <1>5 DEF ReplaceEvent, TypeOK
  <1> QED BY <1>2, <1>3, <1>4, <1>5 DEF Write

Collides ==
    /\ history' = history \/ OneChange
    /\ \A t \in Tabs : Current(t) => Current(t)' \/ Outdated(t)

LEMMA NextCollides ==
    ASSUME TypeOK, AuthorInv, UniqueInv, "splitPipeline" \notin Races, [Next]_vars
    PROVE  Collides
  <1>1. ASSUME NEW t \in Tabs, Handle(t) \/ Abort(t) \/ Tab(t)
        PROVE  history' = history
    BY <1>1 DEF Abort, Handle, HandleRoll, HandleRollInitiative, HandleUpdateEvent,
       HandleEditInitiative, HandleShareEvent, HandleDeleteEvent, HandleReroll, MakeEvent, EditEvent,
       Proceed, Tab, Connect, Subscribe, LoseConnection, Reload, HandleEvents, MergePage, ReadUpdate,
       serverVars
  <1>2. ASSUME NEW t \in Tabs, Write(t)
        PROVE  OneChange
    BY <1>2, WriteMaps, WriteMoves DEF OneChange
  <1>3. history' = history \/ OneChange
    BY <1>1, <1>2 DEF Next, vars
  <1>4. ASSUME NEW u \in Tabs, Current(u)
        PROVE  Current(u)' \/ Outdated(u)
    <2>1. CASE req'[u] = req[u]
      BY <1>4, <2>1, StaysOrOutdated
    <2>2. CASE req'[u] # req[u]
      <3>1. ~UNCHANGED req
        BY <2>2
      <3>2. PICK t \in Tabs : Handle(t) \/ Write(t) \/ Abort(t)
        BY <3>1 DEF Next, vars, Tab, Connect, Subscribe, LoseConnection, Reload, HandleEvents,
           MergePage, ReadUpdate, serverVars
      <3>3. Current(t)' /\ \A v \in Tabs \ {t} : req'[v] = req[v]
        BY <3>2, HandleCurrent, WriteCurrent
      <3> QED BY <2>2, <3>3
    <2> QED BY <2>1, <2>2
  <1> QED BY <1>3, <1>4 DEF Collides

\* However many tabs a player has and whoever else writes: when pipelines run in one piece
\* and no two events are made in one millisecond, each write of a request is one change of
\* the history as it is when it is written, as long as no other tab of the player has
\* changed what the request read, and nobody but such a tab can (routes/game.go,
\* game/eventManager.go).
THEOREM OwnTabsAlone ==
    ASSUME "sameMillisecond" \notin Races, "splitPipeline" \notin Races
    PROVE  Spec => OnlyOwnTabsCollide
  <1>1. TypeOK /\ AuthorInv /\ UniqueInv /\ [Next]_vars => [Collides]_vars
    BY NextCollides
  <1> QED BY <1>1, InitUniqueInv, NextUniqueInv, InitAuthorInv, NextAuthorInv, InitTypeOK,
             NextTypeOK, PTL
          DEF Spec, OnlyOwnTabsCollide, Collides
=============================================================================
