------------------------------ MODULE EventSharing ------------------------------
(***************************************************************************)
(* Who sees an event, and how an update about it is addressed.             *)
(*                                                                         *)
(* The server keeps three kinds of Redis channel for a game: one for the   *)
(* game, one per player and one for its GMs.  A change to an event is      *)
(* published as a sequence of packets, each on one channel with a filter   *)
(* of recipients to skip, so that every connected player hears of the      *)
(* change once, in the form it has for that player.  The module has no     *)
(* state: it gives the rules of server/game/eventShare.go, the updates of  *)
(* server/update, and the recipient's side of them (server/game/           *)
(* subscribe.go and shouldSendUpdate).                                     *)
(*                                                                         *)
(* An event is a record [id, ty, pID, share, title].  `title` stands for   *)
(* every field a player may edit (title, glitchy, base, seized); dice and  *)
(* names never change after posting and are left out, and so is the edit   *)
(* time, which nothing reads but the event's tooltip.                      *)
(***************************************************************************)
EXTENDS Naturals, Sequences

CONSTANTS Players,      \* the IDs of the players of the game
          Titles        \* the values an event's editable fields can take

\* A player ID is a generated UID: never the word that names the GMs.
ASSUME PlayersAssumption == "gms" \notin Players

Shares == {"inGame", "private", "gms"}

EventTypes == {"roll", "edgeRoll", "rerollFailures", "initiativeRoll", "playerJoin"}

Event == [id : Nat, ty : EventTypes, pID : Players, share : Shares, title : Titles]

PlayerCanSeeEvent(plr, isGM, evt) ==
    \/ evt.share = "inGame"
    \/ evt.share = "private" /\ evt.pID = plr
    \/ evt.share = "gms" /\ (evt.pID = plr \/ isGM)

-----------------------------------------------------------------------------
(* Channels, by what follows "update:<game>" in their name.                *)

GameChannel == <<>>
PlayerChannel(playerID) == <<playerID>>
GMsChannel == <<"gms">>

UpdateChannel(playerID, share) ==
    CASE share = "inGame"  -> GameChannel
      [] share = "private" -> PlayerChannel(playerID)
      [] share = "gms"     -> GMsChannel

\* Mutant: whatever is not private goes to the whole game.
gameOrGMsChannelAlwaysGame(share) == GameChannel

\* Mutant: the two channels mixed up.
gameOrGMsChannelSwapped(share) ==
    CASE share = "inGame" -> GMsChannel
      [] share = "gms"    -> GameChannel

gameOrGMsChannel(share) ==
    CASE share = "inGame" -> GameChannel
      [] share = "gms"    -> GMsChannel

\* The channels a player's connection listens to.
Channels(plr, isGM) ==
    {GameChannel, PlayerChannel(plr)} \cup (IF isGM THEN {GMsChannel} ELSE {})

-----------------------------------------------------------------------------
(* Updates.                                                                *)

ForNewEvent(evt) == [ty |-> "+evt", id |-> evt.id, evt |-> evt]
ForEventDelete(eventID) == [ty |-> "-evt", id |-> eventID]
ForEventDiff(evt) ==
    [ty |-> "~evt", id |-> evt.id, diff |-> [field |-> "title", value |-> evt.title]]

\* Mutant: the new share under the wrong key of the diff.
ForEventShareWrongKey(evt) ==
    [ty |-> "~evt", id |-> evt.id, diff |-> [field |-> "title", value |-> evt.share]]

ForEventShare(evt) ==
    [ty |-> "~evt", id |-> evt.id, diff |-> [field |-> "share", value |-> evt.share]]

-----------------------------------------------------------------------------
(* Packets.                                                                *)

Packet(channel, filter, update) ==
    [channel |-> channel, filter |-> filter, update |-> update]

PacketOf(Updates) ==
    [channel : {GameChannel, GMsChannel} \cup {PlayerChannel(p) : p \in Players},
     filter : SUBSET (Players \cup {"gms"}), update : Updates]

\* Mutant: a GM who posts for the GMs is not left out of the GMs' packet.
createOrDeletePacketsOwnerTwice(evt, update) ==
    IF evt.share = "gms"
    THEN << Packet(GMsChannel, {}, update), Packet(PlayerChannel(evt.pID), {}, update) >>
    ELSE << Packet(IF evt.share = "inGame" THEN GameChannel ELSE PlayerChannel(evt.pID),
                   {}, update) >>

\* Mutant: an event is sent on the channel of its share and nowhere else.
createOrDeletePacketsOneChannel(evt, update) ==
    << Packet(UpdateChannel(evt.pID, evt.share), {}, update) >>

createOrDeletePackets(evt, update) ==
    CASE evt.share = "inGame"  -> << Packet(GameChannel, {}, update) >>
      [] evt.share = "private" -> << Packet(PlayerChannel(evt.pID), {}, update) >>
      [] evt.share = "gms"     -> << Packet(GMsChannel, {evt.pID}, update),
                                     Packet(PlayerChannel(evt.pID), {}, update) >>

\* Mutant: shared and unshared events are created and deleted for everyone but
\* their owner, who is not told at all.
sharePacketsOwnerForgotten(evt, newShare) ==
    LET shared == [evt EXCEPT !.share = newShare]
    IN  IF newShare = "private"
        THEN << Packet(gameOrGMsChannel(evt.share), {evt.pID}, ForEventDelete(evt.id)) >>
        ELSE << Packet(gameOrGMsChannel(newShare), {evt.pID}, ForNewEvent(shared)) >>

sharePacketsModifyingEvent(evt, newShare) ==
    LET shared == [evt EXCEPT !.share = newShare]
        owner  == evt.pID
        modify == ForEventShare(shared)
        create == ForNewEvent(shared)
        delete == ForEventDelete(evt.id)
    IN  CASE newShare = "private" ->
               << Packet(gameOrGMsChannel(evt.share), {owner}, delete),
                  Packet(PlayerChannel(owner), {}, modify) >>
          [] newShare # "private" /\ evt.share = "private" ->
               << Packet(gameOrGMsChannel(newShare), {owner}, create),
                  Packet(PlayerChannel(owner), {}, modify) >>
          [] evt.share = "gms" /\ newShare = "inGame" ->
               << Packet(GMsChannel, {owner}, modify),
                  Packet(PlayerChannel(owner), {}, modify),
                  Packet(GameChannel, {owner, "gms"}, create) >>
          [] evt.share = "inGame" /\ newShare = "gms" ->
               << Packet(GameChannel, {"gms", owner}, delete),
                  Packet(GMsChannel, {owner}, modify),
                  Packet(PlayerChannel(owner), {}, modify) >>

\* Mutant: an edit is published to its author only.
editPacketsToAuthor(evt) ==
    << Packet(PlayerChannel(evt.pID), {}, ForEventDiff(evt)) >>

\* An edit is published on the one channel of the event's share.
editPackets(evt) ==
    << Packet(UpdateChannel(evt.pID, evt.share), {}, ForEventDiff(evt)) >>

-----------------------------------------------------------------------------
(* The receiving side.                                                     *)

shouldSendUpdate(plr, isGM, filter) ==
    /\ plr \notin filter
    /\ ~(isGM /\ "gms" \in filter)

Receives(plr, isGM, packet) ==
    /\ packet.channel \in Channels(plr, isGM)
    /\ shouldSendUpdate(plr, isGM, packet.filter)

\* What a connection is sent of a sequence of (at most three) packets.
Arrivals(plr, isGM, packets) ==
    LET Copy(i) == IF i <= Len(packets) /\ Receives(plr, isGM, packets[i])
                   THEN << packets[i].update >> ELSE <<>>
    IN  Copy(1) \o Copy(2) \o Copy(3)

-----------------------------------------------------------------------------
(* What the rules are for.                                                 *)

\* A created (or deleted) event reaches exactly the players who can see it,
\* each of them once: createOrDeletePackets and the filters together.
CreateReaches(plr, isGM, evt, update) ==
    Arrivals(plr, isGM, createOrDeletePackets(evt, update)) =
        IF PlayerCanSeeEvent(plr, isGM, evt) THEN << update >> ELSE <<>>

\* A change of share reaches each player once and in the form it has for them:
\* a creation for those the event appears to, a deletion for those it
\* disappears from, a modification for those who go on seeing it, and nothing
\* for the others: sharePacketsModifyingEvent and the filters together.
ShareReaches(plr, isGM, evt, newShare) ==
    LET shared == [evt EXCEPT !.share = newShare]
        before == PlayerCanSeeEvent(plr, isGM, evt)
        after  == PlayerCanSeeEvent(plr, isGM, shared)
    IN  Arrivals(plr, isGM, sharePacketsModifyingEvent(evt, newShare)) =
            CASE  before /\  after -> << ForEventShare(shared) >>
              [] ~before /\  after -> << ForNewEvent(shared) >>
              []  before /\ ~after -> << ForEventDelete(evt.id) >>
              [] ~before /\ ~after -> <<>>
=============================================================================
