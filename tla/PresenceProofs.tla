----------------------------- MODULE PresenceProofs -----------------------------
(***************************************************************************)
(* Invariants of Presence, for any number of players, streams and watchers.*)
(***************************************************************************)
EXTENDS Presence, FiniteSetTheorems, TLAPS

-----------------------------------------------------------------------------
(* Types.                                                                  *)

LEMMA ToldType ==
    ASSUME TypeOK, NEW p \in Players, NEW game, NEW online \in BOOLEAN
    PROVE  Told(p, game, online) \in [Watchers -> [Players -> Seq(BOOLEAN)]]
  <1> SUFFICES ASSUME NEW w \in Watchers
               PROVE  Told(p, game, online)[w] \in [Players -> Seq(BOOLEAN)]
    BY DEF Told
  <1>1. mail[w] \in [Players -> Seq(BOOLEAN)] /\ mail[w][p] \in Seq(BOOLEAN)
    BY DEF TypeOK
  <1>2. Append(mail[w][p], online) \in Seq(BOOLEAN)
    BY <1>1
  <1> QED BY <1>1, <1>2 DEF Told

LEMMA IsOnlineType ==
    ASSUME NEW m, NEW c
    PROVE  IsOnline(m, c) \in BOOLEAN
  BY DEF IsOnline

LEMMA HeadAndTail ==
    ASSUME NEW S, NEW q \in Seq(S), q # <<>>
    PROVE  Head(q) \in S /\ Tail(q) \in Seq(S)
  OBVIOUS

LEMMA NoMailType == NoMail \in [Players -> Seq(BOOLEAN)]
  BY DEF NoMail

LEMMA InitTyped == Init => TypeOK
  <1> SUFFICES ASSUME Init PROVE TypeOK
    OBVIOUS
  <1> QED BY NoMailType DEF Init, TypeOK, OnlineModes, PCs

LEMMA HIncrByTyped ==
    ASSUME TypeOK, NEW s \in Streams, NEW mod \in Int, HIncrBy(s, mod)
    PROVE  /\ connections' \in [Players -> Int]
           /\ leftFrom' \in [Players -> Games \cup {"nowhere"}]
  BY PresenceAssumption DEF TypeOK, HIncrBy

LEMMA DecrementTyped ==
    ASSUME TypeOK, NEW s \in Streams, Decrement(s)
    PROVE  /\ connections' \in [Players -> Int]
           /\ leftFrom' \in [Players -> Games \cup {"nowhere"}]
           /\ repeated' \in [Players -> Nat]
  <1>1. HIncrBy(s, -1) /\ -1 \in Int
    BY DEF Decrement
  <1>2. repeated' \in [Players -> Nat]
    BY PresenceAssumption DEF TypeOK, Decrement
  <1> QED BY <1>1, <1>2, HIncrByTyped

LEMMA ProceedTyped ==
    ASSUME TypeOK, NEW s \in Streams, NEW next \in PCs, Proceed(s, next)
    PROVE  /\ pc' \in [Streams -> PCs]
           /\ tries' \in [Streams -> Nat]
           /\ UNCHANGED << mode, edit, watch, shown >>
  BY DEF TypeOK, Proceed

LEMMA ResendTyped ==
    ASSUME TypeOK, NEW s \in Streams, Resend(s)
    PROVE  /\ tries' \in [Streams -> Nat]
           /\ UNCHANGED << mode, pc, edit, watch, shown >>
  BY DEF TypeOK, Resend

\* What a stream does to the counter and the mail keeps their types.
LEMMA StreamTyped ==
    ASSUME TypeOK, NEW s \in Streams, Stream(s)
    PROVE  TypeOK'
  <1>1. PlayerOf[s] \in Players
    BY PresenceAssumption
  <1>2. \A online \in BOOLEAN :
          Told(PlayerOf[s], GameOf[s], online) \in [Watchers -> [Players -> Seq(BOOLEAN)]]
    BY <1>1, ToldType
  <1>3. CASE Increase(s)
    <2>1. PICK next \in PCs : Proceed(s, next)
      BY <1>3 DEF Increase, PCs
    <2>2. HIncrBy(s, 1) /\ 1 \in Int /\ UNCHANGED << mail, repeated >>
      BY <1>3 DEF Increase
    <2> QED BY <2>1, <2>2, ProceedTyped, HIncrByTyped DEF TypeOK
  <1>4. CASE Decrease(s)
    <2>1. PICK next \in PCs : Proceed(s, next)
      BY <1>4 DEF Decrease, PCs
    <2>2. Decrement(s) /\ UNCHANGED mail
      BY <1>4 DEF Decrease
    <2> QED BY <2>1, <2>2, ProceedTyped, DecrementTyped DEF TypeOK
  <1>5. CASE Announce(s)
    <2>1. PICK next \in PCs : Proceed(s, next)
      BY <1>5 DEF Announce, PCs
    <2>2. mail' \in [Watchers -> [Players -> Seq(BOOLEAN)]] /\ UNCHANGED << connections, history >>
      BY <1>2, <1>5 DEF Announce
    <2> QED BY <2>1, <2>2, ProceedTyped DEF TypeOK, history
  <1>6. CASE ResendIncrease(s)
    <2>1. Resend(s) /\ HIncrBy(s, 1) /\ 1 \in Int /\ UNCHANGED << mail, repeated >>
      BY <1>6 DEF ResendIncrease
    <2> QED BY <2>1, ResendTyped, HIncrByTyped DEF TypeOK
  <1>7. CASE ResendDecrease(s)
    <2>1. Resend(s) /\ Decrement(s) /\ UNCHANGED mail
      BY <1>7 DEF ResendDecrease
    <2> QED BY <2>1, ResendTyped, DecrementTyped DEF TypeOK
  <1>8. CASE ResendAnnounce(s)
    <2>1. Resend(s) /\ UNCHANGED << connections, history >>
      BY <1>8 DEF ResendAnnounce
    <2>2. mail' \in [Watchers -> [Players -> Seq(BOOLEAN)]]
      BY <1>2, <1>8 DEF ResendAnnounce
    <2> QED BY <2>1, <2>2, ResendTyped DEF TypeOK, history
  <1>9. CASE FailIncrease(s)
    <2>1. Proceed(s, "closed") /\ UNCHANGED << mail, repeated >>
      BY <1>9 DEF FailIncrease
    <2>2. PICK made \in {0, 1} : HIncrBy(s, made)
      BY <1>9 DEF FailIncrease
    <2>3. made \in Int /\ "closed" \in PCs
      BY DEF PCs
    <2> QED BY <2>1, <2>2, <2>3, ProceedTyped, HIncrByTyped DEF TypeOK
  <1>10. CASE FailDecrease(s)
    <2>1. Proceed(s, "closed") /\ UNCHANGED mail /\ "closed" \in PCs
      BY <1>10 DEF FailDecrease, PCs
    <2>2. CASE Decrement(s)
      BY <2>1, <2>2, ProceedTyped, DecrementTyped DEF TypeOK
    <2>3. CASE UNCHANGED << connections, history >>
      BY <2>1, <2>3, ProceedTyped DEF TypeOK, history
    <2> QED BY <1>10, <2>2, <2>3 DEF FailDecrease
  <1>11. CASE FailAnnounce(s)
    <2>1. Proceed(s, "closed") /\ UNCHANGED << connections, history >> /\ "closed" \in PCs
      BY <1>11 DEF FailAnnounce, PCs
    <2>2. mail' \in [Watchers -> [Players -> Seq(BOOLEAN)]]
      BY <1>2, <1>11 DEF FailAnnounce, TypeOK
    <2> QED BY <2>1, <2>2, ProceedTyped DEF TypeOK, history
  <1> QED BY <1>3, <1>4, <1>5, <1>6, <1>7, <1>8, <1>9, <1>10, <1>11 DEF Stream

LEMMA PlayerTyped ==
    ASSUME TypeOK, NEW p \in Players,
           HandleUpdatePlayer(p) \/ UpdatePlayer(p) \/ AbortUpdate(p)
    PROVE  TypeOK'
  <1>1. CASE HandleUpdatePlayer(p)
    <2>1. PICK chosen \in ChosenModes, game \in Games :
            edit' = [edit EXCEPT ![p] = [mode   |-> chosen, game |-> game,
                                         before |-> IsOnline(mode[p], connections[p]),
                                         after  |-> IsOnline(chosen, connections[p])]]
      BY <1>1 DEF HandleUpdatePlayer
    <2>2. /\ chosen \in OnlineModes
          /\ IsOnline(mode[p], connections[p]) \in BOOLEAN
          /\ IsOnline(chosen, connections[p]) \in BOOLEAN
      BY IsOnlineType, PresenceAssumption DEF TypeOK
    <2> QED BY <1>1, <2>1, <2>2 DEF HandleUpdatePlayer, TypeOK, history
  <1>2. CASE UpdatePlayer(p)
    <2>1. edit[p] \in [mode : OnlineModes, game : Games, before : BOOLEAN, after : BOOLEAN]
      BY <1>2 DEF UpdatePlayer, TypeOK
    <2>2. mail' \in [Watchers -> [Players -> Seq(BOOLEAN)]]
      BY <1>2, <2>1, ToldType DEF UpdatePlayer, TypeOK
    <2> QED BY <1>2, <2>1, <2>2 DEF UpdatePlayer, TypeOK, history
  <1>3. CASE AbortUpdate(p)
    BY <1>3 DEF AbortUpdate, TypeOK, history
  <1> QED BY <1>1, <1>2, <1>3

LEMMA WatcherTyped ==
    ASSUME TypeOK, NEW w \in Watchers,
           \/ Login(w) \/ Subscribe(w) \/ LoseConnection(w) \/ Leave(w)
           \/ \E p \in Players : ReadUpdate(w, p)
    PROVE  TypeOK'
  <1>1. CASE Login(w)
    <2>1. [p \in Players |-> IsOnline(mode[p], connections[p])] \in [Players -> BOOLEAN]
      BY IsOnlineType DEF TypeOK
    <2> QED BY <1>1, <2>1 DEF Login, TypeOK, history
  <1>2. CASE Subscribe(w)
    BY <1>2 DEF Subscribe, TypeOK, history
  <1>3. CASE LoseConnection(w)
    BY <1>3, NoMailType DEF LoseConnection, TypeOK, history
  <1>4. CASE Leave(w)
    BY <1>4, NoMailType DEF Leave, TypeOK, history
  <1>5. CASE \E p \in Players : ReadUpdate(w, p)
    <2>1. PICK p \in Players : ReadUpdate(w, p)
      BY <1>5
    <2>2. mail[w][p] \in Seq(BOOLEAN) /\ mail[w][p] # <<>>
      BY <2>1 DEF ReadUpdate, TypeOK
    <2>3. Head(mail[w][p]) \in BOOLEAN /\ Tail(mail[w][p]) \in Seq(BOOLEAN)
      BY <2>2, HeadAndTail
    <2>4. shown' \in [Watchers -> [Players -> BOOLEAN]]
      BY <2>1, <2>3 DEF ReadUpdate, TypeOK
    <2>5. mail' \in [Watchers -> [Players -> Seq(BOOLEAN)]]
      BY <2>1, <2>3 DEF ReadUpdate, TypeOK
    <2> QED BY <2>1, <2>4, <2>5 DEF ReadUpdate, TypeOK, history
  <1> QED BY <1>1, <1>2, <1>3, <1>4, <1>5

LEMMA NextTyped ==
    ASSUME TypeOK, [Next]_vars
    PROVE  TypeOK'
  <1>1. CASE UNCHANGED vars
    BY <1>1 DEF vars, TypeOK
  <1>2. CASE Crash
    BY <1>2, NoMailType DEF Crash, TypeOK, PCs, history
  <1> QED BY <1>1, <1>2, StreamTyped, PlayerTyped, WatcherTyped DEF Next

\* Every variable keeps its type.
THEOREM PresenceTyped == Spec => []TypeOK
  <1>1. Init => TypeOK
    BY InitTyped
  <1>2. TypeOK /\ [Next]_vars => TypeOK'
    BY NextTyped
  <1> QED BY <1>1, <1>2, PTL DEF Spec

-----------------------------------------------------------------------------
(* The streams that are to be in the counter.                              *)

LEMMA CountedFinite ==
    ASSUME NEW p \in Players
    PROVE  /\ Counted(p) \subseteq Streams
           /\ IsFiniteSet(Counted(p))
           /\ Cardinality(Counted(p)) \in Nat
  <1>1. Counted(p) \subseteq Streams
    BY DEF Counted, StreamsOf
  <1>2. IsFiniteSet(Counted(p))
    BY <1>1, PresenceAssumption, FS_Subset
  <1> QED BY <1>1, <1>2, FS_CardinalityType

Counts(s) == pc[s] = "saysOnline" \/ (pc[s] = "open" /\ tries[s] = 0)

\* A step of one stream leaves what is counted of its player as it was but for itself.
LEMMA CountedStep ==
    ASSUME NEW s \in Streams, NEW p \in Players,
           \A o \in Streams \ {s} : pc'[o] = pc[o] /\ tries'[o] = tries[o]
    PROVE  Counted(p)' = IF p = PlayerOf[s] /\ Counts(s)' THEN Counted(p) \cup {s}
                                                         ELSE Counted(p) \ {s}
  BY DEF Counted, StreamsOf, Counts

LEMMA IsCounted ==
    ASSUME NEW s \in Streams, NEW p \in Players
    PROVE  s \in Counted(p) <=> p = PlayerOf[s] /\ Counts(s)
  BY DEF Counted, StreamsOf, Counts

\* A stream that begins to count adds at most one, and exactly one if it did not.
LEMMA OneMore ==
    ASSUME NEW s \in Streams, NEW p \in Players
    PROVE  /\ Cardinality(Counted(p) \cup {s}) <= Cardinality(Counted(p)) + 1
           /\ s \notin Counted(p) =>
                Cardinality(Counted(p) \cup {s}) = Cardinality(Counted(p)) + 1
  <1>1. IsFiniteSet(Counted(p)) /\ Cardinality(Counted(p)) \in Nat
    BY CountedFinite
  <1>2. Cardinality(Counted(p) \cup {s}) =
            IF s \in Counted(p) THEN Cardinality(Counted(p)) ELSE Cardinality(Counted(p)) + 1
    BY <1>1, FS_AddElement, Zenon
  <1> QED BY <1>1, <1>2

LEMMA OneLess ==
    ASSUME NEW s \in Streams, NEW p \in Players
    PROVE  /\ Cardinality(Counted(p) \ {s}) <= Cardinality(Counted(p))
           /\ s \in Counted(p) =>
                Cardinality(Counted(p) \ {s}) = Cardinality(Counted(p)) - 1
           /\ s \notin Counted(p) =>
                Cardinality(Counted(p) \ {s}) = Cardinality(Counted(p))
  <1>1. IsFiniteSet(Counted(p)) /\ Cardinality(Counted(p)) \in Nat
    BY CountedFinite
  <1>2. Cardinality(Counted(p) \ {s}) =
            IF s \in Counted(p) THEN Cardinality(Counted(p)) - 1 ELSE Cardinality(Counted(p))
    BY <1>1, FS_RemoveElement, Zenon
  <1> QED BY <1>1, <1>2

LEMMA CountedUnchanged ==
    ASSUME NEW p \in Players, UNCHANGED << pc, tries >>
    PROVE  Counted(p)' = Counted(p)
  BY DEF Counted, StreamsOf

-----------------------------------------------------------------------------
(* The counter is never below the streams that are to be in it.            *)

LEMMA InitCovered == Init => NeverUndercounted
  <1> SUFFICES ASSUME Init, NEW p \in Players
               PROVE  connections[p] + repeated[p] >= Cardinality(Counted(p))
    BY DEF NeverUndercounted
  <1>1. Counted(p) = {}
    BY DEF Init, Counted, StreamsOf
  <1>2. connections[p] = 0 /\ repeated[p] = 0
    BY DEF Init
  <1> QED BY <1>1, <1>2, FS_EmptySet

\* A stream acts alone, on the counter of its own player.
LEMMA StreamAlone ==
    ASSUME TypeOK, NEW s \in Streams, Stream(s)
    PROVE  /\ \A o \in Streams \ {s} : pc'[o] = pc[o] /\ tries'[o] = tries[o]
           /\ \A q \in Players \ {PlayerOf[s]} :
                  connections'[q] = connections[q] /\ repeated'[q] = repeated[q]
  <1>1. ASSUME NEW next, Proceed(s, next)
        PROVE  \A o \in Streams \ {s} : pc'[o] = pc[o] /\ tries'[o] = tries[o]
    BY <1>1 DEF Proceed, TypeOK
  <1>2. ASSUME Resend(s)
        PROVE  \A o \in Streams \ {s} : pc'[o] = pc[o] /\ tries'[o] = tries[o]
    BY <1>2 DEF Resend, TypeOK
  <1>3. ASSUME NEW mod, HIncrBy(s, mod)
        PROVE  \A q \in Players \ {PlayerOf[s]} : connections'[q] = connections[q]
    BY <1>3 DEF HIncrBy, TypeOK
  <1>4. ASSUME Decrement(s)
        PROVE  \A q \in Players \ {PlayerOf[s]} :
                  connections'[q] = connections[q] /\ repeated'[q] = repeated[q]
    BY <1>3, <1>4 DEF Decrement, TypeOK
  <1>5. CASE Increase(s) \/ ResendIncrease(s) \/ FailIncrease(s)
    BY <1>1, <1>2, <1>3, <1>5 DEF Increase, ResendIncrease, FailIncrease
  <1>6. CASE Decrease(s) \/ ResendDecrease(s) \/ FailDecrease(s)
    BY <1>1, <1>2, <1>4, <1>6 DEF Decrease, ResendDecrease, FailDecrease, history
  <1>7. CASE Announce(s) \/ ResendAnnounce(s) \/ FailAnnounce(s)
    BY <1>1, <1>2, <1>7 DEF Announce, ResendAnnounce, FailAnnounce, history
  <1> QED BY <1>5, <1>6, <1>7 DEF Stream

\* A decrement of a stream that is to be counted makes it one less; another one is
\* repeated.
LEMMA DecrementCovered ==
    ASSUME TypeOK, NEW s \in Streams, pc[s] = "open", Decrement(s)
    PROVE  connections'[PlayerOf[s]] + repeated'[PlayerOf[s]] =
               IF Counts(s) THEN connections[PlayerOf[s]] + repeated[PlayerOf[s]] - 1
                            ELSE connections[PlayerOf[s]] + repeated[PlayerOf[s]]
  <1> DEFINE p == PlayerOf[s]
  <1>1. p \in Players /\ connections[p] \in Int /\ repeated[p] \in Nat
    BY PresenceAssumption DEF TypeOK
  <1>2. connections'[p] = connections[p] - 1
    BY <1>1 DEF Decrement, HIncrBy, TypeOK
  <1>3. CASE tries[s] = 0
    <2>1. repeated'[p] = repeated[p] /\ Counts(s)
      BY <1>3 DEF Decrement, Counts
    <2> QED BY <1>1, <1>2, <2>1
  <1>4. CASE tries[s] # 0
    <2>1. repeated'[p] = repeated[p] + 1 /\ ~Counts(s)
      BY <1>1, <1>4 DEF Decrement, Counts, TypeOK
    <2> QED BY <1>1, <1>2, <2>1
  <1> QED BY <1>3, <1>4

LEMMA StreamCovered ==
    ASSUME TypeOK, NeverUndercounted, NEW s \in Streams, NEW q \in Players, Stream(s)
    PROVE  connections'[q] + repeated'[q] >= Cardinality(Counted(q)')
  <1> DEFINE p == PlayerOf[s]
             sum == connections[q] + repeated[q]
             number == Cardinality(Counted(q))
  <1>1. /\ p \in Players /\ connections[q] \in Int /\ repeated[q] \in Nat
        /\ sum >= number /\ number \in Nat
    BY PresenceAssumption, CountedFinite DEF TypeOK, NeverUndercounted
  <1>2. Counted(q)' = IF q = p /\ Counts(s)' THEN Counted(q) \cup {s} ELSE Counted(q) \ {s}
    BY StreamAlone, CountedStep
  <1>3. s \in Counted(q) <=> q = p /\ Counts(s)
    BY IsCounted
  <1>4. /\ Cardinality(Counted(q) \cup {s}) <= number + 1
        /\ s \in Counted(q) => Counted(q) \cup {s} = Counted(q)
        /\ s \in Counted(q) => Cardinality(Counted(q) \ {s}) = number - 1
        /\ s \notin Counted(q) => Cardinality(Counted(q) \ {s}) = number
        /\ Cardinality(Counted(q) \ {s}) <= number
        /\ Cardinality(Counted(q) \cup {s}) \in Nat /\ Cardinality(Counted(q) \ {s}) \in Nat
    BY <1>1, OneMore, OneLess, CountedFinite, FS_AddElement, FS_RemoveElement,
       FS_CardinalityType
  <1>5. CASE q # p
    <2>1. connections'[q] = connections[q] /\ repeated'[q] = repeated[q]
      BY <1>5, StreamAlone
    <2> QED BY <1>1, <1>2, <1>3, <1>4, <1>5, <2>1
  <1>6. ASSUME q = p, Decrement(s), pc[s] = "open", ~Counts(s)'
        PROVE  connections'[q] + repeated'[q] >= Cardinality(Counted(q)')
    <2>1. connections'[p] + repeated'[p] = IF Counts(s) THEN connections[p] + repeated[p] - 1
                                                       ELSE connections[p] + repeated[p]
      BY <1>6, DecrementCovered, Zenon
    <2> QED BY <1>1, <1>2, <1>3, <1>4, <1>6, <2>1
  <1>7. ASSUME NEW next, Proceed(s, next)
        PROVE  pc'[s] = next /\ tries'[s] = 0
    BY <1>7 DEF Proceed, TypeOK
  <1>8. ASSUME Resend(s)
        PROVE  pc'[s] = pc[s] /\ tries'[s] = tries[s] + 1 /\ tries'[s] # 0
    BY <1>8 DEF Resend, TypeOK
  <1>9. CASE q = p /\ (Increase(s) \/ ResendIncrease(s) \/ FailIncrease(s))
    <2>1. repeated' = repeated /\ ~Counts(s)
      BY <1>9 DEF Increase, ResendIncrease, FailIncrease, Counts
    <2>2. CASE Increase(s) \/ ResendIncrease(s)
      <3>1. connections'[q] = connections[q] + 1
        BY <1>1, <1>9, <2>2 DEF Increase, ResendIncrease, HIncrBy, TypeOK
      <3> QED BY <1>1, <1>2, <1>3, <1>4, <2>1, <3>1
    <2>3. CASE FailIncrease(s)
      <3>1. connections'[q] \in Int /\ connections'[q] >= connections[q]
        BY <1>1, <1>9, <2>3 DEF FailIncrease, HIncrBy, TypeOK
      <3>2. ~Counts(s)'
        <4>1. pc'[s] = "closed"
          BY <1>7, <2>3 DEF FailIncrease
        <4> QED BY <4>1 DEF Counts
      <3> QED BY <1>1, <1>2, <1>3, <1>4, <2>1, <3>1, <3>2
    <2> QED BY <1>9, <2>2, <2>3
  <1>10. CASE q = p /\ (Decrease(s) \/ ResendDecrease(s) \/ FailDecrease(s))
    <2>1. pc[s] = "open"
      BY <1>10 DEF Decrease, ResendDecrease, FailDecrease
    <2>2. ~Counts(s)'
      <3>1. CASE ResendDecrease(s)
        <4>1. pc'[s] = "open" /\ tries'[s] # 0
          BY <1>8, <2>1, <3>1 DEF ResendDecrease
        <4> QED BY <4>1 DEF Counts
      <3>2. CASE Decrease(s) \/ FailDecrease(s)
        <4>1. pc'[s] \in {"closed", "saysOffline"}
          BY <1>7, <3>2 DEF Decrease, FailDecrease
        <4> QED BY <4>1 DEF Counts
      <3> QED BY <1>10, <3>1, <3>2
    <2>3. CASE Decrement(s)
      BY <1>6, <1>10, <2>1, <2>2, <2>3
    <2>4. CASE UNCHANGED << connections, history >>
      BY <1>1, <1>2, <1>4, <2>2, <2>4 DEF history
    <2> QED BY <1>10, <2>3, <2>4 DEF Decrease, ResendDecrease, FailDecrease
  <1>11. CASE q = p /\ (Announce(s) \/ ResendAnnounce(s) \/ FailAnnounce(s))
    <2>1. connections' = connections /\ repeated' = repeated
      BY <1>11 DEF Announce, ResendAnnounce, FailAnnounce, history
    <2>2. Counts(s)' => Counts(s)
      <3>1. CASE pc[s] = "saysOnline"
        BY <3>1 DEF Counts
      <3>2. CASE pc[s] = "saysOffline"
        <4>1. pc'[s] \in {"closed", "saysOffline"}
          BY <1>7, <1>8, <1>11, <3>2 DEF Announce, ResendAnnounce, FailAnnounce
        <4> QED BY <4>1 DEF Counts
      <3> QED BY <1>11, <3>1, <3>2 DEF Announce, ResendAnnounce, FailAnnounce
    <2>3. CASE Counts(s)'
      <3>1. Counted(q)' = Counted(q)
        BY <1>2, <1>3, <1>4, <1>11, <2>2, <2>3
      <3> QED BY <1>1, <2>1, <3>1
    <2>4. CASE ~Counts(s)'
      <3>1. Counted(q)' = Counted(q) \ {s}
        BY <1>2, <2>4
      <3> QED BY <1>1, <1>4, <2>1, <3>1
    <2> QED BY <2>3, <2>4
  <1> QED BY <1>5, <1>9, <1>10, <1>11 DEF Stream

\* Nothing but the streams and a crash touches the counter or what is counted.
LEMMA OthersDoNotCount ==
    ASSUME \/ UNCHANGED vars
           \/ \E p \in Players : HandleUpdatePlayer(p) \/ UpdatePlayer(p) \/ AbortUpdate(p)
           \/ \E w \in Watchers :
                  \/ Login(w) \/ Subscribe(w) \/ LoseConnection(w) \/ Leave(w)
                  \/ \E p \in Players : ReadUpdate(w, p)
    PROVE  UNCHANGED << connections, pc, tries, history >>
  BY DEF vars, history, HandleUpdatePlayer, UpdatePlayer, AbortUpdate, Login, Subscribe,
         LoseConnection, Leave, ReadUpdate

LEMMA NextCovered ==
    ASSUME TypeOK, NeverUndercounted, [Next]_vars
    PROVE  NeverUndercounted'
  <1> SUFFICES ASSUME NEW q \in Players
               PROVE  connections'[q] + repeated'[q] >= Cardinality(Counted(q)')
    BY DEF NeverUndercounted
  <1>1. /\ connections[q] + repeated[q] >= Cardinality(Counted(q))
        /\ connections[q] \in Int /\ repeated[q] \in Nat
    BY DEF NeverUndercounted, TypeOK
  <1>2. CASE UNCHANGED << connections, pc, tries, history >>
    BY <1>1, <1>2, CountedUnchanged DEF history
  <1>3. CASE Crash
    <2>1. Counted(q)' = {} /\ connections' = connections /\ repeated' = repeated
      BY <1>3 DEF Crash, Counted, StreamsOf, history
    <2>2. Cardinality({}) = 0 /\ Cardinality(Counted(q)) \in Nat
      BY CountedFinite, FS_EmptySet
    <2> QED BY <2>1, <2>2, <1>1
  <1>4. ASSUME NEW s \in Streams, Stream(s)
        PROVE  connections'[q] + repeated'[q] >= Cardinality(Counted(q)')
    BY <1>4, StreamCovered
  <1> QED BY <1>2, <1>3, <1>4, OthersDoNotCount DEF Next

\* Whatever fails, in whatever order, the connection counter of a player is at
\* least the number of the player's open streams, but for decrements that the Redis client
\* has sent again.
THEOREM CounterCovers == Spec => []NeverUndercounted
  <1>1. Init => TypeOK /\ NeverUndercounted
    BY InitTyped, InitCovered
  <1>2. TypeOK /\ NeverUndercounted /\ [Next]_vars => (TypeOK /\ NeverUndercounted)'
    BY NextTyped, NextCovered
  <1> QED BY <1>1, <1>2, PTL DEF Spec

-----------------------------------------------------------------------------
(* Announcements may come out of order, but not past the last one.         *)

\* With no failure and nobody choosing a mode the counter is exact, an edit changes
\* no flag, no command is sent again, and nobody's mail is kept for later.
Exact ==
    /\ \A p \in Players :
         /\ mode[p] = "auto"
         /\ connections[p] = Cardinality(Counted(p))
         /\ edit[p] # NoEdit => edit[p].mode = "auto" /\ edit[p].before = edit[p].after
    /\ \A s \in Streams : tries[s] = 0
    /\ \A w \in Watchers :
         /\ watch[w] # "joined"
         /\ watch[w] = "out" => mail[w] = NoMail

\* A player whose counter is 0 has an announcement of that to come or to read in the
\* game left last, and no later one.
LastWord ==
    \A w \in Watchers, p \in Players :
        /\ watch[w] = "following"
        /\ connections[p] = 0 /\ LastSeenIn(w, p)
        /\ \A s \in StreamsOf(p) : GameOf[s] = WatchedGame[w] => pc[s] # "saysOffline"
        => WillShow(w, p) = FALSE

LEMMA LastOfAppended ==
    ASSUME NEW S, NEW q \in Seq(S), NEW e \in S
    PROVE  Append(q, e) # <<>> /\ Last(Append(q, e)) = e
  BY DEF Last

LEMMA LastOfRest ==
    ASSUME NEW S, NEW q \in Seq(S), q # <<>>
    PROVE  /\ Tail(q) = <<>> => Head(q) = Last(q)
           /\ Tail(q) # <<>> => Last(Tail(q)) = Last(q)
  <1>1. Len(q) \in Nat /\ Len(q) >= 1 /\ Head(q) = q[1]
    OBVIOUS
  <1>2. Tail(q) \in Seq(S) /\ Len(Tail(q)) = Len(q) - 1
    OBVIOUS
  <1>3. \A i \in 1 .. Len(q) - 1 : Tail(q)[i] = q[i + 1]
    OBVIOUS
  <1>4. CASE Tail(q) = <<>>
    <2>1. Len(<<>>) = 0
      OBVIOUS
    <2>2. Len(q) - 1 = 0
      BY <1>2, <1>4, <2>1, Zenon
    <2>3. Len(q) \in Nat
      OBVIOUS
    <2>4. Len(q) = 1
      BY <2>2, <2>3
    <2> QED BY <1>1, <1>4, <2>4 DEF Last
  <1>5. CASE Tail(q) # <<>>
    <2>1. Len(q) - 1 \in 1 .. Len(q) - 1
      BY <1>1, <1>2, <1>5
    <2>2. Tail(q)[Len(q) - 1] = q[Len(q)]
      BY <1>1, <1>3, <2>1
    <2> QED BY <1>2, <1>5, <2>2 DEF Last
  <1> QED BY <1>4, <1>5

LEMMA SameWord ==
    ASSUME NEW w \in Watchers, NEW p \in Players,
           mail'[w][p] = mail[w][p], shown'[w][p] = shown[w][p]
    PROVE  WillShow(w, p)' = WillShow(w, p)
  BY DEF WillShow

\* Reading an update changes what is shown, not what will be.
LEMMA ReadKeepsWord ==
    ASSUME TypeOK, NEW w \in Watchers, NEW p \in Players,
           NEW v \in Watchers, NEW r \in Players, ReadUpdate(v, r)
    PROVE  WillShow(w, p)' = WillShow(w, p)
  <1>1. CASE w = v /\ p = r
    <2>1. mail[w][p] \in Seq(BOOLEAN) /\ mail[w][p] # <<>>
      BY <1>1 DEF ReadUpdate, TypeOK
    <2>2. mail'[w][p] = Tail(mail[w][p]) /\ shown'[w][p] = Head(mail[w][p])
      BY <1>1 DEF ReadUpdate, TypeOK
    <2>3. WillShow(w, p) = Last(mail[w][p])
      BY <2>1 DEF WillShow
    <2>4. WillShow(w, p)' = IF Tail(mail[w][p]) = <<>> THEN Head(mail[w][p])
                                                       ELSE Last(Tail(mail[w][p]))
      BY <2>2 DEF WillShow
    <2> QED BY <2>1, <2>3, <2>4, LastOfRest
  <1>2. CASE ~(w = v /\ p = r)
    <2>1. mail'[w][p] = mail[w][p] /\ shown'[w][p] = shown[w][p]
      BY <1>2 DEF ReadUpdate, TypeOK
    <2> QED BY <2>1, SameWord
  <1> QED BY <1>1, <1>2

\* An announcement is the last word about its player in its game, and no word about
\* others or elsewhere.
LEMMA ToldWord ==
    ASSUME TypeOK, NEW w \in Watchers, NEW p \in Players, NEW q \in Players, NEW game,
           NEW online \in BOOLEAN, watch[w] = "following",
           mail' = Told(q, game, online), shown' = shown
    PROVE  WillShow(w, p)' = IF p = q /\ WatchedGame[w] = game THEN online ELSE WillShow(w, p)
  <1>1. mail[w] \in [Players -> Seq(BOOLEAN)] /\ mail[w][q] \in Seq(BOOLEAN)
    BY DEF TypeOK
  <1>2. mail'[w] = IF WatchedGame[w] = game
                   THEN [mail[w] EXCEPT ![q] = Append(mail[w][q], online)] ELSE mail[w]
    BY DEF Told
  <1>3. CASE p = q /\ WatchedGame[w] = game
    <2>1. mail'[w][p] = Append(mail[w][p], online)
      BY <1>1, <1>2, <1>3
    <2>2. mail'[w][p] # <<>> /\ Last(mail'[w][p]) = online
      BY <2>1, <1>1, <1>3, LastOfAppended
    <2> QED BY <2>2, <1>3 DEF WillShow
  <1>4. CASE ~(p = q /\ WatchedGame[w] = game)
    <2>1. mail'[w][p] = mail[w][p]
      BY <1>1, <1>2, <1>4
    <2>2. WillShow(w, p)' = WillShow(w, p)
      BY <2>1, SameWord
    <2> QED BY <2>2, <1>4
  <1> QED BY <1>3, <1>4

LEMMA InitExact == Init => Exact /\ LastWord
  <1> SUFFICES ASSUME Init PROVE Exact /\ LastWord
    OBVIOUS
  <1>1. ASSUME NEW p \in Players
        PROVE  connections[p] = Cardinality(Counted(p))
    <2>1. Counted(p) = {}
      BY DEF Init, Counted, StreamsOf
    <2> QED BY <2>1, FS_EmptySet DEF Init
  <1> QED BY <1>1 DEF Init, Exact, LastWord

LEMMA NoFaults ==
    ASSUME Races \subseteq {"reordered"}
    PROVE  /\ ~Crash
           /\ \A s \in Streams :
                  /\ ~FailIncrease(s) /\ ~FailDecrease(s) /\ ~FailAnnounce(s)
                  /\ ~ResendIncrease(s) /\ ~ResendDecrease(s) /\ ~ResendAnnounce(s)
           /\ \A p \in Players : ~AbortUpdate(p)
           /\ \A w \in Watchers : ~LoseConnection(w)
  BY DEF Crash, FailIncrease, FailDecrease, FailAnnounce, AbortUpdate, LoseConnection,
         Resend, ResendIncrease, ResendDecrease, ResendAnnounce

-----------------------------------------------------------------------------
LEMMA CounterStaysExact ==
    ASSUME TypeOK, Exact, NEW s \in Streams, NEW q \in Players,
           Increase(s) \/ Decrease(s) \/ Announce(s)
    PROVE  connections'[q] = Cardinality(Counted(q)')
  <1> DEFINE p == PlayerOf[s]
             number == Cardinality(Counted(q))
  <1>1. /\ p \in Players /\ connections[q] \in Int /\ number \in Nat
        /\ connections[q] = number /\ tries[s] = 0
    BY PresenceAssumption, CountedFinite DEF TypeOK, Exact
  <1>2. Counted(q)' = IF q = p /\ Counts(s)' THEN Counted(q) \cup {s} ELSE Counted(q) \ {s}
    <2>1. Stream(s)
      BY DEF Stream
    <2> QED BY <2>1, StreamAlone, CountedStep
  <1>3. s \in Counted(q) <=> q = p /\ Counts(s)
    BY IsCounted
  <1>4. tries'[s] = 0 /\ Counts(s)' = (pc'[s] \in {"saysOnline", "open"})
    <2>1. tries'[s] = 0
      BY DEF Increase, Decrease, Announce, Proceed, TypeOK
    <2> QED BY <2>1 DEF Counts
  <1>5. Counts(s) = (pc[s] \in {"saysOnline", "open"})
    BY <1>1 DEF Counts
  <1>6. CASE q # p
    <2>1. connections'[q] = connections[q]
      BY <1>6, StreamAlone DEF Stream
    <2>2. Counted(q)' = Counted(q)
      BY <1>2, <1>3, <1>6
    <2> QED BY <2>1, <2>2, <1>1
  <1>7. CASE q = p /\ Increase(s)
    <2>1. connections'[q] = connections[q] + 1
      BY <1>1, <1>7 DEF Increase, HIncrBy, TypeOK
    <2>2. ~Counts(s) /\ Counts(s)'
      BY <1>4, <1>5, <1>7 DEF Increase, Proceed, TypeOK
    <2>3. s \notin Counted(q) /\ Counted(q)' = Counted(q) \cup {s}
      BY <1>2, <1>3, <1>7, <2>2
    <2>4. Cardinality(Counted(q) \cup {s}) = number + 1
      BY <2>3, CountedFinite, FS_AddElement
    <2> QED BY <2>1, <2>3, <2>4, <1>1
  <1>8. CASE q = p /\ Decrease(s)
    <2>1. connections'[q] = connections[q] - 1
      BY <1>1, <1>8 DEF Decrease, Decrement, HIncrBy, TypeOK
    <2>2. Counts(s) /\ ~Counts(s)'
      BY <1>4, <1>5, <1>8 DEF Decrease, Proceed, TypeOK
    <2>3. s \in Counted(q) /\ Counted(q)' = Counted(q) \ {s}
      BY <1>2, <1>3, <1>8, <2>2
    <2>4. Cardinality(Counted(q) \ {s}) = number - 1
      BY <2>3, CountedFinite, FS_RemoveElement
    <2> QED BY <2>1, <2>3, <2>4, <1>1
  <1>9. CASE q = p /\ Announce(s)
    <2>1. connections' = connections
      BY <1>9 DEF Announce
    <2>2. Counts(s)' = Counts(s)
      <3>1. \/ pc[s] = "saysOnline" /\ pc'[s] = "open"
            \/ pc[s] = "saysOffline" /\ pc'[s] = "closed"
        BY <1>9 DEF Announce, Proceed, TypeOK
      <3> QED BY <1>4, <1>5, <3>1
    <2>3. Counted(q)' = Counted(q)
      BY <1>2, <1>3, <1>9, <2>2
    <2> QED BY <2>1, <2>3, <1>1
  <1> QED BY <1>6, <1>7, <1>8, <1>9

LEMMA ExactKept ==
    ASSUME Races \subseteq {"reordered"}, ChosenModes \subseteq {"auto"},
           TypeOK, Exact, [Next]_vars
    PROVE  Exact'
  <1>1. ASSUME NEW s \in Streams, Increase(s) \/ Decrease(s) \/ Announce(s)
        PROVE  Exact'
    <2>1. \A q \in Players : connections'[q] = Cardinality(Counted(q)')
      BY <1>1, CounterStaysExact
    <2>2. UNCHANGED << mode, edit, watch >> /\ \A o \in Streams : tries'[o] = 0
      <3>1. PICK next : Proceed(s, next)
        BY <1>1 DEF Increase, Decrease, Announce
      <3> QED BY <3>1 DEF Proceed, Exact, TypeOK
    <2>3. \A w \in Watchers : watch[w] = "out" => mail'[w] = mail[w]
      BY <1>1 DEF Increase, Decrease, Announce, Told
    <2> QED BY <2>1, <2>2, <2>3 DEF Exact
  <1>2. ASSUME UNCHANGED << connections, pc, tries >>
        PROVE  /\ \A q \in Players : connections'[q] = Cardinality(Counted(q)')
               /\ \A o \in Streams : tries'[o] = 0
    BY <1>2, CountedUnchanged DEF Exact
  <1>3. ASSUME NEW p \in Players, HandleUpdatePlayer(p)
        PROVE  Exact'
    <2>1. PICK game \in Games :
          edit' = [edit EXCEPT ![p] = [mode   |-> "auto", game |-> game,
                                       before |-> IsOnline("auto", connections[p]),
                                       after  |-> IsOnline("auto", connections[p])]]
      BY <1>3 DEF HandleUpdatePlayer, Exact
    <2>2. \A q \in Players :
            edit'[q] # NoEdit => edit'[q].mode = "auto" /\ edit'[q].before = edit'[q].after
      BY <2>1 DEF Exact, TypeOK
    <2>3. UNCHANGED << connections, mode, pc, tries, watch, mail >>
      BY <1>3 DEF HandleUpdatePlayer
    <2> QED BY <2>2, <2>3, <1>2 DEF Exact
  <1>4. ASSUME NEW p \in Players, UpdatePlayer(p)
        PROVE  Exact'
    <2>1. edit[p].mode = "auto" /\ edit[p].before = edit[p].after
      BY <1>4 DEF UpdatePlayer, Exact
    <2>2. mail' = mail /\ UNCHANGED << connections, pc, tries, watch >>
      BY <1>4, <2>1 DEF UpdatePlayer
    <2>3. mode' = [mode EXCEPT ![p] = "auto"] /\ edit' = [edit EXCEPT ![p] = NoEdit]
      BY <1>4, <2>1 DEF UpdatePlayer
    <2>4. \A q \in Players : mode'[q] = "auto" /\ (edit'[q] = edit[q] \/ edit'[q] = NoEdit)
      BY <2>3 DEF Exact, TypeOK
    <2> QED BY <2>2, <2>4, <1>2 DEF Exact
  <1>5. ASSUME NEW v \in Watchers, Login(v)
        PROVE  Exact'
    <2>1. UNCHANGED << connections, mode, pc, tries, edit, mail >>
      BY <1>5 DEF Login
    <2>2. watch' = [watch EXCEPT ![v] = "following"]
      BY <1>5 DEF Login
    <2>3. \A w \in Watchers : watch'[w] # "joined" /\ (watch'[w] = "out" => watch[w] = "out")
      BY <2>2 DEF Exact, TypeOK
    <2> QED BY <2>1, <2>3, <1>2 DEF Exact
  <1>6. ASSUME NEW v \in Watchers, Leave(v)
        PROVE  Exact'
    <2>1. UNCHANGED << connections, mode, pc, tries, edit >>
      BY <1>6 DEF Leave
    <2>2. \A w \in Watchers :
            /\ watch'[w] # "joined"
            /\ watch'[w] = "out" => mail'[w] = NoMail
      BY <1>6 DEF Leave, Exact, TypeOK
    <2> QED BY <2>1, <2>2, <1>2 DEF Exact
  <1>7. ASSUME NEW v \in Watchers, NEW r \in Players, ReadUpdate(v, r)
        PROVE  Exact'
    <2>1. UNCHANGED << connections, mode, pc, tries, edit, watch >>
      BY <1>7 DEF ReadUpdate
    <2>2. watch[v] # "out"
      BY <1>7 DEF ReadUpdate, Exact, NoMail
    <2>3. \A w \in Watchers : watch[w] = "out" => mail'[w] = mail[w]
      BY <1>7, <2>2 DEF ReadUpdate, TypeOK
    <2> QED BY <2>1, <2>3, <1>2 DEF Exact
  <1>8. ASSUME NEW v \in Watchers PROVE ~Subscribe(v)
    BY DEF Subscribe, Exact
  <1>9. CASE UNCHANGED vars
    BY <1>9, <1>2 DEF vars, Exact
  <1> QED BY <1>1, <1>3, <1>4, <1>5, <1>6, <1>7, <1>8, <1>9, NoFaults DEF Next, Stream

LEMMA WordKept ==
    ASSUME Races \subseteq {"reordered"}, ChosenModes \subseteq {"auto"},
           TypeOK, Exact, LastWord, [Next]_vars
    PROVE  LastWord'
  <1> DEFINE Silent(w, p) ==
               \A s \in StreamsOf(p) : GameOf[s] = WatchedGame[w] => pc[s] # "saysOffline"
  <1> SUFFICES ASSUME NEW w \in Watchers, NEW p \in Players,
                      watch'[w] = "following", connections'[p] = 0,
                      LastSeenIn(w, p)', Silent(w, p)'
               PROVE  WillShow(w, p)' = FALSE
    BY DEF LastWord, StreamsOf
  <1>1. ASSUME watch[w] = "following", connections[p] = 0, leftFrom'[p] = leftFrom[p],
               Silent(w, p), WillShow(w, p)' = WillShow(w, p)
        PROVE  WillShow(w, p)' = FALSE
    BY <1>1 DEF LastWord, LastSeenIn
  <1>2. ASSUME UNCHANGED << connections, pc, leftFrom >>, watch[w] = "following",
               WillShow(w, p)' = WillShow(w, p)
        PROVE  WillShow(w, p)' = FALSE
    BY <1>1, <1>2
  <1>3. ASSUME NEW s \in Streams, p # PlayerOf[s], watch[w] = "following",
               Increase(s) \/ Decrease(s) \/ Announce(s),
               WillShow(w, p)' = WillShow(w, p)
        PROVE  WillShow(w, p)' = FALSE
    <2>1. \A o \in StreamsOf(p) : pc'[o] = pc[o]
      BY <1>3 DEF Increase, Decrease, Announce, Proceed, TypeOK, StreamsOf
    <2>2. connections'[p] = connections[p] /\ leftFrom'[p] = leftFrom[p]
      BY <1>3, PresenceAssumption
         DEF Increase, Decrease, Announce, Decrement, HIncrBy, history, TypeOK
    <2> QED BY <1>1, <1>3, <2>1, <2>2
  <1>4. ASSUME NEW s \in Streams, Increase(s) \/ Decrease(s)
        PROVE  WillShow(w, p)' = FALSE
    <2>1. WillShow(w, p)' = WillShow(w, p) /\ watch[w] = "following"
      BY <1>4, SameWord DEF Increase, Decrease, Proceed
    <2>2. ASSUME p = PlayerOf[s], Increase(s)
          PROVE  FALSE
      <3>1. connections[p] = Cardinality(Counted(p)) /\ Cardinality(Counted(p)) \in Nat
        BY CountedFinite DEF Exact
      <3>2. connections'[p] = connections[p] + 1
        BY <2>2 DEF Increase, HIncrBy, TypeOK
      <3> QED BY <3>1, <3>2
    <2>3. ASSUME p = PlayerOf[s], Decrease(s)
          PROVE  FALSE
      <3>1. pc'[s] = "saysOffline" /\ leftFrom'[p] = GameOf[s]
        <4>1. -1 < 0
          OBVIOUS
        <4>2. Proceed(s, "saysOffline") /\ leftFrom' = [leftFrom EXCEPT ![p] = GameOf[s]]
          BY <2>3, <4>1, Zenon DEF Decrease, Decrement, HIncrBy
        <4> QED BY <4>2 DEF Proceed, TypeOK
      <3>2. GameOf[s] # "nowhere"
        BY PresenceAssumption
      <3>3. GameOf[s] = WatchedGame[w]
        BY <3>1, <3>2 DEF LastSeenIn
      <3> QED BY <3>1, <3>3, <2>3 DEF StreamsOf
    <2> QED BY <1>3, <1>4, <2>1, <2>2, <2>3
  <1>5. ASSUME NEW s \in Streams, Announce(s)
        PROVE  WillShow(w, p)' = FALSE
    <2>1. /\ connections' = connections /\ leftFrom' = leftFrom
          /\ watch' = watch /\ shown' = shown
      BY <1>5 DEF Announce, Proceed, history
    <2>2. PlayerOf[s] \in Players
      BY PresenceAssumption
    <2>3. CASE p # PlayerOf[s]
      <3>1. PICK online \in BOOLEAN : mail' = Told(PlayerOf[s], GameOf[s], online)
        BY <1>5 DEF Announce
      <3>2. WillShow(w, p)' = WillShow(w, p)
        BY <3>1, <2>1, <2>2, <2>3, ToldWord
      <3> QED BY <3>2, <2>1, <2>3, <1>3, <1>5
    <2>4. CASE p = PlayerOf[s] /\ pc[s] = "saysOnline"
      <3>1. s \in Counted(p)
        BY <2>4 DEF Counted, StreamsOf
      <3>2. connections[p] = Cardinality(Counted(p)) /\ IsFiniteSet(Counted(p))
        BY CountedFinite DEF Exact
      <3> QED BY <3>1, <3>2, <2>1, FS_EmptySet
    <2>5. CASE p = PlayerOf[s] /\ pc[s] = "saysOffline"
      <3>1. mail' = Told(p, GameOf[s], FALSE) /\ pc' = [pc EXCEPT ![s] = "closed"]
        BY <1>5, <2>5 DEF Announce, Proceed
      <3>2. CASE GameOf[s] = WatchedGame[w]
        BY <3>1, <3>2, <2>1, ToldWord
      <3>3. CASE GameOf[s] # WatchedGame[w]
        <4>1. WillShow(w, p)' = WillShow(w, p)
          BY <3>1, <3>3, <2>1, ToldWord
        <4>2. \A o \in StreamsOf(p) : o # s => pc'[o] = pc[o]
          BY <3>1 DEF TypeOK, StreamsOf
        <4>3. Silent(w, p)
          BY <4>2, <3>3
        <4> QED BY <2>1, <4>1, <4>3, <1>1
      <3> QED BY <3>2, <3>3
    <2> QED BY <1>5, <2>3, <2>4, <2>5 DEF Announce
  <1>6. ASSUME NEW q \in Players, HandleUpdatePlayer(q) \/ UpdatePlayer(q)
        PROVE  WillShow(w, p)' = FALSE
    <2>1. UNCHANGED << connections, pc, leftFrom, watch, shown >>
      BY <1>6 DEF HandleUpdatePlayer, UpdatePlayer, history
    <2>2. mail' = mail
      BY <1>6 DEF HandleUpdatePlayer, UpdatePlayer, Exact
    <2> QED BY <2>1, <2>2, <1>2, SameWord
  <1>7. ASSUME NEW v \in Watchers, Login(v)
        PROVE  WillShow(w, p)' = FALSE
    <2>1. UNCHANGED << connections, pc, leftFrom, mail, mode >>
      BY <1>7 DEF Login, history
    <2>2. CASE w = v
      <3>1. mail[w] = NoMail
        BY <1>7, <2>2 DEF Login, Exact
      <3>2. mail'[w][p] = <<>>
        BY <3>1, <2>1 DEF NoMail
      <3>3. shown'[w][p] = IsOnline("auto", 0)
        BY <1>7, <2>1, <2>2 DEF Login, Exact, TypeOK
      <3>4. IsOnline("auto", 0) = FALSE
        <4>1. ~(0 > 0)
          OBVIOUS
        <4> QED BY <4>1, Zenon DEF IsOnline
      <3> QED BY <3>2, <3>3, <3>4 DEF WillShow
    <2>3. CASE w # v
      <3>1. watch'[w] = watch[w] /\ shown'[w] = shown[w]
        BY <1>7, <2>3 DEF Login, TypeOK
      <3> QED BY <3>1, <2>1, <1>2, SameWord
    <2> QED BY <2>2, <2>3
  <1>8. ASSUME NEW v \in Watchers, Leave(v)
        PROVE  WillShow(w, p)' = FALSE
    <2>1. UNCHANGED << connections, pc, leftFrom >>
      BY <1>8 DEF Leave, history
    <2>2. w # v
      BY <1>8 DEF Leave, TypeOK
    <2>3. watch'[w] = watch[w] /\ shown'[w] = shown[w] /\ mail'[w] = mail[w]
      BY <1>8, <2>2 DEF Leave, TypeOK
    <2> QED BY <2>1, <2>3, <1>2, SameWord
  <1>9. ASSUME NEW v \in Watchers, NEW r \in Players, ReadUpdate(v, r)
        PROVE  WillShow(w, p)' = FALSE
    <2>1. UNCHANGED << connections, pc, leftFrom, watch >>
      BY <1>9 DEF ReadUpdate, history
    <2>2. WillShow(w, p)' = WillShow(w, p)
      BY <1>9, ReadKeepsWord
    <2> QED BY <2>1, <2>2, <1>2
  <1>10. ASSUME NEW v \in Watchers PROVE ~Subscribe(v)
    BY DEF Subscribe, Exact
  <1>11. CASE UNCHANGED vars
    BY <1>11, <1>2, SameWord DEF vars
  <1> QED BY <1>4, <1>5, <1>6, <1>7, <1>8, <1>9, <1>10, <1>11, NoFaults DEF Next, Stream

\* Without failures and chosen modes, though announcements may overtake each other, a
\* player with no stream left in any game and nothing left to announce is shown as
\* offline in the game left last.
THEOREM GoneIsOffline ==
    ASSUME Races \subseteq {"reordered"}, ChosenModes \subseteq {"auto"}
    PROVE  Spec => []GoneMeansOffline
  <1>1. Init => TypeOK /\ Exact /\ LastWord
    BY InitTyped, InitExact
  <1>2. TypeOK /\ Exact /\ LastWord /\ [Next]_vars => (TypeOK /\ Exact /\ LastWord)'
    BY NextTyped, ExactKept, WordKept
  <1>3. TypeOK /\ Exact /\ LastWord => GoneMeansOffline
    <2> SUFFICES ASSUME Exact, LastWord, NEW w \in Watchers, NEW p \in Players,
                        watch[w] = "following", LastSeenIn(w, p), \A s \in StreamsOf(p) : pc[s] = "closed"
                 PROVE  ~WillShow(w, p)
      BY DEF GoneMeansOffline
    <2>1. Counted(p) = {}
      BY DEF Counted
    <2>2. connections[p] = 0
      BY <2>1, FS_EmptySet DEF Exact
    <2>3. WillShow(w, p) = FALSE
      BY <2>2 DEF LastWord
    <2> QED BY <2>3
  <1> QED BY <1>1, <1>2, <1>3, PTL DEF Spec
=============================================================================
