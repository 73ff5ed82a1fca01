----------------------------- MODULE GameSyncProofs -----------------------------
(***************************************************************************)
(* Every tab that follows a game is in sync with it, and the requests, the *)
(* updates and the tabs' lists together implement SharedHistory: for any   *)
(* players, tabs and GMs, any number of events, and updates waiting in     *)
(* sequences of any length.                                                *)
(***************************************************************************)
EXTENDS GameEventsProofs, FiniteSetTheorems, WellFoundedInduction, TLAPS

-----------------------------------------------------------------------------
(* Induction, and the recursive function by which updates are replayed.    *)

LEMMA Induction ==
    ASSUME NEW S, 0 \in S, \A n \in Nat : n \in S => n + 1 \in S
    PROVE  Nat \subseteq S
  <1> SUFFICES ASSUME Nat \ S # {}
               PROVE  FALSE
    OBVIOUS
  <1> DEFINE less == OpToRel(<, Nat)
             Rest == Nat \ S
  <1>1. \A j, k \in Nat : << j, k >> \in less <=> j < k
    BY DEF OpToRel
  <1>2. IsWellFoundedOn(less, Nat)
    BY NatLessThanWellFounded
  <1>3. Rest \subseteq Nat /\ Rest # {}
    OBVIOUS
  <1> HIDE DEF less, Rest
  <1>4. PICK k \in Rest : \A m \in Rest : << m, k >> \notin less
    BY <1>2, <1>3, WFMin
  <1>5. \A m \in Rest : k \in Nat /\ m \in Nat /\ ~(m < k)
    BY <1>1, <1>3, <1>4
  <1>6. k \in Nat /\ k \notin S
    BY <1>4 DEF Rest
  <1>7. k - 1 \in Nat /\ k - 1 \notin Rest
    BY <1>5, <1>6
  <1>8. k - 1 \in S
    BY <1>7 DEF Rest
  <1> QED BY <1>6, <1>7, <1>8

\* The list after one update, as ReplayFrom takes it.
Step(shown, update) == CHOOSE s \in Applied(shown, update) : TRUE

\* f is the list after each of the first n updates.
Run(f, n, shown, updates) ==
    f = [k \in 0 .. n |-> IF k = 0 THEN shown ELSE Step(f[k - 1], updates[k])]

LEMMA RunExists ==
    ASSUME NEW shown, NEW updates, NEW n \in Nat
    PROVE  \E f : Run(f, n, shown, updates)
  <1> DEFINE S == {m \in Nat : \E f : Run(f, m, shown, updates)}
  <1>1. 0 \in S
    <2>1. Run([k \in 0 .. 0 |-> shown], 0, shown, updates)
      BY DEF Run
    <2> QED BY <2>1
  <1>2. ASSUME NEW m \in Nat, m \in S
        PROVE  m + 1 \in S
    <2>1. PICK f : Run(f, m, shown, updates)
      BY <1>2
    <2> DEFINE g == [k \in 0 .. m + 1 |-> IF k = m + 1 THEN Step(f[m], updates[m + 1]) ELSE f[k]]
    <2>2. \A k \in 0 .. m : g[k] = f[k]
      OBVIOUS
    <2>3. g[m + 1] = Step(g[m], updates[m + 1])
      BY <2>2
    <2>4. \A k \in 0 .. m : g[k] = IF k = 0 THEN shown ELSE Step(g[k - 1], updates[k])
      <3>1. \A k \in 0 .. m : f[k] = IF k = 0 THEN shown ELSE Step(f[k - 1], updates[k])
        BY <2>1 DEF Run
      <3> HIDE DEF g
      <3>2. \A k \in 0 .. m : k # 0 => k - 1 \in 0 .. m
        OBVIOUS
      <3> QED BY <2>2, <3>1, <3>2
    <2>5. \A k \in 0 .. m + 1 : k \in 0 .. m \/ (k = m + 1 /\ k # 0 /\ k - 1 = m)
      OBVIOUS
    <2>6. g = [k \in 0 .. m + 1 |-> g[k]]
      OBVIOUS
    <2> HIDE DEF g
    <2>7. \A k \in 0 .. m + 1 : g[k] = IF k = 0 THEN shown ELSE Step(g[k - 1], updates[k])
      BY <2>3, <2>4, <2>5
    <2>8. Run(g, m + 1, shown, updates)
      BY <2>6, <2>7, Zenon DEF Run
    <2> QED BY <2>8
  <1> HIDE DEF S
  <1>3. n \in S
    BY <1>1, <1>2, Induction
  <1> QED BY <1>3 DEF S

LEMMA ReplayIsRun ==
    ASSUME NEW shown, NEW updates, Len(updates) \in Nat
    PROVE  \E f : /\ Run(f, Len(updates), shown, updates)
                  /\ ReplayFrom(shown, updates) = f[Len(updates)]
  <1> DEFINE n == Len(updates)
             g == CHOOSE f : f = [k \in 0 .. n |-> IF k = 0 THEN shown
                                 ELSE CHOOSE s \in Applied(f[k - 1], updates[k]) : TRUE]
  <1>1. Run(g, n, shown, updates)
    <2>1. \E f : f = [k \in 0 .. n |-> IF k = 0 THEN shown
                     ELSE CHOOSE s \in Applied(f[k - 1], updates[k]) : TRUE]
      <3>1. \E f : Run(f, n, shown, updates)
        BY RunExists
      <3> QED BY <3>1, Zenon DEF Run, Step
    <2>2. g = [k \in 0 .. n |-> IF k = 0 THEN shown
                     ELSE CHOOSE s \in Applied(g[k - 1], updates[k]) : TRUE]
      BY <2>1, Zenon
    <2> QED BY <2>2, Zenon DEF Run, Step
  <1>2. ReplayFrom(shown, updates) = g[n]
    BY DEF ReplayFrom
  <1> QED BY <1>1, <1>2

-----------------------------------------------------------------------------
(* Lists.  In a list that shows one event per ID, what merging a page or   *)
(* reading an update makes of it is determined: each update acts on the    *)
(* event of one ID.                                                        *)

Lists == {s \in SUBSET Event : \A e, f \in s : e.id = f.id => e = f}

Overlay(shown, new) == {e \in shown : \A f \in new : f.id # e.id} \cup new

\* The ID of the event an update is about.
Target(u) == IF u.ty = "+evt" THEN u.evt.id ELSE u.id

\* What an update about an event makes of it.
Modify(u, e) ==
    IF u.diff.field = "share" THEN [e EXCEPT !.share = u.diff.value]
    ELSE IF e.ty # "playerJoin" THEN [e EXCEPT !.title = u.diff.value] ELSE e

Act(u, events) ==
    CASE u.ty = "+evt" -> {u.evt}
      [] u.ty = "-evt" -> {}
      [] u.ty = "~evt" -> {Modify(u, e) : e \in events}

Apply(shown, u) ==
    {e \in shown : e.id # Target(u)} \cup Act(u, WithID(shown, Target(u)))

LEMMA OneWithID ==
    ASSUME NEW shown \in Lists, NEW id
    PROVE  /\ WithID(shown, id) = {} \/ \E e \in shown : WithID(shown, id) = {e} /\ e.id = id
           /\ \A e \in shown : WithID(shown, e.id) = {e}
           /\ Cardinality(WithID(shown, id)) = IF WithID(shown, id) = {} THEN 0 ELSE 1
  <1>1. \A e \in shown : WithID(shown, e.id) = {e}
    BY DEF Lists, WithID
  <1>2. WithID(shown, id) = {} \/ \E e \in shown : WithID(shown, id) = {e} /\ e.id = id
    BY DEF Lists, WithID
  <1>3. Cardinality({}) = 0 /\ \A x : Cardinality({x}) = 1
    BY FS_EmptySet, FS_Singleton
  <1> QED BY <1>1, <1>2, <1>3

LEMMA MergedIs ==
    ASSUME NEW shown \in Lists, NEW new \in Lists
    PROVE  Merged(shown, new) = {Overlay(shown, new)}
  <1> DEFINE Replaced == {gone \in SUBSET shown :
                 \A e \in shown :
                     IF Cardinality(WithID(new, e.id)) >= Cardinality(WithID(shown, e.id))
                     THEN e \in gone
                     ELSE Cardinality(WithID(gone, e.id)) = Cardinality(WithID(new, e.id))}
             Gone == {e \in shown : WithID(new, e.id) # {}}
  <1>1. ASSUME NEW gone \in SUBSET shown, NEW e \in shown
        PROVE  (IF Cardinality(WithID(new, e.id)) >= Cardinality(WithID(shown, e.id))
                THEN e \in gone
                ELSE Cardinality(WithID(gone, e.id)) = Cardinality(WithID(new, e.id)))
               <=> (e \in gone <=> WithID(new, e.id) # {})
    <2>1. Cardinality(WithID(shown, e.id)) = 1
      BY OneWithID, FS_Singleton
    <2>2. WithID(gone, e.id) = IF e \in gone THEN {e} ELSE {}
      BY DEF Lists, WithID
    <2>3. Cardinality(WithID(gone, e.id)) = IF e \in gone THEN 1 ELSE 0
      BY <2>2, FS_EmptySet, FS_Singleton
    <2>4. Cardinality(WithID(new, e.id)) = IF WithID(new, e.id) = {} THEN 0 ELSE 1
      BY OneWithID
    <2> QED BY <2>1, <2>3, <2>4
  <1>2. Replaced = {Gone}
    BY <1>1
  <1>3. Merged(shown, new) = {(shown \ gone) \cup new : gone \in Replaced}
    BY DEF Merged
  <1>4. (shown \ Gone) \cup new = Overlay(shown, new)
    BY DEF Overlay, WithID
  <1> HIDE DEF Replaced, Gone
  <1> QED BY <1>2, <1>3, <1>4

LEMMA UpdateFields ==
    ASSUME NEW u \in Update
    PROVE  /\ u.ty \in {"+evt", "-evt", "~evt"}
           /\ Target(u) \in Nat
           /\ u.ty = "+evt" => u.evt \in Event
           /\ u.ty = "~evt" => \/ u.diff.field = "share" /\ u.diff.value \in Shares
                               \/ u.diff.field = "title" /\ u.diff.value \in Titles
  BY DEF Update, Event, Target

LEMMA ModifyType ==
    ASSUME NEW u \in Update, u.ty = "~evt", NEW e \in Event
    PROVE  Modify(u, e) \in Event /\ Modify(u, e).id = e.id
  BY UpdateFields DEF Modify, Event

LEMMA AppliedIs ==
    ASSUME NEW shown \in Lists, NEW u \in Update
    PROVE  Applied(shown, u) = {Apply(shown, u)}
  <1>1. CASE u.ty = "+evt"
    <2>1. {u.evt} \in Lists
      BY <1>1, UpdateFields DEF Lists
    <2>2. Overlay(shown, {u.evt}) = Apply(shown, u)
      BY <1>1 DEF Overlay, Apply, Act, Target
    <2> QED BY <1>1, <2>1, <2>2, MergedIs DEF Applied
  <1>2. CASE u.ty = "-evt"
    <2>1. shown \ WithID(shown, u.id) = Apply(shown, u)
      BY <1>2 DEF Apply, Act, Target, WithID
    <2> QED BY <1>2, <2>1 DEF Applied
  <1>3. CASE u.ty = "~evt"
    <2>1. Applied(shown, u) = { {IF e.id # u.id THEN e ELSE Modify(u, e) : e \in shown} }
      BY <1>3 DEF Applied, Modify
    <2>2. {IF e.id # u.id THEN e ELSE Modify(u, e) : e \in shown} = Apply(shown, u)
      BY <1>3 DEF Apply, Act, Target, WithID
    <2> QED BY <2>1, <2>2
  <1> QED BY <1>1, <1>2, <1>3, UpdateFields

LEMMA StepIs ==
    ASSUME NEW shown \in Lists, NEW u \in Update
    PROVE  Step(shown, u) = Apply(shown, u)
  BY AppliedIs DEF Step

-----------------------------------------------------------------------------
(* What updates do to lists, ID by ID.                                     *)

LEMMA EventsEqual ==
    ASSUME NEW e \in Event, NEW f \in Event, e.id = f.id, e.ty = f.ty, e.pID = f.pID,
           e.share = f.share, e.title = f.title
    PROVE  e = f
  BY DEF Event

LEMMA ModifyFields ==
    ASSUME NEW u \in Update, u.ty = "~evt", NEW e \in Event
    PROVE  /\ Modify(u, e) \in Event
           /\ Modify(u, e).id = e.id /\ Modify(u, e).ty = e.ty /\ Modify(u, e).pID = e.pID
           /\ Modify(u, e).share = IF u.diff.field = "share" THEN u.diff.value ELSE e.share
           /\ Modify(u, e).title = IF u.diff.field = "share" \/ e.ty = "playerJoin"
                                   THEN e.title ELSE u.diff.value
  BY UpdateFields DEF Modify, Event

LEMMA ModifyTwice ==
    ASSUME NEW u \in Update, u.ty = "~evt", NEW e \in Event
    PROVE  Modify(u, Modify(u, e)) = Modify(u, e)
  <1>1. Modify(u, e) \in Event
    BY ModifyFields
  <1> QED BY <1>1, ModifyFields, EventsEqual

\* What two modifications agree on after u they agree on after w and u.
LEMMA ModifyAlike ==
    ASSUME NEW u \in Update, u.ty = "~evt", NEW w \in Update, w.ty = "~evt",
           NEW e \in Event, NEW f \in Event, Modify(u, e) = Modify(u, f)
    PROVE  Modify(u, Modify(w, e)) = Modify(u, Modify(w, f))
  <1>1. /\ e.id = f.id /\ e.ty = f.ty /\ e.pID = f.pID
        /\ u.diff.field = "share" \/ e.share = f.share
        /\ (u.diff.field # "share" /\ e.ty # "playerJoin") \/ e.title = f.title
    BY ModifyFields
  <1>2. Modify(w, e) \in Event /\ Modify(w, f) \in Event
    BY ModifyFields
  <1> DEFINE x == Modify(w, e)
             y == Modify(w, f)
  <1>3. /\ x.id = y.id /\ x.ty = y.ty /\ x.pID = y.pID /\ x.ty = e.ty
        /\ u.diff.field = "share" \/ x.share = y.share
        /\ (u.diff.field # "share" /\ e.ty # "playerJoin") \/ x.title = y.title
    BY <1>1, ModifyFields
  <1> HIDE DEF x, y
  <1>4. /\ Modify(u, x) \in Event /\ Modify(u, y) \in Event
        /\ Modify(u, x).id = Modify(u, y).id /\ Modify(u, x).ty = Modify(u, y).ty
        /\ Modify(u, x).pID = Modify(u, y).pID
        /\ Modify(u, x).share = Modify(u, y).share /\ Modify(u, x).title = Modify(u, y).title
    BY <1>2, <1>3, ModifyFields DEF x, y
  <1>5. Modify(u, x) = Modify(u, y)
    BY <1>4, EventsEqual
  <1> QED BY <1>5 DEF x, y

LEMMA ActType ==
    ASSUME NEW u \in Update, NEW shown \in Lists
    PROVE  LET acted == Act(u, WithID(shown, Target(u)))
           IN  acted \in SUBSET Event /\ \A e, f \in acted : e = f /\ e.id = Target(u)
  <1>1. CASE u.ty = "+evt"
    BY <1>1, UpdateFields DEF Act, Target
  <1>2. CASE u.ty = "-evt"
    BY <1>2 DEF Act
  <1>3. CASE u.ty = "~evt"
    <2>1. \A e \in WithID(shown, Target(u)) : Modify(u, e) \in Event /\ Modify(u, e).id = Target(u)
      BY <1>3, ModifyFields DEF Lists, WithID
    <2>2. \A e, f \in WithID(shown, Target(u)) : e = f
      BY DEF Lists, WithID
    <2> QED BY <1>3, <2>1, <2>2 DEF Act
  <1> QED BY <1>1, <1>2, <1>3, UpdateFields

LEMMA ApplyType ==
    ASSUME NEW u \in Update, NEW shown \in Lists
    PROVE  Apply(shown, u) \in Lists
  <1> DEFINE acted == Act(u, WithID(shown, Target(u)))
  <1>1. acted \in SUBSET Event /\ \A e, f \in acted : e = f /\ e.id = Target(u)
    BY ActType
  <1>2. Apply(shown, u) = {e \in shown : e.id # Target(u)} \cup acted
    BY DEF Apply
  <1> HIDE DEF acted
  <1> QED BY <1>1, <1>2 DEF Lists

LEMMA ApplyAt ==
    ASSUME NEW u \in Update, NEW shown \in Lists, NEW id
    PROVE  WithID(Apply(shown, u), id) =
               IF id = Target(u) THEN Act(u, WithID(shown, id)) ELSE WithID(shown, id)
  <1> DEFINE acted == Act(u, WithID(shown, Target(u)))
  <1>1. \A e \in acted : e.id = Target(u)
    BY ActType
  <1>2. Apply(shown, u) = {e \in shown : e.id # Target(u)} \cup acted
    BY DEF Apply
  <1>3. CASE id = Target(u)
    <2>1. acted = Act(u, WithID(shown, id))
      BY <1>3
    <2> HIDE DEF acted
    <2>2. WithID(Apply(shown, u), id) = acted
      BY <1>1, <1>2, <1>3 DEF WithID
    <2> QED BY <1>3, <2>1, <2>2
  <1>4. CASE id # Target(u)
    <2> HIDE DEF acted
    <2> QED BY <1>1, <1>2, <1>4 DEF WithID
  <1> QED BY <1>3, <1>4

LEMMA SameLists ==
    ASSUME NEW a \in Lists, NEW b \in Lists, \A id \in Nat : WithID(a, id) = WithID(b, id)
    PROVE  a = b
  <1>1. ASSUME NEW e \in Event
        PROVE  (e \in a <=> e \in WithID(a, e.id)) /\ (e \in b <=> e \in WithID(b, e.id))
    BY DEF WithID
  <1>2. \A e \in Event : e.id \in Nat
    BY DEF Event
  <1>3. \A e \in Event : e \in a <=> e \in b
    BY <1>1, <1>2
  <1> QED BY <1>3 DEF Lists

\* Reading an update twice is reading it once.
LEMMA ApplyTwice ==
    ASSUME NEW u \in Update, NEW shown \in Lists
    PROVE  Apply(Apply(shown, u), u) = Apply(shown, u)
  <1> DEFINE once == Apply(shown, u)
             here == WithID(shown, Target(u))
  <1>1. once \in Lists /\ Apply(once, u) \in Lists
    BY ApplyType
  <1>2. Act(u, Act(u, here)) = Act(u, here)
    <2>1. CASE u.ty = "~evt"
      <3>1. here \subseteq Event
        BY DEF Lists, WithID
      <3> HIDE DEF here
      <3> QED BY <2>1, <3>1, ModifyTwice DEF Act
    <2> QED BY <2>1, UpdateFields DEF Act
  <1>3. \A id \in Nat : WithID(Apply(once, u), id) = WithID(once, id)
    <2> TAKE id \in Nat
    <2>1. WithID(Apply(once, u), id) =
              IF id = Target(u) THEN Act(u, WithID(once, id)) ELSE WithID(once, id)
      BY <1>1, ApplyAt
    <2>2. WithID(once, id) =
              IF id = Target(u) THEN Act(u, WithID(shown, id)) ELSE WithID(shown, id)
      BY ApplyAt
    <2> QED BY <1>2, <2>1, <2>2
  <1> HIDE DEF once
  <1>4. Apply(once, u) = once
    BY <1>1, <1>3, SameLists
  <1> QED BY <1>4 DEF once

LEMMA ActAlike ==
    ASSUME NEW u \in Update, NEW w \in Update, NEW a \in SUBSET Event, NEW b \in SUBSET Event,
           \A e, f \in a : e = f, \A e, f \in b : e = f,
           Act(u, a) = Act(u, b)
    PROVE  Act(u, Act(w, a)) = Act(u, Act(w, b))
  <1>1. CASE u.ty # "~evt" \/ w.ty # "~evt"
    BY <1>1, UpdateFields DEF Act
  <1>2. CASE u.ty = "~evt" /\ w.ty = "~evt"
    <2>1. CASE a = {}
      <3>1. b = {}
        BY <1>2, <2>1 DEF Act
      <3> QED BY <2>1, <3>1
    <2>2. CASE b = {}
      <3>1. a = {}
        BY <1>2, <2>2 DEF Act
      <3> QED BY <2>2, <3>1
    <2>3. CASE a # {} /\ b # {}
      <3>1. PICK e \in Event : a = {e}
        BY <2>3
      <3>2. PICK f \in Event : b = {f}
        BY <2>3
      <3>3. Act(u, a) = {Modify(u, e)} /\ Act(u, b) = {Modify(u, f)}
        BY <1>2, <3>1, <3>2 DEF Act
      <3>4. Modify(u, Modify(w, e)) = Modify(u, Modify(w, f))
        <4>1. \A x, y : {x} = {y} => x = y
          OBVIOUS
        <4>2. Modify(u, e) = Modify(u, f)
          BY <3>3, <4>1
        <4> QED BY <1>2, <4>2, ModifyAlike
      <3>5. /\ Act(u, Act(w, a)) = {Modify(u, Modify(w, e))}
            /\ Act(u, Act(w, b)) = {Modify(u, Modify(w, f))}
        BY <1>2, <3>1, <3>2 DEF Act
      <3> QED BY <3>4, <3>5
    <2> QED BY <2>1, <2>2, <2>3
  <1> QED BY <1>1, <1>2

\* Two lists that differ only in what u puts right differ only in that after w.
LEMMA ApplyAlike ==
    ASSUME NEW u \in Update, NEW w \in Update, NEW a \in Lists, NEW b \in Lists,
           Apply(a, u) = Apply(b, u)
    PROVE  Apply(Apply(a, w), u) = Apply(Apply(b, w), u)
  <1> DEFINE x == Apply(a, w)
             y == Apply(b, w)
  <1>1. /\ x \in Lists /\ y \in Lists
        /\ Apply(x, u) \in Lists /\ Apply(y, u) \in Lists
    BY ApplyType
  <1>2. \A id \in Nat : WithID(Apply(x, u), id) = WithID(Apply(y, u), id)
    <2> TAKE id \in Nat
    <2> DEFINE ea == WithID(a, id)
               eb == WithID(b, id)
    <2>1. /\ WithID(x, id) = IF id = Target(w) THEN Act(w, ea) ELSE ea
          /\ WithID(y, id) = IF id = Target(w) THEN Act(w, eb) ELSE eb
      BY ApplyAt
    <2>2. /\ WithID(Apply(x, u), id) =
                 IF id = Target(u) THEN Act(u, WithID(x, id)) ELSE WithID(x, id)
          /\ WithID(Apply(y, u), id) =
                 IF id = Target(u) THEN Act(u, WithID(y, id)) ELSE WithID(y, id)
      BY <1>1, ApplyAt
    <2>3. IF id = Target(u) THEN Act(u, ea) = Act(u, eb) ELSE ea = eb
      <3>1. /\ WithID(Apply(a, u), id) = IF id = Target(u) THEN Act(u, ea) ELSE ea
            /\ WithID(Apply(b, u), id) = IF id = Target(u) THEN Act(u, eb) ELSE eb
        BY ApplyAt
      <3> QED BY <3>1
    <2>4. /\ ea \in SUBSET Event /\ \A e, f \in ea : e = f
          /\ eb \in SUBSET Event /\ \A e, f \in eb : e = f
      BY DEF Lists, WithID
    <2> HIDE DEF ea, eb, x, y
    <2>5. Act(u, ea) = Act(u, eb) => Act(u, Act(w, ea)) = Act(u, Act(w, eb))
      BY <2>4, ActAlike
    <2> QED BY <2>1, <2>2, <2>3, <2>5
  <1> HIDE DEF x, y
  <1>3. Apply(x, u) = Apply(y, u)
    BY <1>1, <1>2, SameLists
  <1> QED BY <1>3 DEF x, y

-----------------------------------------------------------------------------
(* What the replay of a sequence of updates is.                            *)

\* f is the list before and after each of the first n updates.
Runs(f, n, shown, updates) ==
    f[0] = shown /\ \A k \in 1 .. n : f[k] = Step(f[k - 1], updates[k])

\* What relates two lists, and is kept by each pair of updates, relates what two
\* runs come to.
LEMMA RunsRelated ==
    ASSUME NEW R, NEW n \in Nat, NEW f, NEW g, NEW a, NEW b, NEW ma, NEW mb,
           Runs(f, n, a, ma), Runs(g, n, b, mb), << a, b >> \in R,
           \A k \in 1 .. n : \A x, y : << x, y >> \in R => << Step(x, ma[k]), Step(y, mb[k]) >> \in R
    PROVE  << f[n], g[n] >> \in R
  <1> DEFINE S == {k \in Nat : k <= n => << f[k], g[k] >> \in R}
  <1>1. 0 \in S
    BY DEF Runs
  <1>2. ASSUME NEW k \in Nat, k \in S
        PROVE  k + 1 \in S
    <2> SUFFICES ASSUME k + 1 <= n
                 PROVE  << f[k + 1], g[k + 1] >> \in R
      OBVIOUS
    <2>1. k + 1 \in 1 .. n /\ k <= n /\ (k + 1) - 1 = k
      OBVIOUS
    <2>2. << f[k], g[k] >> \in R
      BY <1>2, <2>1
    <2>3. f[k + 1] = Step(f[k], ma[k + 1]) /\ g[k + 1] = Step(g[k], mb[k + 1])
      BY <2>1 DEF Runs
    <2> QED BY <2>1, <2>2, <2>3
  <1> HIDE DEF S
  <1>3. n \in S
    BY <1>1, <1>2, Induction
  <1> QED BY <1>3 DEF S

LEMMA ReplayRuns ==
    ASSUME NEW shown, NEW updates \in Seq(Update)
    PROVE  \E f : /\ Runs(f, Len(updates), shown, updates)
                  /\ ReplayFrom(shown, updates) = f[Len(updates)]
  <1> DEFINE n == Len(updates)
  <1>1. n \in Nat
    OBVIOUS
  <1>2. PICK f : Run(f, n, shown, updates) /\ ReplayFrom(shown, updates) = f[n]
    BY <1>1, ReplayIsRun
  <1> HIDE DEF n
  <1>3. \A k \in 0 .. n : f[k] = IF k = 0 THEN shown ELSE Step(f[k - 1], updates[k])
    BY <1>2 DEF Run
  <1>4. 0 \in 0 .. n /\ \A k \in 1 .. n : k \in 0 .. n /\ k # 0
    BY <1>1
  <1>5. Runs(f, n, shown, updates)
    BY <1>3, <1>4 DEF Runs
  <1> QED BY <1>2, <1>5 DEF n

\* Whatever run there is, the replay is what it comes to.
LEMMA ReplayIs ==
    ASSUME NEW shown \in Lists, NEW updates \in Seq(Update), NEW f, NEW n, n = Len(updates),
           Runs(f, n, shown, updates)
    PROVE  ReplayFrom(shown, updates) = f[n]
  <1>1. PICK g : Runs(g, n, shown, updates) /\ ReplayFrom(shown, updates) = g[n]
    BY ReplayRuns
  <1> DEFINE R == {<< x, x >> : x \in Lists}
  <1>2. << shown, shown >> \in R /\ n \in Nat
    OBVIOUS
  <1>3. ASSUME NEW k \in 1 .. n, NEW x, NEW y, << x, y >> \in R
        PROVE  << Step(x, updates[k]), Step(y, updates[k]) >> \in R
    <2>1. x \in Lists /\ x = y /\ updates[k] \in Update
      BY <1>3
    <2>2. Step(x, updates[k]) \in Lists
      BY <2>1, StepIs, ApplyType
    <2> QED BY <2>1, <2>2
  <1>4. << g[n], f[n] >> \in R
    <2> HIDE DEF R
    <2> QED BY <1>1, <1>2, <1>3, RunsRelated
  <1> QED BY <1>1, <1>4

LEMMA ReplayType ==
    ASSUME NEW shown \in Lists, NEW updates \in Seq(Update)
    PROVE  ReplayFrom(shown, updates) \in Lists
  <1>1. PICK f : /\ Runs(f, Len(updates), shown, updates)
                 /\ ReplayFrom(shown, updates) = f[Len(updates)]
    BY ReplayRuns
  <1> DEFINE R == {<< x, x >> : x \in Lists}
             n == Len(updates)
  <1>2. << shown, shown >> \in R /\ n \in Nat
    OBVIOUS
  <1>3. ASSUME NEW k \in 1 .. n, NEW x, NEW y, << x, y >> \in R
        PROVE  << Step(x, updates[k]), Step(y, updates[k]) >> \in R
    <2>1. x \in Lists /\ x = y /\ updates[k] \in Update
      BY <1>3
    <2>2. Step(x, updates[k]) \in Lists
      BY <2>1, StepIs, ApplyType
    <2> QED BY <2>1, <2>2
  <1>4. << f[n], f[n] >> \in R
    <2> HIDE DEF R
    <2> QED BY <1>1, <1>2, <1>3, RunsRelated
  <1> QED BY <1>1, <1>4

LEMMA ReplayNone ==
    ASSUME NEW shown \in Lists
    PROVE  ReplayFrom(shown, <<>>) = shown
  <1> DEFINE f == [k \in 0 .. 0 |-> shown]
  <1>1. <<>> \in Seq(Update) /\ Len(<<>>) = 0
    OBVIOUS
  <1>2. f[0] = shown
    OBVIOUS
  <1>3. Runs(f, 0, shown, <<>>)
    BY <1>2 DEF Runs
  <1> QED BY <1>1, <1>2, <1>3, ReplayIs

\* One more update to read.
LEMMA ReplayAppend ==
    ASSUME NEW shown \in Lists, NEW updates \in Seq(Update), NEW u \in Update
    PROVE  ReplayFrom(shown, updates \o << u >>) = Apply(ReplayFrom(shown, updates), u)
  <1> DEFINE more == updates \o << u >>
             n == Len(updates)
  <1>1. /\ n \in Nat /\ more \in Seq(Update) /\ Len(more) = n + 1 /\ more[n + 1] = u
        /\ \A k \in 1 .. n : more[k] = updates[k]
    OBVIOUS
  <1> HIDE DEF more, n
  <1>2. PICK f : Runs(f, n + 1, shown, more) /\ ReplayFrom(shown, more) = f[n + 1]
    BY <1>1, ReplayRuns
  <1>3. Runs(f, n, shown, updates)
    BY <1>1, <1>2 DEF Runs
  <1>4. ReplayFrom(shown, updates) = f[n]
    BY <1>3, ReplayIs DEF n
  <1>5. f[n + 1] = Step(f[n], u)
    BY <1>1, <1>2 DEF Runs
  <1>6. f[n] \in Lists
    BY <1>4, ReplayType
  <1> QED BY <1>2, <1>4, <1>5, <1>6, StepIs DEF more

\* The first update read.
LEMMA ReplayHead ==
    ASSUME NEW shown \in Lists, NEW updates \in Seq(Update), updates # <<>>
    PROVE  ReplayFrom(Apply(shown, Head(updates)), Tail(updates)) = ReplayFrom(shown, updates)
  <1> DEFINE rest == Tail(updates)
             n == Len(rest)
             u == Head(updates)
  <1>1. /\ n \in Nat /\ rest \in Seq(Update) /\ Len(updates) = n + 1
        /\ u \in Update /\ updates[1] = u
        /\ \A k \in 1 .. n : rest[k] = updates[k + 1]
    OBVIOUS
  <1> HIDE DEF rest, n, u
  <1>2. PICK f : Runs(f, n + 1, shown, updates) /\ ReplayFrom(shown, updates) = f[n + 1]
    BY <1>1, ReplayRuns
  <1> DEFINE g == [k \in 0 .. n |-> f[k + 1]]
  <1>3. \A k \in 0 .. n : g[k] = f[k + 1]
    OBVIOUS
  <1> HIDE DEF g
  <1>4. g[0] = Apply(shown, u)
    <2>1. 1 \in 1 .. n + 1 /\ 1 - 1 = 0 /\ 0 \in 0 .. n /\ 0 + 1 = 1
      BY <1>1
    <2>2. f[1] = Step(shown, u)
      BY <1>1, <1>2, <2>1 DEF Runs
    <2> QED BY <1>1, <1>3, <2>1, <2>2, StepIs
  <1>5. ASSUME NEW k \in 1 .. n
        PROVE  g[k] = Step(g[k - 1], rest[k])
    <2>1. /\ k + 1 \in 1 .. n + 1 /\ (k + 1) - 1 = k /\ (k - 1) + 1 = k
          /\ k \in 0 .. n /\ k - 1 \in 0 .. n
      BY <1>1
    <2>2. f[k + 1] = Step(f[k], updates[k + 1])
      BY <1>2, <2>1 DEF Runs
    <2>3. g[k] = f[k + 1] /\ g[k - 1] = f[k]
      BY <1>3, <2>1
    <2> QED BY <1>1, <2>2, <2>3
  <1>6. Runs(g, n, Apply(shown, u), rest)
    BY <1>4, <1>5 DEF Runs
  <1>7. Apply(shown, u) \in Lists
    BY <1>1, ApplyType
  <1>8. ReplayFrom(Apply(shown, u), rest) = g[n]
    BY <1>1, <1>6, <1>7, ReplayIs DEF n
  <1>9. g[n] = f[n + 1]
    BY <1>1, <1>3
  <1> QED BY <1>2, <1>8, <1>9 DEF rest, u

\* What relates two lists and is kept by every update relates what they become.
LEMMA ReplayRelated ==
    ASSUME NEW R \in SUBSET (Lists \X Lists), NEW a \in Lists, NEW b \in Lists,
           NEW updates \in Seq(Update), << a, b >> \in R,
           \A x, y \in Lists : \A w \in Update :
               << x, y >> \in R => << Apply(x, w), Apply(y, w) >> \in R
    PROVE  << ReplayFrom(a, updates), ReplayFrom(b, updates) >> \in R
  <1> DEFINE n == Len(updates)
  <1>1. n \in Nat /\ \A k \in 1 .. n : updates[k] \in Update
    OBVIOUS
  <1>2. PICK f : Runs(f, n, a, updates) /\ ReplayFrom(a, updates) = f[n]
    BY ReplayRuns
  <1>3. PICK g : Runs(g, n, b, updates) /\ ReplayFrom(b, updates) = g[n]
    BY ReplayRuns
  <1>4. \A x, y : << x, y >> \in R => x \in Lists /\ y \in Lists
    OBVIOUS
  <1>5. ASSUME NEW k \in 1 .. n, NEW x, NEW y, << x, y >> \in R
        PROVE  << Step(x, updates[k]), Step(y, updates[k]) >> \in R
    <2>1. x \in Lists /\ y \in Lists
      BY <1>4, <1>5
    <2> HIDE DEF n
    <2> QED BY <1>1, <1>5, <2>1, StepIs
  <1> HIDE DEF n
  <1>6. << f[n], g[n] >> \in R
    BY <1>1, <1>2, <1>3, <1>5, RunsRelated
  <1> QED BY <1>2, <1>3, <1>6

\* What two lists agree on after u they agree on after the same updates and u.
LEMMA ReplayAlike ==
    ASSUME NEW u \in Update, NEW a \in Lists, NEW b \in Lists, NEW updates \in Seq(Update),
           Apply(a, u) = Apply(b, u)
    PROVE  Apply(ReplayFrom(a, updates), u) = Apply(ReplayFrom(b, updates), u)
  <1> DEFINE R == {p \in Lists \X Lists : Apply(p[1], u) = Apply(p[2], u)}
  <1>1. \A x, y \in Lists : << x, y >> \in R <=> Apply(x, u) = Apply(y, u)
    OBVIOUS
  <1>2. R \subseteq Lists \X Lists
    OBVIOUS
  <1> HIDE DEF R
  <1>3. \A x, y \in Lists : \A w \in Update :
            << x, y >> \in R => << Apply(x, w), Apply(y, w) >> \in R
    BY <1>1, ApplyAlike, ApplyType
  <1>4. << ReplayFrom(a, updates), ReplayFrom(b, updates) >> \in R
    BY <1>1, <1>2, <1>3, ReplayRelated
  <1> QED BY <1>1, <1>4, ReplayType

\* The replay is ID by ID.
LEMMA ReplayLocal ==
    ASSUME NEW id, NEW a \in Lists, NEW b \in Lists, NEW updates \in Seq(Update),
           WithID(a, id) = WithID(b, id)
    PROVE  WithID(ReplayFrom(a, updates), id) = WithID(ReplayFrom(b, updates), id)
  <1> DEFINE R == {p \in Lists \X Lists : WithID(p[1], id) = WithID(p[2], id)}
  <1>1. \A x, y \in Lists : << x, y >> \in R <=> WithID(x, id) = WithID(y, id)
    OBVIOUS
  <1>2. R \subseteq Lists \X Lists
    OBVIOUS
  <1> HIDE DEF R
  <1>3. \A x, y \in Lists : \A w \in Update :
            << x, y >> \in R => << Apply(x, w), Apply(y, w) >> \in R
    BY <1>1, ApplyAt, ApplyType
  <1>4. << ReplayFrom(a, updates), ReplayFrom(b, updates) >> \in R
    BY <1>1, <1>2, <1>3, ReplayRelated
  <1> QED BY <1>1, <1>4, ReplayType

-----------------------------------------------------------------------------
(* What the updates of a change do to the list of whoever sees the event.  *)

LEMMA ApplyCreate ==
    ASSUME NEW evt \in Event, NEW shown
    PROVE  Apply(shown, ForNewEvent(evt)) = {e \in shown : e.id # evt.id} \cup {evt}
  BY DEF Apply, ForNewEvent, Target, Act

LEMMA ApplyDelete ==
    ASSUME NEW id, NEW shown
    PROVE  Apply(shown, ForEventDelete(id)) = {e \in shown : e.id # id}
  BY DEF Apply, ForEventDelete, Target, Act

LEMMA ApplyModify ==
    ASSUME NEW shown \in Lists, NEW e \in shown, NEW u, u.ty = "~evt", u.id = e.id
    PROVE  Apply(shown, u) = (shown \ {e}) \cup {Modify(u, e)}
  <1>1. WithID(shown, Target(u)) = {e} /\ {x \in shown : x.id # e.id} = shown \ {e}
    BY DEF Lists, WithID, Target
  <1>2. Act(u, {e}) = {Modify(u, e)}
    BY DEF Act
  <1> QED BY <1>1, <1>2 DEF Apply, Target

LEMMA ApplyShare ==
    ASSUME NEW shown \in Lists, NEW e \in shown, NEW share, NEW f, f = [e EXCEPT !.share = share]
    PROVE  Apply(shown, ForEventShare(f)) = (shown \ {e}) \cup {f}
  <1>1. e \in Event
    BY DEF Lists
  <1>2. f.id = e.id /\ f.share = share
    BY <1>1 DEF Event
  <1>3. Modify(ForEventShare(f), e) = f
    BY <1>2 DEF Modify, ForEventShare
  <1>4. ForEventShare(f).ty = "~evt" /\ ForEventShare(f).id = e.id
    BY <1>2 DEF ForEventShare
  <1> QED BY <1>3, <1>4, ApplyModify

LEMMA ApplyEdit ==
    ASSUME NEW shown \in Lists, NEW e \in shown, e.ty # "playerJoin",
           NEW title, NEW f, f = [e EXCEPT !.title = title]
    PROVE  Apply(shown, ForEventDiff(f)) = (shown \ {e}) \cup {f}
  <1>1. e \in Event
    BY DEF Lists
  <1>2. f.id = e.id /\ f.title = title
    BY <1>1 DEF Event
  <1>3. Modify(ForEventDiff(f), e) = f
    BY <1>2 DEF Modify, ForEventDiff
  <1>4. ForEventDiff(f).ty = "~evt" /\ ForEventDiff(f).id = e.id
    BY <1>2 DEF ForEventDiff
  <1> QED BY <1>3, <1>4, ApplyModify

\* An edit reaches everybody who sees the event, and nobody else, except that an
\* author who is not a GM is not told of the edit of an event shared with the GMs.
LEMMA EditReaches ==
    ASSUME NEW p \in Players, NEW isGM \in BOOLEAN, NEW evt \in Event
    PROVE  Arrivals(p, isGM, editPackets(evt)) =
               IF /\ PlayerCanSeeEvent(p, isGM, evt)
                  /\ ~(evt.share = "gms" /\ p = evt.pID /\ ~isGM)
               THEN << ForEventDiff(evt) >> ELSE <<>>
  <1> DEFINE u == ForEventDiff(evt)
             packet == Packet(UpdateChannel(evt.pID, evt.share), {}, u)
  <1>1. packet.update = u /\ editPackets(evt) = << packet >>
    BY PacketUpdate DEF editPackets
  <1>2. evt.pID \in Players /\ evt.share \in Shares
    BY DEF Event
  <1>3. Receives(p, isGM, packet) <=> /\ PlayerCanSeeEvent(p, isGM, evt)
                                      /\ ~(evt.share = "gms" /\ p = evt.pID /\ ~isGM)
    BY <1>2, ChannelsDiffer
       DEF Receives, Channels, Packet, shouldSendUpdate, UpdateChannel, PlayerCanSeeEvent, Shares
  <1> HIDE DEF u, packet
  <1> QED BY <1>1, <1>3, ArrivalsOf1 DEF u

-----------------------------------------------------------------------------
(* What a request is about to publish.  It was addressed by the event as   *)
(* it was read, which is the event that is still there.                    *)

ForEdit(t, e, new, packets) ==
    /\ e.ty # "playerJoin"
    /\ \E title \in Titles : new = [e EXCEPT !.title = title]
    /\ packets = editPackets(new)
    /\ IsGM(t) \/ new = e

ForShare(e, new, packets) ==
    \E share \in Shares \ {e.share} :
        /\ new = [e EXCEPT !.share = share]
        /\ packets = sharePacketsModifyingEvent(e, share)

Addressed(t) ==
    req[t].pc = "replace" =>
        \E e \in history :
            /\ e.pID = PlayerOf[t]
            /\ \/ ForEdit(t, e, req[t].new, req[t].packets)
               \/ ForShare(e, req[t].new, req[t].packets)

AddressedInv == \A t \in Tabs : Addressed(t)

\* An edit of an event that is shared with the GMs goes to the GMs alone.  It is seen by
\* all who see the event when whoever edits events is a GM, or where there is nothing to edit.
EditsReachAuthors == \A t \in Authors : IsGM(t) \/ \A a, b \in Titles : a = b

LEMMA InitAddressedInv == Init => AddressedInv
  BY DEF Init, AddressedInv, Addressed, Idle

LEMMA StaysAddressed ==
    ASSUME TypeOK, AuthorInv, OneTabWrites, [Next]_vars,
           NEW u \in Tabs, Addressed(u), req'[u] = req[u]
    PROVE  Addressed(u)'
  <1>0. req[u].pc # "idle" => req[u] # Idle
    BY DEF Idle
  <1>1. req[u].pc # "idle" => \A e \in history : e.pID = PlayerOf[u] => e \in history'
    BY <1>0, OwnEventsStay
  <1>2. req[u].pc = "replace" =>
            \E e \in history' :
                /\ e.pID = PlayerOf[u]
                /\ \/ ForEdit(u, e, req[u].new, req[u].packets)
                   \/ ForShare(e, req[u].new, req[u].packets)
    BY <1>1 DEF Addressed
  <1> QED BY <1>2 DEF Addressed, ForEdit, ForShare, IsGM, HasGM

LEMMA AddressedRequest ==
    ASSUME TypeOK, AuthorInv, OneTabWrites, AddressedInv, [Next]_vars, NEW t \in Tabs,
           \A u \in Tabs \ {t} : req'[u] = req[u], Addressed(t)'
    PROVE  AddressedInv'
  <1>1. \A u \in Tabs \ {t} : Addressed(u)'
    BY StaysAddressed DEF AddressedInv
  <1> QED BY <1>1 DEF AddressedInv

LEMMA HandleAddressedInv ==
    ASSUME TypeOK, AuthorInv, OneTabWrites, EditsReachAuthors, AddressedInv, [Next]_vars,
           NEW t \in Tabs, Handle(t)
    PROVE  AddressedInv'
  <1>0. history \subseteq Event /\ req \in [Tabs -> Request]
    BY DEF TypeOK
  <1>1. ASSUME NEW r, Proceed(t, r),
               r.pc = "replace" =>
                 \E e \in history : /\ e.pID = PlayerOf[t]
                                    /\ ForEdit(t, e, r.new, r.packets) \/ ForShare(e, r.new, r.packets)
        PROVE  AddressedInv'
    <2>1. /\ req'[t] = r /\ history' = history
          /\ \A u \in Tabs \ {t} : req'[u] = req[u]
      BY <1>0, <1>1 DEF Proceed
    <2>2. Addressed(t)'
      BY <1>1, <2>1 DEF Addressed, ForEdit, ForShare, IsGM, HasGM
    <2> QED BY <2>1, <2>2, AddressedRequest
  <1>2. ASSUME NEW types, MakeEvent(t, types)
        PROVE  AddressedInv'
    <2>1. PICK new : Proceed(t, [pc |-> "post", new |-> new])
      BY <1>2 DEF MakeEvent
    <2> QED BY <1>1, <2>1
  <1>3. ASSUME NEW evt \in history, evt.pID = PlayerOf[t], evt.ty # "playerJoin",
               EditEvent(t, evt)
        PROVE  AddressedInv'
    <2>1. PICK title \in Titles :
              Proceed(t, [pc |-> "replace", new |-> [evt EXCEPT !.title = title],
                          packets |-> editPackets([evt EXCEPT !.title = title])])
      BY <1>3 DEF EditEvent
    <2> DEFINE edited == [evt EXCEPT !.title = title]
    <2>2. evt.title \in Titles /\ (title = evt.title => edited = evt)
      BY <1>0 DEF Event
    <2>3. t \in Authors
      BY <1>3 DEF EditEvent, CanRequest
    <2>4. IsGM(t) \/ edited = evt
      BY <2>2, <2>3 DEF EditsReachAuthors
    <2>5. \E x \in Titles : edited = [evt EXCEPT !.title = x]
      OBVIOUS
    <2>6. Proceed(t, [pc |-> "replace", new |-> edited, packets |-> editPackets(edited)])
      BY <2>1
    <2> HIDE DEF edited
    <2>7. ForEdit(t, evt, edited, editPackets(edited))
      BY <1>3, <2>4, <2>5 DEF ForEdit
    <2> QED BY <1>1, <1>3, <2>6, <2>7
  <1>4. CASE HandleShareEvent(t)
    <2>1. PICK evt \in history, share \in Shares :
              /\ evt.pID = PlayerOf[t] /\ evt.share # share
              /\ Proceed(t, [pc |-> "replace", new |-> [evt EXCEPT !.share = share],
                             packets |-> sharePacketsModifyingEvent(evt, share)])
      BY <1>4 DEF HandleShareEvent, Changeable
    <2> DEFINE shared == [evt EXCEPT !.share = share]
               packets == sharePacketsModifyingEvent(evt, share)
    <2>2. ForShare(evt, shared, packets)
      BY <2>1 DEF ForShare
    <2>3. Proceed(t, [pc |-> "replace", new |-> shared, packets |-> packets])
      BY <2>1
    <2> HIDE DEF shared, packets
    <2> QED BY <1>1, <2>1, <2>2, <2>3
  <1>5. CASE HandleDeleteEvent(t)
    <2>1. PICK evt \in history : Proceed(t, [pc |-> "delete", old |-> evt])
      BY <1>5 DEF HandleDeleteEvent
    <2> QED BY <1>1, <2>1
  <1>6. CASE HandleReroll(t)
    <2>1. PICK evt \in history : \E new : Proceed(t, [pc |-> "reroll", old |-> evt, new |-> new])
      BY <1>6 DEF HandleReroll
    <2> QED BY <1>1, <2>1
  <1> QED BY <1>2, <1>3, <1>4, <1>5, <1>6 DEF Handle, HandleRoll, HandleRollInitiative,
             HandleUpdateEvent, HandleEditInitiative, Changeable

LEMMA WriteAddressedInv ==
    ASSUME TypeOK, AuthorInv, UniqueInv, OneTabWrites, AddressedInv, [Next]_vars,
           NEW t \in Tabs, Write(t) \/ Abort(t), "splitPipeline" \notin Races
    PROVE  AddressedInv'
  <1>1. PICK r : req' = [req EXCEPT ![t] = r] /\ r.pc \in {"idle", "post"}
    <2>1. Idle.pc = "idle"
      BY DEF Idle
    <2>2. ~RemoveOld(t) /\ ~AddNew(t) /\ ~PublishNext(t)
      BY DEF RemoveOld, AddNew, PublishNext, UniqueInv
    <2> QED BY <2>1, <2>2 DEF Write, PostEvent, DeleteEvent, ReplaceEvent, Abort
  <1>2. req'[t] = r /\ \A u \in Tabs \ {t} : req'[u] = req[u]
    BY <1>1 DEF TypeOK
  <1>3. Addressed(t)'
    BY <1>1, <1>2 DEF Addressed
  <1> QED BY <1>2, <1>3, AddressedRequest

LEMMA NextAddressedInv ==
    ASSUME OneTabWrites, EditsReachAuthors, "splitPipeline" \notin Races
    PROVE  TypeOK /\ AuthorInv /\ UniqueInv /\ AddressedInv /\ [Next]_vars => AddressedInv'
  <1> SUFFICES ASSUME TypeOK, AuthorInv, UniqueInv, AddressedInv, [Next]_vars
               PROVE  AddressedInv'
    OBVIOUS
  <1>1. CASE UNCHANGED serverVars
    BY <1>1, StaysAddressed DEF serverVars, AddressedInv
  <1>2. ASSUME NEW t \in Tabs, Tab(t)
        PROVE  UNCHANGED serverVars
    BY <1>2 DEF Tab, Connect, Subscribe, LoseConnection, Reload, HandleEvents, MergePage, ReadUpdate
  <1>3. CASE UNCHANGED vars
    BY <1>1, <1>3 DEF vars, serverVars
  <1> QED BY <1>1, <1>2, <1>3, HandleAddressedInv, WriteAddressedInv DEF Next

-----------------------------------------------------------------------------
(* What a write tells the tabs that listen.                                *)

Sees(t, evt) == PlayerCanSeeEvent(PlayerOf[t], IsGM(t), evt)

\* The tab is sent nothing of a change it does not see, and otherwise one update that
\* makes of the events it could see the events it can see.
Told(t) ==
    \/ mail'[t] = mail[t] /\ VisibleTo(t)' = VisibleTo(t)
    \/ \E u \in Update : mail'[t] = mail[t] \o << u >> /\ VisibleTo(t)' = Apply(VisibleTo(t), u)

LEMMA VisibleIs ==
    ASSUME NEW t
    PROVE  /\ VisibleTo(t) = {e \in history : Sees(t, e)}
           /\ VisibleTo(t)' = {e \in history' : Sees(t, e)}
  BY DEF VisibleTo, Sees, IsGM, HasGM

LEMMA VisibleType ==
    ASSUME TypeOK, NoDuplicates, NEW t
    PROVE  VisibleTo(t) \in Lists
  BY DEF TypeOK, NoDuplicates, VisibleTo, Lists

\* What is published arrives in the mail of each tab that listens.
LEMMA Published1 ==
    ASSUME TypeOK, NEW t \in Tabs, NEW packets, mail' = Published(packets), stream[t] = "open"
    PROVE  mail'[t] = mail[t] \o Arrivals(PlayerOf[t], IsGM(t), packets)
  BY DEF Published

LEMMA PublishedNone ==
    ASSUME TypeOK, NEW t \in Tabs
    PROVE  mail[t] \o <<>> = mail[t]
  <1>1. mail[t] \in Seq(Update)
    BY DEF TypeOK
  <1> QED BY <1>1

LEMMA PostTells ==
    ASSUME TypeOK, UniqueInv, NEW t \in Tabs, stream[t] = "open", NEW a \in Tabs, PostEvent(a)
    PROVE  Told(t)
  <1> DEFINE evt == req[a].new
             u == ForNewEvent(evt)
  <1>1. req[a] \in Request /\ req[a].pc = "post"
    BY DEF TypeOK, PostEvent
  <1>2. evt \in Event /\ u \in Update /\ \A e \in history : e.id # evt.id
    BY <1>1, RequestFields, UpdateTypes DEF UniqueInv, FreshID
  <1>3. PlayerOf[t] \in Players /\ IsGM(t) \in BOOLEAN
    BY GameAssumption, HasGMBoolean DEF IsGM
  <1>4. Arrivals(PlayerOf[t], IsGM(t), createOrDeletePackets(evt, u)) =
            IF Sees(t, evt) THEN << u >> ELSE <<>>
    BY <1>2, <1>3, CreateIsExact DEF CreateReaches, Sees
  <1>5. mail'[t] = mail[t] \o (IF Sees(t, evt) THEN << u >> ELSE <<>>)
    BY <1>4, Published1 DEF PostEvent
  <1>6. history' = history \cup {evt}
    BY DEF PostEvent
  <1>7. Apply(VisibleTo(t), u) = {e \in VisibleTo(t) : e.id # evt.id} \cup {evt}
    BY <1>2, ApplyCreate
  <1> HIDE DEF evt, u
  <1>8. CASE Sees(t, evt)
    <2>1. VisibleTo(t)' = Apply(VisibleTo(t), u)
      BY <1>2, <1>6, <1>7, <1>8, VisibleIs
    <2> QED BY <1>2, <1>5, <1>8, <2>1 DEF Told
  <1>9. CASE ~Sees(t, evt)
    <2>1. VisibleTo(t)' = VisibleTo(t)
      BY <1>6, <1>9, VisibleIs
    <2> QED BY <1>5, <1>9, <2>1, PublishedNone DEF Told
  <1> QED BY <1>8, <1>9

LEMMA DeleteTells ==
    ASSUME TypeOK, UniqueInv, CurrentInv,
           NEW t \in Tabs, stream[t] = "open", NEW a \in Tabs, DeleteEvent(a)
    PROVE  Told(t)
  <1> DEFINE evt == req[a].old
             u == ForEventDelete(evt.id)
  <1>1. evt \in history /\ history \subseteq Event /\ NoDuplicates
    BY DEF CurrentInv, Current, DeleteEvent, TypeOK, UniqueInv
  <1>2. evt \in Event /\ u \in Update
    BY <1>1, UpdateTypes
  <1>3. PlayerOf[t] \in Players /\ IsGM(t) \in BOOLEAN
    BY GameAssumption, HasGMBoolean DEF IsGM
  <1>4. Arrivals(PlayerOf[t], IsGM(t), createOrDeletePackets(evt, u)) =
            IF Sees(t, evt) THEN << u >> ELSE <<>>
    BY <1>2, <1>3, CreateIsExact DEF CreateReaches, Sees
  <1>5. mail'[t] = mail[t] \o (IF Sees(t, evt) THEN << u >> ELSE <<>>)
    BY <1>4, Published1 DEF DeleteEvent
  <1>6. history' = {e \in history : e.id # evt.id}
    BY DEF DeleteEvent, WithID
  <1>7. Apply(VisibleTo(t), u) = {e \in VisibleTo(t) : e.id # evt.id}
    BY ApplyDelete
  <1> HIDE DEF evt, u
  <1>8. CASE Sees(t, evt)
    <2>1. VisibleTo(t)' = Apply(VisibleTo(t), u)
      BY <1>6, <1>7, VisibleIs
    <2> QED BY <1>2, <1>5, <1>8, <2>1 DEF Told
  <1>9. CASE ~Sees(t, evt)
    <2>1. \A e \in history : Sees(t, e) => e.id # evt.id
      BY <1>1, <1>9 DEF NoDuplicates
    <2>2. VisibleTo(t)' = VisibleTo(t)
      BY <1>6, <2>1, VisibleIs
    <2> QED BY <1>5, <1>9, <2>2, PublishedNone DEF Told
  <1> QED BY <1>8, <1>9

LEMMA ReplaceTells ==
    ASSUME TypeOK, UniqueInv, AddressedInv,
           NEW t \in Tabs, stream[t] = "open", NEW a \in Tabs, ReplaceEvent(a)
    PROVE  Told(t)
  <1> DEFINE new == req[a].new
             packets == req[a].packets
             V == VisibleTo(t)
  <1>1. history \subseteq Event /\ NoDuplicates /\ V \in Lists /\ new \in Event
    <2>1. req[a] \in Request /\ req[a].pc = "replace"
      BY DEF TypeOK, ReplaceEvent
    <2> QED BY <2>1, VisibleType, RequestFields DEF TypeOK, UniqueInv
  <1>2. PICK e \in history : /\ e.pID = PlayerOf[a]
                             /\ ForEdit(a, e, new, packets) \/ ForShare(e, new, packets)
    BY DEF AddressedInv, Addressed, ReplaceEvent
  <1>3. e \in Event /\ new.id = e.id /\ new.pID = e.pID
    BY <1>1, <1>2 DEF ForEdit, ForShare, Event
  <1>4. history' = (history \ {e}) \cup {new}
    <2>1. WithID(history, new.id) = {e}
      BY <1>1, <1>3 DEF WithID, NoDuplicates
    <2> QED BY <2>1 DEF ReplaceEvent
  <1>5. PlayerOf[t] \in Players /\ IsGM(t) \in BOOLEAN
    BY GameAssumption, HasGMBoolean DEF IsGM
  <1>6. mail'[t] = mail[t] \o Arrivals(PlayerOf[t], IsGM(t), packets)
    BY Published1 DEF ReplaceEvent
  <1>7. /\ V = {x \in history : Sees(t, x)}
        /\ V' = {x \in history' : Sees(t, x)}
        /\ e \in V <=> Sees(t, e)
        /\ \A x \in V : x # e => x.id # e.id
    BY <1>1, VisibleIs DEF NoDuplicates
  <1>8. V' = (V \ {e}) \cup (IF Sees(t, new) THEN {new} ELSE {})
    BY <1>4, <1>7
  <1> HIDE DEF new, packets, V
  <1>9. CASE ForEdit(a, e, new, packets)
    <2> DEFINE u == ForEventDiff(new)
    <2>1. PICK title \in Titles : new = [e EXCEPT !.title = title]
      BY <1>9 DEF ForEdit
    <2>2. new.share = e.share /\ (Sees(t, new) <=> Sees(t, e))
      BY <1>3, <2>1 DEF Event, Sees, PlayerCanSeeEvent
    <2>3. u \in Update /\ packets = editPackets(new)
      BY <1>1, <1>9, UpdateTypes DEF ForEdit
    <2> DEFINE untold == new.share = "gms" /\ PlayerOf[t] = new.pID /\ ~IsGM(t)
    <2>4. Arrivals(PlayerOf[t], IsGM(t), packets) =
              IF Sees(t, new) /\ ~untold THEN << u >> ELSE <<>>
      BY <1>1, <1>5, <2>3, EditReaches DEF Sees
    <2>5. untold => new = e
      <3>1. untold => PlayerOf[t] = PlayerOf[a] /\ ~IsGM(t)
        BY <1>2, <1>3
      <3> QED BY <3>1, <1>9 DEF ForEdit, IsGM, HasGM
    <2> HIDE DEF u, untold
    <2>6. CASE Sees(t, new) /\ ~untold
      <3>1. V' = (V \ {e}) \cup {new} /\ e \in V
        BY <1>7, <1>8, <2>2, <2>6
      <3>2. Apply(V, u) = (V \ {e}) \cup {new}
        BY <1>1, <1>9, <2>1, <3>1, ApplyEdit DEF ForEdit, u
      <3> QED BY <1>6, <2>3, <2>4, <2>6, <3>1, <3>2 DEF Told, V
    <2>7. CASE ~Sees(t, new)
      <3>1. V' = V
        BY <1>7, <1>8, <2>2, <2>7
      <3> QED BY <1>6, <2>4, <2>7, <3>1, PublishedNone DEF Told, V
    <2>8. CASE untold /\ Sees(t, new)
      <3>1. V' = V
        BY <1>7, <1>8, <2>5, <2>8
      <3> QED BY <1>6, <2>4, <2>8, <3>1, PublishedNone DEF Told, V
    <2> QED BY <2>6, <2>7, <2>8
  <1>10. CASE ForShare(e, new, packets)
    <2>1. PICK share \in Shares \ {e.share} : /\ new = [e EXCEPT !.share = share]
                                             /\ packets = sharePacketsModifyingEvent(e, share)
      BY <1>10 DEF ForShare
    <2>2. Arrivals(PlayerOf[t], IsGM(t), packets) =
              CASE  Sees(t, e) /\  Sees(t, new) -> << ForEventShare(new) >>
                [] ~Sees(t, e) /\  Sees(t, new) -> << ForNewEvent(new) >>
                [] Sees(t, e) /\ ~Sees(t, new) -> << ForEventDelete(e.id) >>
                [] ~Sees(t, e) /\ ~Sees(t, new) -> <<>>
      BY <1>3, <1>5, <2>1, ShareIsExact DEF ShareReaches, Sees
    <2>3. /\ ForEventShare(new) \in Update /\ ForNewEvent(new) \in Update
          /\ ForEventDelete(e.id) \in Update
      BY <1>1, <1>3, UpdateTypes
    <2>4. CASE Sees(t, e) /\ Sees(t, new)
      <3>1. V' = (V \ {e}) \cup {new} /\ e \in V
        BY <1>7, <1>8, <2>4
      <3>2. Apply(V, ForEventShare(new)) = (V \ {e}) \cup {new}
        BY <1>1, <2>1, <3>1, ApplyShare
      <3> QED BY <1>6, <2>2, <2>3, <2>4, <3>1, <3>2 DEF Told, V
    <2>5. CASE ~Sees(t, e) /\ Sees(t, new)
      <3>1. V' = Apply(V, ForNewEvent(new))
        BY <1>1, <1>3, <1>7, <1>8, <2>5, ApplyCreate
      <3> QED BY <1>6, <2>2, <2>3, <2>5, <3>1 DEF Told, V
    <2>6. CASE Sees(t, e) /\ ~Sees(t, new)
      <3>1. V' = Apply(V, ForEventDelete(e.id))
        BY <1>7, <1>8, <2>6, ApplyDelete
      <3> QED BY <1>6, <2>2, <2>3, <2>6, <3>1 DEF Told, V
    <2>7. CASE ~Sees(t, e) /\ ~Sees(t, new)
      <3>1. V' = V
        BY <1>7, <1>8, <2>7
      <3> QED BY <1>6, <2>2, <2>7, <3>1, PublishedNone DEF Told, V
    <2> QED BY <2>4, <2>5, <2>6, <2>7
  <1> QED BY <1>2, <1>9, <1>10

LEMMA WriteTells ==
    ASSUME TypeOK, UniqueInv, CurrentInv, AddressedInv, "splitPipeline" \notin Races,
           NEW t \in Tabs, stream[t] = "open", NEW a \in Tabs, Write(a)
    PROVE  Told(t)
  <1>1. ~RemoveOld(a) /\ ~AddNew(a) /\ ~PublishNext(a)
    BY DEF RemoveOld, AddNew, PublishNext, UniqueInv
  <1> QED BY <1>1, PostTells, DeleteTells, ReplaceTells DEF Write

-----------------------------------------------------------------------------
(* Before a tab asks for the events.  Some of the updates it has not read  *)
(* are about changes that the answer will have already; reading them again *)
(* must come to nothing, whichever of them it reads before it asks.        *)

\* Reading all the updates, or those from any point, changes nothing.
Steady(shown, updates) ==
    \A i \in 1 .. Len(updates) + 1 :
        ReplayFrom(shown, SubSeq(updates, i, Len(updates))) = shown

\* Every event of the second list has its ID in the first.
Covers(shown, others) == \A e \in others : \E f \in shown : f.id = e.id

LEMMA SteadyNone ==
    ASSUME NEW shown \in Lists
    PROVE  Steady(shown, <<>>)
  <1>1. Len(<<>>) = 0 /\ \A i \in 1 .. 0 + 1 : SubSeq(<<>>, i, 0) = <<>>
    OBVIOUS
  <1> QED BY <1>1, ReplayNone DEF Steady

\* A change and its update, sent after the others.
LEMMA SteadyAppend ==
    ASSUME NEW shown \in Lists, NEW updates \in Seq(Update), NEW u \in Update,
           Steady(shown, updates)
    PROVE  Steady(Apply(shown, u), updates \o << u >>)
  <1> DEFINE n == Len(updates)
             more == updates \o << u >>
             changed == Apply(shown, u)
  <1>1. /\ n \in Nat /\ Len(more) = n + 1
        /\ SubSeq(more, n + 2, n + 1) = <<>>
        /\ \A i \in 1 .. n + 1 : /\ SubSeq(more, i, n + 1) = SubSeq(updates, i, n) \o << u >>
                                 /\ SubSeq(updates, i, n) \in Seq(Update)
    OBVIOUS
  <1>2. changed \in Lists /\ Apply(changed, u) = changed
    BY ApplyType, ApplyTwice
  <1> HIDE DEF n, more, changed
  <1>3. ReplayFrom(changed, SubSeq(more, n + 2, n + 1)) = changed
    BY <1>1, <1>2, ReplayNone
  <1>4. ASSUME NEW i \in 1 .. n + 1
        PROVE  ReplayFrom(changed, SubSeq(more, i, n + 1)) = changed
    <2> DEFINE late == SubSeq(updates, i, n)
    <2>1. late \in Seq(Update) /\ SubSeq(more, i, n + 1) = late \o << u >>
      BY <1>1
    <2>2. ReplayFrom(shown, late) = shown
      BY DEF Steady, n
    <2> HIDE DEF late
    <2>3. ReplayFrom(changed, late \o << u >>) = Apply(ReplayFrom(changed, late), u)
      BY <1>2, <2>1, ReplayAppend
    <2>4. Apply(changed, u) = Apply(shown, u)
      BY <1>2 DEF changed
    <2>5. Apply(ReplayFrom(changed, late), u) = Apply(ReplayFrom(shown, late), u)
      BY <1>2, <2>1, <2>4, ReplayAlike
    <2> QED BY <2>1, <2>2, <2>3, <2>5 DEF changed
  <1>5. \A i \in 1 .. (n + 1) + 1 : i \in 1 .. n + 1 \/ i = n + 2
    BY <1>1
  <1> QED BY <1>1, <1>3, <1>4, <1>5 DEF Steady, changed, more

LEMMA SteadyTail ==
    ASSUME NEW shown \in Lists, NEW updates \in Seq(Update), updates # <<>>,
           Steady(shown, updates)
    PROVE  Steady(shown, Tail(updates))
  <1> DEFINE n == Len(updates)
             rest == Tail(updates)
  <1>1. /\ n \in Nat /\ n # 0 /\ Len(rest) = n - 1
        /\ \A i \in 1 .. n : SubSeq(rest, i, n - 1) = SubSeq(updates, i + 1, n)
    OBVIOUS
  <1> HIDE DEF n, rest
  <1>2. \A i \in 1 .. (n - 1) + 1 : i \in 1 .. n /\ i + 1 \in 1 .. n + 1
    BY <1>1
  <1> QED BY <1>1, <1>2 DEF Steady, n, rest

LEMMA CoversApply ==
    ASSUME NEW shown \in Lists, NEW others \in Lists, NEW u \in Update, Covers(shown, others)
    PROVE  Covers(Apply(shown, u), Apply(others, u))
  <1>1. \A s \in Lists : \A id \in Nat : (\E f \in s : f.id = id) <=> WithID(s, id) # {}
    BY DEF WithID
  <1>2. Apply(shown, u) \in Lists /\ Apply(others, u) \in Lists
    BY ApplyType
  <1>3. ASSUME NEW id \in Nat, WithID(Apply(others, u), id) # {}
        PROVE  WithID(Apply(shown, u), id) # {}
    <2>1. WithID(others, id) # {} => WithID(shown, id) # {}
      BY <1>1 DEF Covers
    <2>2. /\ WithID(Apply(shown, u), id) =
                 IF id = Target(u) THEN Act(u, WithID(shown, id)) ELSE WithID(shown, id)
          /\ WithID(Apply(others, u), id) =
                 IF id = Target(u) THEN Act(u, WithID(others, id)) ELSE WithID(others, id)
      BY ApplyAt
    <2>3. CASE id # Target(u)
      BY <1>3, <2>1, <2>2, <2>3
    <2>4. CASE id = Target(u)
      <3> DEFINE a == WithID(shown, id)
                 b == WithID(others, id)
      <3>1. Act(u, b) # {} /\ (b # {} => a # {})
        BY <1>3, <2>1, <2>2, <2>4
      <3> HIDE DEF a, b
      <3>2. Act(u, a) # {}
        BY <3>1, UpdateFields DEF Act
      <3> QED BY <2>2, <2>4, <3>2 DEF a
    <2> QED BY <2>3, <2>4
  <1>4. \A e \in Apply(others, u) : e.id \in Nat
    BY <1>2 DEF Lists, Event
  <1> QED BY <1>1, <1>2, <1>3, <1>4 DEF Covers

\* The answer to GET /events, merged into the list of a tab that has not read all, is
\* right once it has.
LEMMA AnswerInSync ==
    ASSUME NEW shown \in Lists, NEW visible \in Lists, NEW updates \in Seq(Update),
           Steady(visible, updates), Covers(visible, ReplayFrom(shown, updates))
    PROVE  /\ Overlay(shown, visible) \in Lists
           /\ ReplayFrom(Overlay(shown, visible), updates) = visible
  <1> DEFINE loaded == Overlay(shown, visible)
             after(s) == ReplayFrom(s, updates)
  <1>1. loaded \in Lists
    BY DEF Overlay, Lists
  <1>2. after(loaded) \in Lists /\ after(shown) \in Lists
    BY <1>1, ReplayType
  <1>3. after(visible) = visible
    <2>1. SubSeq(updates, 1, Len(updates)) = updates /\ 1 \in 1 .. Len(updates) + 1
      OBVIOUS
    <2> QED BY <2>1 DEF Steady
  <1>4. \A id \in Nat : WithID(after(loaded), id) = WithID(visible, id)
    <2> TAKE id \in Nat
    <2>1. CASE WithID(visible, id) # {}
      <3>1. WithID(loaded, id) = WithID(visible, id)
        BY <2>1 DEF Overlay, WithID
      <3>2. WithID(after(loaded), id) = WithID(after(visible), id)
        BY <1>1, <3>1, ReplayLocal
      <3> QED BY <1>3, <3>2
    <2>2. CASE WithID(visible, id) = {}
      <3>1. WithID(loaded, id) = WithID(shown, id)
        BY <2>2 DEF Overlay, WithID
      <3>2. WithID(after(loaded), id) = WithID(after(shown), id)
        BY <1>1, <3>1, ReplayLocal
      <3>3. WithID(after(shown), id) = {}
        BY <2>2 DEF Covers, WithID
      <3> QED BY <2>2, <3>2, <3>3
    <2> QED BY <2>1, <2>2
  <1> HIDE DEF loaded, after
  <1>5. after(loaded) = visible
    BY <1>2, <1>4, SameLists
  <1> QED BY <1>1, <1>5 DEF loaded, after

-----------------------------------------------------------------------------
(* A tab in sync: what it has received and not read, and what it shows,    *)
(* against the events it can see.                                          *)

Synced(str, updates, fetched, answer, shown, visible) ==
    /\ shown \in Lists /\ answer \in Lists /\ updates \in Seq(Update)
    /\ str # "open" => fetched = "ready" /\ updates = <<>> /\ shown = {}
    /\ str = "open" /\ fetched = "ready" =>
           Steady(visible, updates) /\ Covers(visible, ReplayFrom(shown, updates))
    /\ str = "open" /\ fetched = "fetching" =>
           ReplayFrom(Overlay(shown, answer), updates) = visible
    /\ str = "open" /\ fetched = "finished" => ReplayFrom(shown, updates) = visible

SyncedTab(t) == Synced(stream[t], mail[t], fetch[t], page[t], view[t], VisibleTo(t))

SyncInv == \A t \in Tabs : SyncedTab(t)

LEMMA OverlayType ==
    ASSUME NEW shown \in Lists, NEW new \in Lists
    PROVE  Overlay(shown, new) \in Lists
  BY DEF Overlay, Lists

LEMMA InitSyncInv == Init => SyncInv
  <1> SUFFICES ASSUME Init, NEW t \in Tabs
               PROVE  SyncedTab(t)
    BY DEF SyncInv
  <1>1. /\ stream[t] = "closed" /\ mail[t] = <<>> /\ fetch[t] = "ready"
        /\ page[t] = {} /\ view[t] = {}
    BY DEF Init
  <1>2. {} \in Lists /\ <<>> \in Seq(Update)
    BY DEF Lists
  <1> QED BY <1>1, <1>2 DEF SyncedTab, Synced

\* A tab that is told of a change stays in sync.
LEMMA ToldInSync ==
    ASSUME NEW str, NEW updates, NEW fetched, NEW answer, NEW shown,
           NEW visible \in Lists, NEW u \in Update,
           Synced(str, updates, fetched, answer, shown, visible), str = "open"
    PROVE  Synced(str, updates \o << u >>, fetched, answer, shown, Apply(visible, u))
  <1> DEFINE more == updates \o << u >>
             then == Apply(visible, u)
  <1>1. /\ shown \in Lists /\ answer \in Lists /\ updates \in Seq(Update)
        /\ Overlay(shown, answer) \in Lists
    BY OverlayType DEF Synced
  <1>2. more \in Seq(Update)
    BY <1>1
  <1>3. \A s \in Lists : ReplayFrom(s, more) = Apply(ReplayFrom(s, updates), u)
    BY <1>1, ReplayAppend
  <1>4. Steady(visible, updates) => Steady(then, more)
    BY <1>1, SteadyAppend
  <1>5. Covers(visible, ReplayFrom(shown, updates)) => Covers(then, ReplayFrom(shown, more))
    BY <1>1, <1>3, CoversApply, ReplayType
  <1> HIDE DEF more, then
  <1>6. fetched = "ready" => Steady(then, more) /\ Covers(then, ReplayFrom(shown, more))
    BY <1>4, <1>5 DEF Synced
  <1>7. /\ fetched = "fetching" => ReplayFrom(Overlay(shown, answer), more) = then
        /\ fetched = "finished" => ReplayFrom(shown, more) = then
    BY <1>1, <1>3 DEF Synced, then
  <1>8. Synced(str, more, fetched, answer, shown, then)
    BY <1>1, <1>2, <1>6, <1>7 DEF Synced
  <1> QED BY <1>8 DEF more, then

\* A tab that reads an update, unless it waits for the answer to GET /events, stays in sync.
LEMMA ReaderInSync ==
    ASSUME NEW updates, NEW fetched, NEW answer, NEW shown, NEW visible \in Lists,
           Synced("open", updates, fetched, answer, shown, visible),
           updates # <<>>, fetched # "fetching"
    PROVE  Synced("open", Tail(updates), fetched, answer, Apply(shown, Head(updates)), visible)
  <1> DEFINE rest == Tail(updates)
             read == Apply(shown, Head(updates))
  <1>1. shown \in Lists /\ answer \in Lists /\ updates \in Seq(Update)
    BY DEF Synced
  <1>2. rest \in Seq(Update) /\ Head(updates) \in Update
    BY <1>1
  <1>3. read \in Lists
    BY <1>1, <1>2, ApplyType
  <1>4. ReplayFrom(read, rest) = ReplayFrom(shown, updates)
    BY <1>1, ReplayHead
  <1>5. Steady(visible, updates) => Steady(visible, rest)
    BY <1>1, SteadyTail
  <1> HIDE DEF rest, read
  <1>6. Synced("open", rest, fetched, answer, read, visible)
    BY <1>1, <1>2, <1>3, <1>4, <1>5 DEF Synced
  <1> QED BY <1>6 DEF rest, read

\* A step of which the tab knows nothing.
LEMMA UntouchedInSync ==
    ASSUME TypeOK, NEW t \in Tabs, SyncedTab(t), stream'[t] = stream[t], mail'[t] = mail[t],
           fetch'[t] = fetch[t], page'[t] = page[t], view'[t] = view[t],
           VisibleTo(t)' = VisibleTo(t) \/ stream[t] # "open"
    PROVE  SyncedTab(t)'
  <1>1. SyncedTab(t)' <=> Synced(stream'[t], mail'[t], fetch'[t], page'[t], view'[t], VisibleTo(t)')
    BY DEF SyncedTab
  <1>2. Synced(stream[t], mail[t], fetch[t], page[t], view[t], VisibleTo(t)')
    BY DEF SyncedTab, Synced
  <1> QED BY <1>1, <1>2

LEMMA WriteSyncInv ==
    ASSUME TypeOK, UniqueInv, CurrentInv, AddressedInv, SyncInv, "splitPipeline" \notin Races,
           NEW a \in Tabs, Write(a)
    PROVE  SyncInv'
  <1> SUFFICES ASSUME NEW t \in Tabs
               PROVE  SyncedTab(t)'
    BY DEF SyncInv
  <1>1. UNCHANGED tabVars
    BY DEF Write, PostEvent, DeleteEvent, ReplaceEvent, RemoveOld, AddNew, PublishNext
  <1>2. SyncedTab(t)
    BY DEF SyncInv
  <1>3. CASE stream[t] # "open"
    <2>1. \A packets : mail' = Published(packets) => mail'[t] = mail[t]
      BY <1>3 DEF Published
    <2>2. mail'[t] = mail[t]
      BY <2>1 DEF Write, PostEvent, DeleteEvent, ReplaceEvent, RemoveOld, AddNew, PublishNext
    <2> QED BY <1>1, <1>2, <1>3, <2>2, UntouchedInSync DEF tabVars
  <1>4. CASE stream[t] = "open"
    <2>1. CASE mail'[t] = mail[t] /\ VisibleTo(t)' = VisibleTo(t)
      BY <1>1, <1>2, <2>1, UntouchedInSync DEF tabVars
    <2>2. ASSUME NEW u \in Update, mail'[t] = mail[t] \o << u >>,
                 VisibleTo(t)' = Apply(VisibleTo(t), u)
          PROVE  SyncedTab(t)'
      <3>1. VisibleTo(t) \in Lists
        BY VisibleType DEF UniqueInv
      <3>2. Synced(stream[t], mail[t] \o << u >>, fetch[t], page[t], view[t], Apply(VisibleTo(t), u))
        BY <1>2, <1>4, <3>1, ToldInSync DEF SyncedTab
      <3>3. SyncedTab(t)' <=>
                Synced(stream'[t], mail'[t], fetch'[t], page'[t], view'[t], VisibleTo(t)')
        BY DEF SyncedTab
      <3> QED BY <1>1, <2>2, <3>2, <3>3 DEF tabVars
    <2>3. Told(t)
      BY <1>4, WriteTells
    <2> QED BY <2>1, <2>2, <2>3 DEF Told
  <1> QED BY <1>3, <1>4

\* The timings of a stream that the code leaves open do not happen.
StreamsInOrder ==
    /\ "fetchBeforeSubscribe" \notin Races
    /\ "updateBeforePage" \notin Races
    /\ "lostConnection" \notin Races

LEMMA TabSyncInv ==
    ASSUME TypeOK, UniqueInv, SyncInv, StreamsInOrder, NEW t \in Tabs, Tab(t)
    PROVE  SyncInv'
  <1> DEFINE V == VisibleTo(t)
  <1>1. UNCHANGED serverVars /\ \A u \in Tabs : VisibleTo(u)' = VisibleTo(u)
    <2>1. UNCHANGED serverVars
      BY DEF Tab, Connect, Subscribe, LoseConnection, Reload, HandleEvents, MergePage, ReadUpdate
    <2> QED BY <2>1, VisibleIs DEF serverVars
  <1>2. ASSUME NEW u \in Tabs, u # t
        PROVE  SyncedTab(u)'
    <2>1. /\ stream'[u] = stream[u] /\ mail'[u] = mail[u] /\ fetch'[u] = fetch[u]
          /\ page'[u] = page[u] /\ view'[u] = view[u]
      BY <1>2 DEF TypeOK, Tab, Connect, Subscribe, LoseConnection, Reload, HandleEvents,
         MergePage, ReadUpdate
    <2> QED BY <1>1, <2>1, UntouchedInSync DEF SyncInv
  <1>3. Synced(stream[t], mail[t], fetch[t], page[t], view[t], V) /\ V \in Lists
    BY VisibleType DEF SyncInv, SyncedTab, UniqueInv
  <1>4. SUFFICES Synced(stream'[t], mail'[t], fetch'[t], page'[t], view'[t], V)
    <2>1. SyncedTab(t)' <=> Synced(stream'[t], mail'[t], fetch'[t], page'[t], view'[t], V)
      BY <1>1 DEF SyncedTab
    <2> QED BY <1>2, <2>1 DEF SyncInv
  <1>5. {} \in Lists /\ <<>> \in Seq(Update)
    BY DEF Lists
  <1> HIDE DEF V
  <1>6. CASE Connect(t)
    <2>1. /\ stream[t] = "closed" /\ stream'[t] = "opening" /\ mail'[t] = mail[t]
          /\ fetch'[t] = fetch[t] /\ page'[t] = page[t] /\ view'[t] = view[t]
      BY <1>6 DEF Connect, TypeOK
    <2> QED BY <1>3, <2>1 DEF Synced
  <1>7. CASE Subscribe(t)
    <2>1. /\ stream[t] = "opening" /\ stream'[t] = "open" /\ mail'[t] = mail[t]
          /\ fetch'[t] = fetch[t] /\ page'[t] = page[t] /\ view'[t] = view[t]
      BY <1>7 DEF Subscribe, TypeOK
    <2>2. mail[t] = <<>> /\ view[t] = {} /\ fetch[t] = "ready" /\ page[t] \in Lists
      BY <1>3, <2>1 DEF Synced
    <2>3. Steady(V, <<>>) /\ Covers(V, ReplayFrom({}, <<>>))
      BY <1>3, <1>5, SteadyNone, ReplayNone DEF Covers
    <2> QED BY <1>5, <2>1, <2>2, <2>3 DEF Synced
  <1>8. CASE Reload(t)
    <2>1. /\ stream'[t] = "closed" /\ mail'[t] = <<>> /\ fetch'[t] = "ready"
          /\ page'[t] = {} /\ view'[t] = {}
      BY <1>8 DEF Reload, TypeOK
    <2> QED BY <1>5, <2>1 DEF Synced
  <1>9. CASE HandleEvents(t)
    <2>1. /\ stream[t] = "open" /\ fetch[t] = "ready" /\ fetch'[t] = "fetching" /\ page'[t] = V
          /\ stream'[t] = stream[t] /\ mail'[t] = mail[t] /\ view'[t] = view[t]
      BY <1>9 DEF HandleEvents, TypeOK, StreamsInOrder, V
    <2>2. ReplayFrom(Overlay(view[t], V), mail[t]) = V
      BY <1>3, <2>1, AnswerInSync DEF Synced
    <2> QED BY <1>3, <2>1, <2>2 DEF Synced
  <1>10. CASE MergePage(t)
    <2>1. /\ fetch[t] = "fetching" /\ fetch'[t] = "finished" /\ page'[t] = {}
          /\ stream'[t] = stream[t] /\ mail'[t] = mail[t]
          /\ view'[t] \in Merged(view[t], page[t])
      BY <1>10 DEF MergePage, TypeOK
    <2>2. view[t] \in Lists /\ page[t] \in Lists /\ stream[t] = "open"
      BY <1>3, <2>1 DEF Synced
    <2>3. view'[t] = Overlay(view[t], page[t]) /\ view'[t] \in Lists
      BY <2>1, <2>2, MergedIs, OverlayType
    <2> QED BY <1>3, <1>5, <2>1, <2>2, <2>3 DEF Synced
  <1>11. CASE ReadUpdate(t)
    <2>1. /\ mail[t] # <<>> /\ fetch[t] # "fetching" /\ mail'[t] = Tail(mail[t])
          /\ view'[t] \in Applied(view[t], Head(mail[t]))
          /\ stream'[t] = stream[t] /\ fetch'[t] = fetch[t] /\ page'[t] = page[t]
      BY <1>11 DEF ReadUpdate, TypeOK, StreamsInOrder
    <2>2. view[t] \in Lists /\ stream[t] = "open" /\ Head(mail[t]) \in Update
      BY <1>3, <2>1 DEF Synced
    <2>3. view'[t] = Apply(view[t], Head(mail[t]))
      BY <2>1, <2>2, AppliedIs
    <2>4. Synced("open", Tail(mail[t]), fetch[t], page[t], Apply(view[t], Head(mail[t])), V)
      BY <1>3, <2>1, <2>2, ReaderInSync
    <2> QED BY <2>1, <2>2, <2>3, <2>4
  <1>12. ~LoseConnection(t)
    BY DEF LoseConnection, StreamsInOrder
  <1> QED BY <1>6, <1>7, <1>8, <1>9, <1>10, <1>11, <1>12 DEF Tab

LEMMA NextSyncInv ==
    ASSUME StreamsInOrder, "splitPipeline" \notin Races
    PROVE  TypeOK /\ UniqueInv /\ CurrentInv /\ AddressedInv /\ SyncInv /\ [Next]_vars => SyncInv'
  <1> SUFFICES ASSUME TypeOK, UniqueInv, CurrentInv, AddressedInv, SyncInv, [Next]_vars
               PROVE  SyncInv'
    OBVIOUS
  <1>1. CASE UNCHANGED << history, mail, tabVars >>
    <2> SUFFICES ASSUME NEW t \in Tabs
                 PROVE  SyncedTab(t)'
      BY DEF SyncInv
    <2>1. VisibleTo(t)' = VisibleTo(t)
      BY <1>1, VisibleIs
    <2> QED BY <1>1, <2>1, UntouchedInSync DEF SyncInv, tabVars
  <1>2. ASSUME NEW t \in Tabs, Handle(t) \/ Abort(t)
        PROVE  UNCHANGED << history, mail, tabVars >>
    BY <1>2 DEF Abort, Handle, HandleRoll, HandleRollInitiative, HandleUpdateEvent,
       HandleEditInitiative, HandleShareEvent, HandleDeleteEvent, HandleReroll, MakeEvent,
       EditEvent, Proceed
  <1>3. CASE UNCHANGED vars
    BY <1>1, <1>3 DEF vars, tabVars
  <1> QED BY <1>1, <1>2, <1>3, WriteSyncInv, TabSyncInv DEF Next

LEMMA ReplayOfSynced ==
    ASSUME TypeOK, NEW t \in Tabs, SyncedTab(t), Follows(t)
    PROVE  Replay(t) = VisibleTo(t)
  <1>1. view[t] \in Lists /\ page[t] \in Lists
    BY DEF SyncedTab, Synced
  <1>2. Loaded(t) = IF fetch[t] = "fetching" THEN Overlay(view[t], page[t]) ELSE view[t]
    BY <1>1, MergedIs DEF Loaded
  <1> QED BY <1>2 DEF SyncedTab, Synced, Follows, Replay, TypeOK

LEMMA SyncInvInSync == TypeOK /\ SyncInv => InSync
  BY ReplayOfSynced DEF SyncInv, InSync

\* Nothing left to read, a tab that is in sync shows what it may see.
LEMMA SyncInvShows == TypeOK /\ SyncInv => ShowsHistory
  <1> SUFFICES ASSUME TypeOK, SyncInv, Quiet, NEW t \in Tabs, Follows(t)
               PROVE  view[t] = VisibleTo(t)
    BY DEF ShowsHistory
  <1>1. SyncedTab(t) /\ mail[t] = <<>> /\ fetch[t] # "fetching"
    BY DEF SyncInv, Quiet
  <1>2. view[t] \in Lists
    BY <1>1 DEF SyncedTab, Synced
  <1>3. ReplayFrom(view[t], mail[t]) = VisibleTo(t)
    BY <1>1, ReplayOfSynced DEF Replay, Loaded
  <1> QED BY <1>1, <1>2, <1>3, ReplayNone

GameInv == TypeOK /\ AuthorInv /\ UniqueInv /\ CurrentInv /\ AddressedInv /\ SyncInv

LEMMA InitGameInv == Init => GameInv
  <1>1. Init => CurrentInv
    BY DEF Init, CurrentInv, Current, Idle
  <1> QED BY <1>1, InitTypeOK, InitAuthorInv, InitUniqueInv, InitAddressedInv, InitSyncInv
          DEF GameInv

LEMMA NextGameInv ==
    ASSUME OneTabWrites, EditsReachAuthors, Races = {}
    PROVE  GameInv /\ [Next]_vars => GameInv'
  <1>1. StreamsInOrder /\ "splitPipeline" \notin Races /\ "sameMillisecond" \notin Races
    BY DEF StreamsInOrder
  <1> QED BY <1>1, NextTypeOK, NextAuthorInv, NextUniqueInv, NextCurrentInv, NextAddressedInv,
             NextSyncInv DEF GameInv

\* When of each player's tabs one sends requests, whoever edits what is shared with the
\* GMs is a GM, and none of the timings that the code leaves open happens, a tab that
\* follows the game is always exactly as far behind the history as the updates it has not
\* read: whatever is posted, edited, shared, unshared, rerolled and deleted, by whichever
\* players, before and after the tab asks for the events (eventManager.go against
\* web/src/event).
THEOREM AlwaysInSync ==
    ASSUME OneTabWrites, EditsReachAuthors, Races = {}
    PROVE  Spec => []InSync
  <1>1. GameInv => InSync
    BY SyncInvInSync DEF GameInv
  <1> QED BY <1>1, InitGameInv, NextGameInv, PTL DEF Spec

\* Under the same conditions, whenever no request is under way and every update was read,
\* each tab that follows the game shows the history as its player may see it, as
\* docs/database.org has it: the server broadcasts state changes to all players.
THEOREM QuietTabsShow ==
    ASSUME OneTabWrites, EditsReachAuthors, Races = {}
    PROVE  Spec => []ShowsHistory
  <1>1. GameInv => ShowsHistory
    BY SyncInvShows DEF GameInv
  <1> QED BY <1>1, InitGameInv, NextGameInv, PTL DEF Spec

-----------------------------------------------------------------------------
(* The shared history.  A write is the change of one event, on the screens *)
(* of all who follow the game; what a tab does on its own is no change, or *)
(* it starts or stops following.                                           *)

LEMMA SeenIs ==
    ASSUME NEW t, NEW events
    PROVE  Shared!Seen(t, events) = {e \in events : Sees(t, e)}
  BY DEF Shared!Seen, Shared!PlayerCanSeeEvent, Sees, PlayerCanSeeEvent, IsGM, HasGM

\* What a tab that is in sync will show is what SharedHistory has on its screen.
LEMMA ScreensShowSeen ==
    /\ InSync => \A t \in Tabs : Follows(t) => Replay(t) = Shared!Seen(t, history)
    /\ InSync' => \A t \in Tabs : Follows(t)' => Replay(t)' = Shared!Seen(t, history')
  BY SeenIs, VisibleIs DEF InSync

LEMMA BecomeShared ==
    ASSUME InSync', UNCHANGED tabVars, NEW events, history' = events
    PROVE  Shared!Become(events)
  <1>1. \A t \in Tabs : Follows(t)' <=> Follows(t)
    BY DEF Follows, tabVars
  <1>2. \A t \in Tabs : Follows(t)' => Replay(t)' = Shared!Seen(t, events)
    BY ScreensShowSeen
  <1> QED BY <1>1, <1>2 DEF Shared!Become

LEMMA WriteImplements ==
    ASSUME InSync, InSync', UNCHANGED tabVars, Unseen!Next
    PROVE  Shared!Next
  <1>1. PICK p \in Players : Unseen!Post(p) \/ Unseen!Delete(p) \/ Unseen!Change(p)
    BY DEF Unseen!Next
  <1>2. \A events : Unseen!Become(events) => Shared!Become(events)
    BY BecomeShared DEF Unseen!Become
  <1>3. Unseen!Post(p) => Shared!Post(p)
    BY <1>2 DEF Unseen!Post, Shared!Post
  <1>4. Unseen!Delete(p) => Shared!Delete(p)
    BY <1>2 DEF Unseen!Delete, Shared!Delete, Unseen!Own, Shared!Own
  <1>5. Unseen!Change(p) => Shared!Change(p)
    BY <1>2 DEF Unseen!Change, Shared!Change, Unseen!Own, Shared!Own, Unseen!Shares, Shared!Shares
  <1> QED BY <1>1, <1>3, <1>4, <1>5 DEF Shared!Next

LEMMA StutterShared ==
    ASSUME InSync, InSync', history' = history, \A t \in Tabs : Follows(t)' <=> Follows(t)
    PROVE  UNCHANGED Shared!vars
  <1>1. \A t \in Tabs : Follows(t) => Replay(t)' = Replay(t)
    BY ScreensShowSeen
  <1> QED BY <1>1 DEF Shared!vars

LEMMA TabImplements ==
    ASSUME TypeOK, SyncInv, InSync, InSync', StreamsInOrder, NEW t \in Tabs, Tab(t)
    PROVE  [Shared!Next]_Shared!vars
  <1>1. history' = history
    BY DEF Tab, Connect, Subscribe, LoseConnection, Reload, HandleEvents, MergePage,
       ReadUpdate, serverVars
  <1>2. \A u \in Tabs : u # t => (Follows(u)' <=> Follows(u))
    BY DEF TypeOK, Follows, Tab, Connect, Subscribe, LoseConnection, Reload, HandleEvents,
       MergePage, ReadUpdate
  <1>3. CASE Connect(t) \/ Subscribe(t) \/ MergePage(t) \/ ReadUpdate(t)
    <2>1. stream[t] # "open" => fetch[t] = "ready"
      BY DEF SyncInv, SyncedTab, Synced
    <2>2. Follows(t)' <=> Follows(t)
      BY <1>3, <2>1 DEF TypeOK, Follows, Connect, Subscribe, MergePage, ReadUpdate
    <2> QED BY <1>1, <1>2, <2>2, StutterShared
  <1>4. CASE HandleEvents(t)
    <2>1. Follows(t)'
      BY <1>4 DEF HandleEvents, Follows, TypeOK, StreamsInOrder
    <2>2. Shared!Follow(t)
      BY <1>1, <1>2, <2>1, ScreensShowSeen DEF Shared!Follow
    <2> QED BY <2>2 DEF Shared!Next
  <1>5. CASE Reload(t)
    <2>1. ~Follows(t)'
      BY <1>5 DEF Reload, Follows, TypeOK
    <2>2. Shared!Leave(t)
      BY <1>1, <1>2, <2>1, ScreensShowSeen DEF Shared!Leave
    <2> QED BY <2>2 DEF Shared!Next
  <1>6. ~LoseConnection(t)
    BY DEF LoseConnection, StreamsInOrder
  <1> QED BY <1>3, <1>4, <1>5, <1>6 DEF Tab

LEMMA NextImplements ==
    ASSUME TypeOK, AuthorInv, UniqueInv, CurrentInv, SyncInv, InSync, InSync',
           "splitPipeline" \notin Races, StreamsInOrder, [Next]_vars
    PROVE  [Shared!Next]_Shared!vars
  <1>1. CASE history' = history /\ UNCHANGED tabVars
    BY <1>1, StutterShared DEF Follows, tabVars
  <1>2. ASSUME NEW t \in Tabs, Write(t)
        PROVE  [Shared!Next]_Shared!vars
    <2>1. UNCHANGED tabVars
      BY <1>2 DEF Write, PostEvent, DeleteEvent, ReplaceEvent, RemoveOld, AddNew, PublishNext
    <2>2. Unseen!Next \/ history' = history
      BY <1>2, WriteMaps DEF CurrentInv
    <2> QED BY <1>1, <2>1, <2>2, WriteImplements
  <1>3. ASSUME NEW t \in Tabs, Handle(t) \/ Abort(t)
        PROVE  history' = history /\ UNCHANGED tabVars
    BY <1>3 DEF Abort, Handle, HandleRoll, HandleRollInitiative, HandleUpdateEvent,
       HandleEditInitiative, HandleShareEvent, HandleDeleteEvent, HandleReroll, MakeEvent,
       EditEvent, Proceed
  <1>4. CASE UNCHANGED vars
    BY <1>1, <1>4 DEF vars, tabVars
  <1> QED BY <1>1, <1>2, <1>3, <1>4, TabImplements DEF Next

LEMMA InitImplements == Init => Shared!Init
  <1> SUFFICES ASSUME Init
               PROVE  Shared!Init
    OBVIOUS
  <1>1. history = InitialHistory /\ \A t \in Tabs : ~Follows(t)
    BY DEF Init, Follows
  <1> QED BY <1>1 DEF Shared!Init

\* Under the same conditions requests, updates and tabs together implement SharedHistory:
\* each write is one change of one event by its author, and for every tab that follows
\* the game the updates still to be read amount to it.
THEOREM OneSharedHistory ==
    ASSUME OneTabWrites, EditsReachAuthors, Races = {}
    PROVE  Spec => ImplementsSharedHistory
  <1>1. StreamsInOrder /\ "splitPipeline" \notin Races
    BY DEF StreamsInOrder
  <1>2. GameInv => InSync
    BY SyncInvInSync DEF GameInv
  <1>3. GameInv /\ InSync /\ InSync' /\ [Next]_vars => [Shared!Next]_Shared!vars
    BY <1>1, NextImplements DEF GameInv
  <1> QED BY <1>2, <1>3, InitGameInv, NextGameInv, InitImplements, PTL
          DEF Spec, ImplementsSharedHistory, Shared!Spec
=============================================================================
