-------------------------- MODULE SequenceProofs ---------------------------
(***************************************************************************)
(* What is proved of Sequence, for any components: the length that is      *)
(* corrected event by event always covers the events and is the distance   *)
(* to the end of one of them, so that no correction makes it negative;     *)
(* events stay in order and of one type, and transitions apart; the length *)
(* of other components changes with their total, and while it is the total *)
(* every offset in it is found.  A client loads what it removes.           *)
(***************************************************************************)
EXTENDS Sequence, FiniteSetTheorems, TLAPS, WellFoundedInduction

-----------------------------------------------------------------------------
(* Sequences and maxima.                                                   *)

\* The elements of s with e at index i, and without the one at index i; indices
\* count from zero.
WithAt(t, s, i, e) ==
  \A j \in 1 .. Len(s) + 1 :
    t[j] = IF j <= i THEN s[j] ELSE IF j = i + 1 THEN e ELSE s[j - 1]
WithoutAt(t, s, i) ==
  \A j \in 1 .. Len(s) - 1 : t[j] = IF j <= i THEN s[j] ELSE s[j + 1]

\* An insertion keeps what is before the index and moves what is after it.
LEMMA InsertedElements ==
  ASSUME NEW s \in Seq(Components), NEW e \in Components, NEW i \in 0 .. Len(s),
         NEW t, t = InsertAt(s, i + 1, e)
  PROVE  /\ t \in Seq(Components) /\ Len(t) = Len(s) + 1 /\ DOMAIN t = 1 .. Len(s) + 1
         /\ WithAt(t, s, i, e)
<1> DEFINE a == SubSeq(s, 1, (i + 1) - 1)
           b == SubSeq(s, i + 1, Len(s))
<1>1. /\ a \in Seq(Components) /\ Len(a) = i /\ \A j \in 1 .. i : a[j] = s[j]
  OBVIOUS
<1>2. /\ b \in Seq(Components) /\ Len(b) = Len(s) - i /\ \A j \in 1 .. Len(s) - i : b[j] = s[j + i]
  OBVIOUS
<1>3. InsertAt(s, i + 1, e) = (a \o <<e>>) \o b
  BY Zenon DEF InsertAt
<1> HIDE DEF a, b
<1> DEFINE h == a \o <<e>>
<1>4. /\ h \in Seq(Components) /\ Len(h) = i + 1
      /\ \A j \in 1 .. i + 1 : h[j] = IF j <= i THEN a[j] ELSE e
  BY <1>1
<1> HIDE DEF h
<1>5. /\ h \o b \in Seq(Components) /\ Len(h \o b) = Len(s) + 1
      /\ \A j \in 1 .. Len(s) + 1 : (h \o b)[j] = IF j <= i + 1 THEN h[j] ELSE b[j - (i + 1)]
  <2>0. h \in Seq(Components) /\ b \in Seq(Components)
    BY <1>2, <1>4
  <2>1. h \o b \in Seq(Components) /\ Len(h \o b) = Len(h) + Len(b)
    BY <2>0
  <2>2. Len(s) \in Nat /\ Len(h) + Len(b) = Len(s) + 1
    BY <1>2, <1>4
  <2>3. \A j \in 1 .. Len(h) + Len(b) : (h \o b)[j] = IF j <= Len(h) THEN h[j] ELSE b[j - Len(h)]
    BY <1>2, <1>4
  <2> QED BY <1>4, <2>1, <2>2, <2>3
<1>6. \A j \in 1 .. Len(s) + 1 : j > i + 1 => b[j - (i + 1)] = s[j - 1]
  <2> SUFFICES ASSUME NEW j \in 1 .. Len(s) + 1, j > i + 1
               PROVE  b[j - (i + 1)] = s[j - 1]
    OBVIOUS
  <2>1. j - (i + 1) \in 1 .. Len(s) - i /\ (j - (i + 1)) + i = j - 1
    OBVIOUS
  <2> QED BY <1>2, <2>1
<1>7. t \in Seq(Components) /\ Len(t) = Len(s) + 1 /\ DOMAIN t = 1 .. Len(s) + 1
  <2>1. t \in Seq(Components) /\ Len(t) = Len(s) + 1
    BY <1>3, <1>5 DEF h
  <2> QED BY <2>1
<1>8. ASSUME NEW j \in 1 .. Len(s) + 1
      PROVE  t[j] = IF j <= i THEN s[j] ELSE IF j = i + 1 THEN e ELSE s[j - 1]
  <2>1. CASE j <= i
    <3>1. j \in 1 .. i /\ j <= i + 1 /\ j \in 1 .. i + 1
      BY <2>1
    <3> QED BY <1>1, <1>3, <1>4, <1>5, <2>1, <3>1 DEF h
  <2>2. CASE j = i + 1
    BY <1>3, <1>4, <1>5, <2>2 DEF h
  <2>3. CASE j > i + 1
    <3>1. ~ (j <= i) /\ j # i + 1 /\ ~ (j <= i + 1)
      BY <2>3
    <3>2. t[j] = s[j - 1]
      BY <1>3, <1>5, <1>6, <2>3, <3>1 DEF h
    <3> QED BY <3>1, <3>2
  <2> QED BY <2>1, <2>2, <2>3
<1> QED BY <1>7, <1>8 DEF WithAt

\* A removal keeps what is before the index and moves back what is after it.
LEMMA RemainingElements ==
  ASSUME NEW s \in Seq(Components), NEW i \in 0 .. Len(s) - 1,
         NEW t, t = RemoveAt(s, i + 1)
  PROVE  /\ t \in Seq(Components) /\ Len(t) = Len(s) - 1 /\ DOMAIN t = 1 .. Len(s) - 1
         /\ WithoutAt(t, s, i)
<1> DEFINE a == SubSeq(s, 1, (i + 1) - 1)
           b == SubSeq(s, (i + 1) + 1, Len(s))
<1>1. /\ a \in Seq(Components) /\ Len(a) = i /\ \A j \in 1 .. i : a[j] = s[j]
  OBVIOUS
<1>2. /\ b \in Seq(Components) /\ Len(b) = Len(s) - i - 1
      /\ \A j \in 1 .. Len(s) - i - 1 : b[j] = s[j + i + 1]
  OBVIOUS
<1>3. RemoveAt(s, i + 1) = a \o b
  BY Zenon DEF RemoveAt
<1> HIDE DEF a, b
<1>4. /\ a \o b \in Seq(Components) /\ Len(a \o b) = Len(s) - 1
      /\ \A j \in 1 .. Len(s) - 1 : (a \o b)[j] = IF j <= i THEN a[j] ELSE b[j - i]
  <2>0. a \in Seq(Components) /\ b \in Seq(Components)
    BY <1>1, <1>2
  <2>1. a \o b \in Seq(Components) /\ Len(a \o b) = Len(a) + Len(b)
    BY <2>0
  <2>2. Len(s) \in Nat /\ Len(a) + Len(b) = Len(s) - 1
    BY <1>1, <1>2
  <2>3. \A j \in 1 .. Len(a) + Len(b) :
          (a \o b)[j] = IF j <= Len(a) THEN a[j] ELSE b[j - Len(a)]
    BY <1>1, <1>2
  <2> QED BY <1>1, <2>1, <2>2, <2>3
<1>5. \A j \in 1 .. Len(s) - 1 : j > i => b[j - i] = s[j + 1]
  <2> SUFFICES ASSUME NEW j \in 1 .. Len(s) - 1, j > i PROVE b[j - i] = s[j + 1]
    OBVIOUS
  <2>1. j - i \in 1 .. Len(s) - i - 1 /\ (j - i) + i + 1 = j + 1
    OBVIOUS
  <2> QED BY <1>2, <2>1
<1>6. t \in Seq(Components) /\ Len(t) = Len(s) - 1 /\ DOMAIN t = 1 .. Len(s) - 1
  <2>1. t \in Seq(Components) /\ Len(t) = Len(s) - 1
    BY <1>3, <1>4
  <2> QED BY <2>1
<1>7. ASSUME NEW j \in 1 .. Len(s) - 1
      PROVE  t[j] = IF j <= i THEN s[j] ELSE s[j + 1]
  <2>1. CASE j <= i
    <3>1. j \in 1 .. i
      BY <2>1
    <3> QED BY <1>1, <1>3, <1>4, <2>1, <3>1
  <2>2. CASE j > i
    <3>1. ~ (j <= i)
      BY <2>2
    <3> QED BY <1>3, <1>4, <1>5, <2>2, <3>1
  <2> QED BY <2>1, <2>2
<1> QED BY <1>6, <1>7 DEF WithoutAt

\* The greater of two numbers is one of them and bounds both.
LEMMA MaxOfTwo ==
  ASSUME NEW a \in Int, NEW b \in Int
  PROVE  /\ Max({a, b}) \in {a, b} /\ Max({a, b}) \in Int
         /\ Max({a, b}) >= a /\ Max({a, b}) >= b
<1>1. \E x \in {a, b} : \A y \in {a, b} : x >= y
  OBVIOUS
<1> QED BY <1>1 DEF Max

\* Finitely many numbers, and zero, have a greatest.
LEMMA Greatest ==
  ASSUME NEW n \in Nat, NEW f \in [1 .. n -> Nat]
  PROVE  \E x \in {0} \cup {f[i] : i \in 1 .. n} :
           \A y \in {0} \cup {f[i] : i \in 1 .. n} : x >= y
<1> DEFINE P(k) == \E x \in {0} \cup {f[i] : i \in 1 .. k} : \A i \in 1 .. k : x >= f[i]
           Bad == {k \in 0 .. n : ~ P(k)}
<1>1. CASE Bad = {}
  <2>1. n \in 0 .. n
    OBVIOUS
  <2>2. P(n)
    BY <1>1, <2>1
  <2>3. PICK x \in {0} \cup {f[i] : i \in 1 .. n} : \A i \in 1 .. n : x >= f[i]
    BY <2>2
  <2>4. x \in Nat
    OBVIOUS
  <2> QED BY <2>3, <2>4
<1>2. CASE Bad # {}
  <2>1. PICK k \in Bad : \A l \in Bad : ~ (<<l, k>> \in OpToRel(<, Nat))
    <3>1. Bad \subseteq Nat
      OBVIOUS
    <3> QED BY <1>2, <3>1, NatLessThanWellFounded, WFMin, Zenon
  <2>2. k \in 0 .. n /\ ~ P(k)
    OBVIOUS
  <2>3. k # 0
    <3>1. P(0)
      OBVIOUS
    <3> QED BY <2>2, <3>1
  <2>4. P(k - 1)
    <3>1. k - 1 \in 0 .. n /\ k - 1 < k /\ k \in Nat /\ k - 1 \in Nat
      BY <2>2, <2>3
    <3>2. k - 1 \notin Bad
      BY <2>1, <3>1 DEF OpToRel
    <3> QED BY <3>1, <3>2
  <2>5. PICK x \in {0} \cup {f[i] : i \in 1 .. k - 1} : \A i \in 1 .. k - 1 : x >= f[i]
    BY <2>4
  <2>6. x \in Nat /\ f[k] \in Nat /\ k \in 1 .. k /\ \A i \in 1 .. k : i \in 1 .. k - 1 \/ i = k
    BY <2>2, <2>3
  <2>7. \A i \in 1 .. k : f[i] \in Nat
    BY <2>2
  <2>8. CASE x >= f[k]
    <3>1. \A i \in 1 .. k : x >= f[i]
      BY <2>5, <2>6, <2>8
    <3>2. x \in {0} \cup {f[i] : i \in 1 .. k}
      BY <2>2, <2>5
    <3>3. P(k)
      BY <3>1, <3>2
    <3> QED BY <2>2, <3>3
  <2>9. CASE ~ (x >= f[k])
    <3>1. \A i \in 1 .. k : f[k] >= f[i]
      BY <2>5, <2>6, <2>7, <2>9
    <3>2. f[k] \in {0} \cup {f[i] : i \in 1 .. k}
      BY <2>6
    <3>3. P(k)
      BY <3>1, <3>2
    <3> QED BY <2>2, <3>3
  <2> QED BY <2>8, <2>9
<1> QED BY <1>1, <1>2

\* What FindEventSequenceEnd finds is the end of an event, and no event ends
\* later.
LEMMA EventsEndIsReached ==
  ASSUME NEW s \in Seq(Components), s # <<>>
  PROVE  /\ EventsEnd(s) \in Nat
         /\ \A i \in DOMAIN s : EventEnd(s[i]) \in Nat /\ EventEnd(s[i]) <= EventsEnd(s)
         /\ \E i \in DOMAIN s : EventEnd(s[i]) = EventsEnd(s)
<1>1. Len(s) \in Nat /\ DOMAIN s = 1 .. Len(s) /\ Len(s) >= 1
  OBVIOUS
<1>2. \A c \in Components : EventEnd(c) \in Nat
  BY SequenceAssumption DEF EventEnd, OrZero
<1> DEFINE f == [i \in 1 .. Len(s) |-> EventEnd(s[i])]
           E == {0} \cup {EventEnd(c) : c \in ToSet(s)}
<1>3. f \in [1 .. Len(s) -> Nat]
  BY <1>1, <1>2
<1>4. E = {0} \cup {f[i] : i \in 1 .. Len(s)}
  BY <1>1 DEF ToSet
<1>5. \E x \in E : \A y \in E : x >= y
  <2> HIDE DEF f, E
  <2> QED BY <1>1, <1>3, <1>4, Greatest
<1>6. EventsEnd(s) \in E /\ \A y \in E : EventsEnd(s) >= y
  BY <1>5 DEF EventsEnd, Max
<1>7. \A i \in DOMAIN s : EventEnd(s[i]) \in E /\ EventEnd(s[i]) \in Nat
  BY <1>1, <1>2 DEF ToSet
<1>8. E \subseteq Nat
  BY <1>1, <1>2 DEF ToSet
<1>9. EventsEnd(s) \in Nat /\ \A i \in DOMAIN s : EventEnd(s[i]) <= EventsEnd(s)
  <2> HIDE DEF E
  <2> QED BY <1>6, <1>7, <1>8
<1>10. \E i \in DOMAIN s : EventEnd(s[i]) = EventsEnd(s)
  <2>1. CASE EventsEnd(s) = 0
    <3>1. 1 \in DOMAIN s
      BY <1>1
    <3>2. EventEnd(s[1]) \in Nat /\ EventEnd(s[1]) <= 0
      BY <1>7, <1>9, <2>1, <3>1
    <3> QED BY <2>1, <3>1, <3>2
  <2>2. CASE EventsEnd(s) # 0
    <3>1. PICK c \in ToSet(s) : EventsEnd(s) = EventEnd(c)
      BY <1>6, <2>2
    <3> QED BY <3>1 DEF ToSet
  <2> QED BY <2>1, <2>2
<1> QED BY <1>7, <1>9, <1>10

-----------------------------------------------------------------------------
(* The inductive invariant.                                                *)

OneKind(s) ==
  \A i, j \in DOMAIN s :
    Kind[s[i]] = Kind[s[j]] \/ {Kind[s[i]], Kind[s[j]]} = {Segment, Transition}

InPositionOrder(s) ==
  HoldsEvents(s) => \A i, j \in DOMAIN s : i < j => Position[s[i]] <= Position[s[j]]

\* The length reaches every event that has one, and exactly to the end of some
\* event: so when that event is removed, it is seen to have reached the end.
Covers(s, l) ==
  HoldsEvents(s) =>
    /\ \A i \in DOMAIN s : Length[s[i]] # NoLength =>
         l # NoLength /\ EventEnd(s[i]) - Position[s[1]] <= l
    /\ l # NoLength => \E i \in DOMAIN s : EventEnd(s[i]) - Position[s[1]] = l

\* Segments and transitions have a length, and so has what they are in.
Measured(s, l) ==
  s # <<>> /\ ~ HoldsEvents(s) =>
    l # NoLength /\ \A i \in DOMAIN s : Length[s[i]] # NoLength

Sound(s, l) ==
  /\ s \in Seq(Components) /\ IsInjective(s) /\ l \in Nat \cup {NoLength}
  /\ OneKind(s) /\ InPositionOrder(s) /\ Covers(s, l) /\ Measured(s, l)
  /\ s = <<>> => l \in {NoLength, 0}

IInv ==
  /\ TypeOK
  /\ Sound(components, length) /\ Sound(stored.components, stored.length)
  /\ result # "asserted"

\* Where an event begins and ends.
LEMMA ComponentTypes ==
  ASSUME NEW c \in Components
  PROVE  /\ Position[c] \in Nat /\ EventEnd(c) \in Nat /\ EventEnd(c) >= Position[c]
         /\ OrZero(Length[c]) \in Nat /\ EventEnd(c) = Position[c] + OrZero(Length[c])
         /\ Length[c] \in Nat \cup {NoLength}
         /\ Length[c] = NoLength => EventEnd(c) = Position[c]
BY SequenceAssumption DEF EventEnd, OrZero

\* A sequence that begins with an event has only events, of one type; one that
\* begins with another component has none.
LEMMA EventsTogether ==
  ASSUME NEW s \in Seq(Components), s # <<>>, OneKind(s)
  PROVE  /\ 1 \in DOMAIN s /\ Head(s) = s[1] /\ Len(s) \in DOMAIN s /\ Last(s) = s[Len(s)]
         /\ HoldsEvents(s) => \A i \in DOMAIN s : Kind[s[i]] = Kind[s[1]] /\ IsEvent(s[i])
         /\ ~ HoldsEvents(s) => \A i \in DOMAIN s : ~ IsEvent(s[i])
<1>1. 1 \in DOMAIN s /\ Head(s) = s[1] /\ Len(s) \in DOMAIN s /\ Last(s) = s[Len(s)]
  BY DEF Last
<1>2. HoldsEvents(s) <=> IsEvent(s[1])
  BY <1>1 DEF HoldsEvents
<1>3. ASSUME NEW i \in DOMAIN s
      PROVE  /\ IsEvent(s[1]) => Kind[s[i]] = Kind[s[1]] /\ IsEvent(s[i])
             /\ ~ IsEvent(s[1]) => ~ IsEvent(s[i])
  <2>1. Kind[s[i]] = Kind[s[1]] \/ {Kind[s[i]], Kind[s[1]]} = {Segment, Transition}
    BY <1>1 DEF OneKind
  <2> QED BY <2>1 DEF IsEvent
<1> QED BY <1>1, <1>2, <1>3

-----------------------------------------------------------------------------
(* Insertion.                                                              *)

\* An insertion that the code accepts keeps kinds and positions in order.
LEMMA InsertKeepsOrder ==
  ASSUME Sound(components, length), NEW c \in Components, NEW i \in 0 .. Len(components),
         MayInsert(c, i), NEW t, t = InsertAt(components, i + 1, c)
  PROVE  /\ t \in Seq(Components) /\ t # <<>> /\ IsInjective(t)
         /\ OneKind(t) /\ InPositionOrder(t)
         /\ HoldsEvents(t) <=> IsEvent(c)
         /\ components # <<>> => (HoldsEvents(components) <=> IsEvent(c))
<1> DEFINE n == Len(components)
<1>1. /\ components \in Seq(Components) /\ n \in Nat /\ DOMAIN components = 1 .. n
      /\ IsInjective(components) /\ OneKind(components) /\ InPositionOrder(components)
      /\ i \in 0 .. n
  BY DEF Sound
<1>2. /\ t \in Seq(Components) /\ Len(t) = n + 1 /\ DOMAIN t = 1 .. n + 1
      /\ \A j \in 1 .. n + 1 :
           t[j] = IF j <= i THEN components[j] ELSE IF j = i + 1 THEN c ELSE components[j - 1]
  <2>1. /\ t \in Seq(Components) /\ Len(t) = Len(components) + 1
        /\ DOMAIN t = 1 .. Len(components) + 1 /\ WithAt(t, components, i, c)
    BY <1>1, InsertedElements, Zenon
  <2> QED BY <2>1 DEF WithAt
<1>3. \A j \in 1 .. n : components[j] # c
  BY <1>1 DEF MayInsert, ToSet
<1> HIDE DEF n
<1>4. t # <<>>
  BY <1>1, <1>2
<1>5. \A j \in 1 .. n + 1 : j # i + 1 =>
        LET k == IF j <= i THEN j ELSE j - 1
        IN  k \in 1 .. n /\ t[j] = components[k]
  BY <1>1, <1>2
<1>6. IsInjective(t)
  <2> SUFFICES ASSUME NEW j \in 1 .. n + 1, NEW k \in 1 .. n + 1, t[j] = t[k] PROVE j = k
    BY <1>2 DEF IsInjective
  <2>1. CASE j = i + 1 \/ k = i + 1
    BY <1>1, <1>2, <1>3, <1>5, <2>1
  <2>2. CASE j # i + 1 /\ k # i + 1
    <3> DEFINE a == IF j <= i THEN j ELSE j - 1
               b == IF k <= i THEN k ELSE k - 1
    <3>1. a \in 1 .. n /\ t[j] = components[a] /\ b \in 1 .. n /\ t[k] = components[b]
      BY <1>5, <2>2
    <3>2. a = b => j = k
      BY <1>1, <2>2
    <3> HIDE DEF a, b
    <3>3. a = b
      BY <1>1, <3>1 DEF IsInjective
    <3> QED BY <3>2, <3>3
  <2> QED BY <2>1, <2>2
<1>7. components # <<>> => (HoldsEvents(components) <=> IsEvent(c))
  BY DEF MayInsert
<1>8. \A j \in 1 .. n + 1 : IsEvent(t[j]) <=> IsEvent(c)
  <2> TAKE j \in 1 .. n + 1
  <2>1. CASE j = i + 1
    BY <1>1, <1>2, <2>1
  <2>2. CASE j # i + 1
    <3>1. PICK k \in 1 .. n : t[j] = components[k]
      BY <1>5, <2>2
    <3>2. components # <<>>
      BY <1>1, <3>1
    <3> QED BY <1>1, <1>7, <3>1, <3>2, EventsTogether
  <2> QED BY <2>1, <2>2
<1>9. HoldsEvents(t) <=> IsEvent(c)
  <2>1. 1 \in 1 .. n + 1 /\ Head(t) = t[1]
    BY <1>1, <1>2, <1>4
  <2> QED BY <1>4, <1>8, <2>1 DEF HoldsEvents
<1>10. IsEvent(c) => \A j \in 1 .. n + 1 : Kind[t[j]] = Kind[c]
  <2> SUFFICES ASSUME IsEvent(c), NEW j \in 1 .. n + 1 PROVE Kind[t[j]] = Kind[c]
    OBVIOUS
  <2>1. CASE j = i + 1
    BY <1>1, <1>2, <2>1
  <2>2. CASE j # i + 1
    <3>1. PICK k \in 1 .. n : t[j] = components[k]
      BY <1>5, <2>2
    <3>2. components # <<>> /\ HoldsEvents(components)
      BY <1>1, <1>7, <3>1
    <3>3. SameType(c)
      BY <3>2 DEF MayInsert
    <3> QED BY <1>1, <3>1, <3>2, <3>3, EventsTogether DEF SameType
  <2> QED BY <2>1, <2>2
<1>11. OneKind(t)
  <2> SUFFICES ASSUME NEW j \in 1 .. n + 1, NEW k \in 1 .. n + 1
               PROVE  Kind[t[j]] = Kind[t[k]] \/ {Kind[t[j]], Kind[t[k]]} = {Segment, Transition}
    BY <1>2 DEF OneKind
  <2>1. CASE IsEvent(c)
    BY <1>10, <2>1
  <2>2. CASE ~ IsEvent(c)
    <3>1. Kind[t[j]] \in {Segment, Transition} /\ Kind[t[k]] \in {Segment, Transition}
      BY <1>8, <2>2 DEF IsEvent
    <3> QED BY <3>1
  <2> QED BY <2>1, <2>2
<1>12. InPositionOrder(t)
  <2> SUFFICES ASSUME IsEvent(c), NEW j \in 1 .. n + 1, NEW k \in 1 .. n + 1, j < k
               PROVE  Position[t[j]] <= Position[t[k]]
    BY <1>2, <1>9 DEF InPositionOrder
  <2>1. components # <<>> => HoldsEvents(components) /\ InOrder(c, i)
    BY <1>7 DEF MayInsert
  <2>2. components = <<>> => n = 0
    BY DEF n
  <2>3. n > 0
    BY <1>1
  <2>4. HoldsEvents(components) /\ InOrder(c, i)
    BY <1>1, <2>1, <2>3 DEF n
  <2>5. \A a, b \in 1 .. n : a <= b => Position[components[a]] <= Position[components[b]]
    <3>1. \A a \in 1 .. n : Position[components[a]] \in Nat
      BY <1>1, ComponentTypes
    <3> QED BY <1>1, <2>4, <3>1 DEF InPositionOrder
  <2>6. /\ i > 0 => Position[components[i]] <= Position[c]
        /\ i < n => Position[c] <= Position[components[i + 1]]
    BY <2>4 DEF InOrder, n
  <2>7. /\ Position[c] \in Nat /\ \A a \in 1 .. n : Position[components[a]] \in Nat
    BY <1>1, ComponentTypes
  <2>8. CASE j = i + 1
    <3>1. k - 1 \in 1 .. n /\ i + 1 <= k - 1 /\ i + 1 \in 1 .. n /\ i < n
      BY <1>1, <2>8
    <3>2. t[j] = c /\ t[k] = components[k - 1]
      BY <1>1, <1>2, <2>8, <3>1
    <3> QED BY <2>5, <2>6, <2>7, <3>1, <3>2
  <2>9. CASE k = i + 1
    <3>1. j \in 1 .. n /\ j <= i /\ i \in 1 .. n /\ i > 0
      BY <1>1, <2>9
    <3>2. t[j] = components[j] /\ t[k] = c
      BY <1>1, <1>2, <2>9, <3>1
    <3> QED BY <2>5, <2>6, <2>7, <3>1, <3>2
  <2>10. CASE j # i + 1 /\ k # i + 1
    <3> DEFINE a == IF j <= i THEN j ELSE j - 1
               b == IF k <= i THEN k ELSE k - 1
    <3>1. a \in 1 .. n /\ t[j] = components[a] /\ b \in 1 .. n /\ t[k] = components[b]
      BY <1>5, <2>10
    <3>2. a <= b
      BY <1>1, <2>10
    <3> HIDE DEF a, b
    <3> QED BY <2>5, <3>1, <3>2
  <2> QED BY <2>8, <2>9, <2>10
<1> QED BY <1>2, <1>4, <1>6, <1>7, <1>9, <1>11, <1>12

\* What the code adds to the length is the distance from the first event to the
\* last end: the end that was reached before and the new one, from the new first
\* event.
LEMMA InsertKeepsEvents ==
  ASSUME Sound(components, length), NEW c \in Components, NEW i \in 0 .. Len(components),
         MayInsert(c, i), IsEvent(c), NEW t, t = InsertAt(components, i + 1, c)
  PROVE  /\ LengthWithEvent(c, i) \in Nat \cup {NoLength}
         /\ Covers(t, LengthWithEvent(c, i))
<1> DEFINE n == Len(components)
           l == LengthWithEvent(c, i)
<1>1. /\ components \in Seq(Components) /\ n \in Nat /\ DOMAIN components = 1 .. n
      /\ OneKind(components) /\ InPositionOrder(components) /\ Covers(components, length)
      /\ i \in 0 .. n /\ length \in Nat \cup {NoLength}
  BY DEF Sound
<1>2. /\ Len(t) = n + 1 /\ DOMAIN t = 1 .. n + 1
      /\ \A j \in 1 .. n + 1 :
           t[j] = IF j <= i THEN components[j] ELSE IF j = i + 1 THEN c ELSE components[j - 1]
  <2>1. /\ t \in Seq(Components) /\ Len(t) = Len(components) + 1
        /\ DOMAIN t = 1 .. Len(components) + 1 /\ WithAt(t, components, i, c)
    BY <1>1, InsertedElements, Zenon
  <2> QED BY <2>1 DEF WithAt
<1>3. /\ Position[c] \in Nat /\ EventEnd(c) \in Nat /\ EventEnd(c) >= Position[c]
      /\ OrZero(Length[c]) \in Nat /\ EventEnd(c) = Position[c] + OrZero(Length[c])
      /\ Length[c] \in Nat \cup {NoLength}
      /\ Length[c] = NoLength => EventEnd(c) = Position[c]
  BY ComponentTypes
<1>4. /\ \A k \in 1 .. n : Position[components[k]] \in Nat
      /\ \A k \in 1 .. n : EventEnd(components[k]) \in Nat
      /\ \A k \in 1 .. n : EventEnd(components[k]) >= Position[components[k]]
      /\ \A k \in 1 .. n :
           Length[components[k]] = NoLength => EventEnd(components[k]) = Position[components[k]]
  BY <1>1, ComponentTypes
<1>5. CASE components = <<>>
  <2>1. n = 0 /\ i = 0 /\ DOMAIN t = 1 .. 1 /\ t[1] = c
    BY <1>1, <1>2, <1>5
  <2>2. CASE length = NoLength /\ Length[c] = NoLength
    <3>1. l = NoLength
      BY <2>2 DEF LengthWithEvent
    <3> QED BY <2>1, <2>2, <3>1 DEF Covers
  <2>3. CASE ~ (length = NoLength /\ Length[c] = NoLength)
    <3>1. l = OrZero(Length[c])
      BY <1>5, <2>3 DEF LengthWithEvent
    <3>2. EventEnd(c) - Position[c] = l /\ l \in Nat /\ l # NoLength
      BY <1>3, <3>1, SequenceAssumption
    <3> HIDE DEF l
    <3>3. \A j \in DOMAIN t : t[j] = c
      BY <2>1
    <3>4. Covers(t, l)
      BY <2>1, <3>2, <3>3 DEF Covers
    <3> QED BY <3>2, <3>4 DEF l
  <2> QED BY <2>2, <2>3
<1>6. CASE components # <<>>
  <2> DEFINE first == Position[components[1]]
             L == OrZero(length)
             end == Max({EventEnd(c) - first, L})
             D == IF i = 0 THEN first - Position[c] ELSE 0
  <2>1. /\ HoldsEvents(components) /\ InOrder(c, i) /\ n >= 1
        /\ Head(components) = components[1]
    BY <1>1, <1>6 DEF MayInsert
  <2>2. first \in Nat /\ L \in Nat
    <3>1. 1 \in 1 .. n
      BY <1>1, <2>1
    <3>2. first \in Nat
      BY <1>4, <3>1
    <3>3. L \in Nat
      BY <1>1 DEF OrZero
    <3> QED BY <3>2, <3>3
  <2>3. EventEnd(c) - first \in Int /\ L \in Int
    BY <1>3, <2>2
  <2>4. /\ end \in {EventEnd(c) - first, L} /\ end \in Int
        /\ end >= EventEnd(c) - first /\ end >= L
    <3> HIDE DEF first, L
    <3> QED BY <2>3, MaxOfTwo
  <2>5. D \in Nat /\ Position[t[1]] = first - D
    <3>1. CASE i = 0
      <4>1. t[1] = c /\ Position[c] <= first
        BY <1>1, <1>2, <2>1, <3>1 DEF InOrder
      <4> QED BY <1>3, <2>2, <3>1, <4>1
    <3>2. CASE i # 0
      <4>1. t[1] = components[1]
        BY <1>1, <1>2, <2>1, <3>2
      <4> QED BY <2>2, <3>2, <4>1
    <3> QED BY <3>1, <3>2
  <2>6. \A k \in 1 .. n : Length[components[k]] # NoLength =>
          length # NoLength /\ EventEnd(components[k]) - first <= L
    BY <1>1, <2>1 DEF Covers, OrZero
  <2>7. \E k \in 1 .. n : EventEnd(components[k]) - first = L
    <3>1. CASE length = NoLength
      <4>1. 1 \in 1 .. n /\ Length[components[1]] = NoLength
        BY <1>1, <2>1, <2>6, <3>1
      <4>2. EventEnd(components[1]) = first /\ L = 0
        BY <1>4, <3>1, <4>1 DEF OrZero
      <4> QED BY <2>2, <4>1, <4>2
    <3>2. CASE length # NoLength
      BY <1>1, <2>1, <3>2 DEF Covers, OrZero
    <3> QED BY <3>1, <3>2
  <2>8. \A j \in 1 .. n + 1 : t[j] = c \/ \E k \in 1 .. n : t[j] = components[k]
    <3> TAKE j \in 1 .. n + 1
    <3>1. CASE j <= i
      BY <1>1, <1>2, <3>1
    <3>2. CASE j = i + 1
      BY <1>1, <1>2, <3>2
    <3>3. CASE j > i + 1
      <4>1. j - 1 \in 1 .. n /\ t[j] = components[j - 1]
        BY <1>1, <1>2, <3>3
      <4> QED BY <4>1
    <3> QED BY <1>1, <3>1, <3>2, <3>3
  <2>9. \A k \in 1 .. n : \E j \in 1 .. n + 1 : t[j] = components[k]
    <3> TAKE k \in 1 .. n
    <3>1. CASE k <= i
      BY <1>1, <1>2, <3>1
    <3>2. CASE k > i
      <4>1. k + 1 \in 1 .. n + 1 /\ t[k + 1] = components[k]
        BY <1>1, <1>2, <3>2
      <4> QED BY <4>1
    <3> QED BY <1>1, <3>1, <3>2
  <2>10. i + 1 \in 1 .. n + 1 /\ t[i + 1] = c
    BY <1>1, <1>2
  <2>11. CASE length = NoLength /\ Length[c] = NoLength
    <3>1. l = NoLength
      BY <2>11 DEF LengthWithEvent
    <3>2. \A j \in DOMAIN t : Length[t[j]] = NoLength
      BY <1>2, <2>6, <2>8, <2>11
    <3> QED BY <3>1, <3>2 DEF Covers
  <2>12. CASE ~ (length = NoLength /\ Length[c] = NoLength)
    <3>1. l = end + D
      <4>1. l = IF i = 0 THEN end + (first - Position[c]) ELSE end
        BY <1>6, <2>1, <2>12, Zenon DEF LengthWithEvent
      <4> HIDE DEF end, first, l
      <4> QED BY <2>4, <4>1
    <3> HIDE DEF l, end, D, first, L
    <3>2. l \in Nat /\ l # NoLength
      BY <2>2, <2>4, <2>5, <3>1, SequenceAssumption
    <3>3. ASSUME NEW j \in 1 .. n + 1, Length[t[j]] # NoLength
          PROVE  EventEnd(t[j]) - Position[t[1]] <= l
      <4>1. CASE t[j] = c
        BY <1>3, <2>2, <2>4, <2>5, <3>1, <4>1
      <4>2. ASSUME NEW k \in 1 .. n, t[j] = components[k]
            PROVE  EventEnd(t[j]) - Position[t[1]] <= l
        <5>0. Length[components[k]] # NoLength
          BY <3>3, <4>2
        <5>1. EventEnd(components[k]) - first <= L /\ EventEnd(components[k]) \in Nat
          BY <1>4, <2>6, <5>0
        <5> QED BY <2>2, <2>4, <2>5, <3>1, <4>2, <5>1
      <4> QED BY <2>8, <4>1, <4>2
    <3>4. \E j \in 1 .. n + 1 : EventEnd(t[j]) - Position[t[1]] = l
      <4>1. CASE end = EventEnd(c) - first
        <5>1. EventEnd(t[i + 1]) - Position[t[1]] = l
          BY <1>3, <2>2, <2>5, <2>10, <3>1, <4>1
        <5> QED BY <2>10, <5>1
      <4>2. CASE end = L
        <5>1. PICK k \in 1 .. n : EventEnd(components[k]) - first = L
          BY <2>7
        <5>2. PICK j \in 1 .. n + 1 : t[j] = components[k]
          BY <2>9
        <5>3. EventEnd(t[j]) = first + L
          <6>1. EventEnd(components[k]) \in Nat
            BY <1>4
          <6>2. EventEnd(components[k]) = first + L
            BY <2>2, <5>1, <6>1
          <6> QED BY <5>2, <6>2
        <5>4. EventEnd(t[j]) - Position[t[1]] = l
          BY <2>2, <2>5, <3>1, <4>2, <5>3
        <5> QED BY <5>4
      <4> QED BY <2>4, <4>1, <4>2
    <3>5. Covers(t, l)
      BY <1>2, <3>2, <3>3, <3>4 DEF Covers
    <3> QED BY <3>2, <3>5 DEF l
  <2> QED BY <2>11, <2>12
<1> QED BY <1>5, <1>6

\* An insertion that is accepted keeps the sequence sound.
LEMMA InsertKeepsSound ==
  ASSUME Sound(components, length), NEW c \in Components, NEW i \in 0 .. Len(components),
         MayInsert(c, i), LengthAccepts(c, i), NEW t, t = InsertAt(components, i + 1, c)
  PROVE  Sound(t, LengthWith(c, i))
<1> DEFINE l == LengthWith(c, i)
<1>1. /\ t \in Seq(Components) /\ t # <<>> /\ IsInjective(t)
      /\ OneKind(t) /\ InPositionOrder(t)
      /\ HoldsEvents(t) <=> IsEvent(c)
      /\ components # <<>> => (HoldsEvents(components) <=> IsEvent(c))
  BY InsertKeepsOrder
<1>2. CASE IsEvent(c)
  <2>1. l = LengthWithEvent(c, i)
    BY <1>2 DEF LengthWith
  <2>2. l \in Nat \cup {NoLength} /\ Covers(t, l)
    BY <1>2, <2>1, InsertKeepsEvents
  <2>3. Measured(t, l)
    BY <1>1, <1>2 DEF Measured
  <2> HIDE DEF l
  <2> QED BY <1>1, <2>2, <2>3 DEF Sound, l
<1>3. CASE ~ IsEvent(c)
  <2>1. l = LengthWithComponent(c) /\ Length[c] # NoLength /\ l >= 0
    BY <1>3 DEF LengthWith, LengthAccepts
  <2>2. Length[c] \in Nat /\ OrZero(length) \in Nat
    BY <2>1, SequenceAssumption DEF Sound, OrZero
  <2>3. l \in Nat /\ l # NoLength
    BY <2>1, <2>2, SequenceAssumption DEF LengthWithComponent
  <2> HIDE DEF l
  <2>4. \A j \in DOMAIN t : Length[t[j]] # NoLength
    <3>1. /\ components \in Seq(Components) /\ Len(components) \in Nat
          /\ DOMAIN components = 1 .. Len(components)
      BY DEF Sound
    <3>2. /\ t \in Seq(Components) /\ Len(t) = Len(components) + 1
          /\ DOMAIN t = 1 .. Len(components) + 1 /\ WithAt(t, components, i, c)
      BY <3>1, InsertedElements, Zenon
    <3>3. \A k \in 1 .. Len(components) : Length[components[k]] # NoLength
      <4> TAKE k \in 1 .. Len(components)
      <4>1. components # <<>>
        BY <3>1
      <4>2. ~ HoldsEvents(components)
        BY <1>1, <1>3, <4>1
      <4> QED BY <3>1, <4>1, <4>2 DEF Sound, Measured
    <3> SUFFICES ASSUME NEW j \in 1 .. Len(components) + 1 PROVE Length[t[j]] # NoLength
      BY <3>2
    <3>4. t[j] = c \/ \E k \in 1 .. Len(components) : t[j] = components[k]
      <4>1. t[j] = IF j <= i THEN components[j]
                   ELSE IF j = i + 1 THEN c ELSE components[j - 1]
        BY <3>2 DEF WithAt
      <4>2. CASE j <= i
        BY <4>1, <4>2
      <4>3. CASE j = i + 1
        BY <4>1, <4>3
      <4>4. CASE j > i + 1
        <5>1. j - 1 \in 1 .. Len(components) /\ t[j] = components[j - 1]
          BY <4>1, <4>4
        <5> QED BY <5>1
      <4> QED BY <4>2, <4>3, <4>4
    <3> QED BY <2>1, <3>3, <3>4
  <2>5. Measured(t, l) /\ Covers(t, l)
    BY <1>1, <1>3, <2>3, <2>4 DEF Measured, Covers
  <2> QED BY <1>1, <2>3, <2>5 DEF Sound, l
<1> QED BY <1>2, <1>3

\* An insertion that is accepted keeps transitions apart.
LEMMA InsertKeepsSpacing ==
  ASSUME Sound(components, length), NEW c \in Components, NEW i \in 0 .. Len(components),
         MayInsert(c, i), WellSpaced(components), NEW t, t = InsertAt(components, i + 1, c)
  PROVE  WellSpaced(t)
<1>1. /\ components \in Seq(Components) /\ Len(components) \in Nat
      /\ DOMAIN components = 1 .. Len(components) /\ OneKind(components)
  BY DEF Sound
<1>2. /\ t \in Seq(Components) /\ Len(t) = Len(components) + 1
      /\ DOMAIN t = 1 .. Len(components) + 1 /\ WithAt(t, components, i, c)
  BY <1>1, InsertedElements, Zenon
<1>3. \A j \in 1 .. Len(components) + 1 :
        t[j] = IF j <= i THEN components[j] ELSE IF j = i + 1 THEN c ELSE components[j - 1]
  BY <1>2 DEF WithAt
<1>4. Kind[c] = Transition => components # <<>> /\ NotAdjacent(c, i)
  BY DEF MayInsert, IsEvent
<1>5. ASSUME NEW k \in 1 .. Len(components), Kind[components[k]] = Transition
      PROVE  k - 1 \in 1 .. Len(components) /\ Kind[components[k - 1]] # Transition
  BY <1>1, <1>5 DEF WellSpaced
<1> SUFFICES ASSUME NEW j \in 1 .. Len(components) + 1, Kind[t[j]] = Transition
             PROVE  j > 1 /\ Kind[t[j - 1]] # Transition
  BY <1>2 DEF WellSpaced
<1>6. CASE j <= i
  <2>1. j \in 1 .. Len(components) /\ t[j] = components[j]
    BY <1>1, <1>3, <1>6
  <2>2. j - 1 \in 1 .. Len(components) /\ Kind[components[j - 1]] # Transition
    BY <1>5, <2>1
  <2>3. t[j - 1] = components[j - 1]
    BY <1>3, <1>6, <2>2
  <2> QED BY <2>2, <2>3
<1>7. CASE j = i + 1
  <2>1. t[j] = c
    BY <1>3, <1>7
  <2>2. i > 0 /\ \A n \in Beside(i) : Kind[n] # Transition
    BY <1>4, <2>1 DEF NotAdjacent
  <2>3. components[i] \in Beside(i)
    BY <1>1, <2>2 DEF Beside
  <2>4. t[j - 1] = components[i]
    BY <1>3, <1>7, <2>2
  <2> QED BY <1>7, <2>2, <2>3, <2>4
<1>8. CASE j = i + 2
  <2>1. i + 1 \in 1 .. Len(components) /\ t[j] = components[i + 1] /\ t[j - 1] = c
    BY <1>1, <1>3, <1>8
  <2>2. components[i + 1] \in Beside(i)
    BY <1>1, <2>1 DEF Beside
  <2>3. Kind[c] # Transition
    BY <1>4, <2>1, <2>2 DEF NotAdjacent
  <2> QED BY <1>8, <2>1, <2>3
<1>9. CASE j > i + 2
  <2>1. j - 1 \in 1 .. Len(components) /\ t[j] = components[j - 1]
    BY <1>1, <1>3, <1>9
  <2>2. (j - 1) - 1 \in 1 .. Len(components) /\ Kind[components[(j - 1) - 1]] # Transition
    BY <1>5, <2>1
  <2>3. t[j - 1] = components[(j - 1) - 1]
    BY <1>3, <1>9, <2>1
  <2> QED BY <2>1, <2>2, <2>3
<1> QED BY <1>6, <1>7, <1>8, <1>9

-----------------------------------------------------------------------------
(* Removal.                                                                *)

\* What a removal leaves is of one kind, and in order.
LEMMA RemoveKeepsOrder ==
  ASSUME Sound(components, length), NEW i \in 0 .. Len(components) - 1,
         NEW rest, rest = RemoveAt(components, i + 1)
  PROVE  /\ rest \in Seq(Components) /\ IsInjective(rest)
         /\ OneKind(rest) /\ InPositionOrder(rest) /\ Measured(rest, length)
         /\ rest # <<>> => (HoldsEvents(rest) <=> HoldsEvents(components))
         /\ ToSet(components) \ {components[i + 1]} = ToSet(rest)
<1> DEFINE n == Len(components)
<1>1. /\ components \in Seq(Components) /\ n \in Nat /\ DOMAIN components = 1 .. n
      /\ IsInjective(components) /\ OneKind(components) /\ InPositionOrder(components)
      /\ Measured(components, length) /\ i \in 0 .. n - 1
  BY DEF Sound
<1>2. /\ rest \in Seq(Components) /\ Len(rest) = n - 1 /\ DOMAIN rest = 1 .. n - 1
      /\ \A j \in 1 .. n - 1 : rest[j] = IF j <= i THEN components[j] ELSE components[j + 1]
  <2>1. /\ rest \in Seq(Components) /\ Len(rest) = Len(components) - 1
        /\ DOMAIN rest = 1 .. Len(components) - 1 /\ WithoutAt(rest, components, i)
    BY <1>1, RemainingElements, Zenon
  <2> QED BY <2>1 DEF WithoutAt
<1>3. components # <<>>
  BY <1>1
<1> HIDE DEF n
<1> DEFINE at(j) == IF j <= i THEN j ELSE j + 1
<1>4. \A j \in 1 .. n - 1 : at(j) \in 1 .. n /\ at(j) # i + 1 /\ rest[j] = components[at(j)]
  BY <1>1, <1>2
<1>5. \A j, k \in 1 .. n - 1 : j < k => at(j) < at(k)
  BY <1>1
<1>6. \A j, k \in 1 .. n - 1 : at(j) = at(k) => j = k
  BY <1>1
<1>7. \A k \in 1 .. n : k # i + 1 => \E j \in 1 .. n - 1 : rest[j] = components[k]
  <2> SUFFICES ASSUME NEW k \in 1 .. n, k # i + 1
               PROVE  \E j \in 1 .. n - 1 : rest[j] = components[k]
    OBVIOUS
  <2>1. CASE k <= i
    <3>1. k \in 1 .. n - 1 /\ rest[k] = components[k]
      BY <1>1, <1>2, <2>1
    <3> QED BY <3>1
  <2>2. CASE k > i
    <3>1. k - 1 \in 1 .. n - 1 /\ rest[k - 1] = components[k]
      BY <1>1, <1>2, <2>2
    <3> QED BY <3>1
  <2> QED BY <1>1, <2>1, <2>2
<1> HIDE DEF at
<1>8. IsInjective(rest)
  BY <1>1, <1>2, <1>4, <1>6 DEF IsInjective
<1>9. OneKind(rest)
  <2> SUFFICES ASSUME NEW j \in 1 .. n - 1, NEW k \in 1 .. n - 1
               PROVE  \/ Kind[rest[j]] = Kind[rest[k]]
                      \/ {Kind[rest[j]], Kind[rest[k]]} = {Segment, Transition}
    BY <1>2 DEF OneKind
  <2>1. at(j) \in DOMAIN components /\ at(k) \in DOMAIN components
    BY <1>1, <1>4
  <2>2. rest[j] = components[at(j)] /\ rest[k] = components[at(k)]
    BY <1>4
  <2>3. \/ Kind[components[at(j)]] = Kind[components[at(k)]]
        \/ {Kind[components[at(j)]], Kind[components[at(k)]]} = {Segment, Transition}
    BY <1>1, <2>1, Zenon DEF OneKind
  <2> QED BY <2>2, <2>3
<1>10. rest # <<>> => (HoldsEvents(rest) <=> HoldsEvents(components))
  <2> SUFFICES ASSUME rest # <<>> PROVE HoldsEvents(rest) <=> HoldsEvents(components)
    OBVIOUS
  <2>1. 1 \in 1 .. n - 1 /\ Head(rest) = rest[1]
    BY <1>1, <1>2
  <2>2. at(1) \in DOMAIN components /\ rest[1] = components[at(1)]
    BY <1>1, <1>4, <2>1
  <2>3. HoldsEvents(components) <=> IsEvent(components[at(1)])
    BY <1>1, <1>3, <2>2, EventsTogether
  <2> QED BY <2>1, <2>2, <2>3 DEF HoldsEvents
<1>11. InPositionOrder(rest)
  <2> SUFFICES ASSUME HoldsEvents(rest), NEW j \in 1 .. n - 1, NEW k \in 1 .. n - 1, j < k
               PROVE  Position[rest[j]] <= Position[rest[k]]
    BY <1>2 DEF InPositionOrder
  <2>1. HoldsEvents(components)
    BY <1>10 DEF HoldsEvents
  <2> QED BY <1>1, <1>4, <1>5, <2>1 DEF InPositionOrder
<1>12. Measured(rest, length)
  <2> SUFFICES ASSUME rest # <<>>, ~ HoldsEvents(rest)
               PROVE  length # NoLength /\ \A j \in 1 .. n - 1 : Length[rest[j]] # NoLength
    BY <1>2 DEF Measured
  <2>1. ~ HoldsEvents(components)
    BY <1>10
  <2> QED BY <1>1, <1>3, <1>4, <2>1 DEF Measured
<1>13. ToSet(components) \ {components[i + 1]} = ToSet(rest)
  <2>1. ASSUME NEW x \in ToSet(rest)
        PROVE  x \in ToSet(components) \ {components[i + 1]}
    <3>1. PICK j \in 1 .. n - 1 : x = rest[j]
      BY <1>2, <2>1 DEF ToSet
    <3>2. at(j) \in DOMAIN components /\ x = components[at(j)] /\ at(j) # i + 1
      BY <1>1, <1>4, <3>1
    <3>3. i + 1 \in DOMAIN components
      BY <1>1
    <3>4. x # components[i + 1]
      BY <1>1, <3>2, <3>3 DEF IsInjective
    <3> QED BY <3>2, <3>4 DEF ToSet
  <2>2. ASSUME NEW x \in ToSet(components), x # components[i + 1]
        PROVE  x \in ToSet(rest)
    <3>1. PICK k \in 1 .. n : x = components[k]
      BY <1>1, <2>2 DEF ToSet
    <3>2. k # i + 1
      BY <2>2, <3>1
    <3> QED BY <1>2, <1>7, <3>1, <3>2 DEF ToSet
  <2> QED BY <2>1, <2>2
<1> QED BY <1>2, <1>8, <1>9, <1>10, <1>11, <1>12, <1>13

\* The event that the length reaches to ends no earlier than the length says, so
\* its removal makes the end be looked for; any other removal leaves that event.
LEMMA RemoveKeepsEvents ==
  ASSUME Sound(components, length), NEW i \in 0 .. Len(components) - 1,
         NEW rest, rest = RemoveAt(components, i + 1), HoldsEvents(rest)
  PROVE  LET l == LengthWithoutEvent(components[i + 1], i, rest)
         IN  l \in Nat \cup {NoLength} /\ Covers(rest, l)
<1> DEFINE n == Len(components)
           l == LengthWithoutEvent(components[i + 1], i, rest)
           first == Position[components[1]]
           f == Position[rest[1]]
<1>1. /\ components \in Seq(Components) /\ n \in Nat /\ DOMAIN components = 1 .. n
      /\ InPositionOrder(components) /\ Covers(components, length)
      /\ i \in 0 .. n - 1 /\ length \in Nat \cup {NoLength}
  BY DEF Sound
<1>2. /\ rest \in Seq(Components) /\ Len(rest) = n - 1 /\ DOMAIN rest = 1 .. n - 1
      /\ \A j \in 1 .. n - 1 : rest[j] = IF j <= i THEN components[j] ELSE components[j + 1]
  <2>1. /\ rest \in Seq(Components) /\ Len(rest) = Len(components) - 1
        /\ DOMAIN rest = 1 .. Len(components) - 1 /\ WithoutAt(rest, components, i)
    BY <1>1, RemainingElements, Zenon
  <2> QED BY <2>1 DEF WithoutAt
<1>3. /\ rest # <<>> /\ HoldsEvents(components)
      /\ InPositionOrder(rest)
  BY RemoveKeepsOrder DEF HoldsEvents
<1>4. 1 \in 1 .. n - 1 /\ 1 \in 1 .. n /\ Head(rest) = rest[1] /\ n >= 2
  BY <1>1, <1>2, <1>3
<1> HIDE DEF n
<1>5. /\ \A k \in 1 .. n : Position[components[k]] \in Nat
      /\ \A k \in 1 .. n : EventEnd(components[k]) \in Nat
      /\ \A k \in 1 .. n : EventEnd(components[k]) >= Position[components[k]]
      /\ \A k \in 1 .. n :
           Length[components[k]] = NoLength => EventEnd(components[k]) = Position[components[k]]
  BY <1>1, ComponentTypes
<1>6. /\ \A j \in 1 .. n - 1 : Position[rest[j]] \in Nat
      /\ \A j \in 1 .. n - 1 : EventEnd(rest[j]) \in Nat
      /\ \A j \in 1 .. n - 1 : EventEnd(rest[j]) >= Position[rest[j]]
      /\ \A j \in 1 .. n - 1 :
           Length[rest[j]] = NoLength => EventEnd(rest[j]) = Position[rest[j]]
  <2>1. \A j \in 1 .. n - 1 : rest[j] \in Components
    BY <1>2
  <2> QED BY <2>1, ComponentTypes, Zenon
<1>7. \A j \in 1 .. n - 1 : \E k \in 1 .. n : rest[j] = components[k]
  <2> TAKE j \in 1 .. n - 1
  <2>1. CASE j <= i
    BY <1>1, <1>2, <2>1
  <2>2. CASE j > i
    <3>1. j + 1 \in 1 .. n /\ rest[j] = components[j + 1]
      BY <1>1, <1>2, <2>2
    <3> QED BY <3>1
  <2> QED BY <1>1, <2>1, <2>2
<1>8. \A k \in 1 .. n : k # i + 1 => \E j \in 1 .. n - 1 : rest[j] = components[k]
  <2> SUFFICES ASSUME NEW k \in 1 .. n, k # i + 1
               PROVE  \E j \in 1 .. n - 1 : rest[j] = components[k]
    OBVIOUS
  <2>1. CASE k <= i
    <3>1. k \in 1 .. n - 1 /\ rest[k] = components[k]
      BY <1>1, <1>2, <2>1
    <3> QED BY <3>1
  <2>2. CASE k > i
    <3>1. k - 1 \in 1 .. n - 1 /\ rest[k - 1] = components[k]
      BY <1>1, <1>2, <2>2
    <3> QED BY <3>1
  <2> QED BY <1>1, <2>1, <2>2
<1>9. first \in Nat /\ f \in Nat
  BY <1>4, <1>5, <1>6
<1>10. first <= f
  <2>1. \A k \in 1 .. n : first <= Position[components[k]]
    <3>1. \A k \in 1 .. n : 1 < k => first <= Position[components[k]]
      BY <1>1, <1>3, <1>4 DEF InPositionOrder
    <3> QED BY <1>4, <1>9, <3>1
  <2> QED BY <1>4, <1>7, <2>1
<1>11. \A j \in 1 .. n - 1 : f <= Position[rest[j]]
  <2>1. \A j \in 1 .. n - 1 : 1 < j => f <= Position[rest[j]]
    BY <1>2, <1>3, <1>4 DEF InPositionOrder
  <2> QED BY <1>4, <1>9, <2>1
<1>12. \A j \in 1 .. n - 1 : Length[rest[j]] # NoLength =>
         length # NoLength /\ EventEnd(rest[j]) - first <= length
  <2>1. \A k \in 1 .. n : Length[components[k]] # NoLength =>
          length # NoLength /\ EventEnd(components[k]) - first <= length
    BY <1>1, <1>3 DEF Covers
  <2> TAKE j \in 1 .. n - 1
  <2>2. PICK k \in 1 .. n : rest[j] = components[k]
    BY <1>7
  <2> QED BY <2>1, <2>2
<1> SUFFICES /\ l \in Nat \cup {NoLength}
             /\ \A j \in 1 .. n - 1 : Length[rest[j]] # NoLength =>
                  l # NoLength /\ EventEnd(rest[j]) - f <= l
             /\ l # NoLength => \E j \in 1 .. n - 1 : EventEnd(rest[j]) - f = l
  BY <1>2 DEF Covers
<1>13. CASE length = NoLength
  <2>1. l = NoLength
    BY <1>13 DEF LengthWithoutEvent
  <2> QED BY <1>12, <1>13, <2>1
<1>14. CASE length = 0
  <2>1. l = 0
    BY <1>14 DEF LengthWithoutEvent
  <2>2. ASSUME NEW j \in 1 .. n - 1, Length[rest[j]] # NoLength
        PROVE  EventEnd(rest[j]) - f <= 0
    <3>1. EventEnd(rest[j]) - first <= 0 /\ EventEnd(rest[j]) \in Nat
      BY <1>6, <1>12, <1>14, <2>2
    <3> HIDE DEF f, first
    <3> QED BY <1>9, <1>10, <3>1
  <2>3. EventEnd(rest[1]) - f = 0
    <3>1. CASE Length[rest[1]] = NoLength
      <4>1. EventEnd(rest[1]) = f
        BY <1>4, <1>6, <3>1
      <4> HIDE DEF f
      <4> QED BY <1>9, <4>1
    <3>2. CASE Length[rest[1]] # NoLength
      <4>1. EventEnd(rest[1]) - f <= 0 /\ EventEnd(rest[1]) >= f /\ EventEnd(rest[1]) \in Nat
        BY <1>4, <1>6, <2>2, <3>2
      <4> HIDE DEF f
      <4> QED BY <1>9, <4>1
    <3> QED BY <3>1, <3>2
  <2> HIDE DEF l, f
  <2>4. 0 # NoLength
    BY SequenceAssumption
  <2> QED BY <1>4, <2>1, <2>2, <2>3, <2>4
<1>15. CASE length \notin {NoLength, 0} /\ ReachesEnd(components[i + 1])
  <2>1. l = EventsEnd(rest) - f
    BY <1>4, <1>15 DEF LengthWithoutEvent
  <2>2. /\ EventsEnd(rest) \in Nat
        /\ \A j \in DOMAIN rest : EventEnd(rest[j]) \in Nat /\ EventEnd(rest[j]) <= EventsEnd(rest)
        /\ \E j \in DOMAIN rest : EventEnd(rest[j]) = EventsEnd(rest)
    BY <1>2, <1>3, EventsEndIsReached
  <2>3. \A j \in 1 .. n - 1 : EventEnd(rest[j]) <= EventsEnd(rest)
    BY <1>2, <2>2
  <2>4. PICK j \in 1 .. n - 1 : EventEnd(rest[j]) = EventsEnd(rest)
    BY <1>2, <2>2
  <2>5. EventEnd(rest[1]) >= f /\ EventEnd(rest[1]) \in Nat /\ EventEnd(rest[1]) <= EventsEnd(rest)
    BY <1>4, <1>6, <2>3
  <2> HIDE DEF l, f
  <2>6. l \in Nat /\ l # NoLength
    BY <1>9, <2>1, <2>2, <2>5, SequenceAssumption
  <2>7. \A k \in 1 .. n - 1 : EventEnd(rest[k]) - f <= l
    BY <1>6, <1>9, <2>1, <2>2, <2>3
  <2>8. EventEnd(rest[j]) - f = l
    BY <2>1, <2>4
  <2> QED BY <2>6, <2>7, <2>8
<1>16. CASE length \notin {NoLength, 0} /\ ~ ReachesEnd(components[i + 1])
  <2>1. length \in Nat /\ i + 1 \in 1 .. n
    BY <1>1, <1>16
  <2>2. EventEnd(components[i + 1]) < length /\ EventEnd(components[i + 1]) \in Nat
    BY <1>5, <1>16, <2>1 DEF ReachesEnd
  <2>3. PICK k \in 1 .. n : EventEnd(components[k]) - first = length
    BY <1>1, <1>3, <1>16 DEF Covers
  <2>4. EventEnd(components[k]) \in Nat /\ EventEnd(components[k]) = length + first
    <3>1. EventEnd(components[k]) \in Nat
      BY <1>5
    <3> HIDE DEF first
    <3> QED BY <1>9, <2>1, <2>3, <3>1
  <2>5. k # i + 1
    <3> HIDE DEF first
    <3> QED BY <1>9, <2>1, <2>2, <2>4
  <2>6. PICK j \in 1 .. n - 1 : rest[j] = components[k]
    BY <1>8, <2>5
  <2>7. EventEnd(rest[j]) = length + first /\ EventEnd(rest[j]) >= f
    <3>1. /\ Position[rest[j]] \in Nat /\ f <= Position[rest[j]]
          /\ EventEnd(rest[j]) \in Nat /\ EventEnd(rest[j]) >= Position[rest[j]]
      BY <1>6, <1>11
    <3>2. EventEnd(rest[j]) = length + first
      BY <2>4, <2>6
    <3> HIDE DEF f, first
    <3> QED BY <1>9, <3>1, <3>2
  <2>8. l = length - (f - first)
    <3>1. CASE i = 0
      <4>1. l = length - (f - first)
        BY <1>4, <1>16, <3>1 DEF LengthWithoutEvent
      <4> QED BY <4>1
    <3>2. CASE i # 0
      <4>1. l = length
        BY <1>16, <3>2 DEF LengthWithoutEvent
      <4>2. f = first
        BY <1>1, <1>2, <1>4, <3>2
      <4> HIDE DEF l, f, first
      <4> QED BY <1>9, <2>1, <4>1, <4>2
    <3> QED BY <3>1, <3>2
  <2> HIDE DEF l, f, first
  <2>9. l \in Nat /\ l # NoLength
    BY <1>9, <2>1, <2>7, <2>8, SequenceAssumption
  <2>10. ASSUME NEW m \in 1 .. n - 1, Length[rest[m]] # NoLength
         PROVE  EventEnd(rest[m]) - f <= l
    <3>1. EventEnd(rest[m]) - first <= length /\ EventEnd(rest[m]) \in Nat
      BY <1>6, <1>12, <2>10
    <3> QED BY <1>9, <2>1, <2>8, <3>1
  <2>11. EventEnd(rest[j]) - f = l
    BY <1>9, <2>1, <2>7, <2>8
  <2> QED BY <2>9, <2>10, <2>11
<1> QED BY <1>13, <1>14, <1>15, <1>16

\* The new length is accepted or, without events, may be refused: the component
\* is gone all the same, and the old length stays.
LEMMA RemoveKeepsSound ==
  ASSUME Sound(components, length), NEW i \in 0 .. Len(components) - 1,
         NEW rest, rest = RemoveAt(components, i + 1),
         NEW c, c = components[i + 1], NEW l, l = LengthWithout(c, i, rest)
  PROVE  /\ ~ (l # NoLength /\ l < 0) => Sound(rest, l)
         /\ l # NoLength /\ l < 0 => ~ IsEvent(c) /\ Sound(rest, length)
<1>1. /\ rest \in Seq(Components) /\ IsInjective(rest)
      /\ OneKind(rest) /\ InPositionOrder(rest) /\ Measured(rest, length)
      /\ rest # <<>> => (HoldsEvents(rest) <=> HoldsEvents(components))
  BY RemoveKeepsOrder
<1>2. /\ components \in Seq(Components) /\ Len(components) \in Nat
      /\ DOMAIN components = 1 .. Len(components) /\ OneKind(components)
      /\ length \in Nat \cup {NoLength} /\ i + 1 \in DOMAIN components
      /\ c = components[i + 1] /\ components # <<>> /\ c \in Components
      /\ Covers(components, length) /\ Measured(components, length)
  BY DEF Sound
<1>3. CASE rest = <<>>
  <2>1. Len(rest) = Len(components) - 1
    BY <1>2, RemainingElements, Zenon
  <2>2. Len(components) = 1 /\ i + 1 = 1 /\ c = components[1] /\ 1 \in DOMAIN components
    BY <1>2, <1>3, <2>1
  <2>3. l \in {NoLength, 0}
    <3>1. CASE IsEvent(c) /\ Length[c] = NoLength
      <4>1. l = length /\ HoldsEvents(components)
        BY <1>2, <1>3, <2>2, <3>1, EventsTogether DEF LengthWithout
      <4>2. \A k \in DOMAIN components : k = 1
        BY <1>2, <2>2
      <4>3. length # NoLength => EventEnd(components[1]) - Position[components[1]] = length
        BY <4>1, <4>2, <1>2 DEF Covers
      <4>4. EventEnd(components[1]) = Position[components[1]] /\ Position[components[1]] \in Nat
        BY <1>2, <2>2, <3>1, ComponentTypes
      <4> QED BY <4>1, <4>3, <4>4
    <3>2. CASE ~ (IsEvent(c) /\ Length[c] = NoLength)
      BY <1>3, <3>2 DEF LengthWithout
    <3> QED BY <3>1, <3>2
  <2>4. ~ HoldsEvents(rest)
    BY <1>3 DEF HoldsEvents
  <2>5. Covers(rest, l) /\ Measured(rest, l)
    BY <1>3, <2>4 DEF Covers, Measured
  <2>6. l \in Nat \cup {NoLength}
    BY <2>3
  <2>7. Sound(rest, l)
    BY <1>1, <2>3, <2>5, <2>6 DEF Sound
  <2>8. ~ (l # NoLength /\ l < 0)
    <3>1. l # NoLength => l = 0
      BY <2>3
    <3>2. ~ (0 < 0)
      OBVIOUS
    <3> QED BY <3>1, <3>2, Zenon
  <2> QED BY <2>7, <2>8, Zenon
<1>4. CASE rest # <<>> /\ HoldsEvents(rest)
  <2>1. l = LengthWithoutEvent(components[i + 1], i, rest)
    BY <1>2, <1>4 DEF LengthWithout
  <2>2. l \in Nat \cup {NoLength} /\ Covers(rest, l)
    BY <1>4, <2>1, RemoveKeepsEvents
  <2>3. Measured(rest, l)
    BY <1>4 DEF Measured
  <2>4. Sound(rest, l)
    BY <1>1, <1>4, <2>2, <2>3 DEF Sound
  <2> QED BY <2>2, <2>4
<1>5. CASE rest # <<>> /\ ~ HoldsEvents(rest)
  <2>1. ~ HoldsEvents(components) /\ ~ IsEvent(c)
    BY <1>1, <1>2, <1>5, EventsTogether
  <2>2. l = LengthWithoutComponent(c)
    BY <1>5 DEF LengthWithout
  <2>3. length \in Nat /\ Length[c] \in Nat
    BY <1>2, <2>1, SequenceAssumption DEF Measured
  <2>4. l \in Int /\ l # NoLength
    BY <2>2, <2>3, SequenceAssumption DEF LengthWithoutComponent
  <2>5. Covers(rest, l) /\ Covers(rest, length)
    BY <1>5 DEF Covers
  <2>6. Sound(rest, length)
    BY <1>1, <1>2, <1>5, <2>5 DEF Sound
  <2>7. ASSUME ~ (l < 0)
        PROVE  Sound(rest, l)
    <3>1. l \in Nat \cup {NoLength}
      BY <2>4, <2>7
    <3>2. Measured(rest, l)
      BY <1>1, <1>5, <2>4 DEF Measured
    <3> QED BY <1>1, <1>5, <2>5, <3>1, <3>2 DEF Sound
  <2> QED BY <2>1, <2>4, <2>6, <2>7
<1> QED BY <1>3, <1>4, <1>5

-----------------------------------------------------------------------------
(* What is loaded is in the sequence.                                      *)

\* What an insertion looks at is in the sequence.
LEMMA ExaminedAreComponents ==
  ASSUME components \in Seq(Components), NEW c, NEW i \in 0 .. Len(components)
  PROVE  Examined(c, i) \subseteq ToSet(components)
<1>1. Beside(i) \subseteq ToSet(components)
  BY DEF Beside, ToSet
<1>2. CASE components = <<>>
  BY <1>2 DEF Examined
<1>3. CASE components # <<>>
  <2>1. Head(components) \in ToSet(components) /\ Last(components) \in ToSet(components)
    <3>1. Len(components) \in DOMAIN components /\ 1 \in DOMAIN components
      BY <1>3
    <3> QED BY <1>3, <3>1 DEF ToSet, Last
  <2> QED BY <1>1, <2>1, Zenon DEF Examined
<1> QED BY <1>2, <1>3

\* What a removal looks at is in what remains.
LEMMA ConsultedAreComponents ==
  ASSUME NEW rest \in Seq(Components), NEW c, NEW i
  PROVE  Consulted(c, i, rest) \subseteq ToSet(rest)
<1>1. CASE rest = <<>>
  BY <1>1 DEF Consulted
<1>2. CASE rest # <<>>
  <2>1. Head(rest) \in ToSet(rest) /\ Last(rest) \in ToSet(rest)
    <3>1. Len(rest) \in DOMAIN rest /\ 1 \in DOMAIN rest
      BY <1>2
    <3> QED BY <1>2, <3>1 DEF ToSet, Last
  <2> QED BY <2>1, Zenon DEF Consulted
<1> QED BY <1>1, <1>2

\* An insertion loses no component.
LEMMA InsertedSet ==
  ASSUME NEW s \in Seq(Components), NEW e \in Components, NEW i \in 0 .. Len(s),
         NEW t, t = InsertAt(s, i + 1, e)
  PROVE  ToSet(s) \cup {e} \subseteq ToSet(t)
<1>1. /\ Len(s) \in Nat /\ DOMAIN s = 1 .. Len(s) /\ DOMAIN t = 1 .. Len(s) + 1
      /\ \A j \in 1 .. Len(s) + 1 :
           t[j] = IF j <= i THEN s[j] ELSE IF j = i + 1 THEN e ELSE s[j - 1]
  <2>1. DOMAIN t = 1 .. Len(s) + 1 /\ WithAt(t, s, i, e)
    BY InsertedElements
  <2> QED BY <2>1 DEF WithAt
<1>2. e \in ToSet(t)
  <2>1. i + 1 \in DOMAIN t /\ t[i + 1] = e
    BY <1>1
  <2> QED BY <2>1 DEF ToSet
<1>3. ASSUME NEW k \in 1 .. Len(s)
      PROVE  s[k] \in ToSet(t)
  <2>1. CASE k <= i
    <3>1. k \in DOMAIN t /\ t[k] = s[k]
      BY <1>1, <2>1
    <3> QED BY <3>1 DEF ToSet
  <2>2. CASE k > i
    <3>1. k + 1 \in DOMAIN t /\ t[k + 1] = s[k]
      BY <1>1, <2>2
    <3> QED BY <3>1 DEF ToSet
  <2> QED BY <2>1, <2>2
<1> QED BY <1>1, <1>2, <1>3 DEF ToSet

-----------------------------------------------------------------------------
(* The steps.                                                              *)

\* An empty sequence is sound.
LEMMA InitSound == Init => IInv
<1> SUFFICES ASSUME Init PROVE IInv
  OBVIOUS
<1>1. Sound(<<>>, NoLength)
  <2>1. <<>> \in Seq(Components) /\ IsInjective(<<>>)
    BY DEF IsInjective
  <2>2. OneKind(<<>>) /\ ~ HoldsEvents(<<>>)
    BY DEF OneKind, HoldsEvents
  <2> QED BY <2>1, <2>2 DEF Sound, InPositionOrder, Covers, Measured
<1>2. TypeOK
  BY <1>1 DEF Init, TypeOK, Sound, Results, ToSet
<1> QED BY <1>1, <1>2 DEF Init, IInv

\* InsertComponentAt keeps the invariant.
LEMMA InsertStep ==
  ASSUME IInv, NEW c \in Components, NEW i \in 0 .. Len(components), InsertComponentAt(c, i)
  PROVE  IInv'
<1>1. TypeOK /\ Sound(components, length) /\ Sound(stored.components, stored.length)
  BY DEF IInv
<1>2. Examined(c, i) \subseteq ToSet(components)
  BY <1>1, ExaminedAreComponents DEF Sound
<1>3. stored' = stored
  BY DEF InsertComponentAt
<1>4. CASE MayInsert(c, i) /\ LengthAccepts(c, i)
  <2>1. /\ components' = InsertAt(components, i + 1, c) /\ length' = LengthWith(c, i)
        /\ loaded' = loaded \cup Examined(c, i) \cup {c} /\ result' = "inserted"
    BY <1>4 DEF InsertComponentAt
  <2>2. Sound(components', length')
    BY <1>1, <1>4, <2>1, InsertKeepsSound
  <2>3. ToSet(components) \cup {c} \subseteq ToSet(components')
    BY <1>1, <2>1, InsertedSet DEF Sound
  <2>4. loaded' \subseteq ToSet(components')
    BY <1>1, <1>2, <2>1, <2>3 DEF TypeOK
  <2>5. TypeOK'
    BY <1>1, <1>3, <2>1, <2>2, <2>4 DEF TypeOK, Sound, Results
  <2> QED BY <1>1, <1>3, <2>1, <2>2, <2>5 DEF IInv
<1>5. CASE ~ (MayInsert(c, i) /\ LengthAccepts(c, i))
  <2>1. /\ components' = components /\ length' = length
        /\ loaded' = loaded \cup Examined(c, i) /\ result' = "refused"
    BY <1>5 DEF InsertComponentAt
  <2>2. TypeOK'
    BY <1>1, <1>2, <1>3, <2>1 DEF TypeOK, Results
  <2> QED BY <1>1, <1>3, <2>1, <2>2 DEF IInv
<1> QED BY <1>4, <1>5

\* RemoveComponentAt keeps the invariant.
LEMMA RemoveStep ==
  ASSUME IInv, ~ MayRemoveUnloaded, NEW i \in Indices, RemoveComponentAt(i)
  PROVE  IInv'
<1> DEFINE c == components[i + 1]
           rest == RemoveAt(components, i + 1)
           l == LengthWithout(c, i, rest)
<1>1. TypeOK /\ Sound(components, length) /\ Sound(stored.components, stored.length)
  BY DEF IInv
<1>2. i \in 0 .. Len(components) - 1
  BY DEF Indices
<1>3. /\ c \in loaded /\ components' = rest /\ stored' = stored
      /\ loaded' = (loaded \ {c}) \cup Consulted(c, i, rest)
      /\ IF l # NoLength /\ l < 0
         THEN /\ result' = IF IsEvent(c) THEN "asserted" ELSE "refused"
              /\ length' = length
         ELSE result' = "removed" /\ length' = l
  BY DEF RemoveComponentAt
<1>4. /\ rest \in Seq(Components) /\ ToSet(components) \ {c} = ToSet(rest)
  BY <1>1, <1>2, RemoveKeepsOrder
<1>5. Consulted(c, i, rest) \subseteq ToSet(rest)
  <2> HIDE DEF c, rest
  <2> QED BY <1>4, ConsultedAreComponents
<1>6. /\ ~ (l # NoLength /\ l < 0) => Sound(rest, l)
      /\ l # NoLength /\ l < 0 => ~ IsEvent(c) /\ Sound(rest, length)
  BY <1>1, <1>2, RemoveKeepsSound
<1> HIDE DEF c, rest, l
<1>7. /\ Sound(components', length')
      /\ result' \in {"removed", "refused"}
  BY <1>3, <1>6
<1>8. loaded' \subseteq ToSet(components')
  BY <1>1, <1>3, <1>4, <1>5 DEF TypeOK
<1>9. TypeOK'
  BY <1>1, <1>3, <1>7, <1>8 DEF TypeOK, Sound, Results
<1> QED BY <1>1, <1>3, <1>7, <1>9 DEF IInv

\* So do looking at a component, a save and a reopening.
LEMMA OtherSteps ==
  ASSUME IInv
  PROVE  /\ \A i \in Indices : GetComponentAt(i) => IInv'
         /\ Save => IInv'
         /\ Reopen => IInv'
         /\ UNCHANGED vars => IInv'
<1>1. TypeOK /\ Sound(components, length) /\ Sound(stored.components, stored.length)
      /\ result # "asserted"
  BY DEF IInv
<1>2. ASSUME NEW i \in Indices, GetComponentAt(i)
      PROVE  IInv'
  <2>1. components[i + 1] \in ToSet(components)
    <3>1. i + 1 \in DOMAIN components
      BY <1>1 DEF Indices, TypeOK
    <3> QED BY <3>1 DEF ToSet
  <2>2. TypeOK'
    BY <1>1, <1>2, <2>1 DEF GetComponentAt, TypeOK
  <2> QED BY <1>1, <1>2, <2>2 DEF GetComponentAt, IInv
<1>3. ASSUME Save
      PROVE  IInv'
  <2>1. /\ stored'.components = components /\ stored'.length = length
        /\ DOMAIN stored' = {"components", "length"} /\ result' = "saved"
        /\ components' = components /\ loaded' = loaded /\ length' = length
    BY <1>3 DEF Save
  <2>2. TypeOK'
    BY <1>1, <2>1 DEF TypeOK, Results
  <2> QED BY <1>1, <2>1, <2>2 DEF IInv
<1>4. ASSUME Reopen
      PROVE  IInv'
  <2>1. /\ components' = stored.components /\ length' = stored.length
        /\ stored' = stored /\ result' = "opened"
        /\ loaded' \subseteq ToSet(components')
    BY <1>4 DEF Reopen
  <2>2. TypeOK'
    BY <1>1, <2>1 DEF TypeOK, Sound, Results
  <2> QED BY <1>1, <2>1, <2>2 DEF IInv
<1>5. ASSUME UNCHANGED vars
      PROVE  IInv'
  <2>1. TypeOK'
    BY <1>1, <1>5 DEF vars, TypeOK
  <2> QED BY <1>1, <1>5, <2>1 DEF vars, IInv
<1> QED BY <1>2, <1>3, <1>4, <1>5

\* Every step keeps the invariant.
LEMMA EveryStep == ~ MayRemoveUnloaded => (IInv /\ [Next]_vars => IInv')
<1> SUFFICES ASSUME ~ MayRemoveUnloaded, IInv, [Next]_vars PROVE IInv'
  OBVIOUS
<1>1. ASSUME NEW c \in Components, NEW i \in 0 .. Len(components), InsertComponentAt(c, i)
      PROVE  IInv'
  BY <1>1, InsertStep
<1>2. ASSUME NEW i \in Indices, RemoveComponentAt(i)
      PROVE  IInv'
  BY <1>2, RemoveStep
<1>3. ASSUME NEW i \in Indices, GetComponentAt(i)
      PROVE  IInv'
  BY <1>3, OtherSteps
<1> QED BY <1>1, <1>2, <1>3, OtherSteps DEF Next

\* The invariant holds for ever.
LEMMA Invariance == ~ MayRemoveUnloaded => (Spec => []IInv)
<1> SUFFICES ASSUME ~ MayRemoveUnloaded PROVE Spec => []IInv
  OBVIOUS
<1>1. IInv /\ [Next]_vars => IInv'
  BY EveryStep
<1> QED BY InitSound, <1>1, PTL DEF Spec

-----------------------------------------------------------------------------
(* Sums.                                                                   *)

\* One member of a set, the one that folds take next.
AnyOf(T) == CHOOSE x \in T : TRUE

\* The sum of the numbers f gives the members of a set, taken in any one order.
Adding(f, S, g) ==
  g = [T \in SUBSET S |-> IF T = {} THEN 0
                          ELSE f[AnyOf(T)] + g[T \ {AnyOf(T)}]]
Sum(f, S) == (CHOOSE g : Adding(f, S, g))[S]

\* A set of subsets of a finite set has one that no other of them is part of.
LEMMA Smallest ==
  ASSUME NEW S, IsFiniteSet(S), NEW Q \in SUBSET SUBSET S, Q # {}
  PROVE  \E T \in Q : \A U \in Q : U \subseteq T => U = T
<1>1. IsWellFoundedOn(StrictSubsetOrdering(S), SUBSET S)
  BY FS_StrictSubsetOrderingWellFounded, FS_FiniteSubsetsOfFinite
<1>2. PICK T \in Q : \A U \in Q : ~ (<<U, T>> \in StrictSubsetOrdering(S))
  BY <1>1, WFMin, Zenon
<1> QED BY <1>2 DEF StrictSubsetOrdering

\* What such a sum is at every subset.
LEMMA AddingAt ==
  ASSUME NEW S, NEW f, NEW g, Adding(f, S, g), NEW T \in SUBSET S
  PROVE  /\ T = {} => g[T] = 0
         /\ T # {} => AnyOf(T) \in T /\ g[T] = f[AnyOf(T)] + g[T \ {AnyOf(T)}]
<1>1. g[T] = IF T = {} THEN 0
             ELSE f[AnyOf(T)] + g[T \ {AnyOf(T)}]
  BY DEF Adding
<1>2. T # {} => AnyOf(T) \in T
  BY DEF AnyOf
<1> QED BY <1>1, <1>2

\* What it is at a subset does not depend on the set it was taken for.
LEMMA AddingsAgree ==
  ASSUME NEW S, IsFiniteSet(S), NEW f, NEW g, Adding(f, S, g),
         NEW R \in SUBSET S, NEW h, Adding(f, R, h)
  PROVE  \A T \in SUBSET R : g[T] = h[T]
<1> DEFINE Bad == {T \in SUBSET R : g[T] # h[T]}
<1> SUFFICES ASSUME Bad # {} PROVE FALSE
  OBVIOUS
<1>1. PICK T \in Bad : \A U \in Bad : U \subseteq T => U = T
  <2>1. Bad \in SUBSET SUBSET S
    OBVIOUS
  <2> HIDE DEF Bad
  <2> QED BY <2>1, Smallest
<1>2. T \in SUBSET R /\ T \in SUBSET S /\ g[T] # h[T]
  OBVIOUS
<1>3. PICK x : x = AnyOf(T)
  OBVIOUS
<1>4. T # {} /\ x \in T /\ g[T] = f[x] + g[T \ {x}] /\ h[T] = f[x] + h[T \ {x}]
  <2>1. /\ T = {} => g[T] = 0
        /\ T # {} => AnyOf(T) \in T /\ g[T] = f[AnyOf(T)] + g[T \ {AnyOf(T)}]
    BY <1>2, AddingAt
  <2> HIDE DEF Bad
  <2>2. /\ T = {} => h[T] = 0
        /\ T # {} => AnyOf(T) \in T /\ h[T] = f[AnyOf(T)] + h[T \ {AnyOf(T)}]
    BY <1>2, AddingAt
  <2> QED BY <1>2, <1>3, <2>1, <2>2, Zenon
<1>5. g[T \ {x}] = h[T \ {x}]
  BY <1>1, <1>2, <1>4
<1> QED BY <1>2, <1>4, <1>5

\* Such a sum exists.
LEMMA AddingExists ==
  ASSUME NEW S, IsFiniteSet(S), NEW f
  PROVE  \E g : Adding(f, S, g)
<1> DEFINE At(T) == (CHOOSE g : Adding(f, T, g))[T]
           Upto(R) == [T \in SUBSET R |-> At(T)]
           Bad == {R \in SUBSET S : ~ Adding(f, R, Upto(R))}
<1>1. ASSUME Bad # {} PROVE FALSE
  <2>1. PICK R \in Bad : \A U \in Bad : U \subseteq R => U = R
    <3>1. Bad \in SUBSET SUBSET S
      OBVIOUS
    <3> HIDE DEF Bad
    <3> QED BY <1>1, <3>1, Smallest
  <2>2. R \in SUBSET S /\ ~ Adding(f, R, Upto(R))
    OBVIOUS
  <2>3. IsFiniteSet(R)
    BY <2>2, FS_Subset
  <2>4. ASSUME NEW T \in SUBSET R, T # R
        PROVE  Adding(f, T, Upto(T))
    BY <2>1, <2>2, <2>4
  <2>5. PICK x : x = AnyOf(R)
    OBVIOUS
  <2>6. R # {} => x \in R
    BY <2>5 DEF AnyOf
  <2>7. PICK h : h = [T \in SUBSET R |-> IF T # R THEN At(T)
                                        ELSE IF R = {} THEN 0 ELSE f[x] + At(R \ {x})]
    OBVIOUS
  <2> HIDE DEF At
  <2>8. ASSUME NEW T \in SUBSET R
        PROVE  h[T] = IF T = {} THEN 0
                      ELSE f[AnyOf(T)] + h[T \ {AnyOf(T)}]
    <3>1. PICK z : z = AnyOf(T)
      OBVIOUS
    <3>2. T # {} => z \in T /\ T \ {z} \in SUBSET T /\ T \ {z} \in SUBSET R /\ T \ {z} # R
      BY <3>1 DEF AnyOf
    <3>3. CASE T = R
      BY <2>5, <2>7, <3>1, <3>2, <3>3
    <3>4. CASE T # R
      <4>1. T = {} => At(T) = 0
        <5>1. Adding(f, T, Upto(T)) /\ T \in SUBSET T
          BY <2>4, <3>4
        <5>2. T = {} => Upto(T)[T] = 0
          BY <5>1, AddingAt
        <5> QED BY <5>1, <5>2
      <4>2. T # {} => At(T) = f[z] + At(T \ {z})
        <5>1. Adding(f, T, Upto(T)) /\ T \in SUBSET T
          BY <2>4, <3>4
        <5>2. T # {} => Upto(T)[T] = f[z] + Upto(T)[T \ {z}]
          BY <3>1, <5>1, AddingAt
        <5> QED BY <3>2, <5>2
      <4>3. h[T] = At(T) /\ (T # {} => h[T \ {z}] = At(T \ {z}))
        BY <2>7, <3>2, <3>4
      <4> QED BY <3>1, <4>1, <4>2, <4>3
    <3> QED BY <3>3, <3>4
  <2>9. Adding(f, R, h)
    <3>1. h = [T \in SUBSET R |-> h[T]]
      BY <2>7
    <3> QED BY <2>8, <3>1 DEF Adding
  <2>10. PICK c : c = CHOOSE g : Adding(f, R, g)
    OBVIOUS
  <2>11. Adding(f, R, c) /\ At(R) = c[R]
    BY <2>9, <2>10 DEF At
  <2>12. c[R] = h[R]
    BY <2>3, <2>9, <2>11, AddingsAgree
  <2>13. \A T \in SUBSET R : h[T] = At(T)
    BY <2>7, <2>11, <2>12
  <2>14. h = Upto(R)
    BY <2>7, <2>13
  <2> QED BY <2>2, <2>9, <2>14
<1>2. Adding(f, S, Upto(S))
  <2>1. S \in SUBSET S /\ S \notin Bad
    BY <1>1
  <2> HIDE DEF Upto
  <2> QED BY <2>1
<1> QED BY <1>2

\* So the sum over a subset is what the sum over the whole goes through.
LEMMA SumIs ==
  ASSUME NEW S, IsFiniteSet(S), NEW f, NEW g, Adding(f, S, g)
  PROVE  \A T \in SUBSET S : Sum(f, T) = g[T]
<1> TAKE T \in SUBSET S
<1>1. IsFiniteSet(T)
  BY FS_Subset
<1>2. PICK c : c = CHOOSE h : Adding(f, T, h)
  OBVIOUS
<1>3. Adding(f, T, c)
  BY <1>1, <1>2, AddingExists
<1>4. Sum(f, T) = c[T]
  BY <1>2 DEF Sum
<1> QED BY <1>3, <1>4, AddingsAgree

\* The sum over no members is zero.  Any other is one member's number and the sum
\* of the others, whichever is taken.
LEMMA SumWithout ==
  ASSUME NEW S, IsFiniteSet(S), NEW f, \A x \in S : f[x] \in Int
  PROVE  /\ Sum(f, S) \in Int
         /\ S = {} => Sum(f, S) = 0
         /\ \A x \in S : Sum(f, S) = f[x] + Sum(f, S \ {x})
<1>1. PICK g : Adding(f, S, g)
  BY AddingExists
<1> DEFINE Good(T) == g[T] \in Int /\ \A x \in T : g[T] = f[x] + g[T \ {x}]
           Bad == {T \in SUBSET S : ~ Good(T)}
<1>2. ASSUME Bad # {} PROVE FALSE
  <2>1. PICK T \in Bad : \A U \in Bad : U \subseteq T => U = T
    <3>1. Bad \in SUBSET SUBSET S
      OBVIOUS
    <3> HIDE DEF Bad
    <3> QED BY <1>2, <3>1, Smallest
  <2>2. T \in SUBSET S /\ ~ Good(T)
    OBVIOUS
  <2>3. ASSUME NEW U \in SUBSET T, U # T PROVE Good(U)
    BY <2>1, <2>2, <2>3
  <2> HIDE DEF Bad
  <2>4. PICK c : c = AnyOf(T)
    OBVIOUS
  <2>5. T = {} => g[T] = 0
    BY <1>1, <2>2, <2>4, AddingAt
  <2>6. T # {}
    BY <2>2, <2>5
  <2>7. c \in T /\ g[T] = f[c] + g[T \ {c}]
    BY <1>1, <2>2, <2>4, <2>6, AddingAt
  <2>8. Good(T \ {c}) /\ f[c] \in Int
    BY <2>2, <2>3, <2>7
  <2>9. g[T] \in Int
    BY <2>7, <2>8
  <2>10. ASSUME NEW x \in T, x # c PROVE g[T] = f[x] + g[T \ {x}]
    <3>1. PICK R : R = (T \ {c}) \ {x}
      OBVIOUS
    <3>2. R = (T \ {x}) \ {c} /\ x \in T \ {c} /\ c \in T \ {x}
      BY <2>7, <2>10, <3>1
    <3>3. Good(T \ {x}) /\ Good(R) /\ f[x] \in Int
      BY <2>2, <2>3, <2>10, <3>1
    <3>4. g[T \ {c}] = f[x] + g[R]
      BY <2>8, <3>1, <3>2
    <3>5. g[T \ {x}] = f[c] + g[R]
      BY <3>2, <3>3
    <3>6. g[R] \in Int
      BY <3>3
    <3> QED BY <2>7, <2>8, <3>3, <3>4, <3>5, <3>6
  <2> QED BY <2>2, <2>7, <2>9, <2>10
<1>3. Good(S)
  BY <1>2
<1>4. Sum(f, S) = g[S] /\ \A x \in S : Sum(f, S \ {x}) = g[S \ {x}]
  BY <1>1, SumIs
<1>5. S = {} => g[S] = 0
  BY <1>1, AddingAt
<1> QED BY <1>3, <1>4, <1>5

\* The loops over the components that add up their lengths, and over those that
\* also take the transitions away, compute such sums.
Lengths == [i \in DOMAIN components |-> OrZero(Length[components[i]])]
Worth == [c \in Components |-> IF Kind[c] = Transition THEN -OrZero(Length[c])
                                ELSE OrZero(Length[c])]

\* A total is such a sum.
LEMMA TotalIs ==
  ASSUME NEW s \in Seq(Components), IsFiniteSet(ToSet(s))
  PROVE  Total(s) = Sum(Worth, ToSet(s))
<1> DEFINE S == ToSet(s)
           Is(g) == g = [T \in SUBSET S |-> IF T = {} THEN 0
                           ELSE LET x == CHOOSE y \in T : TRUE
                                IN  (IF Kind[x] = Transition THEN -OrZero(Length[x])
                                     ELSE OrZero(Length[x])) + g[T \ {x}]]
<1>1. Total(s) = (CHOOSE g : Is(g))[S]
  BY DEF Total, MapThenSumSet, MapThenFoldSet
<1>2. S \subseteq Components
  BY DEF ToSet
<1>3. ASSUME NEW g PROVE Is(g) <=> Adding(Worth, S, g)
  BY <1>2 DEF Adding, AnyOf, Worth
<1> HIDE DEF Is
<1>4. PICK g : Is(g)
  BY <1>3, AddingExists
<1>5. PICK c : c = CHOOSE h : Is(h)
  OBVIOUS
<1>6. Adding(Worth, S, c)
  BY <1>3, <1>4, <1>5
<1>7. Sum(Worth, S) = c[S]
  BY <1>6, SumIs
<1> QED BY <1>1, <1>5, <1>7

\* BeginsAt is the sum of the lengths before an index.
LEMMA BeginsAtIs ==
  ASSUME components \in Seq(Components), NEW i \in 1 .. Len(components) + 1
  PROVE  BeginsAt(i) = Sum(Lengths, 1 .. i - 1)
<1> DEFINE S == 1 .. i - 1
           Is(g) == g = [T \in SUBSET S |-> IF T = {} THEN 0
                           ELSE LET x == CHOOSE y \in T : TRUE
                                IN  OrZero(Length[components[x]]) + g[T \ {x}]]
<1>1. BeginsAt(i) = (CHOOSE g : Is(g))[S]
  BY DEF BeginsAt, MapThenSumSet, MapThenFoldSet
<1>2. S \subseteq DOMAIN components /\ IsFiniteSet(S)
  <2>1. DOMAIN components = 1 .. Len(components) /\ Len(components) \in Nat
    OBVIOUS
  <2>2. S \subseteq DOMAIN components /\ 1 \in Int /\ i - 1 \in Int
    BY <2>1
  <2>3. IsFiniteSet(1 .. i - 1)
    BY <2>2, FS_Interval
  <2> QED BY <2>2, <2>3
<1>3. ASSUME NEW g PROVE Is(g) <=> Adding(Lengths, S, g)
  BY <1>2 DEF Adding, AnyOf, Lengths
<1> HIDE DEF Is, S
<1>4. PICK g : Is(g)
  BY <1>2, <1>3, AddingExists
<1>5. PICK c : c = CHOOSE h : Is(h)
  OBVIOUS
<1>6. Adding(Lengths, S, c)
  BY <1>3, <1>4, <1>5
<1>7. Sum(Lengths, S) = c[S]
  BY <1>2, <1>6, SumIs
<1> QED BY <1>1, <1>5, <1>7 DEF S

\* A sequence has finitely many components.
LEMMA ComponentsAreFinite ==
  ASSUME NEW s \in Seq(Components)
  PROVE  IsFiniteSet(ToSet(s)) /\ ToSet(s) \subseteq Components
<1>1. /\ Len(s) \in Nat /\ DOMAIN s = 1 .. Len(s) /\ s \in [1 .. Len(s) -> Components]
  OBVIOUS
<1>2. ToSet(s) = {s[i] : i \in 1 .. Len(s)} /\ ToSet(s) \subseteq Components
  BY <1>1 DEF ToSet
<1>3. IsFiniteSet(1 .. Len(s))
  BY <1>1, FS_Interval
<1>4. s \in Surjection(1 .. Len(s), ToSet(s))
  BY <1>1, <1>2 DEF Surjection
<1> QED BY <1>2, <1>3, <1>4, FS_Surjection

\* What a component is worth is a number.
LEMMA WorthIs ==
  ASSUME NEW c \in Components
  PROVE  /\ Worth[c] \in Int
         /\ Length[c] # NoLength =>
              Length[c] \in Nat /\ Worth[c] = IF Kind[c] = Transition THEN -Length[c] ELSE Length[c]
         /\ Kind[c] = Segment => Worth[c] = OrZero(Length[c]) /\ Worth[c] \in Nat
<1>1. Worth[c] = IF Kind[c] = Transition THEN -OrZero(Length[c]) ELSE OrZero(Length[c])
  BY DEF Worth
<1>2. OrZero(Length[c]) \in Nat /\ Length[c] \in Nat \cup {NoLength}
  BY ComponentTypes
<1>3. Segment # Transition
  BY SequenceAssumption
<1> QED BY <1>1, <1>2, <1>3 DEF OrZero

\* A total is the total without one component, and what that one is worth.
LEMMA TotalGrows ==
  ASSUME NEW s \in Seq(Components), NEW t \in Seq(Components), NEW c \in Components,
         c \notin ToSet(s), ToSet(t) = ToSet(s) \cup {c}
  PROVE  Total(t) = Total(s) + Worth[c] /\ Total(s) \in Int /\ Worth[c] \in Int
<1>1. /\ IsFiniteSet(ToSet(s)) /\ IsFiniteSet(ToSet(t))
      /\ ToSet(s) \subseteq Components /\ ToSet(t) \subseteq Components
  BY ComponentsAreFinite
<1>2. Total(s) = Sum(Worth, ToSet(s)) /\ Total(t) = Sum(Worth, ToSet(t))
  BY <1>1, TotalIs
<1>3. (\A x \in ToSet(s) : Worth[x] \in Int) /\ (\A x \in ToSet(t) : Worth[x] \in Int)
  BY <1>1, WorthIs
<1>4. Sum(Worth, ToSet(s)) \in Int
  BY <1>1, <1>3, SumWithout
<1>5. c \in ToSet(t) /\ ToSet(t) \ {c} = ToSet(s)
  OBVIOUS
<1>6. Sum(Worth, ToSet(t)) = Worth[c] + Sum(Worth, ToSet(s))
  <2>1. \A x \in ToSet(t) : Sum(Worth, ToSet(t)) = Worth[x] + Sum(Worth, ToSet(t) \ {x})
    BY <1>1, <1>3, SumWithout
  <2> QED BY <1>5, <2>1
<1>7. Worth[c] \in Int
  BY WorthIs
<1> QED BY <1>2, <1>4, <1>6, <1>7

\* No components, no total; any total is a number.
LEMMA TotalTypes ==
  /\ Total(<<>>) = 0
  /\ \A s \in Seq(Components) : Total(s) \in Int
<1>1. ASSUME NEW s \in Seq(Components)
      PROVE  Total(s) \in Int /\ (ToSet(s) = {} => Total(s) = 0)
  <2>1. IsFiniteSet(ToSet(s)) /\ ToSet(s) \subseteq Components
    BY ComponentsAreFinite
  <2>2. \A x \in ToSet(s) : Worth[x] \in Int
    BY <2>1, WorthIs
  <2> QED BY <2>1, <2>2, TotalIs, SumWithout
<1>2. <<>> \in Seq(Components) /\ ToSet(<<>>) = {}
  BY DEF ToSet
<1> QED BY <1>1, <1>2

\* Nor does an insertion bring in any other component.
LEMMA TotalInserted ==
  ASSUME NEW s \in Seq(Components), NEW c \in Components, c \notin ToSet(s),
         NEW i \in 0 .. Len(s), NEW t, t = InsertAt(s, i + 1, c)
  PROVE  Total(t) = Total(s) + Worth[c] /\ Total(s) \in Int /\ Worth[c] \in Int
<1>1. /\ t \in Seq(Components) /\ DOMAIN t = 1 .. Len(s) + 1 /\ WithAt(t, s, i, c)
      /\ Len(s) \in Nat /\ DOMAIN s = 1 .. Len(s)
  BY InsertedElements
<1>2. ToSet(s) \cup {c} \subseteq ToSet(t)
  BY InsertedSet
<1>3. ASSUME NEW j \in DOMAIN t PROVE t[j] \in ToSet(s) \cup {c}
  <2>1. t[j] = IF j <= i THEN s[j] ELSE IF j = i + 1 THEN c ELSE s[j - 1]
    BY <1>1 DEF WithAt
  <2>2. j <= i => j \in DOMAIN s
    BY <1>1
  <2>3. ~ (j <= i) /\ j # i + 1 => j - 1 \in DOMAIN s
    BY <1>1
  <2> QED BY <2>1, <2>2, <2>3 DEF ToSet
<1>4. ASSUME NEW x \in ToSet(t) PROVE x \in ToSet(s) \cup {c}
  <2>1. \E j \in DOMAIN t : x = t[j]
    BY <1>4, Zenon DEF ToSet
  <2> QED BY <1>3, <2>1, Zenon
<1>5. ToSet(t) = ToSet(s) \cup {c}
  BY <1>2, <1>4, Zenon
<1> QED BY <1>1, <1>5, TotalGrows

-----------------------------------------------------------------------------
(* Where components begin, and totals.                                     *)

\* A component begins where the one before it ends.
LEMMA BeginningsFollow ==
  ASSUME components \in Seq(Components)
  PROVE  /\ BeginsAt(1) = 0
         /\ \A i \in 1 .. Len(components) + 1 : BeginsAt(i) \in Int
         /\ \A i \in 1 .. Len(components) :
              /\ BeginsAt(i + 1) = BeginsAt(i) + OrZero(Length[components[i]])
              /\ OrZero(Length[components[i]]) \in Nat
              /\ EndsAt(i) = BeginsAt(i + 1)
<1>1. DOMAIN components = 1 .. Len(components) /\ Len(components) \in Nat
  OBVIOUS
<1>2. ASSUME NEW i \in 1 .. Len(components)
      PROVE  OrZero(Length[components[i]]) \in Nat /\ Lengths[i] = OrZero(Length[components[i]])
  <2>1. components[i] \in Components /\ i \in DOMAIN components
    BY <1>1
  <2> QED BY <2>1, ComponentTypes DEF Lengths
<1>3. ASSUME NEW i \in 1 .. Len(components) + 1
      PROVE  /\ IsFiniteSet(1 .. i - 1) /\ BeginsAt(i) = Sum(Lengths, 1 .. i - 1)
             /\ \A j \in 1 .. i - 1 : Lengths[j] \in Int
  <2>1. 1 \in Int /\ i - 1 \in Int /\ \A j \in 1 .. i - 1 : j \in 1 .. Len(components)
    BY <1>1
  <2>2. IsFiniteSet(1 .. i - 1)
    BY <2>1, FS_Interval
  <2>3. \A j \in 1 .. i - 1 : Lengths[j] \in Int
    BY <1>2, <2>1
  <2> QED BY <2>2, <2>3, BeginsAtIs
<1>4. ASSUME NEW i \in 1 .. Len(components) + 1
      PROVE  BeginsAt(i) \in Int
  BY <1>3, SumWithout
<1>5. BeginsAt(1) = 0
  <2>1. 1 \in 1 .. Len(components) + 1 /\ 1 .. 1 - 1 = {}
    BY <1>1
  <2>2. BeginsAt(1) = Sum(Lengths, {})
    BY <1>3, <2>1
  <2>3. Sum(Lengths, {}) = 0
    BY FS_EmptySet, SumWithout
  <2> QED BY <2>2, <2>3
<1>6. ASSUME NEW i \in 1 .. Len(components)
      PROVE  BeginsAt(i + 1) = BeginsAt(i) + OrZero(Length[components[i]])
  <2>1. PICK S : S = 1 .. (i + 1) - 1
    OBVIOUS
  <2>2. i \in S /\ S \ {i} = 1 .. i - 1
    BY <1>1, <2>1
  <2>3. i \in 1 .. Len(components) + 1 /\ i + 1 \in 1 .. Len(components) + 1
    BY <1>1
  <2>4. IsFiniteSet(S) /\ BeginsAt(i + 1) = Sum(Lengths, S) /\ \A j \in S : Lengths[j] \in Int
    BY <1>3, <2>1, <2>3
  <2>5. \A j \in S : Sum(Lengths, S) = Lengths[j] + Sum(Lengths, S \ {j})
    BY <2>4, SumWithout
  <2>6. BeginsAt(i + 1) = Lengths[i] + Sum(Lengths, 1 .. i - 1)
    BY <2>2, <2>4, <2>5
  <2>7. BeginsAt(i) = Sum(Lengths, 1 .. i - 1) /\ BeginsAt(i) \in Int
    BY <1>3, <1>4, <2>3
  <2> QED BY <1>2, <2>6, <2>7
<1> QED BY <1>2, <1>4, <1>5, <1>6 DEF EndsAt

\* The least of some natural numbers.
LEMMA Least ==
  ASSUME NEW Q \in SUBSET Nat, Q # {}
  PROVE  \E n \in Q : \A m \in Q : n <= m
<1>1. PICK n \in Q : \A m \in Q : ~ (<<m, n>> \in OpToRel(<, Nat))
  <2>1. Q \subseteq Nat
    OBVIOUS
  <2> QED BY <2>1, NatLessThanWellFounded, WFMin, Zenon
<1>2. \A m \in Q : n <= m
  <2> TAKE m \in Q
  <2>1. m \in Nat /\ n \in Nat /\ ~ (m < n)
    BY <1>1 DEF OpToRel
  <2> QED BY <2>1
<1> QED BY <1>2

\* Without transitions, where a component begins is the total of those before it.
LEMMA TotalUpto ==
  ASSUME components \in Seq(Components), IsInjective(components),
         \A c \in ToSet(components) : Kind[c] = Segment
  PROVE  \A i \in 0 .. Len(components) : Total(SubSeq(components, 1, i)) = BeginsAt(i + 1)
<1> DEFINE n == Len(components)
           Upto(i) == SubSeq(components, 1, i)
           Bad == {i \in 0 .. n : Total(Upto(i)) # BeginsAt(i + 1)}
<1>1. n \in Nat /\ DOMAIN components = 1 .. n
  OBVIOUS
<1>2. ASSUME NEW i \in 0 .. n
      PROVE  /\ Upto(i) \in Seq(Components) /\ DOMAIN Upto(i) = 1 .. i
             /\ \A j \in 1 .. i : Upto(i)[j] = components[j]
  OBVIOUS
<1>3. Upto(0) = <<>>
  OBVIOUS
<1> HIDE DEF Upto
<1>4. ASSUME NEW i \in 1 .. n
      PROVE  Total(Upto(i)) = Total(Upto(i - 1)) + OrZero(Length[components[i]])
  <2>1. PICK c : c = components[i]
    OBVIOUS
  <2>2. c \in ToSet(components) /\ c \in Components /\ Kind[c] = Segment
    BY <1>1, <2>1 DEF ToSet
  <2>3. i \in 0 .. n /\ i - 1 \in 0 .. n /\ \A j \in 1 .. i : j \in 1 .. i - 1 \/ j = i
    BY <1>1
  <2>4. c \notin ToSet(Upto(i - 1))
    <3> SUFFICES ASSUME NEW j \in 1 .. i - 1, components[j] = c PROVE FALSE
      BY <1>2, <2>3 DEF ToSet
    <3>1. j \in DOMAIN components /\ i \in DOMAIN components /\ j # i
      BY <1>1
    <3> QED BY <2>1, <3>1 DEF IsInjective
  <2>5. ToSet(Upto(i)) = ToSet(Upto(i - 1)) \cup {c}
    <3>1. ToSet(Upto(i)) = {components[j] : j \in 1 .. i}
      <4>1. DOMAIN Upto(i) = 1 .. i /\ \A j \in 1 .. i : Upto(i)[j] = components[j]
        BY <1>2, <2>3
      <4> QED BY <4>1 DEF ToSet
    <3>2. ToSet(Upto(i - 1)) = {components[j] : j \in 1 .. i - 1}
      <4>1. /\ DOMAIN Upto(i - 1) = 1 .. i - 1
            /\ \A j \in 1 .. i - 1 : Upto(i - 1)[j] = components[j]
        BY <1>2, <2>3
      <4> QED BY <4>1 DEF ToSet
    <3>3. \A j \in 1 .. i - 1 : j \in 1 .. i
      BY <1>1
    <3>4. i \in 1 .. i
      BY <1>1
    <3>5. ASSUME NEW d \in ToSet(Upto(i)) PROVE d \in ToSet(Upto(i - 1)) \cup {c}
      <4>1. PICK j \in 1 .. i : d = components[j]
        BY <3>1
      <4>2. j \in 1 .. i - 1 \/ j = i
        BY <2>3
      <4> QED BY <2>1, <3>2, <4>1, <4>2
    <3>6. ASSUME NEW d \in ToSet(Upto(i - 1)) PROVE d \in ToSet(Upto(i))
      BY <3>1, <3>2, <3>3
    <3>7. c \in ToSet(Upto(i))
      BY <2>1, <3>1, <3>4
    <3> QED BY <3>5, <3>6, <3>7
  <2>6. Upto(i) \in Seq(Components) /\ Upto(i - 1) \in Seq(Components)
    BY <1>2, <2>3
  <2>7. Total(Upto(i)) = Total(Upto(i - 1)) + Worth[c]
    BY <2>2, <2>4, <2>5, <2>6, TotalGrows
  <2>8. Worth[c] = OrZero(Length[c])
    BY <2>2, WorthIs
  <2> QED BY <2>1, <2>7, <2>8
<1>5. ASSUME Bad # {} PROVE FALSE
  <2>1. Bad \in SUBSET Nat
    BY <1>1
  <2>2. PICK k \in Bad : \A m \in Bad : k <= m
    BY <1>5, <2>1, Least
  <2>3. k \in 0 .. n /\ Total(Upto(k)) # BeginsAt(k + 1)
    OBVIOUS
  <2>4. k # 0
    <3>1. Total(Upto(0)) = 0
      BY <1>3, TotalTypes
    <3>2. BeginsAt(0 + 1) = 0
      BY BeginningsFollow
    <3> QED BY <2>3, <3>1, <3>2
  <2>5. k \in 1 .. n /\ k - 1 \in 0 .. n /\ (k - 1) + 1 = k /\ ~ (k <= k - 1)
    BY <1>1, <2>3, <2>4
  <2>6. Total(Upto(k - 1)) = BeginsAt(k)
    <3>1. k - 1 \notin Bad
      BY <2>2, <2>5
    <3>2. Total(Upto(k - 1)) = BeginsAt((k - 1) + 1)
      BY <2>5, <3>1
    <3> QED BY <2>5, <3>2
  <2>7. BeginsAt(k + 1) = BeginsAt(k) + OrZero(Length[components[k]])
    BY <2>5, BeginningsFollow
  <2> QED BY <1>4, <2>3, <2>5, <2>6, <2>7
<1> QED BY <1>5 DEF Upto

\* FindSubSegment finds the component that an offset within the length falls in.
LEMMA OffsetIsFound ==
  ASSUME components \in Seq(Components), IsInjective(components),
         \A c \in ToSet(components) : Kind[c] = Segment, length = Total(components),
         Measured(components, length), NEW offset \in 0 .. length - 1
  PROVE  /\ FindSubSegment(offset) \in 1 .. Len(components)
         /\ BeginsAt(FindSubSegment(offset)) <= offset
         /\ offset < BeginsAt(FindSubSegment(offset) + 1)
<1> DEFINE n == Len(components)
           Past == {i \in 1 .. n : offset < BeginsAt(i + 1)}
           hits == {i \in DOMAIN components : Within(offset, i) /\ LengthsKnown(i)}
<1>1. n \in Nat /\ DOMAIN components = 1 .. n
  OBVIOUS
<1>2. length = BeginsAt(n + 1) /\ length \in Int
  <2>1. SubSeq(components, 1, n) = components
    OBVIOUS
  <2>2. n \in 0 .. n
    BY <1>1
  <2> QED BY <2>1, <2>2, TotalUpto, TotalTypes
<1>3. offset \in Int /\ 0 <= offset /\ offset < length
  BY <1>2
<1>4. /\ BeginsAt(1) = 0
      /\ \A i \in 1 .. n + 1 : BeginsAt(i) \in Int
      /\ \A i \in 1 .. n : EndsAt(i) = BeginsAt(i + 1)
  BY BeginningsFollow
<1>5. n # 0
  BY <1>2, <1>3, <1>4
<1>6. n \in Past
  BY <1>1, <1>2, <1>3, <1>5
<1>7. PICK k \in Past : \A m \in Past : k <= m
  <2>1. Past \in SUBSET Nat
    BY <1>1
  <2> HIDE DEF Past
  <2> QED BY <1>6, <2>1, Least
<1>8. BeginsAt(k) <= offset
  <2>1. CASE k = 1
    BY <1>3, <1>4, <2>1
  <2>2. CASE k # 1
    <3>1. k - 1 \in 1 .. n /\ (k - 1) + 1 = k /\ ~ (k <= k - 1) /\ k \in 1 .. n + 1
      BY <1>1, <2>2
    <3>2. ~ (offset < BeginsAt((k - 1) + 1))
      BY <1>7, <3>1
    <3> QED BY <1>3, <1>4, <3>1, <3>2
  <2> QED BY <2>1, <2>2
<1>9. k \in hits
  <2>1. ~ HoldsEvents(components)
    <3>1. components # <<>> => Head(components) \in ToSet(components)
      BY DEF ToSet
    <3> QED BY <3>1 DEF HoldsEvents, IsEvent
  <2>2. \A i \in 1 .. n : Length[components[i]] # NoLength
    BY <1>1, <1>5, <2>1 DEF Measured
  <2>3. LengthsKnown(k)
    BY <1>1, <1>7, <2>2 DEF LengthsKnown
  <2> QED BY <1>1, <1>4, <1>8, <2>3 DEF Within
<1>10. PICK m \in hits : \A i \in hits : m <= i
  <2>1. hits \in SUBSET Nat
    BY <1>1
  <2> HIDE DEF hits
  <2> QED BY <1>9, <2>1, Least
<1>11. PICK f : f = Min(hits)
  OBVIOUS
<1>12. f \in hits
  <2> HIDE DEF hits
  <2> QED BY <1>10, <1>11 DEF Min
<1>13. FindSubSegment(offset) = f
  <2>1. hits # {}
    BY <1>9
  <2>2. length # NoLength
    BY <1>2, SequenceAssumption
  <2> QED BY <1>3, <1>11, <2>1, <2>2 DEF FindSubSegment
<1>14. f \in 1 .. n /\ Within(offset, f)
  BY <1>1, <1>12
<1> QED BY <1>4, <1>13, <1>14 DEF Within

-----------------------------------------------------------------------------
(* What a call does to the total.                                          *)

\* An insertion that is not of an event adds what the component is worth.
LEMMA InsertAddsWorth ==
  ASSUME Sound(components, length), NEW c \in Components, NEW i \in 0 .. Len(components),
         MayInsert(c, i), LengthAccepts(c, i), NEW t, t = InsertAt(components, i + 1, c),
         ~ HoldsEvents(components \o t)
  PROVE  OrZero(LengthWith(c, i)) - OrZero(length) = Total(t) - Total(components)
<1>1. /\ t \in Seq(Components) /\ t # <<>> /\ components \in Seq(Components)
      /\ HoldsEvents(t) <=> IsEvent(c)
      /\ components # <<>> => (HoldsEvents(components) <=> IsEvent(c))
  BY InsertKeepsOrder DEF Sound
<1>2. ~ IsEvent(c)
  <2>1. CASE components = <<>>
    <3>1. components \o t = t
      BY <1>1, <2>1
    <3> QED BY <1>1, <3>1
  <2>2. CASE components # <<>>
    <3>1. Head(components \o t) = Head(components) /\ components \o t # <<>>
      BY <1>1, <2>2
    <3> QED BY <1>1, <2>2, <3>1 DEF HoldsEvents
  <2> QED BY <2>1, <2>2
<1>3. LengthWith(c, i) = LengthWithComponent(c) /\ Length[c] # NoLength /\ LengthWithComponent(c) >= 0
  BY <1>2 DEF LengthWith, LengthAccepts
<1>4. OrZero(length) \in Nat /\ NoLength \notin Int
  BY SequenceAssumption DEF Sound, OrZero
<1>5. Length[c] \in Nat /\ Worth[c] = IF Kind[c] = Transition THEN -Length[c] ELSE Length[c]
  BY <1>3, WorthIs
<1>6. LengthWithComponent(c) = OrZero(length) + Worth[c] /\ OrZero(LengthWithComponent(c)) = LengthWithComponent(c)
  BY <1>4, <1>5 DEF LengthWithComponent, OrZero
<1>7. c \notin ToSet(components)
  BY DEF MayInsert
<1>8. Total(t) = Total(components) + Worth[c] /\ Total(components) \in Int /\ Worth[c] \in Int
  BY <1>1, <1>7, TotalInserted
<1> QED BY <1>3, <1>4, <1>6, <1>8

\* A removal that is not refused takes it away, or leaves nothing.
LEMMA RemoveTakesWorth ==
  ASSUME Sound(components, length), NEW i \in 0 .. Len(components) - 1,
         NEW rest, rest = RemoveAt(components, i + 1),
         NEW c, c = components[i + 1], NEW l, l = LengthWithout(c, i, rest),
         ~ (l # NoLength /\ l < 0), ~ HoldsEvents(components)
  PROVE  \/ OrZero(l) = Total(rest)
         \/ OrZero(l) - OrZero(length) = Total(rest) - Total(components)
<1>1. /\ rest \in Seq(Components) /\ ToSet(components) \ {c} = ToSet(rest)
      /\ rest # <<>> => (HoldsEvents(rest) <=> HoldsEvents(components))
  BY RemoveKeepsOrder
<1>2. /\ components \in Seq(Components) /\ components # <<>> /\ c \in Components
      /\ i + 1 \in DOMAIN components /\ c = components[i + 1] /\ c \in ToSet(components)
      /\ OneKind(components) /\ Measured(components, length)
      /\ length \in Nat \cup {NoLength}
  BY DEF Sound, ToSet
<1>3. ~ IsEvent(c) /\ length # NoLength /\ Length[c] # NoLength
  BY <1>2, EventsTogether DEF Measured
<1>4. CASE rest = <<>>
  <2>1. l = 0
    BY <1>3, <1>4 DEF LengthWithout
  <2> QED BY <1>4, <2>1, TotalTypes, SequenceAssumption DEF OrZero
<1>5. CASE rest # <<>>
  <2>1. l = LengthWithoutComponent(c)
    BY <1>1, <1>5 DEF LengthWithout
  <2>2. Length[c] \in Nat /\ Worth[c] = IF Kind[c] = Transition THEN -Length[c] ELSE Length[c]
    BY <1>2, <1>3, WorthIs
  <2>3. length \in Nat /\ NoLength \notin Int
    BY <1>2, <1>3, SequenceAssumption
  <2>4. l = length - Worth[c] /\ l \in Int
    BY <2>1, <2>2, <2>3 DEF LengthWithoutComponent
  <2>5. OrZero(l) = l /\ OrZero(length) = length
    BY <2>3, <2>4 DEF OrZero
  <2>6. c \notin ToSet(rest) /\ ToSet(components) = ToSet(rest) \cup {c}
    BY <1>1, <1>2
  <2>7. Total(components) = Total(rest) + Worth[c] /\ Total(rest) \in Int /\ Worth[c] \in Int
    BY <1>1, <1>2, <2>6, TotalGrows
  <2> QED BY <2>3, <2>4, <2>5, <2>7
<1> QED BY <1>4, <1>5

-----------------------------------------------------------------------------
(* The theorems.  A client loads a component before it removes it; without *)
(* that the length is left behind (SequenceUnloaded.cfg).                  *)

\* The components stay distinct, what is loaded is among them, and the length is
\* a natural number or absent, after any calls of the interface.
THEOREM TypeCorrect == ~ MayRemoveUnloaded => (Spec => []TypeOK)
<1> SUFFICES ASSUME ~ MayRemoveUnloaded PROVE Spec => []TypeOK
  OBVIOUS
<1>1. IInv => TypeOK
  BY DEF IInv
<1> QED BY Invariance, <1>1, PTL

\* The checks of CheckTypeSemantics and CheckPositionSemantics, which look at the
\* neighbours alone, keep all the components of one kind and all events in order.
THEOREM EventsStayOrdered == ~ MayRemoveUnloaded => (Spec => []EventsAreOrdered)
<1> SUFFICES ASSUME ~ MayRemoveUnloaded PROVE Spec => []EventsAreOrdered
  OBVIOUS
<1>1. IInv => EventsAreOrdered
  <2> SUFFICES ASSUME IInv PROVE EventsAreOrdered
    OBVIOUS
  <2>1. OneKind(components) /\ InPositionOrder(components)
    BY DEF IInv, Sound
  <2>2. ASSUME NEW c \in ToSet(components), NEW d \in ToSet(components)
        PROVE  Kind[c] = Kind[d] \/ {Kind[c], Kind[d]} = {Segment, Transition}
    <3>1. PICK j \in DOMAIN components : c = components[j]
      BY DEF ToSet
    <3>2. PICK k \in DOMAIN components : d = components[k]
      BY DEF ToSet
    <3> QED BY <2>1, <3>1, <3>2, Zenon DEF OneKind
  <2> QED BY <2>1, <2>2, Zenon DEF EventsAreOrdered, InPositionOrder
<1> QED BY Invariance, <1>1, PTL

\* UpdateSequenceLength and UpdateSequenceLengthOnRemove, which correct the length
\* from one event and often without looking at the others, always leave a length
\* that covers every event and reaches no further than the last end.
THEOREM LengthReachesEvents == ~ MayRemoveUnloaded => (Spec => []LengthIsExtent)
<1> SUFFICES ASSUME ~ MayRemoveUnloaded PROVE Spec => []LengthIsExtent
  OBVIOUS
<1>1. IInv => LengthIsExtent
  <2> SUFFICES ASSUME IInv, HoldsEvents(components)
               PROVE  LET first == Position[Head(components)]
                      IN  /\ \A c \in ToSet(components) : Length[c] # NoLength =>
                               length # NoLength /\ EventEnd(c) - first <= length
                          /\ length # NoLength => length <= EventsEnd(components) - first
    BY DEF LengthIsExtent
  <2>1. /\ components \in Seq(Components) /\ components # <<>>
        /\ length \in Nat \cup {NoLength} /\ Covers(components, length)
    BY DEF IInv, Sound, HoldsEvents
  <2>2. Head(components) = components[1] /\ Position[components[1]] \in Nat
    BY <2>1, ComponentTypes
  <2>3. ASSUME NEW c \in ToSet(components), Length[c] # NoLength
        PROVE  length # NoLength /\ EventEnd(c) - Position[components[1]] <= length
    <3>1. PICK j \in DOMAIN components : c = components[j]
      BY DEF ToSet
    <3> QED BY <2>1, <2>3, <3>1 DEF Covers
  <2>4. ASSUME length # NoLength
        PROVE  length <= EventsEnd(components) - Position[components[1]]
    <3>1. PICK j \in DOMAIN components :
            EventEnd(components[j]) - Position[components[1]] = length
      BY <2>1, <2>4 DEF Covers
    <3>2. /\ EventEnd(components[j]) \in Nat
          /\ EventEnd(components[j]) <= EventsEnd(components) /\ EventsEnd(components) \in Nat
      BY <2>1, EventsEndIsReached
    <3> QED BY <2>2, <3>1, <3>2
  <2> QED BY <2>2, <2>3, <2>4
<1> QED BY Invariance, <1>1, PTL

\* The assertion in UpdateSequenceLengthOnRemove, that the length of a sequence of
\* events is not negative, never fails.
THEOREM AssertionAlwaysHolds == ~ MayRemoveUnloaded => (Spec => []AssertionHolds)
<1> SUFFICES ASSUME ~ MayRemoveUnloaded PROVE Spec => []AssertionHolds
  OBVIOUS
<1>1. IInv => AssertionHolds
  BY DEF IInv, AssertionHolds
<1> QED BY Invariance, <1>1, PTL

\* CheckTypeSemantics looks on both sides of the place a transition goes to, and
\* so no insertion brings one to the front or next to another.
THEOREM SpacingIsKept == ~ MayRemoveUnloaded => (Spec => InsertionKeepsSpacing)
<1> SUFFICES ASSUME ~ MayRemoveUnloaded PROVE Spec => InsertionKeepsSpacing
  OBVIOUS
<1>1. IInv /\ [Next]_vars =>
        [result' = "inserted" /\ WellSpaced(components) => WellSpaced(components')]_vars
  <2> SUFFICES ASSUME IInv, [Next]_vars, result' = "inserted", WellSpaced(components)
               PROVE  WellSpaced(components')
    OBVIOUS
  <2>1. Sound(components, length)
    BY DEF IInv
  <2>2. CASE components' = components
    BY <2>2
  <2>3. ASSUME NEW c \in Components, NEW i \in 0 .. Len(components), InsertComponentAt(c, i)
        PROVE  WellSpaced(components')
    <3>1. MayInsert(c, i) /\ components' = InsertAt(components, i + 1, c)
      BY <2>3 DEF InsertComponentAt
    <3> QED BY <2>1, <3>1, InsertKeepsSpacing
  <2>4. ASSUME NEW i \in Indices, RemoveComponentAt(i)
        PROVE  FALSE
    BY <2>4 DEF RemoveComponentAt
  <2>5. ASSUME NEW i \in Indices, GetComponentAt(i)
        PROVE  components' = components
    BY <2>5 DEF GetComponentAt
  <2>6. ~ Save /\ ~ Reopen
    BY DEF Save, Reopen
  <2>7. UNCHANGED vars => components' = components
    BY DEF vars
  <2> QED BY <2>2, <2>3, <2>4, <2>5, <2>6, <2>7 DEF Next
<1> QED BY Invariance, <1>1, PTL DEF Spec, InsertionKeepsSpacing

\* FindSubSegment, as long as the length is right and there are no transitions: the
\* components follow each other without a gap, so that the loop stops at the one
\* that the offset falls in.
THEOREM OffsetsAreFound == ~ MayRemoveUnloaded => (Spec => []EveryOffsetIsFound)
<1> SUFFICES ASSUME ~ MayRemoveUnloaded PROVE Spec => []EveryOffsetIsFound
  OBVIOUS
<1>1. IInv => EveryOffsetIsFound
  <2> SUFFICES ASSUME IInv, \A c \in ToSet(components) : Kind[c] = Segment,
                      length = Total(components), NEW offset \in 0 .. length - 1
               PROVE  LET i == FindSubSegment(offset)
                      IN  /\ i # Nothing
                          /\ Total(SubSeq(components, 1, i - 1)) <= offset
                          /\ offset < Total(SubSeq(components, 1, i))
    BY DEF EveryOffsetIsFound
  <2>1. /\ components \in Seq(Components) /\ IsInjective(components) /\ Len(components) \in Nat
        /\ Measured(components, length)
    BY DEF IInv, Sound
  <2>2. PICK i : i = FindSubSegment(offset)
    OBVIOUS
  <2>3. i \in 1 .. Len(components) /\ BeginsAt(i) <= offset /\ offset < BeginsAt(i + 1)
    BY <2>1, <2>2, OffsetIsFound
  <2>4. \A j \in 0 .. Len(components) : Total(SubSeq(components, 1, j)) = BeginsAt(j + 1)
    BY <2>1, TotalUpto
  <2>5. i - 1 \in 0 .. Len(components) /\ i \in 0 .. Len(components) /\ (i - 1) + 1 = i /\ i # 0
    BY <2>1, <2>3
  <2>6. Total(SubSeq(components, 1, i - 1)) = BeginsAt(i) /\ Total(SubSeq(components, 1, i)) = BeginsAt(i + 1)
    BY <2>4, <2>5
  <2> QED BY <2>2, <2>3, <2>5, <2>6 DEF Nothing
<1> QED BY Invariance, <1>1, PTL

\* UpdateSequenceLength and UpdateSequenceLengthOnRemove keep the length in step with
\* the components that are not events: whatever was inserted and removed before, a call
\* changes it by the length of the one component, which a transition takes away.
THEOREM LengthStaysInStep == ~ MayRemoveUnloaded => (Spec => LengthFollowsComponents)
<1> SUFFICES ASSUME ~ MayRemoveUnloaded PROVE Spec => LengthFollowsComponents
  OBVIOUS
<1> DEFINE Follows == \/ OrZero(length') = Total(components')
                      \/ OrZero(length') - OrZero(length) = Total(components') - Total(components)
<1>1. IInv /\ [Next]_vars =>
        [result' \in {"inserted", "removed"} /\ ~ HoldsEvents(components \o components')
           => LET now == OrZero(length') IN
              \/ now = Total(components')
              \/ now - OrZero(length) = Total(components') - Total(components)]_vars
  <2> SUFFICES ASSUME IInv, [Next]_vars, result' \in {"inserted", "removed"},
                      ~ HoldsEvents(components \o components')
               PROVE  Follows
    OBVIOUS
  <2>1. Sound(components, length) /\ components \in Seq(Components)
    BY DEF IInv, Sound
  <2>2. ASSUME components' = components, length' = length
        PROVE  Follows
    <3>1. Total(components) \in Int
      BY <2>1, TotalTypes
    <3>2. OrZero(length) \in Int
      BY <2>1 DEF Sound, OrZero
    <3> QED BY <2>2, <3>1, <3>2
  <2>3. ASSUME NEW c \in Components, NEW i \in 0 .. Len(components), InsertComponentAt(c, i)
        PROVE  Follows
    <3>1. /\ MayInsert(c, i) /\ LengthAccepts(c, i) /\ length' = LengthWith(c, i)
          /\ components' = InsertAt(components, i + 1, c)
      BY <2>3 DEF InsertComponentAt
    <3> QED BY <2>1, <3>1, InsertAddsWorth
  <2>4. ASSUME NEW i \in Indices, RemoveComponentAt(i)
        PROVE  Follows
    <3>1. PICK c : c = components[i + 1]
      OBVIOUS
    <3>2. PICK rest : rest = RemoveAt(components, i + 1)
      OBVIOUS
    <3>3. PICK l : l = LengthWithout(c, i, rest)
      OBVIOUS
    <3>4. components' = rest /\ length' = l /\ ~ (l # NoLength /\ l < 0)
      BY <2>4, <3>1, <3>2, <3>3 DEF RemoveComponentAt
    <3>5. i \in 0 .. Len(components) - 1 /\ components # <<>>
      BY <2>1 DEF Indices
    <3>6. rest \in Seq(Components)
      BY <2>1, <3>2, <3>5, RemoveKeepsOrder
    <3>7. ~ HoldsEvents(components)
      <4>1. components \o rest # <<>> /\ Head(components \o rest) = Head(components)
        BY <2>1, <3>5, <3>6
      <4> QED BY <3>4, <4>1 DEF HoldsEvents
    <3> QED BY <2>1, <3>1, <3>2, <3>3, <3>4, <3>5, <3>7, RemoveTakesWorth
  <2>5. ASSUME NEW i \in Indices, GetComponentAt(i)
        PROVE  components' = components /\ length' = length
    BY <2>5 DEF GetComponentAt
  <2>6. ~ Save /\ ~ Reopen
    BY DEF Save, Reopen
  <2>7. UNCHANGED vars => components' = components /\ length' = length
    BY DEF vars
  <2> QED BY <2>2, <2>3, <2>4, <2>5, <2>6, <2>7 DEF Next
<1> QED BY Invariance, <1>1, PTL DEF Spec, LengthFollowsComponents
=============================================================================
