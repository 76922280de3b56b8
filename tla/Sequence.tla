----------------------------- MODULE Sequence ------------------------------
(***************************************************************************)
(* The components of a sequence and the length it records: ImplAAFSequence *)
(* over a vector of strong references.                                     *)
(*                                                                         *)
(* A sequence holds either segments and transitions, or events of one      *)
(* type.  A segment adds its length, a transition, which overlaps its      *)
(* neighbours, takes its length away; the length of a sequence of events   *)
(* reaches from the first position to the last end.  The length is kept by *)
(* corrections, one per insertion and removal, not computed when read.     *)
(*                                                                         *)
(* A file opened with AAF_FILE_MODE_LAZY_LOADING gives a sequence whose    *)
(* components are loaded one by one, when something asks for their value.  *)
(* Left out: SetNthComponent, which only ImplAAFSourceMob calls, and the   *)
(* changes a client makes to a component that is in a sequence.            *)
(***************************************************************************)
EXTENDS Integers, Sequences, SequencesExt, FiniteSetsExt

CONSTANTS
  Components,         \* the objects
  Segment, Transition,\* two kinds; any other kind is a type of event
  Kind,               \* the kind of each component
  Length,             \* its length, or NoLength: an event need not have one
  Position,           \* its position, if it is an event
  NoLength,           \* a length that is not present
  Foreign,            \* components whose data definition does not convert
  MayRemoveUnloaded   \* may a client remove a component it has not loaded?

ASSUME SequenceAssumption ==
  /\ Segment # Transition
  /\ NoLength \notin Int
  /\ DOMAIN Kind = Components
  /\ Length \in [Components -> Nat \cup {NoLength}]
  /\ Position \in [Components -> Nat]
  /\ Foreign \subseteq Components
  /\ MayRemoveUnloaded \in BOOLEAN

VARIABLES
  components,   \* _components
  loaded,       \* those whose reference is loaded
  length,       \* _length
  stored,       \* the sequence as last saved
  result        \* what the last call did

vars == <<components, loaded, length, stored, result>>

Results == {"none", "inserted", "removed", "refused", "asserted", "saved", "opened"}

TypeOK ==
  /\ components \in Seq(Components) /\ IsInjective(components)
  /\ loaded \subseteq ToSet(components)
  /\ length \in Nat \cup {NoLength}
  /\ DOMAIN stored = {"components", "length"}
  /\ stored.components \in Seq(Components) /\ stored.length \in Nat \cup {NoLength}
  /\ result \in Results

Init ==
  /\ components = <<>> /\ loaded = {} /\ length = NoLength
  /\ stored = [components |-> <<>>, length |-> NoLength]
  /\ result = "none"

-----------------------------------------------------------------------------
(* What the checks and the corrections read.                               *)

IsEvent(c) == Kind[c] \notin {Segment, Transition}
HoldsEvents(s) == s # <<>> /\ IsEvent(Head(s))

\* GetOptionalComponentLength: an absent length counts as none.
OrZero(l) == IF l = NoLength THEN 0 ELSE l

\* getEventEnd
EventEnd(c) == Position[c] + OrZero(Length[c])

\* FindEventSequenceEnd: the search starts at zero.
EventsEnd(s) == Max({0} \cup {EventEnd(c) : c \in ToSet(s)})

\* The components on either side of a gap; there may be fewer than two.
Beside(i) == {components[j] : j \in {i, i + 1} \cap DOMAIN components}

-----------------------------------------------------------------------------
(* Insertion at an index, which counts from zero.                          *)

\* Fault: only the event before is compared.
InOrderAfter(c, i) == i > 0 => Position[components[i]] <= Position[c]

\* CheckTypeSemantics and CheckPositionSemantics of events.
SameType(c) == Kind[c] = Kind[Last(components)]
InOrder(c, i) ==
  /\ i > 0 => Position[components[i]] <= Position[c]
  /\ i < Len(components) => Position[c] <= Position[components[i + 1]]

\* Fault: only the component before is looked at.
NotAfterTransition(c, i) ==
  Kind[c] = Transition => i > 0 /\ Kind[components[i]] # Transition

\* CheckTypeSemantics of the other components.
NotAdjacent(c, i) ==
  Kind[c] = Transition => /\ i > 0
                          /\ \A n \in Beside(i) : Kind[n] # Transition

\* CheckLengthSemantics compares with the last component, whatever the index.
EnoughMaterial(c) ==
  LET last == Last(components)
  IN  /\ NoLength \notin {Length[c], Length[last]}
      /\ Kind[c] = Transition => Length[last] >= Length[c]
      /\ Kind[last] = Transition => Length[c] >= Length[last]

\* Fault: what is attached may be inserted again.
MayInsertAttached(c, i) ==
  /\ c \notin Foreign
  /\ \/ components = <<>> /\ Kind[c] # Transition
     \/ HoldsEvents(components) /\ IsEvent(c) /\ SameType(c) /\ InOrder(c, i)
     \/ /\ components # <<>> /\ ~HoldsEvents(components) /\ ~IsEvent(c)
        /\ NotAdjacent(c, i) /\ EnoughMaterial(c)

MayInsert(c, i) ==
  /\ c \notin ToSet(components) \cup Foreign
  /\ \/ components = <<>> /\ Kind[c] # Transition
     \/ HoldsEvents(components) /\ IsEvent(c) /\ SameType(c) /\ InOrder(c, i)
     \/ /\ components # <<>> /\ ~HoldsEvents(components) /\ ~IsEvent(c)
        /\ NotAdjacent(c, i) /\ EnoughMaterial(c)

\* UpdateSequenceLength of an event.  The first event comes no earlier than one
\* put before it, so its distance is never negative.
LengthWithEvent(c, i) ==
  LET first == Position[Head(components)]
      end == Max({EventEnd(c) - first, OrZero(length)})
  IN  IF length = NoLength /\ Length[c] = NoLength THEN NoLength
      ELSE IF components = <<>> THEN OrZero(Length[c])
      ELSE IF i = 0 THEN end + (first - Position[c])
      ELSE end

\* UpdateSequenceLength of another component.
LengthWithComponent(c) ==
  IF Kind[c] = Transition THEN OrZero(length) - Length[c] ELSE OrZero(length) + Length[c]

\* The new length, or NoLength for an event without one; a component must have
\* a length, and SetLength refuses a negative one.
LengthWith(c, i) == IF IsEvent(c) THEN LengthWithEvent(c, i) ELSE LengthWithComponent(c)
LengthAccepts(c, i) ==
  IsEvent(c) \/ (Length[c] # NoLength /\ LengthWithComponent(c) >= 0)

\* The components that the checks load, as far as they get.
Examined(c, i) ==
  IF components = <<>> \/ c \in ToSet(components) \cup Foreign THEN {}
  ELSE {Head(components)} \cup
    IF IsEvent(c) # HoldsEvents(components) THEN {}
    ELSE IF IsEvent(c)
    THEN {Last(components)} \cup (IF SameType(c) THEN Beside(i) ELSE {})
    ELSE (IF Kind[c] = Transition /\ i > 0 THEN Beside(i) ELSE {})
         \cup (IF NotAdjacent(c, i) THEN {Last(components)} ELSE {})

\* InsertComponentAt, and AppendComponent and PrependComponent which call it.
\* A client has the component in hand, so one that is attached is loaded.
InsertComponentAt(c, i) ==
  /\ c \in ToSet(components) => c \in loaded
  /\ IF MayInsert(c, i) /\ LengthAccepts(c, i)
     THEN /\ components' = InsertAt(components, i + 1, c)
          /\ length' = LengthWith(c, i)
          /\ loaded' = loaded \cup Examined(c, i) \cup {c}
          /\ result' = "inserted"
     ELSE /\ result' = "refused"
          /\ loaded' = loaded \cup Examined(c, i)
          /\ UNCHANGED <<components, length>>
  /\ UNCHANGED stored

-----------------------------------------------------------------------------
(* Removal.                                                                *)

\* Fault: an event that ends exactly at the end is taken not to reach it.
ReachesPastEnd(c) == EventEnd(c) > length

\* UpdateSequenceLengthOnRemove of an event: the end of the sequence is looked
\* for again if the event removed may have been the one that reached it.
ReachesEnd(c) == EventEnd(c) >= length
LengthWithoutEvent(c, i, rest) ==
  LET first == Position[Head(rest)]
  IN  IF length \in {NoLength, 0} THEN length
      ELSE IF ReachesEnd(c) THEN EventsEnd(rest) - first
      ELSE IF i = 0 THEN length - (first - Position[c])
      ELSE length

\* Fault: a transition is taken away like a segment.
LengthWithoutAny(c) == length - Length[c]

\* UpdateSequenceLengthOnRemove of another component.
LengthWithoutComponent(c) ==
  IF Kind[c] = Transition THEN length + Length[c] ELSE length - Length[c]

LengthWithout(c, i, rest) ==
  IF rest = <<>>
  THEN IF IsEvent(c) /\ Length[c] = NoLength THEN length ELSE 0
  ELSE IF HoldsEvents(rest) THEN LengthWithoutEvent(c, i, rest)
  ELSE LengthWithoutComponent(c)

\* The components that the correction loads.
Consulted(c, i, rest) ==
  IF rest = <<>> THEN {}
  ELSE {Head(rest)} \cup
    IF ~HoldsEvents(rest) \/ length \in {NoLength, 0} THEN {}
    ELSE IF ReachesEnd(c) THEN ToSet(rest)
    ELSE IF i = Len(rest) THEN {Last(rest)} ELSE {}

\* RemoveComponentAt: the component is gone before the length is corrected.  A
\* reference that is not loaded gives no component, and the length stays.
RemoveComponentAt(i) ==
  LET c == components[i + 1]
      rest == RemoveAt(components, i + 1)
      new == LengthWithout(c, i, rest)
  IN  /\ MayRemoveUnloaded \/ c \in loaded
      /\ components' = rest
      /\ IF c \notin loaded
         THEN /\ result' = "removed"
              /\ UNCHANGED <<loaded, length>>
         ELSE /\ loaded' = (loaded \ {c}) \cup Consulted(c, i, rest)
              /\ IF new # NoLength /\ new < 0
                 THEN /\ result' = IF IsEvent(c) THEN "asserted" ELSE "refused"
                      /\ UNCHANGED length
                 ELSE /\ result' = "removed"
                      /\ length' = new
      /\ UNCHANGED stored

-----------------------------------------------------------------------------
(* Reading, saving and opening again.                                      *)

\* GetComponentAt and GetNthComponent.
GetComponentAt(i) ==
  /\ loaded' = loaded \cup {components[i + 1]}
  /\ UNCHANGED <<components, length, stored, result>>

\* A save writes a reference that is not loaded as it was.
Save ==
  /\ stored' = [components |-> components, length |-> length]
  /\ result' = "saved"
  /\ UNCHANGED <<components, loaded, length>>

\* The file is closed and opened again, with or without lazy loading.
Reopen ==
  /\ components' = stored.components
  /\ length' = stored.length
  /\ \E lazy \in BOOLEAN : loaded' = IF lazy THEN {} ELSE ToSet(stored.components)
  /\ result' = "opened"
  /\ UNCHANGED stored

Indices == 0 .. Len(components) - 1

Next ==
  \/ \E c \in Components : \E i \in 0 .. Len(components) : InsertComponentAt(c, i)
  \/ \E i \in Indices : RemoveComponentAt(i) \/ GetComponentAt(i)
  \/ Save
  \/ Reopen

Spec == Init /\ [][Next]_vars

-----------------------------------------------------------------------------
(* FindSubSegment: the component an offset falls in.                       *)

\* Where a component begins, as the loop over the components adds them up.
BeginsAt(i) ==
  MapThenSumSet(LAMBDA j : OrZero(Length[components[j]]), 1 .. i - 1)
EndsAt(i) == BeginsAt(i) + OrZero(Length[components[i]])

Nothing == 0   \* *found == kAAFFalse, or an error
Itself == -1   \* *subseg == this

\* Fault: the first offset of a component is left to the one before.
WithinOpen(offset, i) == BeginsAt(i) < offset /\ offset < EndsAt(i)

\* The loop stops at the first component whose end lies beyond the offset.
Within(offset, i) == BeginsAt(i) <= offset /\ offset < EndsAt(i)

\* GetLength, which fails on an absent length, succeeds as far as the loop goes.
LengthsKnown(i) == \A j \in 1 .. i : Length[components[j]] # NoLength

\* A sequence of no length contains its own beginning.
FindSubSegment(offset) ==
  LET hits == {i \in DOMAIN components : Within(offset, i) /\ LengthsKnown(i)}
  IN  IF length = NoLength THEN Nothing
      ELSE IF 0 <= offset /\ offset < length
      THEN IF hits # {} THEN Min(hits) ELSE Nothing
      ELSE IF length = 0 /\ offset = 0 THEN Itself ELSE Nothing

-----------------------------------------------------------------------------
(* What must hold.                                                         *)

\* What the components of a sequence add up to.
Total(s) ==
  MapThenSumSet(LAMBDA c : IF Kind[c] = Transition THEN -OrZero(Length[c])
                           ELSE OrZero(Length[c]), ToSet(s))

\* The corrections of the length in step with the components: whatever was
\* inserted and removed before, in whatever order, and across a save and a
\* reopening, a call that succeeds changes the length by what the components'
\* lengths changed, or leaves the length equal to their total.
LengthFollowsComponents ==
  [][result' \in {"inserted", "removed"} /\ ~HoldsEvents(components \o components')
     => LET now == OrZero(length') IN
        \/ now = Total(components')
        \/ now - OrZero(length) = Total(components') - Total(components)]_vars

\* The length of a sequence of events covers every event that has a length, and
\* reaches no further than the last end: it is corrected event by event, from
\* the length and the first position alone when the code thinks that enough.
LengthIsExtent ==
  HoldsEvents(components) =>
    LET first == Position[Head(components)]
    IN  /\ \A c \in ToSet(components) : Length[c] # NoLength =>
             length # NoLength /\ EventEnd(c) - first <= length
        /\ length # NoLength => length <= EventsEnd(components) - first

\* A sequence never mixes events with other components, nor events of two types,
\* and its events are in order, wherever they were inserted.
EventsAreOrdered ==
  /\ \A c, d \in ToSet(components) :
       Kind[c] = Kind[d] \/ {Kind[c], Kind[d]} = {Segment, Transition}
  /\ HoldsEvents(components) =>
       \A i, j \in DOMAIN components : i < j => Position[components[i]] <= Position[components[j]]

\* ASSERTU of UpdateSequenceLengthOnRemove: the length of a sequence of events
\* never becomes negative.
AssertionHolds == result # "asserted"

\* An insertion, at any index, brings no transition to the front and none next
\* to another.
WellSpaced(s) ==
  \A i \in DOMAIN s : Kind[s[i]] = Transition =>
    i > 1 /\ Kind[s[i - 1]] # Transition
InsertionKeepsSpacing ==
  [][result' = "inserted" /\ WellSpaced(components) => WellSpaced(components')]_vars

\* Without transitions and while the length is right, every offset of the
\* sequence falls in one component, and FindSubSegment finds it.
EveryOffsetIsFound ==
  ((\A c \in ToSet(components) : Kind[c] = Segment) /\ length = Total(components)) =>
    \A offset \in 0 .. length - 1 :
      LET i == FindSubSegment(offset)
      IN  /\ i # Nothing
          /\ Total(SubSeq(components, 1, i - 1)) <= offset
          /\ offset < Total(SubSeq(components, 1, i))

\* "If this method fails no state will be changed" (AAF.idl, RemoveComponentAt).
\* The component is already out when SetLength refuses the length.
FailureChangesNothing == [][result' = "refused" => UNCHANGED <<components, length>>]_vars

\* An insertion of a transition checks the material on both of its sides
\* (AAF.idl, InsertComponentAt).
TransitionsHaveMaterial ==
  [][\A i \in DOMAIN components' :
       (result' = "inserted" /\ components' # components /\ Kind[components'[i]] = Transition)
       => \A j \in {i - 1, i + 1} \cap DOMAIN components' :
            Length[components'[j]] >= Length[components'[i]]]_vars

=============================================================================
