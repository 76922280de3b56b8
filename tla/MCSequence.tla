----------------------------- MODULE MCSequence -----------------------------
(* Small instances of Sequence for TLC.                                     *)
EXTENDS Sequence, TLC

CONSTANTS s1, s2, t1, t2, e1, e2, e3, e4, f1, x1, Marker, Trigger

\* Segments and transitions of several lengths;
\* events of two types, with lengths that overlap, end together or are absent;
\* and a segment whose data definition does not convert.
AllKinds ==
  s1 :> Segment @@ s2 :> Segment @@ t1 :> Transition @@ t2 :> Transition @@
  e1 :> Marker @@ e2 :> Marker @@ e3 :> Marker @@ e4 :> Marker @@ f1 :> Trigger @@ x1 :> Segment
AllLengths ==
  s1 :> 1 @@ s2 :> 2 @@ t1 :> 1 @@ t2 :> 2 @@
  e1 :> 3 @@ e2 :> NoLength @@ e3 :> 1 @@ e4 :> NoLength @@ f1 :> 1 @@ x1 :> 1
AllPositions ==
  s1 :> 0 @@ s2 :> 0 @@ t1 :> 0 @@ t2 :> 0 @@
  e1 :> 1 @@ e2 :> 0 @@ e3 :> 1 @@ e4 :> 4 @@ f1 :> 0 @@ x1 :> 0

MCKind == [c \in Components |-> AllKinds[c]]
MCLength == [c \in Components |-> AllLengths[c]]
MCPosition == [c \in Components |-> AllPositions[c]]
=============================================================================
