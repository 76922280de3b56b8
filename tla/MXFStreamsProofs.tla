-------------------------- MODULE MXFStreamsProofs --------------------------
(***************************************************************************)
(* What is proved of MXFStreams, for any number of streams, any grid sizes *)
(* and any sizes of packs and fill: the segments never run into each other *)
(* and, as long as the metadata fits the space preallocated for it, no     *)
(* byte of a stream is ever lost or replaced, and a reader of a file that  *)
(* was saved finds every segment with its content.                         *)
(***************************************************************************)
EXTENDS MXFStreams, TLAPS, WellFoundedInduction, FiniteSetTheorems

\* The metadata and the key and length of the fill after it fit.
MetadataFits == \A metadataSize \in MetadataSizes : metadataSize + KL < BodyOffset

-----------------------------------------------------------------------------
(* Arithmetic and order. *)

\* The sizes, without what the disk holds.
LEMMA Sizes ==
  /\ KL \in Nat \ {0} /\ Zone \in Nat /\ Zone > KL /\ PackSize \in Nat \ {0}
  /\ Grid \in [Sids -> Nat]
  /\ \A sid \in Sids : Grid[sid] > Zone + PackSize + KL + KL
  /\ Preallocated \in Nat \ {0}
  /\ KeyOffsets \subseteq Nat /\ 0 \in KeyOffsets
  /\ WriteCounts \subseteq Nat \ {0} /\ Overlaps \subseteq Nat /\ SetSizes \subseteq Nat
  /\ MetadataSizes \subseteq Nat \ {0}
  /\ LastAddress \in Nat
BY MXFAssumption

\* Fill and packs are not taken for content, nor for each other.
LEMMA Marks == Fill \notin Sids \X Nat /\ Pack \notin Sids \X Nat /\ Pack # Fill
BY MXFAssumption

\* A set of indices that is not empty has a greatest.
LEMMA GreatestIndex ==
  ASSUME NEW n \in Nat, NEW S, S \subseteq 1 .. n, S # {}
  PROVE  \E i \in S : \A j \in S : j <= i
<1> DEFINE T == {n - i : i \in S}
<1>1. T \subseteq Nat /\ T # {}
  <2>1. \A i \in S : n - i \in Nat
    OBVIOUS
  <2> QED BY <2>1, Zenon
<1>2. PICK x \in T : \A y \in T : ~ (<<y, x>> \in OpToRel(<, Nat))
  BY <1>1, NatLessThanWellFounded, WFMin, Zenon
<1>3. \A y \in T : x <= y
  <2> TAKE y \in T
  <2>1. ~ (y < x)
    BY <1>1, <1>2 DEF OpToRel
  <2> QED BY <1>1, <2>1
<1>4. PICK i \in S : x = n - i
  BY Zenon
<1>5. \A j \in S : j <= i
  <2> TAKE j \in S
  <2>1. n - j \in T
    BY Zenon
  <2>2. n - i <= n - j
    BY <1>3, <1>4, <2>1
  <2>3. i \in 1 .. n /\ j \in 1 .. n
    OBVIOUS
  <2> HIDE DEF T
  <2> QED BY <2>2, <2>3
<1> QED BY <1>5

\* A quotient is the greatest number of whole divisors.
LEMMA QuotientBound ==
  ASSUME NEW a \in Nat, NEW b \in Nat \ {0}
  PROVE  a \div b \in Nat /\ a < b * (a \div b + 1)
OBVIOUS

\* Division undoes multiplication.
LEMMA Quotient ==
  ASSUME NEW k \in Nat, NEW b \in Nat \ {0}, NEW r \in 0 .. b - 1
  PROVE  (k * b + r) \div b = k
OBVIOUS

\* A growth is rounded up to whole grids.
LEMMA IncrementRoundsUp ==
  ASSUME NEW sid \in Sids, NEW growBytes \in Nat \ {0}
  PROVE  /\ Increment(sid, growBytes) \in Nat \ {0}
         /\ Increment(sid, growBytes) >= growBytes
<1> DEFINE g == Grid[sid]
           q == (growBytes - 1) \div g
<1>1. g \in Nat \ {0}
  BY Sizes
<1>2. q \in Nat /\ growBytes - 1 < g * (q + 1)
  BY <1>1, QuotientBound
<1> HIDE DEF g, q
<1>3. g * (q + 1) = (q + 1) * g /\ (q + 1) * g \in Nat
  BY <1>1, <1>2
<1>4. (q + 1) * g \in Nat \ {0} /\ (q + 1) * g >= growBytes
  BY <1>2, <1>3
<1> QED BY <1>4 DEF Increment, g, q

-----------------------------------------------------------------------------
(* The inductive invariant. *)

\* Every position the segments of a stream are allocated for is in one of them.
Covered ==
  \A sid \in Sids : \A p \in 0 .. AllocatedSize(sid) - 1 :
    \E i \in Own(sid) : HasPosition(segments[i], p)

\* Until the first segment the file ends where the streams begin.
EmptyFile == segments = <<>> => fileSize = Preallocated

Layout == SegmentsApart /\ EmptyFile

\* The bound on addresses: no segment is beyond it.
Bounded == segments # <<>> => fileSize <= LastAddress

IInv == TypeOK /\ Layout /\ Bounded /\ Covered /\ StreamIntact

Segment == [sid : Sids, start : Nat, size : Nat \ {0}, origin : Nat]

Segments == Seq(Segment)

\* The types of what a reader has restored.
ReaderTyped ==
  /\ restored \in Seq([sid : Sids, start : Int, size : Int, origin : Addresses])
  /\ restoredSize \in [Sids -> Int]

\* A reader that starts over has restored nothing.
LEMMA ReaderStartsOver == NothingRestored => ReaderTyped'
<1> SUFFICES ASSUME NothingRestored PROVE ReaderTyped'
  OBVIOUS
<1>1. restored' = <<>> /\ restoredSize' = [sid \in Sids |-> 0]
  BY DEF NothingRestored
<1>2. \A T : <<>> \in Seq(T)
  OBVIOUS
<1>3. restored' \in Seq([sid : Sids, start : Int, size : Int, origin : Addresses])
  BY <1>1, <1>2
<1>4. restoredSize' \in [Sids -> Int]
  BY <1>1
<1> QED BY <1>3, <1>4 DEF ReaderTyped

\* The last segment of a stream is one of its segments, and the last of them.
LEMMA LastOfIsLast ==
  ASSUME segments \in Segments, NEW sid \in Sids, IsCreated(sid)
  PROVE  LastOf(sid) \in Own(sid) /\ \A j \in Own(sid) : j <= LastOf(sid)
<1>1. Own(sid) \subseteq 1 .. Len(segments) /\ Len(segments) \in Nat
  BY DEF Own, Segments
<1>2. \E i \in Own(sid) : \A j \in Own(sid) : j <= i
  BY <1>1, GreatestIndex DEF IsCreated
<1> QED BY <1>2 DEF LastOf

\* What is allocated for a stream is a natural number.
LEMMA AllocatedSizeType ==
  ASSUME segments \in Segments, NEW sid \in Sids
  PROVE  AllocatedSize(sid) \in Nat
<1>1. CASE IsCreated(sid)
  <2>1. LastOf(sid) \in DOMAIN segments
    BY <1>1, LastOfIsLast DEF Own
  <2>2. segments[LastOf(sid)] \in Segment
    BY <2>1 DEF Segments
  <2>3. segments[LastOf(sid)].start \in Nat /\ segments[LastOf(sid)].size \in Nat
    BY <2>2 DEF Segment
  <2> QED BY <1>1, <2>3 DEF AllocatedSize
<1>2. CASE ~ IsCreated(sid)
  BY <1>2 DEF AllocatedSize
<1> QED BY <1>1, <1>2

\* The same of the next state.
LEMMA LastOfIsLastNext ==
  ASSUME segments' \in Segments, NEW sid \in Sids, NEW i \in Own(sid)',
         \A j \in Own(sid)' : j <= i
  PROVE  LastOf(sid)' = i
<1>1. LastOf(sid)' \in Own(sid)' /\ \A j \in Own(sid)' : j <= LastOf(sid)'
  BY DEF LastOf
<1>2. i \in Nat /\ LastOf(sid)' \in Nat
  BY <1>1 DEF Own, Segments
<1>3. i <= LastOf(sid)' /\ LastOf(sid)' <= i
  BY <1>1
<1> QED BY <1>2, <1>3

-----------------------------------------------------------------------------
(* Growing. *)

\* What growing a stream keeps of every segment: where it is, and which of the
\* positions that were allocated it has.
SegmentsKept ==
  /\ \A i \in DOMAIN segments :
       /\ i \in DOMAIN segments' /\ segments'[i].sid = segments[i].sid
       /\ segments'[i].start = segments[i].start /\ segments'[i].origin = segments[i].origin
  /\ \A s \in Sids : \A i \in Own(s) : \A p \in Nat :
       HasPosition(segments[i], p) => i \in Own(s)' /\ HasPosition(segments'[i], p)
  /\ \A s \in Sids : \A i \in Own(s)' : \A p \in 0 .. AllocatedSize(s) - 1 :
       HasPosition(segments'[i], p) => i \in Own(s) /\ HasPosition(segments[i], p)

Grown(sid, growBytes) ==
  /\ segments' \in Segments /\ fileSize' \in Nat
  /\ Layout' /\ Covered' /\ SegmentsKept
  /\ \A s \in Sids : AllocatedSize(s)' >= AllocatedSize(s)
  /\ AllocatedSize(sid)' >= AllocatedSize(sid) + growBytes

\* The types of a segment's fields.
LEMMA SegmentTypeOf ==
  ASSUME NEW S \in Segments, NEW i \in DOMAIN S
  PROVE  /\ S[i] \in Segment /\ i \in 1 .. Len(S) /\ Len(S) \in Nat
         /\ S[i].sid \in Sids /\ S[i].start \in Nat
         /\ S[i].size \in Nat \ {0} /\ S[i].origin \in Nat
<1>1. S[i] \in Segment /\ i \in 1 .. Len(S) /\ Len(S) \in Nat
  BY DEF Segments
<1> QED BY <1>1 DEF Segment

\* The fields of a segment.
LEMMA SegmentType ==
  ASSUME segments \in Segments, NEW i \in DOMAIN segments
  PROVE  /\ segments[i] \in Segment /\ i \in 1 .. Len(segments) /\ Len(segments) \in Nat
         /\ segments[i].sid \in Sids /\ segments[i].start \in Nat
         /\ segments[i].size \in Nat \ {0} /\ segments[i].origin \in Nat
BY SegmentTypeOf

\* The only segment that ends where the file does is the last one.
LEMMA LastIsLast ==
  ASSUME segments \in Segments, SegmentsApart, NEW i \in DOMAIN segments, IsLast(segments[i])
  PROVE  i = Len(segments)
<1> DEFINE n == Len(segments)
<1>1. n \in DOMAIN segments /\ i \in 1 .. n /\ n \in Nat /\ segments # <<>>
  BY SegmentType DEF Segments
<1>2. fileSize = segments[n].origin + segments[n].size
  BY <1>1 DEF SegmentsApart, Last
<1>3. SUFFICES ASSUME i < n PROVE FALSE
  BY <1>1
<1>4. segments[n].origin >= segments[i].origin + segments[i].size + Zone + PackSize
  BY <1>1, <1>3 DEF SegmentsApart, EndOf
<1>5. fileSize = segments[i].origin + segments[i].size
  BY DEF IsLast
<1>6. /\ segments[n].origin \in Nat /\ segments[n].size \in Nat \ {0}
      /\ segments[i].origin \in Nat /\ segments[i].size \in Nat \ {0}
  BY <1>1, SegmentType
<1>7. Zone \in Nat /\ PackSize \in Nat
  BY Sizes
<1> DEFINE last == segments[n].origin
           other == segments[i].origin + segments[i].size
<1>8. last \in Nat /\ other \in Nat /\ last >= other + Zone + PackSize
  BY <1>4, <1>6
<1>9. last + segments[n].size = other
  BY <1>2, <1>5
<1> HIDE DEF n, last, other
<1> QED BY <1>6, <1>7, <1>8, <1>9

\* Growing the last segment of the file moves nothing and keeps it apart.
LEMMA GrowInPlaceKeeps ==
  ASSUME segments \in Segments, fileSize \in Nat, Layout, Covered,
         NEW sid \in Sids, NEW growBytes \in Nat \ {0}, GrowInPlace(sid, growBytes)
  PROVE  Grown(sid, growBytes)
<1> DEFINE n == LastOf(sid)
           inc == Increment(sid, growBytes)
<1>1. inc \in Nat \ {0} /\ inc >= growBytes
  BY IncrementRoundsUp
<1>2. /\ n \in Own(sid) /\ n \in DOMAIN segments /\ segments[n].sid = sid
      /\ \A j \in Own(sid) : j <= n
  BY LastOfIsLast DEF GrowInPlace, Own
<1>3. n = Len(segments)
  BY <1>2, LastIsLast DEF GrowInPlace, Layout
<1>4. /\ segments' = [segments EXCEPT ![n].size = @ + inc]
      /\ fileSize' = fileSize + inc
      /\ fileSize = segments[n].origin + segments[n].size
  BY DEF GrowInPlace, IsLast
<1> HIDE DEF n, inc
<1>5. /\ DOMAIN segments' = DOMAIN segments /\ Len(segments') = Len(segments)
      /\ segments'[n] = [segments[n] EXCEPT !.size = @ + inc]
      /\ \A i \in DOMAIN segments : i # n => segments'[i] = segments[i]
  BY <1>2, <1>4 DEF Segments
<1>6. segments'[n] \in Segment
  <2>1. segments[n] \in Segment /\ segments[n].size + inc \in Nat \ {0}
    BY <1>1, <1>2, SegmentType
  <2> QED BY <1>5, <2>1 DEF Segment
<1>7. segments' \in Segments
  BY <1>2, <1>4, <1>5, <1>6 DEF Segments
<1>8. /\ segments'[n].size = segments[n].size + inc
      /\ segments'[n].sid = sid /\ segments'[n].start = segments[n].start
      /\ segments'[n].origin = segments[n].origin
  BY <1>2, <1>5, SegmentType DEF Segment
<1>9. \A i \in DOMAIN segments :
        /\ i \in DOMAIN segments' /\ segments'[i].sid = segments[i].sid
        /\ segments'[i].start = segments[i].start /\ segments'[i].origin = segments[i].origin
        /\ i # n => segments'[i].size = segments[i].size
  BY <1>2, <1>5, <1>8
<1>10. \A s \in Sids : Own(s)' = Own(s)
  BY <1>5, <1>9 DEF Own
<1>11. \A s \in Sids : LastOf(s)' = LastOf(s) /\ IsCreated(s)' = IsCreated(s)
  BY <1>10 DEF LastOf, IsCreated
<1>12. /\ \A s \in Sids : s # sid => AllocatedSize(s)' = AllocatedSize(s)
       /\ AllocatedSize(sid)' = AllocatedSize(sid) + inc
       /\ \A s \in Sids : AllocatedSize(s) \in Nat
  <2>1. \A s \in Sids : AllocatedSize(s) \in Nat
    BY AllocatedSizeType
  <2>2. ASSUME NEW s \in Sids, s # sid PROVE AllocatedSize(s)' = AllocatedSize(s)
    <3>1. CASE IsCreated(s)
      <4>1. LastOf(s) \in DOMAIN segments /\ LastOf(s) # n
        BY <1>2, <2>2, <3>1, LastOfIsLast DEF Own
      <4> QED BY <1>9, <1>11, <3>1, <4>1 DEF AllocatedSize
    <3>2. CASE ~ IsCreated(s)
      BY <1>11, <3>2 DEF AllocatedSize
    <3> QED BY <3>1, <3>2
  <2>3. AllocatedSize(sid)' = AllocatedSize(sid) + inc
    <3>1. AllocatedSize(sid) = segments[n].start + segments[n].size
      BY <1>2 DEF AllocatedSize, IsCreated, n
    <3>2. AllocatedSize(sid)' = segments[n].start + (segments[n].size + inc)
      BY <1>2, <1>8, <1>10, <1>11 DEF AllocatedSize, IsCreated, n
    <3>3. segments[n].start \in Nat /\ segments[n].size \in Nat
      BY <1>2, SegmentType
    <3> QED BY <1>1, <3>1, <3>2, <3>3
  <2> QED BY <2>1, <2>2, <2>3
<1>13. fileSize' \in Nat
  BY <1>1, <1>4
<1>14. Layout'
  <2>1. \A i \in DOMAIN segments' : segments'[i].origin >= BodyOffset + PackSize
    BY <1>5, <1>9 DEF Layout, SegmentsApart
  <2>2. ASSUME NEW i \in DOMAIN segments', NEW j \in DOMAIN segments', i < j
        PROVE  segments'[j].origin >= EndOf(segments'[i]) + PackSize
    <3>1. i # n
      BY <1>3, <1>5, <2>2, SegmentType
    <3> QED BY <1>5, <1>9, <2>2, <3>1 DEF Layout, SegmentsApart, EndOf
  <2>3. fileSize' = segments'[n].origin + segments'[n].size
    BY <1>1, <1>2, <1>4, <1>8, SegmentType
  <2>4. segments' # <<>> /\ Last(segments') = segments'[n]
    BY <1>2, <1>3, <1>5 DEF Last, Segments
  <2> QED BY <2>1, <2>2, <2>3, <2>4 DEF Layout, SegmentsApart, EmptyFile
<1>15. SegmentsKept
  <2>1. ASSUME NEW s \in Sids, NEW i \in Own(s), NEW p \in Nat, HasPosition(segments[i], p)
        PROVE  HasPosition(segments'[i], p)
    <3>1. i \in DOMAIN segments
      BY DEF Own
    <3>2. /\ segments[i].start \in Nat /\ segments[i].size \in Nat
          /\ segments'[i].start = segments[i].start
          /\ segments'[i].size = segments[i].size \/ segments'[i].size = segments[i].size + inc
      BY <1>8, <1>9, <3>1, SegmentType
    <3>3. p >= segments[i].start /\ p < segments[i].start + segments[i].size
      BY <2>1 DEF HasPosition
    <3> DEFINE start == segments[i].start
               length == segments[i].size
               longer == segments'[i].size
    <3>4. start \in Nat /\ length \in Nat /\ p < start + length
          /\ (longer = length \/ longer = length + inc)
      BY <3>2, <3>3
    <3> HIDE DEF start, length, longer
    <3>5. p < start + longer
      BY <1>1, <3>4
    <3> QED BY <3>2, <3>3, <3>5 DEF HasPosition, start, longer
  <2>2. ASSUME NEW s \in Sids, NEW i \in Own(s), NEW p \in 0 .. AllocatedSize(s) - 1,
               HasPosition(segments'[i], p)
        PROVE  HasPosition(segments[i], p)
    <3>1. i \in DOMAIN segments /\ segments[i].sid = s
      BY DEF Own
    <3>2. CASE i # n
      BY <1>9, <2>2, <3>1, <3>2 DEF HasPosition
    <3>3. CASE i = n
      <4>1. AllocatedSize(s) = segments[n].start + segments[n].size
        BY <1>2, <3>1, <3>3 DEF AllocatedSize, IsCreated, n
      <4> QED BY <1>8, <2>2, <3>1, <3>3, <4>1, SegmentType DEF HasPosition
    <3> QED BY <3>2, <3>3
  <2> QED BY <1>9, <1>10, <2>1, <2>2 DEF SegmentsKept
<1>16. Covered'
  <2> SUFFICES ASSUME NEW s \in Sids, NEW p \in 0 .. AllocatedSize(s)' - 1
               PROVE  \E i \in Own(s) : HasPosition(segments'[i], p)
    BY <1>10 DEF Covered
  <2>1. AllocatedSize(s)' \in Nat /\ p \in Nat
    BY <1>1, <1>12
  <2>2. CASE p < AllocatedSize(s)
    <3>1. PICK i \in Own(s) : HasPosition(segments[i], p)
      BY <1>12, <2>1, <2>2 DEF Covered
    <3> QED BY <1>15, <2>1, <3>1 DEF SegmentsKept
  <2>3. CASE p >= AllocatedSize(s)
    <3>1. s = sid
      BY <1>12, <2>1, <2>3
    <3>2. AllocatedSize(sid) = segments[n].start + segments[n].size
      BY <1>2 DEF AllocatedSize, IsCreated, n
    <3>3. segments[n].start \in Nat /\ segments[n].size \in Nat
      BY <1>2, SegmentType
    <3>4. HasPosition(segments'[n], p)
      BY <1>1, <1>8, <1>12, <2>1, <2>3, <3>1, <3>2, <3>3 DEF HasPosition
    <3> QED BY <1>2, <3>1, <3>4
  <2> QED BY <1>12, <2>1, <2>2, <2>3
<1> QED BY <1>1, <1>7, <1>12, <1>13, <1>14, <1>15, <1>16 DEF Grown

\* So does a new segment, which is placed behind all others.
LEMMA GrowBySegmentKeeps ==
  ASSUME segments \in Segments, fileSize \in Nat, fileSize >= Preallocated, Layout, Covered,
         NEW sid \in Sids, NEW growBytes \in Nat \ {0}, GrowBySegment(sid, growBytes)
  PROVE  Grown(sid, growBytes)
<1> DEFINE m == Len(segments)
           n == m + 1
           inc == Increment(sid, growBytes)
           added == AddedSegment(sid, growBytes)
<1>1. inc \in Nat \ {0} /\ inc >= growBytes /\ m \in Nat
  BY IncrementRoundsUp DEF Segments
<1>2. \A s \in Sids : AllocatedSize(s) \in Nat
  BY AllocatedSizeType
<1>3. /\ added.sid = sid /\ added.start = AllocatedSize(sid)
      /\ added.size = inc + KL /\ added.origin = fileSize + Grid[sid] - KL
  BY DEF AddedSegment, NewOrigin
<1>4. /\ KL \in Nat \ {0} /\ Zone \in Nat /\ PackSize \in Nat \ {0} /\ Grid[sid] \in Nat
      /\ Grid[sid] > Zone + PackSize + KL + KL /\ Preallocated \in Nat
  BY Sizes
<1>5. added.origin \in Nat /\ added.size \in Nat \ {0} /\ added.start \in Nat
  BY <1>1, <1>2, <1>3, <1>4
<1>6. added \in Segment
  <2>1. added = [sid |-> added.sid, start |-> added.start, size |-> added.size,
                 origin |-> added.origin]
    BY DEF AddedSegment
  <2> QED BY <1>3, <1>5, <2>1 DEF Segment
<1>7. segments' = Append(segments, added) /\ fileSize' = added.origin + added.size
  BY DEF GrowBySegment
<1> HIDE DEF inc, added
<1>8. /\ segments' \in Segments /\ DOMAIN segments' = 1 .. n /\ Len(segments') = n
      /\ DOMAIN segments = 1 .. m /\ segments'[n] = added
      /\ \A i \in DOMAIN segments : i \in DOMAIN segments' /\ segments'[i] = segments[i]
  BY <1>6, <1>7 DEF Segments
<1> HIDE DEF m
<1>9. \A s \in Sids : s # sid => Own(s)' = Own(s)
  <2> SUFFICES ASSUME NEW s \in Sids, s # sid PROVE Own(s)' = Own(s)
    OBVIOUS
  <2>1. \A i : i \in Own(s)' <=> i \in Own(s)
    BY <1>1, <1>3, <1>8 DEF Own
  <2> QED BY <2>1
<1>10. Own(sid)' = Own(sid) \cup {n}
  <2>1. \A i : i \in Own(sid)' <=> i \in Own(sid) \/ i = n
    BY <1>1, <1>3, <1>8 DEF Own
  <2> QED BY <2>1
<1>11. \A s \in Sids : s # sid => AllocatedSize(s)' = AllocatedSize(s)
  <2> SUFFICES ASSUME NEW s \in Sids, s # sid PROVE AllocatedSize(s)' = AllocatedSize(s)
    OBVIOUS
  <2>1. LastOf(s)' = LastOf(s) /\ IsCreated(s)' = IsCreated(s)
    BY <1>9 DEF LastOf, IsCreated
  <2>2. CASE IsCreated(s)
    <3>1. LastOf(s) \in DOMAIN segments
      BY <2>2, LastOfIsLast DEF Own
    <3> QED BY <1>8, <2>1, <2>2, <3>1 DEF AllocatedSize
  <2>3. CASE ~ IsCreated(s)
    BY <2>1, <2>3 DEF AllocatedSize
  <2> QED BY <2>2, <2>3
<1>12. AllocatedSize(sid)' = AllocatedSize(sid) + (inc + KL)
  <2>1. n \in Own(sid)' /\ \A j \in Own(sid)' : j <= n
    BY <1>1, <1>8, <1>10 DEF Own
  <2>2. LastOf(sid)' = n
    BY <1>8, <2>1, LastOfIsLastNext
  <2> QED BY <1>3, <1>8, <2>1, <2>2 DEF AllocatedSize, IsCreated
<1>13. fileSize' \in Nat
  BY <1>5, <1>7
<1>14. Layout'
  <2>1. m > 0 => /\ fileSize = segments[m].origin + segments[m].size
                 /\ m \in DOMAIN segments
    <3> SUFFICES ASSUME m > 0 PROVE /\ fileSize = segments[m].origin + segments[m].size
                                    /\ m \in DOMAIN segments
      OBVIOUS
    <3>1. segments # <<>>
      BY DEF m
    <3> QED BY <1>1, <1>8, <3>1 DEF Layout, SegmentsApart, Last, m
  <2>2. \A i \in DOMAIN segments : fileSize + Zone >= EndOf(segments[i])
    <3> TAKE i \in DOMAIN segments
    <3>0. /\ segments[i].origin \in Nat /\ segments[i].size \in Nat
          /\ segments[m].origin \in Nat /\ segments[m].size \in Nat
          /\ m \in DOMAIN segments /\ fileSize = segments[m].origin + segments[m].size
      BY <1>1, <1>8, <2>1, SegmentType
    <3>1. CASE i = m
      BY <1>4, <3>0, <3>1 DEF EndOf
    <3>2. CASE i # m
      <4>1. segments[m].origin >= EndOf(segments[i]) + PackSize
        BY <1>1, <1>8, <3>0, <3>2 DEF Layout, SegmentsApart
      <4> QED BY <1>4, <3>0, <4>1 DEF EndOf
    <3> QED BY <3>1, <3>2
  <2>3. added.origin >= BodyOffset + PackSize
    BY <1>3, <1>4 DEF BodyOffset
  <2>4. \A i \in DOMAIN segments' : segments'[i].origin >= BodyOffset + PackSize
    BY <1>1, <1>8, <2>3 DEF Layout, SegmentsApart
  <2>5. ASSUME NEW i \in DOMAIN segments', NEW j \in DOMAIN segments', i < j
        PROVE  segments'[j].origin >= EndOf(segments'[i]) + PackSize
    <3>1. i \in DOMAIN segments
      BY <1>1, <1>8, <2>5
    <3>2. CASE j = n
      <4>1. EndOf(segments[i]) \in Nat
        BY <1>4, <3>1, SegmentType DEF EndOf
      <4>2. added.origin >= EndOf(segments[i]) + PackSize
        BY <1>3, <1>4, <2>2, <3>1, <4>1
      <4> QED BY <1>8, <3>1, <3>2, <4>2 DEF EndOf
    <3>3. CASE j # n
      <4>1. j \in DOMAIN segments
        BY <1>1, <1>8, <3>3
      <4> QED BY <1>8, <2>5, <3>1, <4>1 DEF Layout, SegmentsApart, EndOf
    <3> QED BY <3>2, <3>3
  <2>6. segments' # <<>> /\ Last(segments') = added
    BY <1>1, <1>8 DEF Last
  <2> QED BY <1>7, <2>4, <2>5, <2>6 DEF Layout, SegmentsApart, EmptyFile
<1>15. SegmentsKept
  <2>1. ASSUME NEW s \in Sids, NEW i \in Own(s), NEW p \in Nat, HasPosition(segments[i], p)
        PROVE  i \in Own(s)' /\ HasPosition(segments'[i], p)
    <3>1. i \in DOMAIN segments
      BY DEF Own
    <3> QED BY <1>8, <1>9, <1>10, <2>1, <3>1 DEF HasPosition
  <2>2. ASSUME NEW s \in Sids, NEW i \in Own(s)', NEW p \in 0 .. AllocatedSize(s) - 1,
               HasPosition(segments'[i], p)
        PROVE  i \in Own(s) /\ HasPosition(segments[i], p)
    <3>1. i \in Own(s)
      <4>1. CASE s # sid
        BY <1>9, <4>1
      <4>2. CASE s = sid /\ i = n
        BY <1>2, <1>3, <1>8, <2>2, <4>2 DEF HasPosition
      <4>3. CASE s = sid /\ i # n
        BY <1>10, <4>3
      <4> QED BY <4>1, <4>2, <4>3
    <3>2. i \in DOMAIN segments
      BY <3>1 DEF Own
    <3> QED BY <1>8, <2>2, <3>1, <3>2 DEF HasPosition
  <2> QED BY <1>8, <2>1, <2>2 DEF SegmentsKept
<1>16. Covered'
  <2> SUFFICES ASSUME NEW s \in Sids, NEW p \in 0 .. AllocatedSize(s)' - 1
               PROVE  \E i \in Own(s)' : HasPosition(segments'[i], p)
    BY DEF Covered
  <2>1. p \in Nat
    OBVIOUS
  <2>2. CASE p < AllocatedSize(s)
    <3>1. PICK i \in Own(s) : HasPosition(segments[i], p)
      BY <1>2, <2>1, <2>2 DEF Covered
    <3> QED BY <1>15, <2>1, <3>1 DEF SegmentsKept
  <2>3. CASE p >= AllocatedSize(s)
    <3>1. s = sid /\ p < AllocatedSize(sid) + (inc + KL)
      BY <1>1, <1>2, <1>4, <1>11, <1>12, <2>1, <2>3
    <3>2. HasPosition(segments'[n], p)
      BY <1>3, <1>8, <2>3, <3>1 DEF HasPosition
    <3> QED BY <1>10, <3>1, <3>2
  <2> QED BY <1>2, <2>1, <2>2, <2>3
<1>17. /\ \A s \in Sids : AllocatedSize(s)' >= AllocatedSize(s)
       /\ AllocatedSize(sid)' >= AllocatedSize(sid) + growBytes
  BY <1>1, <1>2, <1>4, <1>11, <1>12
<1> QED BY <1>8, <1>13, <1>14, <1>15, <1>16, <1>17 DEF Grown

\* Before the first segment the file ends where the streams begin, and later
\* behind them.
LEMMA FileSizeBound ==
  ASSUME segments \in Segments, fileSize \in Nat, Layout
  PROVE  fileSize >= Preallocated
<1>1. CASE segments = <<>>
  BY <1>1, Sizes DEF Layout, EmptyFile
<1>2. CASE segments # <<>>
  <2> DEFINE m == Len(segments)
  <2>1. m \in DOMAIN segments
    BY <1>2 DEF Segments
  <2>2. fileSize = segments[m].origin + segments[m].size
    BY <1>2 DEF Layout, SegmentsApart, Last
  <2>3. segments[m].origin >= BodyOffset + PackSize
    BY <2>1 DEF Layout, SegmentsApart
  <2>4. segments[m].origin \in Nat /\ segments[m].size \in Nat
    BY <2>1, SegmentType
  <2> HIDE DEF m
  <2> QED BY <2>2, <2>3, <2>4, Sizes DEF BodyOffset
<1> QED BY <1>1, <1>2

\* Whatever the growth, and when there is none.
LEMMA StreamGrowKeeps ==
  ASSUME segments \in Segments, fileSize \in Nat, Layout, Covered,
         NEW sid \in Sids, NEW growBytes \in Int, StreamGrow(sid, growBytes)
  PROVE  Grown(sid, growBytes)
<1>1. CASE growBytes > 0
  <2>1. growBytes \in Nat \ {0}
    BY <1>1
  <2>2. CASE GrowInPlace(sid, growBytes)
    BY <2>1, <2>2, GrowInPlaceKeeps
  <2>3. CASE GrowBySegment(sid, growBytes)
    BY <2>1, <2>3, FileSizeBound, GrowBySegmentKeeps
  <2> QED BY <1>1, <2>2, <2>3 DEF StreamGrow
<1>2. CASE growBytes <= 0
  <2>1. segments' = segments /\ fileSize' = fileSize
    BY <1>2 DEF StreamGrow
  <2>2. Layout'
    BY <2>1 DEF Layout, SegmentsApart, EmptyFile, EndOf
  <2>3. \A s \in Sids : Own(s)' = Own(s)
    BY <2>1 DEF Own
  <2>4. \A s \in Sids : AllocatedSize(s)' = AllocatedSize(s)
    <3> SUFFICES ASSUME NEW s \in Sids PROVE AllocatedSize(s)' = AllocatedSize(s)
      OBVIOUS
    <3>1. LastOf(s)' = LastOf(s) /\ IsCreated(s)' = IsCreated(s)
      BY <2>3 DEF LastOf, IsCreated
    <3> QED BY <2>1, <3>1 DEF AllocatedSize
  <2>5. \A s \in Sids : AllocatedSize(s) \in Nat
    BY AllocatedSizeType
  <2>6. Covered'
    BY <2>1, <2>3, <2>4 DEF Covered, HasPosition
  <2>7. SegmentsKept
    BY <2>1, <2>3 DEF SegmentsKept, HasPosition
  <2> QED BY <1>2, <2>1, <2>2, <2>4, <2>5, <2>6, <2>7 DEF Grown
<1> QED BY <1>1, <1>2

\* The segments lie in the file, and no address is in two of them.
Placed ==
  /\ \A i \in DOMAIN segments : segments[i].origin + segments[i].size <= fileSize
  /\ \A i, j \in DOMAIN segments : \A a \in Int :
       IsWithin(segments[i], a) /\ IsWithin(segments[j], a) => i = j

SegmentsTyped == segments \in Segments

AllocatedTyped == \A sid \in Sids : AllocatedSize(sid) \in Nat

\* What is allocated is a natural number for every stream.
LEMMA AllocatedSizesTyped == SegmentsTyped => AllocatedTyped
BY AllocatedSizeType DEF SegmentsTyped, AllocatedTyped

\* Every segment is within the file and behind the metadata.
LEMMA SegmentsPlaced == SegmentsTyped /\ fileSize \in Nat /\ Layout => Placed
<1> SUFFICES ASSUME segments \in Segments, fileSize \in Nat, Layout PROVE Placed
  BY DEF SegmentsTyped
<1>1. KL \in Nat /\ Zone \in Nat /\ PackSize \in Nat
  BY Sizes
<1>2. ASSUME NEW i \in DOMAIN segments
      PROVE  segments[i].origin + segments[i].size <= fileSize
  <2> DEFINE m == Len(segments)
  <2>1. m \in DOMAIN segments /\ segments # <<>> /\ i \in Nat /\ m \in Nat /\ i <= m
    BY SegmentType DEF Segments
  <2>2. fileSize = segments[m].origin + segments[m].size
    BY <2>1 DEF Layout, SegmentsApart, Last
  <2>3. CASE i # m
    <3>1. segments[m].origin >= segments[i].origin + segments[i].size + Zone + PackSize
      BY <2>1, <2>3 DEF Layout, SegmentsApart, EndOf
    <3>2. /\ segments[i].origin \in Nat /\ segments[i].size \in Nat
          /\ segments[m].origin \in Nat /\ segments[m].size \in Nat
      BY <2>1, SegmentType
    <3> HIDE DEF m
    <3> QED BY <1>1, <2>2, <3>1, <3>2
  <2>4. CASE i = m
    <3>1. segments[m].origin \in Nat /\ segments[m].size \in Nat
      BY <2>1, SegmentType
    <3> QED BY <2>2, <2>4, <3>1
  <2> QED BY <2>3, <2>4
<1>3. ASSUME NEW i \in DOMAIN segments, NEW j \in DOMAIN segments, NEW a \in Int, i < j,
             IsWithin(segments[i], a)
      PROVE  ~ IsWithin(segments[j], a)
  <2>1. segments[j].origin >= segments[i].origin + segments[i].size + Zone + PackSize
    BY <1>3 DEF Layout, SegmentsApart, EndOf
  <2>2. /\ segments[i].origin \in Nat /\ segments[i].size \in Nat
        /\ segments[j].origin \in Nat /\ segments[j].size \in Nat
    BY SegmentType
  <2> QED BY <1>1, <1>3, <2>1, <2>2 DEF IsWithin
<1>4. \A i, j \in DOMAIN segments : i < j \/ j < i \/ i = j
  BY SegmentType
<1> QED BY <1>2, <1>3, <1>4 DEF Placed

-----------------------------------------------------------------------------
(* One lemma per action. *)

\* What the bound on addresses leaves.
LEMMA RoomAtTheEnd ==
  ASSUME NEW n \in Nat, n + Zone + PackSize <= LastAddress
  PROVE  n <= LastAddress
<1>1. Zone \in Nat /\ PackSize \in Nat /\ LastAddress \in Nat
  BY Sizes
<1> QED BY <1>1

\* Where the position of a stream is: inside its segment, at an address.
LEMMA PositionAddress ==
  ASSUME NEW S \in Segments, NEW i \in DOMAIN S, NEW p \in Nat, HasPosition(S[i], p)
  PROVE  /\ p - S[i].start + S[i].origin \in Nat
         /\ IsWithin(S[i], p - S[i].start + S[i].origin)
         /\ PositionAt(S[i], p - S[i].start + S[i].origin) = p
<1>1. S[i].start \in Nat /\ S[i].size \in Nat /\ S[i].origin \in Nat
  BY SegmentTypeOf
<1> QED BY <1>1 DEF HasPosition, IsWithin, PositionAt

\* A write keeps the invariant.
LEMMA WriteStreamAtKeeps ==
  ASSUME IInv, NEW sid \in Sids, NEW position \in Nat, NEW byteCount \in Nat \ {0},
         WriteStreamAt(sid, position, byteCount)
  PROVE  IInv'
<1> DEFINE written == position .. position + byteCount - 1
<1>1. /\ segments \in Segments /\ fileSize \in Nat /\ size \in [Sids -> Nat]
      /\ disk \in [Addresses -> {Blank, Metadata, Fill, Pack} \cup (Sids \X Nat)]
      /\ \A s \in Sids : size[s] <= AllocatedSize(s)
      /\ \A s \in Sids : AllocatedSize(s) \in Nat
  BY AllocatedSizeType DEF IInv, TypeOK, Segments, Segment
<1>2. position + byteCount - AllocatedSize(sid) \in Int
  BY <1>1
<1>3. Grown(sid, position + byteCount - AllocatedSize(sid))
  BY <1>1, <1>2, StreamGrowKeeps DEF IInv, WriteStreamAt
<1>4. /\ segments' \in Segments /\ fileSize' \in Nat /\ Layout' /\ Covered' /\ SegmentsKept
      /\ \A s \in Sids : AllocatedSize(s)' >= AllocatedSize(s)
      /\ AllocatedSize(sid)' >= AllocatedSize(sid) + (position + byteCount - AllocatedSize(sid))
  BY <1>3 DEF Grown
<1>5. \A s \in Sids : AllocatedSize(s)' \in Nat
  <2>1. SegmentsTyped'
    BY <1>4 DEF SegmentsTyped
  <2>2. AllocatedTyped'
    BY <2>1, AllocatedSizesTyped, PTL
  <2> QED BY <2>2 DEF AllocatedTyped
<1>6. Bounded'
  <2>1. fileSize' + Zone + PackSize <= LastAddress
    BY DEF WriteStreamAt, InBounds
  <2>2. fileSize' <= LastAddress
    <3>1. fileSize' \in Nat
      BY <1>4
    <3> QED BY <2>1, <3>1, RoomAtTheEnd
  <2> QED BY <2>2 DEF Bounded
<1>7. Placed'
  <2>1. (SegmentsTyped /\ fileSize \in Nat /\ Layout)'
    BY <1>4 DEF SegmentsTyped
  <2> QED BY <2>1, SegmentsPlaced, PTL
<1>8. /\ size' \in [Sids -> Nat]
      /\ \A s \in Sids : s # sid => size'[s] = size[s]
      /\ size'[sid] = IF position + byteCount > size[sid] THEN position + byteCount ELSE size[sid]
  BY <1>1 DEF WriteStreamAt
<1>9. \A s \in Sids : size'[s] <= AllocatedSize(s)'
  <2> SUFFICES ASSUME NEW s \in Sids PROVE size'[s] <= AllocatedSize(s)'
    OBVIOUS
  <2>1. CASE s # sid
    BY <1>1, <1>4, <1>5, <1>8, <2>1
  <2>2. CASE s = sid
    BY <1>1, <1>4, <1>5, <1>8, <2>2
  <2> QED BY <2>1, <2>2
<1>10. disk' = [a \in Addresses |->
         IF \E i \in Own(sid)' :
              IsWithin(segments'[i], a) /\ PositionAt(segments'[i], a) \in written
         THEN LET at == CHOOSE i \in Own(sid)' : IsWithin(segments'[i], a)
              IN  <<sid, PositionAt(segments'[at], a)>>
         ELSE disk[a]]
  BY DEF WriteStreamAt
\* The segment an address is in is the one the write finds.
<1>11. ASSUME NEW i \in DOMAIN segments', NEW a \in Addresses, IsWithin(segments'[i], a)
       PROVE  disk'[a] = IF segments'[i].sid = sid /\ PositionAt(segments'[i], a) \in written
                         THEN <<sid, PositionAt(segments'[i], a)>> ELSE disk[a]
  <2>1. a \in Int
    BY Sizes DEF Addresses
  <2>2. \A j \in DOMAIN segments' : IsWithin(segments'[j], a) => j = i
    BY <1>7, <1>11, <2>1 DEF Placed
  <2>3. \A j \in Own(sid)' : j \in DOMAIN segments' /\ segments'[j].sid = sid
    BY DEF Own
  <2>4. segments'[i].sid = sid => i \in Own(sid)'
    BY DEF Own
  <2>5. CASE segments'[i].sid = sid /\ PositionAt(segments'[i], a) \in written
    <3>1. i = CHOOSE k \in Own(sid)' : IsWithin(segments'[k], a)
      BY <1>11, <2>2, <2>3, <2>4, <2>5
    <3>2. \E j \in Own(sid)' : IsWithin(segments'[j], a) /\ PositionAt(segments'[j], a) \in written
      BY <1>11, <2>4, <2>5
    <3> HIDE DEF written
    <3> QED BY <1>10, <2>5, <3>1, <3>2
  <2>6. CASE ~ (segments'[i].sid = sid /\ PositionAt(segments'[i], a) \in written)
    <3>1. ~ \E j \in Own(sid)' : IsWithin(segments'[j], a) /\ PositionAt(segments'[j], a) \in written
      BY <2>2, <2>3, <2>6
    <3> HIDE DEF written
    <3> QED BY <1>10, <2>6, <3>1
  <2> QED BY <2>5, <2>6
<1>12. disk' \in [Addresses -> {Blank, Metadata, Fill, Pack} \cup (Sids \X Nat)]
  <2> SUFFICES ASSUME NEW a \in Addresses
               PROVE  disk'[a] \in {Blank, Metadata, Fill, Pack} \cup (Sids \X Nat)
    BY <1>10
  <2>1. CASE \E i \in Own(sid)' :
               IsWithin(segments'[i], a) /\ PositionAt(segments'[i], a) \in written
    <3>1. PICK i \in Own(sid)' :
            IsWithin(segments'[i], a) /\ PositionAt(segments'[i], a) \in written
      BY <2>1
    <3>2. i \in DOMAIN segments' /\ segments'[i].sid = sid
      BY DEF Own
    <3>3. disk'[a] = <<sid, PositionAt(segments'[i], a)>>
      BY <1>11, <3>1, <3>2
    <3>4. PositionAt(segments'[i], a) \in Nat
      BY <3>1
    <3> QED BY <3>3, <3>4
  <2>2. CASE ~ \E i \in Own(sid)' :
               IsWithin(segments'[i], a) /\ PositionAt(segments'[i], a) \in written
    <3>1. disk'[a] = disk[a]
      BY <1>10, <2>2, Zenon
    <3> QED BY <1>1, <3>1
  <2> QED BY <2>1, <2>2
<1>13. TypeOK'
  <2>1. ReaderTyped'
    BY ReaderStartsOver DEF WriteStreamAt
  <2> QED BY <1>4, <1>8, <1>9, <1>12, <2>1
          DEF TypeOK, WriteStreamAt, IInv, Segments, Segment, ReaderTyped
<1>14. StreamIntact'
  <2> SUFFICES ASSUME NEW s \in Sids, NEW p \in 0 .. size'[s] - 1
               PROVE  /\ \E i \in Own(s)' : HasPosition(segments'[i], p)
                      /\ \A i \in Own(s)' : HasPosition(segments'[i], p) =>
                           disk'[p - segments'[i].start + segments'[i].origin] = <<s, p>>
    BY DEF StreamIntact
  <2>1. p \in Nat /\ p \in 0 .. AllocatedSize(s)' - 1
    BY <1>5, <1>8, <1>9
  <2>2. \E i \in Own(s)' : HasPosition(segments'[i], p)
    BY <1>4, <2>1 DEF Covered
  <2>3. ASSUME NEW i \in Own(s)', HasPosition(segments'[i], p)
        PROVE  disk'[p - segments'[i].start + segments'[i].origin] = <<s, p>>
    <3> DEFINE a == p - segments'[i].start + segments'[i].origin
    <3>1. i \in DOMAIN segments' /\ segments'[i].sid = s
      BY DEF Own
    <3>2. a \in Nat /\ IsWithin(segments'[i], a) /\ PositionAt(segments'[i], a) = p
      BY <1>4, <2>1, <2>3, <3>1, PositionAddress
    <3>3. a < fileSize' /\ fileSize' <= LastAddress
      <4>1. segments'[i].origin + segments'[i].size <= fileSize'
        BY <1>7, <3>1 DEF Placed
      <4>2. segments' # <<>>
        BY <3>1
      <4> QED BY <1>4, <1>6, <3>1, <3>2, <4>1, <4>2, SegmentTypeOf DEF IsWithin, Bounded
    <3>4. a \in Addresses
      BY <1>4, <3>2, <3>3, Sizes DEF Addresses
    <3> HIDE DEF a
    <3>5. CASE s = sid /\ p \in written
      BY <1>11, <3>1, <3>2, <3>4, <3>5 DEF a
    <3>6. CASE ~ (s = sid /\ p \in written)
      <4>1. disk'[a] = disk[a]
        BY <1>11, <3>1, <3>2, <3>4, <3>6
      <4>2. p < size[s]
        BY <1>1, <1>8, <2>1, <3>6 DEF WriteStreamAt
      <4>3. p \in 0 .. AllocatedSize(s) - 1 /\ p \in 0 .. size[s] - 1
        BY <1>1, <2>1, <4>2
      <4>4. i \in Own(s) /\ HasPosition(segments[i], p)
        BY <1>4, <2>3, <4>3 DEF SegmentsKept
      <4>5. a = p - segments[i].start + segments[i].origin
        BY <1>4, <4>4 DEF SegmentsKept, Own, a
      <4>6. disk[a] = <<s, p>>
        BY <4>3, <4>4, <4>5 DEF IInv, StreamIntact
      <4> QED BY <4>1, <4>6 DEF a
    <3> QED BY <3>5, <3>6 DEF a
  <2> QED BY <2>2, <2>3
<1> QED BY <1>4, <1>6, <1>13, <1>14 DEF IInv

\* Setting the size of a stream keeps the invariant.
LEMMA StreamSetSizeKeeps ==
  ASSUME IInv, NEW sid \in Sids, NEW newSize \in Nat, StreamSetSize(sid, newSize)
  PROVE  IInv'
<1>1. /\ segments \in Segments /\ fileSize \in Nat /\ size \in [Sids -> Nat]
      /\ \A s \in Sids : size[s] <= AllocatedSize(s)
      /\ \A s \in Sids : AllocatedSize(s) \in Nat
  BY AllocatedSizeType DEF IInv, TypeOK, Segments, Segment
<1>2. disk' = disk /\ partitions' = partitions /\ saved' = FALSE /\ ReaderTyped'
  BY ReaderStartsOver DEF StreamSetSize
<1>3. CASE IsCreated(sid) /\ newSize <= size[sid]
  <2>1. /\ size' = [size EXCEPT ![sid] = newSize]
        /\ segments' = segments /\ fileSize' = fileSize /\ failed' = failed
    BY <1>3 DEF StreamSetSize
  <2>2. \A s \in Sids : size'[s] \in Nat /\ size'[s] <= size[s]
    BY <1>1, <1>3, <2>1
  <2>3. \A s \in Sids : Own(s)' = Own(s)
    BY <2>1 DEF Own
  <2>4. \A s \in Sids : AllocatedSize(s)' = AllocatedSize(s)
    <3> SUFFICES ASSUME NEW s \in Sids PROVE AllocatedSize(s)' = AllocatedSize(s)
      OBVIOUS
    <3>1. LastOf(s)' = LastOf(s) /\ IsCreated(s)' = IsCreated(s)
      BY <2>3 DEF LastOf, IsCreated
    <3> QED BY <2>1, <3>1 DEF AllocatedSize
  <2>5. \A s \in Sids : size'[s] <= AllocatedSize(s)'
    BY <1>1, <2>2, <2>4
  <2>6. TypeOK'
    BY <1>2, <2>1, <2>2, <2>5 DEF IInv, TypeOK, ReaderTyped
  <2>7. Layout' /\ Bounded' /\ Covered'
    BY <2>1, <2>3, <2>4
       DEF IInv, Layout, SegmentsApart, EmptyFile, EndOf, Bounded, Covered, HasPosition
  <2>8. \A s \in Sids : \A p \in 0 .. size'[s] - 1 : p \in 0 .. size[s] - 1
    BY <1>1, <2>2
  <2>9. StreamIntact'
    BY <1>2, <2>1, <2>3, <2>8 DEF IInv, StreamIntact, HasPosition
  <2> QED BY <2>6, <2>7, <2>9 DEF IInv
<1>4. CASE ~ (IsCreated(sid) /\ newSize <= size[sid])
  <2>1. /\ StreamGrow(sid, newSize - size[sid])
        /\ size' = size /\ failed' \in {"none", "grow"}
        /\ InBounds
    BY <1>4 DEF StreamSetSize
  <2>2. Grown(sid, newSize - size[sid])
    <3>1. newSize - size[sid] \in Int
      BY <1>1
    <3> QED BY <1>1, <2>1, <3>1, StreamGrowKeeps DEF IInv
  <2>3. /\ segments' \in Segments /\ fileSize' \in Nat /\ Layout' /\ Covered' /\ SegmentsKept
        /\ \A s \in Sids : AllocatedSize(s)' >= AllocatedSize(s)
    BY <2>2 DEF Grown
  <2>4. \A s \in Sids : AllocatedSize(s)' \in Nat
    <3>1. SegmentsTyped'
      BY <2>3 DEF SegmentsTyped
    <3>2. AllocatedTyped'
      BY <3>1, AllocatedSizesTyped, PTL
    <3> QED BY <3>2 DEF AllocatedTyped
  <2>5. \A s \in Sids : size'[s] <= AllocatedSize(s)'
    BY <1>1, <2>1, <2>3, <2>4
  <2>6. TypeOK'
    BY <1>2, <2>1, <2>3, <2>5 DEF IInv, TypeOK, Segments, Segment, ReaderTyped
  <2>7. Bounded'
    <3>1. fileSize' + Zone + PackSize <= LastAddress
      BY <2>1 DEF InBounds
    <3>2. fileSize' <= LastAddress
      <4>1. fileSize' \in Nat
        BY <2>3
      <4> QED BY <3>1, <4>1, RoomAtTheEnd
    <3> QED BY <3>2 DEF Bounded
  <2>8. StreamIntact'
    <3> SUFFICES ASSUME NEW s \in Sids, NEW p \in 0 .. size[s] - 1
                 PROVE  /\ \E i \in Own(s)' : HasPosition(segments'[i], p)
                        /\ \A i \in Own(s)' : HasPosition(segments'[i], p) =>
                             disk[p - segments'[i].start + segments'[i].origin] = <<s, p>>
      BY <1>2, <2>1 DEF StreamIntact
    <3>1. p \in Nat /\ p \in 0 .. AllocatedSize(s) - 1
      BY <1>1
    <3>2. PICK k \in Own(s) : HasPosition(segments[k], p)
      BY DEF IInv, StreamIntact
    <3>3. k \in Own(s)' /\ HasPosition(segments'[k], p)
      BY <2>3, <3>1, <3>2 DEF SegmentsKept
    <3>4. ASSUME NEW i \in Own(s)', HasPosition(segments'[i], p)
          PROVE  disk[p - segments'[i].start + segments'[i].origin] = <<s, p>>
      <4>1. i \in Own(s) /\ HasPosition(segments[i], p)
        BY <2>3, <3>1, <3>4 DEF SegmentsKept
      <4>2. segments'[i].start = segments[i].start /\ segments'[i].origin = segments[i].origin
        BY <2>3, <4>1 DEF SegmentsKept, Own
      <4> QED BY <4>1, <4>2 DEF IInv, StreamIntact
    <3> QED BY <3>3, <3>4
  <2> QED BY <2>3, <2>6, <2>7, <2>8 DEF IInv
<1> QED BY <1>3, <1>4

\* Metadata that fits ends, with its fill, where the first pack goes.
LEMMA MetadataEndsAtBody ==
  ASSUME MetadataFits, NEW m \in MetadataSizes
  PROVE  MetadataEnd(m) = BodyOffset /\ BodyOffset \in Nat \ {0} /\ m \in Nat /\ m < BodyOffset
<1>1. /\ m \in Nat /\ KL \in Nat /\ BodyOffset \in Nat \ {0}
      /\ m + KL < BodyOffset
  BY Sizes DEF MetadataFits, BodyOffset
<1> DEFINE b == BodyOffset
           r == m + KL
<1>2. b \in Nat \ {0} /\ r \in 0 .. b - 1
  BY <1>1
<1> HIDE DEF b, r
<1>3. (0 * b + r) \div b = 0
  BY <1>2, Quotient
<1>4. 0 * b + r = r
  BY <1>2
<1>5. (r \div b + 1) * b = b
  BY <1>2, <1>3, <1>4
<1>6. MetadataEnd(m) = BodyOffset
  BY <1>5 DEF MetadataEnd, b, r
<1> QED BY <1>1, <1>6

\* Where the packs go: after the segment before, and none is negative.
LEMMA PackPositionType ==
  ASSUME IInv, MetadataFits, NEW m \in MetadataSizes, NEW j \in DOMAIN segments
  PROVE  /\ PackPosition(j, m) \in Nat
         /\ j = 1 => PackPosition(j, m) = BodyOffset
         /\ j # 1 => j - 1 \in DOMAIN segments /\ PackPosition(j, m) = EndOf(segments[j - 1])
<1>1. segments \in Segments
  BY DEF IInv, TypeOK, Segments, Segment
<1>2. j \in 1 .. Len(segments) /\ DOMAIN segments = 1 .. Len(segments)
  BY <1>1, SegmentType DEF Segments
<1>3. CASE j = 1
  BY <1>3, MetadataEndsAtBody DEF PackPosition
<1>4. CASE j # 1
  <2>1. j - 1 \in DOMAIN segments
    BY <1>1, <1>2, <1>4, SegmentType
  <2>2. EndOf(segments[j - 1]) \in Nat
    BY <1>1, <2>1, SegmentType, Sizes DEF EndOf
  <2> QED BY <1>4, <2>1, <2>2 DEF PackPosition
<1> QED BY <1>3, <1>4

\* The footer is where the last segment ends.
LEMMA FooterPositionType ==
  ASSUME IInv, MetadataFits, NEW m \in MetadataSizes
  PROVE  /\ FooterPosition(m) \in Nat
         /\ segments # <<>> =>
              /\ Len(segments) \in DOMAIN segments
              /\ FooterPosition(m) = EndOf(segments[Len(segments)])
<1>1. segments \in Segments
  BY DEF IInv, TypeOK, Segments, Segment
<1>2. CASE segments = <<>>
  BY <1>2, MetadataEndsAtBody DEF FooterPosition
<1>3. CASE segments # <<>>
  <2>1. Len(segments) \in DOMAIN segments
    BY <1>1, <1>3 DEF Segments
  <2>2. EndOf(segments[Len(segments)]) \in Nat
    BY <1>1, <2>1, SegmentType, Sizes DEF EndOf
  <2> QED BY <1>3, <2>1, <2>2 DEF FooterPosition, Last
<1> QED BY <1>2, <1>3

\* A save that succeeds writes over no content.
LEMMA SavedDiskKeepsContent ==
  ASSUME IInv, MetadataFits, NEW m \in MetadataSizes,
         NEW i \in DOMAIN segments, NEW a \in Addresses, IsWithin(segments[i], a),
         PositionAt(segments[i], a) < size[segments[i].sid]
  PROVE  SavedDisk(m)[a] = disk[a]
<1> DEFINE seg == segments[i]
           packs == {q.address : q \in ToSet(Packs(m))} \cup {FooterPosition(m)}
<1>1. segments \in Segments /\ size \in [Sids -> Nat] /\ segments # <<>>
  BY DEF IInv, TypeOK, Segments, Segment
<1>2. /\ a \in Int /\ Zone \in Nat /\ PackSize \in Nat \ {0}
  BY Sizes DEF Addresses
<1>3. \A j \in DOMAIN segments :
        /\ segments[j].origin \in Nat /\ segments[j].size \in Nat /\ segments[j].start \in Nat
        /\ segments[j].sid \in Sids /\ j \in Nat /\ EndOf(segments[j]) \in Nat
        /\ EndOf(segments[j]) = segments[j].origin + segments[j].size + Zone
  BY <1>1, <1>2, SegmentType DEF EndOf
<1>4. /\ a >= seg.origin /\ a < seg.origin + seg.size
      /\ a - seg.origin + seg.start < size[seg.sid]
  BY DEF IsWithin, PositionAt
<1> HIDE DEF seg
\* What is before the segment and what is behind it.
<1>5. \A j \in DOMAIN segments : j < i => EndOf(segments[j]) + PackSize <= a
  <2> TAKE j \in DOMAIN segments
  <2> HAVE j < i
  <2>1. seg.origin >= EndOf(segments[j]) + PackSize
    BY DEF IInv, Layout, SegmentsApart, seg
  <2> QED BY <1>2, <1>3, <1>4, <2>1 DEF seg
<1>6. \A j \in DOMAIN segments : j > i => segments[j].origin > a
  <2> TAKE j \in DOMAIN segments
  <2> HAVE j > i
  <2>1. segments[j].origin >= EndOf(seg) + PackSize
    BY <1>3 DEF IInv, Layout, SegmentsApart, seg
  <2> QED BY <1>2, <1>3, <1>4, <2>1 DEF seg
<1>7. a < EndOf(seg) /\ \A j \in DOMAIN segments : j > i => a < EndOf(segments[j])
  BY <1>2, <1>3, <1>4, <1>6 DEF seg
<1>8. a >= BodyOffset + PackSize /\ a > m /\ BodyOffset \in Nat /\ m \in Nat
  <2>1. seg.origin >= BodyOffset + PackSize
    BY DEF IInv, Layout, SegmentsApart, seg
  <2> QED BY <1>2, <1>3, <1>4, <2>1, MetadataEndsAtBody DEF seg
\* A pack is before the segment or behind it.
<1>9. ASSUME NEW j \in DOMAIN segments
      PROVE  /\ a \notin PackPosition(j, m) .. PackPosition(j, m) + PackSize - 1
             /\ a \notin PackPosition(j, m) .. segments[j].origin - 1
  <2>1. CASE j = 1
    <3>1. PackPosition(j, m) = BodyOffset
      BY <2>1, PackPositionType
    <3>2. segments[j].origin <= a
      <4>1. j <= i
        BY <1>1, <2>1, SegmentType
      <4>2. CASE j = i
        BY <1>4, <4>2 DEF seg
      <4>3. CASE j < i
        BY <1>2, <1>3, <1>5, <4>3
      <4> QED BY <1>3, <4>1, <4>2, <4>3
    <3> QED BY <1>2, <1>3, <1>8, <3>1, <3>2
  <2>2. CASE j # 1
    <3>1. j - 1 \in DOMAIN segments /\ PackPosition(j, m) = EndOf(segments[j - 1])
      BY <2>2, PackPositionType
    <3>2. CASE j - 1 >= i
      <4>1. a < EndOf(segments[j - 1])
        BY <1>3, <1>7, <3>1, <3>2 DEF seg
      <4> QED BY <1>2, <1>3, <3>1, <4>1
    <3>3. CASE j - 1 < i
      <4>1. EndOf(segments[j - 1]) + PackSize <= a
        BY <1>5, <3>1, <3>3
      <4>2. segments[j].origin <= a
        <5>1. CASE j = i
          BY <1>4, <5>1 DEF seg
        <5>2. CASE j < i
          BY <1>2, <1>3, <1>5, <5>2
        <5> QED BY <1>3, <3>3, <5>1, <5>2
      <4> QED BY <1>2, <1>3, <3>1, <4>1, <4>2
    <3> QED BY <1>3, <3>1, <3>2, <3>3
  <2> QED BY <2>1, <2>2
<1>10. a \notin Packed(m)
  <2>1. \A q \in packs : q = FooterPosition(m) \/ \E j \in DOMAIN segments : q = PackPosition(j, m)
    BY DEF ToSet, Packs
  <2>2. a \notin FooterPosition(m) .. FooterPosition(m) + PackSize - 1
    <3>1. Len(segments) \in DOMAIN segments /\ FooterPosition(m) = EndOf(segments[Len(segments)])
      BY <1>1, FooterPositionType
    <3>2. Len(segments) >= i /\ Len(segments) \in Nat
      BY <1>1, SegmentType
    <3>3. a < FooterPosition(m)
      BY <1>3, <1>7, <3>1, <3>2 DEF seg
    <3> QED BY <1>2, <1>3, <3>1, <3>3
  <2> HIDE DEF packs
  <2>3. \A q \in packs : a \notin q .. q + PackSize - 1
    BY <1>9, <2>1, <2>2, Zenon
  <2> QED BY <2>3 DEF Packed, packs
<1>11. a \notin Aligning(m)
  BY <1>9, Zenon DEF Aligning
<1>12. a \notin Unused
  <2>1. ASSUME NEW j \in DOMAIN segments
        PROVE  a \notin segments[j].origin + ValidSize(segments[j]) .. EndOf(segments[j]) - 1
    <3>1. CASE j = i
      <4>1. ValidSize(seg) \in Nat /\ a < seg.origin + ValidSize(seg)
        <5>1. size[seg.sid] \in Nat
          BY <1>1, <1>3 DEF seg
        <5>2. seg.origin \in Nat /\ seg.size \in Nat /\ seg.start \in Nat
          BY <1>3 DEF seg
        <5> QED BY <1>2, <1>4, <5>1, <5>2 DEF ValidSize
      <4>2. seg.origin \in Nat
        BY <1>3 DEF seg
      <4> QED BY <1>2, <3>1, <4>1, <4>2 DEF seg
    <3>2. CASE j < i
      BY <1>2, <1>3, <1>5, <3>2
    <3>3. CASE j > i
      <4>1. ValidSize(segments[j]) \in Nat
        <5>1. size[segments[j].sid] \in Nat
          BY <1>1, <1>3
        <5> QED BY <1>3, <5>1 DEF ValidSize
      <4> QED BY <1>2, <1>3, <1>6, <3>3, <4>1
    <3> QED BY <1>3, <3>1, <3>2, <3>3
  <2> QED BY <2>1, Zenon DEF Unused
<1>13. a \notin BehindMetadata(m)
  BY <1>2, <1>8, MetadataEndsAtBody DEF BehindMetadata
<1>14. SavedDisk(m)[a] = IF a < m THEN Metadata ELSE disk[a]
  BY <1>10, <1>11, <1>12, <1>13 DEF SavedDisk
<1> QED BY <1>2, <1>8, <1>14

\* A function on 1 .. n is a sequence.
LEMMA FunctionIsSequence ==
  ASSUME NEW T, NEW n \in Nat, NEW f \in [1 .. n -> T]
  PROVE  f \in Seq(T)
OBVIOUS

\* What is on disk after a save, with the assertions of saveStreams or without.
LEMMA SaveWritesDisk ==
  ASSUME IInv, MetadataFits, NEW m \in MetadataSizes, Save(m)
  PROVE  /\ disk' \in [Addresses -> {Blank, Metadata, Fill, Pack} \cup (Sids \X Nat)]
         /\ partitions' \in Seq([address : Nat, sid : Sids \cup {Pack}])
         /\ saved' \in BOOLEAN
         /\ failed' \in {"none", "grow", "exhausted", "order", "origin"}
<1> DEFINE Partition == [address : Nat, sid : Sids \cup {Pack}]
<1>1. /\ disk \in [Addresses -> {Blank, Metadata, Fill, Pack} \cup (Sids \X Nat)]
      /\ partitions \in Seq(Partition) /\ saved \in BOOLEAN /\ segments \in Segments
  BY DEF IInv, TypeOK, Segments, Segment
<1>2. failed' \in {"none", "grow", "exhausted", "order", "origin"}
  BY DEF Save, SaveFailure
<1>3. CASE failed' = "none"
  <2>1. /\ disk' = SavedDisk(m) /\ saved' = TRUE
        /\ partitions' = Packs(m) \o <<[address |-> FooterPosition(m), sid |-> Pack]>>
    BY <1>3 DEF Save
  <2>2. SavedDisk(m) \in [Addresses -> {Blank, Metadata, Fill, Pack} \cup (Sids \X Nat)]
    BY <1>1 DEF SavedDisk
  <2>3. Packs(m) \in Seq(Partition)
    <3>1. \A i \in DOMAIN segments : segments[i].sid \in Sids /\ PackPosition(i, m) \in Nat
      BY <1>1, SegmentType, PackPositionType
    <3>2. DOMAIN segments = 1 .. Len(segments) /\ Len(segments) \in Nat
      BY <1>1 DEF Segments
    <3>3. \A i \in 1 .. Len(segments) :
            [address |-> PackPosition(i, m), sid |-> segments[i].sid] \in Partition
      BY <3>1, <3>2
    <3>4. Packs(m) = [i \in 1 .. Len(segments) |->
                        [address |-> PackPosition(i, m), sid |-> segments[i].sid]]
      BY <3>2 DEF Packs
    <3>5. Packs(m) \in [1 .. Len(segments) -> Partition]
      BY <3>3, <3>4
    <3> HIDE DEF Partition
    <3> QED BY <3>2, <3>5, FunctionIsSequence
  <2>4. [address |-> FooterPosition(m), sid |-> Pack] \in Partition
    BY FooterPositionType
  <2>5. partitions' \in Seq(Partition)
    BY <2>1, <2>3, <2>4
  <2> QED BY <1>2, <2>1, <2>2, <2>5
<1>4. CASE failed' # "none"
  <2>1. /\ disk' = [a \in Addresses |-> IF a < m THEN Metadata ELSE disk[a]]
        /\ partitions' = partitions /\ saved' = saved
    BY <1>4 DEF Save
  <2> QED BY <1>1, <1>2, <2>1
<1> QED BY <1>3, <1>4

\* A save keeps the invariant.
LEMMA SaveKeeps ==
  ASSUME IInv, MetadataFits, NEW m \in MetadataSizes, Save(m)
  PROVE  IInv'
<1>1. /\ segments \in Segments /\ fileSize \in Nat /\ size \in [Sids -> Nat]
      /\ \A s \in Sids : size[s] <= AllocatedSize(s)
  BY DEF IInv, TypeOK, Segments, Segment
<1>2. segments' = segments /\ size' = size /\ fileSize' = fileSize
  BY DEF Save
<1>3. \A s \in Sids : Own(s)' = Own(s)
  BY <1>2 DEF Own
<1>4. \A s \in Sids : AllocatedSize(s)' = AllocatedSize(s)
  <2> SUFFICES ASSUME NEW s \in Sids PROVE AllocatedSize(s)' = AllocatedSize(s)
    OBVIOUS
  <2>1. LastOf(s)' = LastOf(s) /\ IsCreated(s)' = IsCreated(s)
    BY <1>3 DEF LastOf, IsCreated
  <2> QED BY <1>2, <2>1 DEF AllocatedSize
<1>5. TypeOK'
  <2>1. ReaderTyped'
    BY ReaderStartsOver DEF Save
  <2> QED BY <1>1, <1>2, <1>4, <2>1, SaveWritesDisk DEF TypeOK, Segments, Segment, ReaderTyped
<1>6. Layout' /\ Bounded' /\ Covered'
  BY <1>2, <1>3, <1>4
     DEF IInv, Layout, SegmentsApart, EmptyFile, EndOf, Bounded, Covered, HasPosition
<1>7. Placed
  BY <1>1, SegmentsPlaced DEF IInv, SegmentsTyped
<1>8. ASSUME NEW s \in Sids, NEW p \in 0 .. size[s] - 1, NEW i \in Own(s),
             HasPosition(segments[i], p)
      PROVE  disk'[p - segments[i].start + segments[i].origin] = <<s, p>>
  <2> DEFINE a == p - segments[i].start + segments[i].origin
  <2>1. i \in DOMAIN segments /\ segments[i].sid = s
    BY DEF Own
  <2>2. p \in Nat /\ p < size[s]
    BY <1>1
  <2>3. a \in Nat /\ IsWithin(segments[i], a) /\ PositionAt(segments[i], a) = p
    BY <1>1, <1>8, <2>1, <2>2, PositionAddress
  <2>4. disk[a] = <<s, p>>
    BY <1>8 DEF IInv, StreamIntact
  <2>5. a <= LastAddress /\ a >= m
    <3>1. /\ segments[i].origin \in Nat /\ segments[i].size \in Nat
          /\ segments[i].origin + segments[i].size <= fileSize
      BY <1>1, <1>7, <2>1, SegmentType DEF Placed
    <3>2. segments # <<>> /\ fileSize <= LastAddress
      BY <2>1 DEF IInv, Bounded
    <3>3. segments[i].origin >= BodyOffset + PackSize
      BY <2>1 DEF IInv, Layout, SegmentsApart
    <3>4. m \in Nat /\ m < BodyOffset /\ BodyOffset \in Nat /\ PackSize \in Nat
      BY MetadataEndsAtBody, Sizes
    <3>5. a < segments[i].origin + segments[i].size /\ a >= segments[i].origin
      BY <2>3 DEF IsWithin
    <3>6. LastAddress \in Nat
      BY Sizes
    <3> HIDE DEF a
    <3> QED BY <1>1, <2>3, <3>1, <3>2, <3>3, <3>4, <3>5, <3>6
  <2>6. a \in Addresses
    BY <2>3, <2>5, Sizes DEF Addresses
  <2> HIDE DEF a
  <2>7. CASE failed' = "none"
    <3>1. disk' = SavedDisk(m)
      BY <2>7 DEF Save
    <3>2. SavedDisk(m)[a] = disk[a]
      BY <2>1, <2>2, <2>3, <2>6, SavedDiskKeepsContent
    <3> QED BY <2>4, <3>1, <3>2 DEF a
  <2>8. CASE failed' # "none"
    <3>1. disk' = [b \in Addresses |-> IF b < m THEN Metadata ELSE disk[b]]
      BY <2>8 DEF Save
    <3>2. ~ (a < m)
      BY <2>3, <2>5, MetadataEndsAtBody
    <3>3. disk'[a] = disk[a]
      BY <2>6, <3>1, <3>2
    <3> QED BY <2>4, <3>3 DEF a
  <2> QED BY <2>7, <2>8
<1>9. StreamIntact'
  BY <1>2, <1>3, <1>8 DEF IInv, StreamIntact, HasPosition
<1> QED BY <1>5, <1>6, <1>9 DEF IInv

-----------------------------------------------------------------------------
(* The theorems. *)

\* The invariant holds of a new file.
LEMMA InitHolds == Init => IInv
<1> SUFFICES ASSUME Init PROVE IInv
  OBVIOUS
<1>1. segments = <<>> /\ size = [sid \in Sids |-> 0] /\ fileSize = Preallocated
  BY DEF Init
<1>2. \A sid \in Sids : ~ IsCreated(sid) /\ AllocatedSize(sid) = 0
  BY <1>1 DEF Own, IsCreated, AllocatedSize
<1>3. segments \in Segments
  BY <1>1 DEF Segments
<1>4. TypeOK
  <2>1. size \in [Sids -> Nat] /\ fileSize \in Nat
    BY <1>1, Sizes
  <2>2. \A sid \in Sids : size[sid] <= AllocatedSize(sid)
    BY <1>1, <1>2
  <2>3. disk \in [Addresses -> {Blank, Metadata, Fill, Pack} \cup (Sids \X Nat)]
    BY DEF Init
  <2>4. /\ partitions \in Seq([address : Nat, sid : Sids \cup {Pack}])
        /\ saved \in BOOLEAN /\ failed \in {"none", "grow", "exhausted", "order", "origin"}
    <3>1. partitions = <<>> /\ saved = FALSE /\ failed = "none"
      BY DEF Init
    <3>2. \A T : <<>> \in Seq(T)
      OBVIOUS
    <3>3. partitions \in Seq([address : Nat, sid : Sids \cup {Pack}])
      BY <3>1, <3>2
    <3> QED BY <3>1, <3>3
  <2>5. ReaderTyped
    <3>1. restored = <<>> /\ restoredSize = [sid \in Sids |-> 0]
      BY DEF Init
    <3>2. \A T : <<>> \in Seq(T)
      OBVIOUS
    <3>3. restored \in Seq([sid : Sids, start : Int, size : Int, origin : Addresses])
      BY <3>1, <3>2
    <3>4. restoredSize \in [Sids -> Int]
      BY <3>1
    <3> QED BY <3>3, <3>4 DEF ReaderTyped
  <2> QED BY <1>3, <2>1, <2>2, <2>3, <2>4, <2>5 DEF TypeOK, Segments, Segment, ReaderTyped
<1>5. Layout /\ Bounded
  BY <1>1 DEF Layout, SegmentsApart, EmptyFile, Bounded
<1>6. Covered /\ StreamIntact
  BY <1>1, <1>2 DEF Covered, StreamIntact
<1> QED BY <1>4, <1>5, <1>6 DEF IInv

\* A reader changes nothing of the file.
LEMMA ReadingKeeps ==
  ASSUME IInv, UNCHANGED writerVars, ReaderTyped'
  PROVE  IInv'
<1>1. /\ segments' = segments /\ size' = size /\ fileSize' = fileSize /\ disk' = disk
      /\ partitions' = partitions /\ saved' = saved /\ failed' = failed
  BY DEF writerVars
<1>2. \A s \in Sids : Own(s)' = Own(s)
  BY <1>1 DEF Own
<1>3. \A s \in Sids : AllocatedSize(s)' = AllocatedSize(s)
  <2> SUFFICES ASSUME NEW s \in Sids PROVE AllocatedSize(s)' = AllocatedSize(s)
    OBVIOUS
  <2>1. LastOf(s)' = LastOf(s) /\ IsCreated(s)' = IsCreated(s)
    BY <1>2 DEF LastOf, IsCreated
  <2> QED BY <1>1, <2>1 DEF AllocatedSize
<1>4. TypeOK'
  BY <1>1, <1>3 DEF IInv, TypeOK, ReaderTyped
<1> QED BY <1>1, <1>2, <1>3, <1>4
        DEF IInv, Layout, SegmentsApart, EmptyFile, EndOf, Bounded, Covered, StreamIntact,
            HasPosition

\* What a reader has restored keeps its types.
LEMMA RestorePartitionTyped ==
  ASSUME IInv, RestorePartition
  PROVE  ReaderTyped' /\ UNCHANGED writerVars
<1> DEFINE i == Len(restored) + 1
           Found == [sid : Sids, start : Int, size : Int, origin : Addresses]
           Partition == [address : Nat, sid : Sids \cup {Pack}]
<1>1. restored \in Seq(Found) /\ restoredSize \in [Sids -> Int] /\ partitions \in Seq(Partition)
  BY DEF IInv, TypeOK
<1>2. PICK a \in Addresses :
        /\ restored' = Append(restored, RestoredSegment(i, a))
        /\ restoredSize' = [restoredSize EXCEPT ![partitions[i].sid] = @ + Occupied(i, a)]
  BY DEF RestorePartition
<1>3. i < Len(partitions) /\ partitions[i].sid # Pack /\ UNCHANGED writerVars
  BY DEF RestorePartition
<1> HIDE DEF Found, Partition
<1>4. i \in 1 .. Len(partitions) /\ i + 1 \in 1 .. Len(partitions)
  BY <1>1, <1>3
<1>5. partitions[i] \in Partition /\ partitions[i + 1] \in Partition
  BY <1>1, <1>4
<1>6. /\ partitions[i].sid \in Sids /\ partitions[i].address \in Nat
      /\ partitions[i + 1].address \in Nat /\ a \in Int /\ PackSize \in Int
  BY <1>3, <1>5, Sizes DEF Partition, Addresses
<1>7. \A s \in Sids : RestoredEnd(s) \in Int
  <2> SUFFICES ASSUME NEW s \in Sids PROVE RestoredEnd(s) \in Int
    OBVIOUS
  <2>1. CASE RestoredOf(s) # {}
    <3> DEFINE last == CHOOSE j \in RestoredOf(s) : \A k \in RestoredOf(s) : k <= j
    <3>1. RestoredOf(s) \subseteq 1 .. Len(restored) /\ Len(restored) \in Nat
      BY <1>1 DEF RestoredOf
    <3>2. \E j \in RestoredOf(s) : \A k \in RestoredOf(s) : k <= j
      BY <2>1, <3>1, GreatestIndex
    <3>3. last \in 1 .. Len(restored)
      BY <3>1, <3>2
    <3> HIDE DEF last
    <3>4. restored[last] \in Found
      BY <1>1, <3>3
    <3>5. restored[last].start \in Int /\ restored[last].size \in Int
      BY <3>4 DEF Found
    <3> QED BY <2>1, <3>5 DEF RestoredEnd, last
  <2>2. CASE RestoredOf(s) = {}
    BY <2>2 DEF RestoredEnd
  <2> QED BY <2>1, <2>2
<1>8. RestoredSegment(i, a) \in Found
  BY <1>6, <1>7 DEF RestoredSegment, Found
<1> HIDE DEF i
<1>9. Occupied(i, a) \in Int
  <2> DEFINE next == partitions[i + 1].address
             free == IF next = a THEN a - (partitions[i].address + PackSize) ELSE 0
  <2>1. next \in Int /\ free \in Int
    BY <1>6
  <2>2. Occupied(i, a) = next - a - free
    BY DEF Occupied
  <2> HIDE DEF next, free
  <2> QED BY <1>6, <2>1, <2>2
<1>10. restored' \in Seq(Found)
  BY <1>1, <1>2, <1>8
<1>11. restoredSize' \in [Sids -> Int]
  BY <1>1, <1>2, <1>6, <1>9
<1> QED BY <1>3, <1>10, <1>11 DEF ReaderTyped, Found

\* Every step keeps the invariant.
LEMMA NextKeeps == ASSUME MetadataFits PROVE IInv /\ [Next]_vars => IInv'
<1> SUFFICES ASSUME IInv, [Next]_vars PROVE IInv'
  OBVIOUS
<1>1. ASSUME NEW sid \in Sids, NEW byteCount \in WriteCounts, NEW overlap \in Overlaps,
             WriteStreamAt(sid, size[sid] - overlap, byteCount)
      PROVE  IInv'
  <2>1. size[sid] \in Nat /\ size[sid] - overlap \in 0 .. size[sid]
    BY <1>1 DEF WriteStreamAt, IInv, TypeOK
  <2>2. size[sid] - overlap \in Nat /\ byteCount \in Nat \ {0}
    BY <2>1, Sizes
  <2> QED BY <1>1, <2>2, WriteStreamAtKeeps
<1>2. ASSUME NEW sid \in Sids, NEW newSize \in SetSizes, StreamSetSize(sid, newSize)
      PROVE  IInv'
  <2>1. newSize \in Nat
    BY Sizes
  <2> QED BY <1>2, <2>1, StreamSetSizeKeeps
<1>3. ASSUME NEW m \in MetadataSizes, Save(m)
      PROVE  IInv'
  BY <1>3, SaveKeeps
<1>4. CASE RestorePartition
  BY <1>4, RestorePartitionTyped, ReadingKeeps
<1>5. CASE UNCHANGED vars
  <2>1. UNCHANGED writerVars /\ ReaderTyped'
    BY <1>5 DEF vars, readerVars, IInv, TypeOK, ReaderTyped
  <2> QED BY <2>1, ReadingKeeps
<1> QED BY <1>1, <1>2, <1>3, <1>4, <1>5 DEF Next

\* The invariant holds for ever.
LEMMA Invariance == ASSUME MetadataFits PROVE Spec => []IInv
<1>1. Init => IInv
  BY InitHolds
<1>2. IInv /\ [Next]_vars => IInv'
  BY NextKeeps
<1> QED BY <1>1, <1>2, PTL DEF Spec

\* The variables of the MXF storage keep their types, and no stream is longer
\* than what is allocated for it.
THEOREM TypeCorrect == ASSUME MetadataFits PROVE Spec => []TypeOK
<1>1. IInv => TypeOK
  BY DEF IInv
<1> QED BY <1>1, Invariance, PTL

\* Whatever streams grow in whatever order, their segments never run into each
\* other, and between them is room for the packs that saveStreams writes.
THEOREM SegmentsStayApart == ASSUME MetadataFits PROVE Spec => []SegmentsApart
<1>1. IInv => SegmentsApart
  BY DEF IInv, Layout
<1> QED BY <1>1, Invariance, PTL

\* No byte of a stream is lost or replaced, by writes to other streams, by
\* resizing or by saves, if the metadata fits what is preallocated for it.
THEOREM StreamsStayIntact == ASSUME MetadataFits PROVE Spec => []StreamIntact
<1>1. IInv => StreamIntact
  BY DEF IInv
<1> QED BY <1>1, Invariance, PTL

-----------------------------------------------------------------------------
(* When all streams have one grid, of which the preallocated space is a whole *)
(* number, saveStreams finds the layout it expects.                           *)

OneGridFits(g) ==
  /\ MetadataFits /\ ~ MayEmptyNew
  /\ g \in Nat /\ \A sid \in Sids : Grid[sid] = g
  /\ \E k \in Nat : Preallocated = k * g

SegmentEnd(i) == segments[i].origin + segments[i].size

\* Every segment ends on the grid, and the next one begins a grid further on,
\* less the key and length of its packet.
Aligned(g) ==
  /\ \A i \in DOMAIN segments : \E k \in Nat : SegmentEnd(i) = k * g
  /\ \A i \in DOMAIN segments :
       segments[i].origin = (IF i = 1 THEN Preallocated ELSE SegmentEnd(i - 1)) + g - KL

\* Sums of whole grids are whole grids.
LEMMA WholeGrids ==
  ASSUME NEW g \in Nat, NEW k \in Nat, NEW q \in Nat
  PROVE  /\ k * g + (q + 1) * g = (k + q + 1) * g
         /\ k * g + g + (q + 1) * g = (k + q + 1 + 1) * g
         /\ k * g \in Nat
OBVIOUS

\* A stream grows by whole grids.
LEMMA IncrementIsWhole ==
  ASSUME NEW g, OneGridFits(g), NEW sid \in Sids, NEW growBytes \in Nat \ {0}
  PROVE  \E q \in Nat : Increment(sid, growBytes) = (q + 1) * g
<1>1. g \in Nat \ {0} /\ Grid[sid] = g
  BY Sizes DEF OneGridFits
<1>2. (growBytes - 1) \div g \in Nat
  BY <1>1, QuotientBound
<1> QED BY <1>1, <1>2 DEF Increment

\* Growth ends a segment on the grid, where the alignment of a save arrives.
LEMMA GrowKeepsAligned ==
  ASSUME IInv, NEW g, OneGridFits(g), Aligned(g),
         NEW sid \in Sids, NEW growBytes \in Int, StreamGrow(sid, growBytes)
  PROVE  Aligned(g)'
<1> DEFINE inc == Increment(sid, growBytes)
<1>0. PICK m \in Nat : m = Len(segments)
  BY DEF IInv, TypeOK, Segments
<1>1. /\ segments \in Segments /\ fileSize \in Nat /\ m \in Nat
      /\ DOMAIN segments = 1 .. m
      /\ g \in Nat /\ Grid[sid] = g /\ KL \in Nat
  BY <1>0, Sizes DEF IInv, TypeOK, Segments, Segment, OneGridFits
<1>2. \A i \in DOMAIN segments :
        segments[i].origin \in Nat /\ segments[i].size \in Nat /\ SegmentEnd(i) \in Nat /\ i \in Nat
  BY <1>1, SegmentType DEF SegmentEnd
<1>3. m > 0 => m \in DOMAIN segments /\ fileSize = SegmentEnd(m)
  <2> SUFFICES ASSUME m > 0 PROVE m \in DOMAIN segments /\ fileSize = SegmentEnd(m)
    OBVIOUS
  <2>1. segments # <<>> /\ m \in DOMAIN segments
    BY <1>0, <1>1
  <2> QED BY <1>0, <2>1 DEF IInv, Layout, SegmentsApart, Last, SegmentEnd
<1>4. m = 0 => fileSize = Preallocated
  BY <1>0, <1>1 DEF IInv, Layout, EmptyFile, Segments
<1> HIDE DEF inc
<1>5. PICK k \in Nat : fileSize = k * g
  <2>1. CASE m = 0
    BY <1>4, <2>1 DEF OneGridFits
  <2>2. CASE m > 0
    BY <1>3, <2>2 DEF Aligned
  <2> QED BY <1>1, <2>1, <2>2
<1>6. CASE growBytes > 0 /\ GrowInPlace(sid, growBytes)
  <2>1. growBytes \in Nat \ {0}
    BY <1>6
  <2>2. PICK q \in Nat : inc = (q + 1) * g
    BY <2>1, IncrementIsWhole DEF inc
  <2>3. inc \in Nat
    BY <2>1, IncrementRoundsUp DEF inc
  <2>4. LastOf(sid) = m /\ m \in DOMAIN segments
    <3>1. LastOf(sid) \in DOMAIN segments
      BY <1>1, <1>6, LastOfIsLast DEF GrowInPlace, Own
    <3> QED BY <1>1, <1>6, <3>1, <1>0, LastIsLast DEF GrowInPlace, IInv, Layout
  <2>5. segments' = [segments EXCEPT ![m].size = @ + inc]
    BY <1>6, <2>4 DEF GrowInPlace, inc
  <2>6. /\ DOMAIN segments' = DOMAIN segments
        /\ \A i \in DOMAIN segments : i # m => segments'[i] = segments[i]
        /\ segments'[m].origin = segments[m].origin
        /\ segments'[m].size = segments[m].size + inc
    BY <1>1, <2>4, <2>5, SegmentType DEF Segment
  <2>7. \A i \in DOMAIN segments : i # m => SegmentEnd(i)' = SegmentEnd(i)
    BY <2>6 DEF SegmentEnd
  <2>8. SegmentEnd(m)' = (k + q + 1) * g
    <3>1. segments[m].origin \in Nat /\ segments[m].size \in Nat
      BY <1>2, <2>4
    <3>2. segments[m].origin + (segments[m].size + inc) = SegmentEnd(m) + inc
      BY <2>3, <3>1 DEF SegmentEnd
    <3>3. SegmentEnd(m)' = SegmentEnd(m) + inc
      BY <2>6, <3>2 DEF SegmentEnd
    <3>4. SegmentEnd(m) = k * g
      BY <1>1, <1>3, <1>5, <2>4
    <3> QED BY <1>1, <2>2, <3>3, <3>4, WholeGrids
  <2>9. ASSUME NEW i \in DOMAIN segments
        PROVE  /\ \E l \in Nat : SegmentEnd(i)' = l * g
               /\ segments'[i].origin
                    = (IF i = 1 THEN Preallocated ELSE SegmentEnd(i - 1)') + g - KL
    <3>1. \E l \in Nat : SegmentEnd(i)' = l * g
      <4>1. CASE i = m
        <5>1. k + q + 1 \in Nat
          OBVIOUS
        <5> QED BY <2>8, <4>1, <5>1
      <4>2. CASE i # m
        BY <2>7, <4>2 DEF Aligned
      <4> QED BY <4>1, <4>2
    <3>2. segments'[i].origin = segments[i].origin
      BY <2>6
    <3>3. i # 1 => i - 1 \in DOMAIN segments /\ i - 1 # m
      BY <1>1
    <3>4. i # 1 => SegmentEnd(i - 1)' = SegmentEnd(i - 1)
      BY <2>7, <3>3
    <3> QED BY <3>1, <3>2, <3>4 DEF Aligned
  <2> QED BY <2>6, <2>9 DEF Aligned
<1>7. CASE growBytes > 0 /\ GrowBySegment(sid, growBytes)
  <2> DEFINE added == AddedSegment(sid, growBytes)
  <2>1. growBytes \in Nat \ {0}
    BY <1>7
  <2>2. PICK q \in Nat : inc = (q + 1) * g
    BY <2>1, IncrementIsWhole DEF inc
  <2>3. inc \in Nat
    BY <2>1, IncrementRoundsUp DEF inc
  <2>4. /\ segments' = Append(segments, added)
        /\ added.origin = fileSize + g - KL /\ added.size = inc + KL
    BY <1>1, <1>7 DEF GrowBySegment, AddedSegment, NewOrigin, inc
  <2> HIDE DEF added
  <2>5. /\ DOMAIN segments' = 1 .. m + 1 /\ segments'[m + 1] = added
        /\ \A i \in DOMAIN segments : segments'[i] = segments[i]
    BY <1>0, <1>1, <2>4 DEF Segments
  <2>6. \A i \in DOMAIN segments : SegmentEnd(i)' = SegmentEnd(i)
    BY <2>5 DEF SegmentEnd
  <2>7. SegmentEnd(m + 1)' = (k + q + 1 + 1) * g
    <3>1. added.origin + added.size = fileSize + g + inc
      BY <1>1, <2>3, <2>4
    <3>2. SegmentEnd(m + 1)' = fileSize + g + inc
      BY <2>5, <3>1 DEF SegmentEnd
    <3> QED BY <1>1, <1>5, <2>2, <3>2, WholeGrids
  <2>8. ASSUME NEW i \in 1 .. m + 1
        PROVE  /\ \E l \in Nat : SegmentEnd(i)' = l * g
               /\ segments'[i].origin
                    = (IF i = 1 THEN Preallocated ELSE SegmentEnd(i - 1)') + g - KL
    <3>1. CASE i = m + 1
      <4>1. k + q + 1 + 1 \in Nat
        OBVIOUS
      <4>2. fileSize = IF i = 1 THEN Preallocated ELSE SegmentEnd(i - 1)'
        <5>1. CASE m = 0
          BY <1>4, <3>1, <5>1
        <5>2. CASE m > 0
          <6>1. SegmentEnd(m)' = SegmentEnd(m) /\ fileSize = SegmentEnd(m)
            BY <1>3, <2>6, <5>2
          <6>2. i # 1 /\ i - 1 = m
            BY <1>1, <3>1, <5>2
          <6> QED BY <6>1, <6>2
        <5> QED BY <1>1, <5>1, <5>2
      <4> QED BY <2>4, <2>5, <2>7, <3>1, <4>1, <4>2
    <3>2. CASE i # m + 1
      <4>1. i \in DOMAIN segments
        BY <1>1, <3>2
      <4>2. i # 1 => i - 1 \in DOMAIN segments
        BY <1>1, <4>1
      <4>3. i # 1 => SegmentEnd(i - 1)' = SegmentEnd(i - 1)
        BY <2>6, <4>2
      <4> QED BY <2>5, <2>6, <4>1, <4>3 DEF Aligned
    <3> QED BY <3>1, <3>2
  <2> QED BY <2>5, <2>8 DEF Aligned
<1>8. CASE growBytes <= 0
  BY <1>8 DEF StreamGrow, Aligned, SegmentEnd
<1> QED BY <1>6, <1>7, <1>8 DEF StreamGrow

\* A packet on the next grid follows a pack that begins Zone behind a grid.
LEMMA AlignedBehindGrid ==
  ASSUME NEW g \in Nat, g > Zone + PackSize + KL + KL, NEW k \in Nat
  PROVE  AlignedAfter(k * g + Zone, g) = k * g + g - KL
<1> DEFINE r == Zone + PackSize + KL + KL
<1>1. r \in 0 .. g - 1 /\ g \in Nat \ {0} /\ k * g \in Nat /\ KL \in Nat
  BY Sizes
<1>2. (k * g + Zone) + PackSize + KL + KL = k * g + r
  BY <1>1, Sizes
<1> HIDE DEF r
<1>3. (k * g + r) \div g = k
  BY <1>1, Quotient
<1>4. (k + 1) * g = k * g + g
  BY <1>1
<1> QED BY <1>1, <1>2, <1>3, <1>4 DEF AlignedAfter

\* A save that finds the segments aligned fails nowhere.
LEMMA AlignedSaveSucceeds ==
  ASSUME IInv, NEW g \in Nat, OneGridFits(g), Aligned(g), NEW metadataSize \in MetadataSizes
  PROVE  SaveFailure(metadataSize) = "none"
<1>1. /\ MetadataFits /\ segments \in Segments
      /\ KL \in Nat \ {0} /\ Zone \in Nat /\ PackSize \in Nat \ {0} /\ Preallocated \in Nat
  BY Sizes DEF IInv, TypeOK, Segments, Segment, OneGridFits
<1>2. metadataSize \in Nat /\ BodyOffset \in Nat /\ metadataSize < BodyOffset
  BY <1>1, MetadataEndsAtBody
<1>3. ASSUME NEW i \in DOMAIN segments
      PROVE  /\ segments[i].origin > PackPosition(i, metadataSize)
             /\ segments[i].origin
                  = AlignedAfter(PackPosition(i, metadataSize), Grid[segments[i].sid])
  <2>1. Grid[segments[i].sid] = g /\ g > Zone + PackSize + KL + KL
    <3>1. segments[i].sid \in Sids
      BY <1>1, SegmentType
    <3> QED BY <3>1, Sizes DEF OneGridFits
  <2>2. PICK k \in Nat :
          /\ PackPosition(i, metadataSize) = k * g + Zone
          /\ segments[i].origin = k * g + g - KL
    <3>1. CASE i = 1
      <4>1. PICK k \in Nat : Preallocated = k * g
        BY DEF OneGridFits
      <4>2. PackPosition(i, metadataSize) = BodyOffset
        BY <1>1, <3>1, PackPositionType
      <4> QED BY <3>1, <4>1, <4>2 DEF BodyOffset, Aligned
    <3>2. CASE i # 1
      <4>1. /\ i - 1 \in DOMAIN segments
            /\ PackPosition(i, metadataSize) = EndOf(segments[i - 1])
        BY <1>1, <3>2, PackPositionType
      <4>2. PICK k \in Nat : SegmentEnd(i - 1) = k * g
        BY <4>1 DEF Aligned
      <4>3. EndOf(segments[i - 1]) = SegmentEnd(i - 1) + Zone
        BY DEF EndOf, SegmentEnd
      <4> QED BY <3>2, <4>1, <4>2, <4>3 DEF Aligned
    <3> QED BY <3>1, <3>2
  <2>3. segments[i].origin = AlignedAfter(PackPosition(i, metadataSize), Grid[segments[i].sid])
    BY <2>1, <2>2, AlignedBehindGrid
  <2>4. k * g \in Nat
    OBVIOUS
  <2>5. k * g + g - KL > k * g + Zone
    BY <1>1, <2>1, <2>4
  <2> QED BY <2>2, <2>3, <2>5
<1>4. ~ (metadataSize >= BodyOffset)
  BY <1>2
<1>5. ~ \E i \in DOMAIN segments : segments[i].origin <= PackPosition(i, metadataSize)
  <2>1. \A i \in DOMAIN segments :
          segments[i].origin \in Nat /\ PackPosition(i, metadataSize) \in Nat
    BY <1>1, SegmentType, PackPositionType
  <2> QED BY <1>3, <2>1
<1>6. ~ \E i \in DOMAIN segments :
          segments[i].origin #
            AlignedAfter(PackPosition(i, metadataSize), Grid[segments[i].sid])
  BY <1>3
<1> QED BY <1>4, <1>5, <1>6 DEF SaveFailure

\* Every step keeps segments on the grid, and passes the assertions.
LEMMA AlignmentInvariance ==
  ASSUME NEW CONSTANT g, OneGridFits(g)
  PROVE  IInv /\ Aligned(g) /\ LayoutAgrees /\ [Next]_vars => Aligned(g)' /\ LayoutAgrees'
<1> SUFFICES ASSUME IInv, Aligned(g), LayoutAgrees, [Next]_vars
             PROVE  Aligned(g)' /\ LayoutAgrees'
  OBVIOUS
<1>1. /\ size \in [Sids -> Nat] /\ segments \in Segments /\ g \in Nat
      /\ \A sid \in Sids : AllocatedSize(sid) \in Nat /\ size[sid] <= AllocatedSize(sid)
  BY AllocatedSizeType DEF IInv, TypeOK, Segments, Segment, OneGridFits
<1>2. segments' = segments => Aligned(g)'
  BY DEF Aligned, SegmentEnd
<1>3. ASSUME NEW sid \in Sids, NEW byteCount \in WriteCounts, NEW overlap \in Overlaps,
             WriteStreamAt(sid, size[sid] - overlap, byteCount)
      PROVE  Aligned(g)' /\ LayoutAgrees'
  <2> DEFINE growBytes == size[sid] - overlap + byteCount - AllocatedSize(sid)
  <2>1. growBytes \in Int
    BY <1>1, Sizes
  <2>2. StreamGrow(sid, growBytes) /\ failed' = failed
    BY <1>3 DEF WriteStreamAt
  <2> HIDE DEF growBytes
  <2> QED BY <2>1, <2>2, GrowKeepsAligned DEF LayoutAgrees
<1>4. ASSUME NEW sid \in Sids, NEW newSize \in SetSizes, StreamSetSize(sid, newSize)
      PROVE  Aligned(g)' /\ LayoutAgrees'
  <2>1. newSize \in Nat
    BY Sizes
  <2>2. CASE IsCreated(sid) /\ newSize <= size[sid]
    BY <1>2, <1>4, <2>2 DEF StreamSetSize, LayoutAgrees
  <2>3. CASE ~ (IsCreated(sid) /\ newSize <= size[sid])
    <3>1. StreamGrow(sid, newSize - size[sid])
      BY <1>4, <2>3 DEF StreamSetSize
    <3>2. newSize - size[sid] \in Int
      BY <1>1, <2>1
    <3>3. Aligned(g)'
      BY <3>1, <3>2, GrowKeepsAligned
    <3>4. newSize # size[sid]
      <4>1. CASE IsCreated(sid)
        BY <1>1, <2>1, <2>3, <4>1
      <4>2. CASE ~ IsCreated(sid)
        <5>1. size[sid] \in Nat /\ size[sid] <= 0
          BY <1>1, <4>2 DEF AllocatedSize
        <5>2. newSize > 0
          BY <1>4, <4>2 DEF StreamSetSize, OneGridFits
        <5> QED BY <5>1, <5>2
      <4> QED BY <4>1, <4>2
    <3> QED BY <1>4, <2>3, <3>3, <3>4 DEF StreamSetSize, LayoutAgrees
  <2> QED BY <2>2, <2>3
<1>5. ASSUME NEW metadataSize \in MetadataSizes, Save(metadataSize)
      PROVE  Aligned(g)' /\ LayoutAgrees'
  <2>1. segments' = segments /\ failed' = SaveFailure(metadataSize)
    BY <1>5 DEF Save
  <2>2. SaveFailure(metadataSize) = "none"
    BY <1>1, AlignedSaveSucceeds
  <2> QED BY <1>2, <2>1, <2>2 DEF LayoutAgrees
<1>6. CASE UNCHANGED writerVars
  BY <1>2, <1>6 DEF writerVars, LayoutAgrees
<1>7. RestorePartition \/ UNCHANGED vars => UNCHANGED writerVars
  BY DEF RestorePartition, vars
<1> QED BY <1>3, <1>4, <1>5, <1>6, <1>7 DEF Next

\* The layout that saveStreams computes from the file is the one that streamGrow
\* computed from sizes, so that no assertion of either fails: if the streams have
\* one grid, the preallocated space is a whole number of it and holds the
\* metadata, and no new stream is set to no size.
THEOREM LayoutAlwaysAgrees ==
  ASSUME NEW CONSTANT g, OneGridFits(g)
  PROVE  Spec => []LayoutAgrees
<1>1. MetadataFits
  BY DEF OneGridFits
<1>2. Init => Aligned(g) /\ LayoutAgrees
  BY DEF Init, Aligned, LayoutAgrees
<1>3. Spec => []IInv
  BY <1>1, Invariance
<1>4. IInv /\ Aligned(g) /\ LayoutAgrees /\ [Next]_vars => Aligned(g)' /\ LayoutAgrees'
  BY AlignmentInvariance
<1> QED BY <1>2, <1>3, <1>4, PTL DEF Spec
-----------------------------------------------------------------------------
(* The segments of a stream follow each other in it.                         *)

\* Each segment of a stream begins where the one before it ends.
Contiguous ==
  \A i \in DOMAIN segments :
    /\ Earlier(i) = {} => segments[i].start = 0
    /\ \A j \in Earlier(i) : (\A k \in Earlier(i) : k <= j) =>
         segments[i].start = segments[j].start + segments[j].size

\* The earlier segments of a stream are among those before.
LEMMA EarlierType ==
  ASSUME segments \in Segments, NEW i \in DOMAIN segments, NEW j \in Earlier(i)
  PROVE  j \in DOMAIN segments /\ j \in Nat /\ i \in Nat /\ j < i
BY SegmentType DEF Earlier, Segments

\* The same segments have the same earlier ones.
LEMMA EarlierKept ==
  ASSUME segments \in Segments, NEW i \in DOMAIN segments,
         \A j \in DOMAIN segments : segments'[j].sid = segments[j].sid
  PROVE  Earlier(i)' = Earlier(i)
<1>1. \A j \in 1 .. i - 1 : j \in DOMAIN segments
  BY SegmentType DEF Segments
<1> QED BY <1>1 DEF Earlier

\* Growth keeps the segments of a stream contiguous.
LEMMA GrowKeepsContiguous ==
  ASSUME segments \in Segments, fileSize \in Nat, Layout, Contiguous,
         NEW sid \in Sids, NEW growBytes \in Int, StreamGrow(sid, growBytes)
  PROVE  Contiguous'
<1>0. PICK m \in Nat : m = Len(segments)
  BY DEF Segments
<1>1. m \in Nat /\ DOMAIN segments = 1 .. m
  BY <1>0 DEF Segments
<1>2. CASE growBytes > 0 /\ GrowInPlace(sid, growBytes)
  <2>1. LastOf(sid) = m /\ m \in DOMAIN segments
    <3>1. LastOf(sid) \in DOMAIN segments
      BY <1>2, LastOfIsLast DEF GrowInPlace, Own
    <3> QED BY <1>0, <1>2, <3>1, LastIsLast DEF GrowInPlace, Layout
  <2>2. segments' = [segments EXCEPT ![m].size = @ + Increment(sid, growBytes)]
    BY <1>2, <2>1 DEF GrowInPlace
  <2>3. /\ DOMAIN segments' = DOMAIN segments
        /\ \A j \in DOMAIN segments :
             /\ segments'[j].sid = segments[j].sid /\ segments'[j].start = segments[j].start
             /\ j # m => segments'[j].size = segments[j].size
    BY <2>1, <2>2, SegmentType DEF Segment
  <2>4. ASSUME NEW i \in DOMAIN segments
        PROVE  /\ Earlier(i)' = Earlier(i)
               /\ \A j \in Earlier(i) : j \in DOMAIN segments /\ j # m
    <3>1. \A j \in Earlier(i) : j \in DOMAIN segments /\ j # m
      BY <1>1, EarlierType
    <3> QED BY <2>3, <3>1, EarlierKept
  <2> QED BY <2>3, <2>4 DEF Contiguous
<1>3. CASE growBytes > 0 /\ GrowBySegment(sid, growBytes)
  <2> DEFINE added == AddedSegment(sid, growBytes)
             n == m + 1
  <2>1. segments' = Append(segments, added) /\ added.sid = sid /\ added.start = AllocatedSize(sid)
    BY <1>3 DEF GrowBySegment, AddedSegment
  <2> HIDE DEF added
  <2>2. /\ DOMAIN segments' = 1 .. n /\ segments'[n] = added
        /\ \A j \in DOMAIN segments : segments'[j] = segments[j]
    BY <1>0, <1>1, <2>1 DEF Segments
  <2>3. ASSUME NEW i \in DOMAIN segments
        PROVE  Earlier(i)' = Earlier(i) /\ \A j \in Earlier(i) : j \in DOMAIN segments
    BY <2>2, EarlierType, EarlierKept
  <2>4. Earlier(n)' = Own(sid)
    <3>1. (n - 1) = m
      BY <1>1
    <3>2. \A j \in 1 .. m : segments'[j].sid = segments[j].sid
      BY <1>1, <2>2
    <3>3. Earlier(n)' = {j \in 1 .. m : segments'[j].sid = segments'[n].sid}
      BY <3>1 DEF Earlier
    <3>4. Own(sid) = {j \in 1 .. m : segments[j].sid = sid}
      BY <1>1 DEF Own
    <3> HIDE DEF n
    <3> QED BY <2>1, <2>2, <3>2, <3>3, <3>4
  <2>5. Own(sid) = {} => added.start = 0
    BY <2>1 DEF AllocatedSize, IsCreated
  <2>6. ASSUME NEW j \in Own(sid), \A k \in Own(sid) : k <= j
        PROVE  added.start = segments'[j].start + segments'[j].size
    <3>1. LastOf(sid) \in Own(sid) /\ \A k \in Own(sid) : k <= LastOf(sid)
      BY <2>6, LastOfIsLast DEF IsCreated
    <3>2. j \in DOMAIN segments /\ LastOf(sid) \in DOMAIN segments
      BY <3>1 DEF Own
    <3>3. j <= LastOf(sid) /\ LastOf(sid) <= j
      BY <2>6, <3>1
    <3>4. j = LastOf(sid)
      BY <1>1, <3>2, <3>3
    <3> QED BY <2>1, <2>2, <2>6, <3>2, <3>4 DEF AllocatedSize, IsCreated
  <2>7. \A i \in 1 .. n : i \in DOMAIN segments \/ i = n
    BY <1>1
  <2> HIDE DEF n
  <2> QED BY <2>2, <2>3, <2>4, <2>5, <2>6, <2>7 DEF Contiguous
<1>4. CASE growBytes <= 0
  BY <1>4 DEF StreamGrow, Contiguous, Earlier
<1> QED BY <1>2, <1>3, <1>4 DEF StreamGrow

\* Every step keeps them so.
LEMMA ContiguousKept == IInv /\ Contiguous /\ [Next]_vars => Contiguous'
<1> SUFFICES ASSUME IInv, Contiguous, [Next]_vars PROVE Contiguous'
  OBVIOUS
<1>1. /\ segments \in Segments /\ fileSize \in Nat /\ size \in [Sids -> Nat] /\ Layout
      /\ \A sid \in Sids : AllocatedSize(sid) \in Nat
  BY AllocatedSizeType DEF IInv, TypeOK, Segments, Segment
<1>2. segments' = segments => Contiguous'
  BY DEF Contiguous, Earlier
<1>3. ASSUME NEW sid \in Sids, NEW byteCount \in WriteCounts, NEW overlap \in Overlaps,
             WriteStreamAt(sid, size[sid] - overlap, byteCount)
      PROVE  Contiguous'
  <2> DEFINE growBytes == size[sid] - overlap + byteCount - AllocatedSize(sid)
  <2>1. growBytes \in Int
    BY <1>1, Sizes
  <2>2. StreamGrow(sid, growBytes)
    BY <1>3 DEF WriteStreamAt
  <2> HIDE DEF growBytes
  <2> QED BY <1>1, <2>1, <2>2, GrowKeepsContiguous
<1>4. ASSUME NEW sid \in Sids, NEW newSize \in SetSizes, StreamSetSize(sid, newSize)
      PROVE  Contiguous'
  <2>1. newSize - size[sid] \in Int
    BY <1>1, Sizes
  <2>2. segments' = segments \/ StreamGrow(sid, newSize - size[sid])
    BY <1>4 DEF StreamSetSize
  <2> QED BY <1>1, <1>2, <2>1, <2>2, GrowKeepsContiguous
<1>5. ASSUME NEW m \in MetadataSizes, Save(m)
      PROVE  Contiguous'
  BY <1>2, <1>5 DEF Save
<1>6. RestorePartition \/ UNCHANGED vars => Contiguous'
  BY <1>2 DEF RestorePartition, writerVars, vars
<1> QED BY <1>3, <1>4, <1>5, <1>6 DEF Next

-----------------------------------------------------------------------------
(* Reading the file back.  What a save leaves on disk stays there while the   *)
(* file counts as saved, even when a later save fails, for that one writes    *)
(* metadata only; and it is all a reader needs to find the segments.          *)

\* The metadata is inside the bound on addresses, and so is a footer.
AddressesSuffice == BodyOffset <= LastAddress

FooterFits == segments # <<>> => fileSize + Zone + PackSize <= LastAddress

\* A pack before each segment and nothing but fill between the two; nothing but
\* fill behind the content of the segment, and where the zone ends another pack.
SavedLayout ==
  saved =>
    /\ Len(partitions) = Len(segments) + 1
    /\ \A i \in DOMAIN partitions :
         /\ partitions[i].address \in Addresses
         /\ disk[partitions[i].address] = Pack
         /\ segments # <<>> => partitions[i].address >= BodyOffset
    /\ \A i \in DOMAIN segments :
         /\ partitions[i].sid = segments[i].sid
         /\ partitions[i].address + PackSize <= segments[i].origin
         /\ \A a \in Addresses :
              a >= partitions[i].address + PackSize /\ a < segments[i].origin => disk[a] = Fill
         /\ \A a \in Addresses :
              a >= segments[i].origin + ValidSize(segments[i]) /\ a < EndOf(segments[i]) =>
                disk[a] = Fill
         /\ partitions[i + 1].address = EndOf(segments[i])

\* The segments are in the order of the file.
LEMMA OriginsOrdered ==
  ASSUME IInv, NEW i \in DOMAIN segments, NEW j \in DOMAIN segments, i <= j
  PROVE  segments[i].origin <= segments[j].origin
<1>1. segments \in Segments
  BY DEF IInv, TypeOK, Segments, Segment
<1>2. /\ segments[i].origin \in Nat /\ segments[i].size \in Nat /\ segments[j].origin \in Nat
      /\ i \in Nat /\ j \in Nat /\ Zone \in Nat /\ PackSize \in Nat
  BY <1>1, SegmentType, Sizes
<1>3. CASE i < j
  <2>1. segments[j].origin >= segments[i].origin + segments[i].size + Zone + PackSize
    BY <1>3 DEF IInv, Layout, SegmentsApart, EndOf
  <2> QED BY <1>2, <2>1
<1>4. CASE i = j
  BY <1>2, <1>4
<1> QED BY <1>2, <1>3, <1>4

\* In front of a segment is room for its pack, and nothing but what aligns it.
LEMMA PackBeforeSegment ==
  ASSUME IInv, MetadataFits, NEW m \in MetadataSizes, NEW i \in DOMAIN segments
  PROVE  /\ PackPosition(i, m) >= BodyOffset
         /\ PackPosition(i, m) + PackSize <= segments[i].origin
         /\ \A j \in DOMAIN segments : j < i => segments[j].origin < PackPosition(i, m)
<1>1. segments \in Segments
  BY DEF IInv, TypeOK, Segments, Segment
<1>2. /\ BodyOffset \in Nat /\ PackSize \in Nat /\ Zone \in Nat
      /\ i \in Nat /\ i >= 1 /\ segments[i].origin \in Nat
      /\ segments[i].origin >= BodyOffset + PackSize
  BY <1>1, SegmentType, Sizes, MetadataEndsAtBody DEF IInv, Layout, SegmentsApart
<1>3. CASE i = 1
  <2>1. PackPosition(i, m) = BodyOffset
    BY <1>3, PackPositionType
  <2>2. \A j \in DOMAIN segments : ~ (j < i)
    BY <1>1, <1>3, SegmentType
  <2> QED BY <1>2, <2>1, <2>2
<1>4. CASE i # 1
  <2>1. i - 1 \in DOMAIN segments /\ PackPosition(i, m) = EndOf(segments[i - 1])
    BY <1>4, PackPositionType
  <2>2. segments[i].origin >= EndOf(segments[i - 1]) + PackSize
    BY <1>2, <2>1 DEF IInv, Layout, SegmentsApart
  <2>3. /\ segments[i - 1].origin \in Nat /\ segments[i - 1].size \in Nat \ {0}
        /\ segments[i - 1].origin >= BodyOffset + PackSize
    BY <1>1, <2>1, SegmentType DEF IInv, Layout, SegmentsApart
  <2>4. segments[i - 1].origin < EndOf(segments[i - 1]) /\ EndOf(segments[i - 1]) >= BodyOffset
    BY <1>2, <2>3 DEF EndOf
  <2>5. ASSUME NEW j \in DOMAIN segments, j < i
        PROVE  segments[j].origin < PackPosition(i, m)
    <3>1. j <= i - 1 /\ segments[j].origin \in Nat
      BY <1>1, <1>2, <2>5, SegmentType
    <3>2. segments[j].origin <= segments[i - 1].origin
      BY <2>1, <3>1, OriginsOrdered
    <3>3. EndOf(segments[i - 1]) \in Nat
      BY <1>2, <2>3 DEF EndOf
    <3> QED BY <2>1, <2>3, <2>4, <3>1, <3>2, <3>3
  <2> QED BY <2>1, <2>2, <2>4, <2>5
<1> QED BY <1>3, <1>4

\* The footer is behind all segments, and inside the bound on addresses.
LEMMA FooterBehindSegments ==
  ASSUME IInv, MetadataFits, FooterFits, NEW m \in MetadataSizes, NEW i \in DOMAIN segments
  PROVE  /\ FooterPosition(m) = fileSize + Zone
         /\ segments[i].origin + segments[i].size <= fileSize
         /\ FooterPosition(m) + PackSize <= LastAddress
<1>1. segments \in Segments /\ fileSize \in Nat /\ segments # <<>>
  BY DEF IInv, TypeOK, Segments, Segment
<1>2. Placed
  BY <1>1, SegmentsPlaced DEF IInv, SegmentsTyped
<1>3. FooterPosition(m) = EndOf(segments[Len(segments)])
  BY <1>1, FooterPositionType
<1>4. fileSize = segments[Len(segments)].origin + segments[Len(segments)].size
  BY <1>1 DEF IInv, Layout, SegmentsApart, Last
<1>5. FooterPosition(m) = fileSize + Zone
  BY <1>3, <1>4 DEF EndOf
<1> QED BY <1>1, <1>2, <1>5 DEF Placed, FooterFits

\* Neither between a pack and its segment nor between a segment and the next pack
\* is another pack.
LEMMA NoPackAround ==
  ASSUME IInv, MetadataFits, FooterFits, NEW m \in MetadataSizes, NEW i \in DOMAIN segments,
         NEW a \in Addresses, a >= PackPosition(i, m) + PackSize, a < EndOf(segments[i])
  PROVE  a \notin Packed(m)
<1> DEFINE packs == {q.address : q \in ToSet(Packs(m))} \cup {FooterPosition(m)}
<1>1. segments \in Segments /\ fileSize \in Nat
  BY DEF IInv, TypeOK, Segments, Segment
<1>2. /\ a \in Nat /\ PackSize \in Nat /\ Zone \in Nat
      /\ i \in Nat /\ segments[i].origin \in Nat /\ segments[i].size \in Nat
      /\ PackPosition(i, m) \in Nat
  BY <1>1, SegmentType, PackPositionType, Sizes DEF Addresses
<1>3. a < segments[i].origin + segments[i].size + Zone
  BY DEF EndOf
<1>4. ASSUME NEW j \in DOMAIN segments
      PROVE  a \notin PackPosition(j, m) .. PackPosition(j, m) + PackSize - 1
  <2>1. j \in Nat /\ segments[j].origin \in Nat /\ PackPosition(j, m) \in Nat
    BY <1>1, SegmentType, PackPositionType
  <2>2. CASE j < i
    <3>1. PackPosition(j, m) + PackSize <= segments[j].origin
      BY PackBeforeSegment
    <3>2. segments[j].origin < PackPosition(i, m)
      BY <2>2, PackBeforeSegment
    <3> QED BY <1>2, <2>1, <3>1, <3>2
  <2>3. CASE j = i
    BY <1>2, <2>3
  <2>4. CASE i < j
    <3>1. EndOf(segments[i]) <= PackPosition(j, m)
      <4>1. j # 1 /\ j - 1 \in DOMAIN segments /\ PackPosition(j, m) = EndOf(segments[j - 1])
        BY <1>1, <1>2, <2>1, <2>4, SegmentType, PackPositionType
      <4>2. CASE i = j - 1
        <5>1. EndOf(segments[i]) \in Nat
          BY <1>2 DEF EndOf
        <5> QED BY <4>1, <4>2, <5>1
      <4>3. CASE i # j - 1
        <5>1. i < j - 1
          BY <1>2, <2>1, <2>4, <4>3
        <5>2. segments[j - 1].origin >= EndOf(segments[i]) + PackSize
          BY <4>1, <5>1 DEF IInv, Layout, SegmentsApart
        <5>3. segments[j - 1].origin \in Nat /\ segments[j - 1].size \in Nat
          BY <1>1, <4>1, SegmentType
        <5> QED BY <1>2, <4>1, <5>2, <5>3 DEF EndOf
      <4> QED BY <4>2, <4>3
    <3>2. EndOf(segments[i]) = segments[i].origin + segments[i].size + Zone
      BY DEF EndOf
    <3> QED BY <1>2, <1>3, <2>1, <3>1, <3>2
  <2> QED BY <1>2, <2>1, <2>2, <2>3, <2>4
<1>5. a \notin FooterPosition(m) .. FooterPosition(m) + PackSize - 1
  <2>1. FooterPosition(m) = fileSize + Zone /\ segments[i].origin + segments[i].size <= fileSize
    BY FooterBehindSegments
  <2>2. a < FooterPosition(m) /\ FooterPosition(m) \in Nat
    BY <1>1, <1>2, <1>3, <2>1
  <2> QED BY <1>2, <2>2
<1> QED
  <2>1. \A q \in packs : q = FooterPosition(m) \/ \E j \in DOMAIN segments : q = PackPosition(j, m)
    BY DEF ToSet, Packs
  <2> HIDE DEF packs
  <2>2. \A q \in packs : a \notin q .. q + PackSize - 1
    BY <1>4, <1>5, <2>1, Zenon
  <2> QED BY <2>2 DEF Packed, packs

\* Between a pack and its segment there is fill after a save.
LEMMA FillBeforeSegment ==
  ASSUME IInv, MetadataFits, FooterFits, NEW m \in MetadataSizes, NEW i \in DOMAIN segments,
         NEW a \in Addresses, a >= PackPosition(i, m) + PackSize, a < segments[i].origin
  PROVE  SavedDisk(m)[a] = Fill
<1>1. segments \in Segments
  BY DEF IInv, TypeOK, Segments, Segment
<1>2. /\ a \in Nat /\ PackSize \in Nat /\ Zone \in Nat /\ PackPosition(i, m) \in Nat
      /\ segments[i].origin \in Nat /\ segments[i].size \in Nat
  BY <1>1, SegmentType, PackPositionType, Sizes DEF Addresses
<1>3. a \in Aligning(m)
  <2>1. a \in PackPosition(i, m) .. segments[i].origin - 1
    BY <1>2
  <2> QED BY <2>1 DEF Aligning
<1>4. a < EndOf(segments[i])
  BY <1>2 DEF EndOf
<1>5. a \notin Packed(m)
  BY <1>4, NoPackAround
<1> QED BY <1>3, <1>5 DEF SavedDisk

\* How much of a segment has content.
LEMMA ValidSizeType ==
  ASSUME IInv, NEW i \in DOMAIN segments
  PROVE  /\ ValidSize(segments[i]) \in Nat /\ ValidSize(segments[i]) <= segments[i].size
         /\ segments[i].start + ValidSize(segments[i]) <= size[segments[i].sid]
              \/ ValidSize(segments[i]) = 0
<1>1. segments \in Segments /\ size \in [Sids -> Nat]
  BY DEF IInv, TypeOK, Segments, Segment
<1>2. /\ segments[i].start \in Nat /\ segments[i].size \in Nat
      /\ size[segments[i].sid] \in Nat
  BY <1>1, SegmentType
<1> QED BY <1>2 DEF ValidSize

\* Behind the content of a segment there is fill after a save.
LEMMA FillBehindContent ==
  ASSUME IInv, MetadataFits, FooterFits, NEW m \in MetadataSizes, NEW i \in DOMAIN segments,
         NEW a \in Addresses, a >= segments[i].origin + ValidSize(segments[i]),
         a < EndOf(segments[i])
  PROVE  SavedDisk(m)[a] = Fill
<1>1. segments \in Segments
  BY DEF IInv, TypeOK, Segments, Segment
<1>2. /\ a \in Nat /\ PackSize \in Nat /\ Zone \in Nat /\ PackPosition(i, m) \in Nat
      /\ segments[i].origin \in Nat /\ segments[i].size \in Nat
      /\ ValidSize(segments[i]) \in Nat
  BY <1>1, SegmentType, PackPositionType, ValidSizeType, Sizes DEF Addresses
<1>3. a \in Unused
  <2>1. EndOf(segments[i]) \in Nat
    BY <1>2 DEF EndOf
  <2>2. a \in segments[i].origin + ValidSize(segments[i]) .. EndOf(segments[i]) - 1
    BY <1>2, <2>1
  <2> QED BY <2>2 DEF Unused
<1>4. PackPosition(i, m) + PackSize <= segments[i].origin
  BY PackBeforeSegment
<1>5. a >= PackPosition(i, m) + PackSize
  BY <1>2, <1>4
<1>6. a \notin Packed(m)
  BY <1>5, NoPackAround
<1> QED BY <1>3, <1>6 DEF SavedDisk

\* A pack is on disk where it was put.
LEMMA PacksOnDisk ==
  ASSUME IInv, NEW m \in MetadataSizes, NEW q \in Addresses,
         q = FooterPosition(m) \/ \E j \in DOMAIN segments : q = PackPosition(j, m)
  PROVE  SavedDisk(m)[q] = Pack
<1> DEFINE packs == {p.address : p \in ToSet(Packs(m))} \cup {FooterPosition(m)}
<1>1. q \in packs
  <2>1. ASSUME NEW j \in DOMAIN segments, q = PackPosition(j, m)
        PROVE  q \in packs
    <3>1. Packs(m)[j] \in ToSet(Packs(m)) /\ Packs(m)[j].address = q
      BY <2>1 DEF ToSet, Packs
    <3> QED BY <3>1
  <2> QED BY <2>1
<1>2. q \in q .. q + PackSize - 1
  BY Sizes DEF Addresses
<1> HIDE DEF packs
<1>3. q \in Packed(m)
  BY <1>1, <1>2 DEF Packed, packs
<1> QED BY <1>3 DEF SavedDisk

\* A save that succeeds leaves the layout a reader follows.
LEMMA SaveLaysOut ==
  ASSUME IInv, MetadataFits, AddressesSuffice, FooterFits, NEW m \in MetadataSizes,
         Save(m), failed' = "none"
  PROVE  SavedLayout'
<1> DEFINE n == Len(segments)
<1>1. /\ segments \in Segments /\ fileSize \in Nat /\ n \in Nat /\ DOMAIN segments = 1 .. n
  BY DEF IInv, TypeOK, Segments, Segment
<1>2. /\ disk' = SavedDisk(m) /\ segments' = segments
      /\ partitions' = Packs(m) \o <<[address |-> FooterPosition(m), sid |-> Pack]>>
  BY DEF Save
<1>3. Packs(m) = [i \in 1 .. n |-> [address |-> PackPosition(i, m), sid |-> segments[i].sid]]
  BY <1>1 DEF Packs
<1>4. /\ Len(partitions') = n + 1 /\ DOMAIN partitions' = 1 .. n + 1
      /\ \A i \in 1 .. n : partitions'[i] = [address |-> PackPosition(i, m), sid |-> segments[i].sid]
      /\ partitions'[n + 1] = [address |-> FooterPosition(m), sid |-> Pack]
  <2> DEFINE T == [address : Nat, sid : Sids \cup {Pack}]
             f == [address |-> FooterPosition(m), sid |-> Pack]
  <2>1. \A i \in 1 .. n : [address |-> PackPosition(i, m), sid |-> segments[i].sid] \in T
    BY <1>1, SegmentType, PackPositionType
  <2>2. f \in T
    BY FooterPositionType
  <2> HIDE DEF T, f
  <2>3. Packs(m) \in [1 .. n -> T]
    BY <1>3, <2>1
  <2>4. PICK P \in Seq(T) : P = Packs(m) /\ Len(P) = n
    BY <1>1, <2>3, FunctionIsSequence
  <2>5. partitions' = P \o <<f>>
    BY <1>2, <2>4 DEF f
  <2>6. /\ Len(partitions') = n + 1 /\ DOMAIN partitions' = 1 .. n + 1
        /\ \A i \in 1 .. n : partitions'[i] = P[i]
        /\ partitions'[n + 1] = f
    <3>1. P \in Seq(T) /\ Len(P) = n /\ f \in T /\ partitions' = Append(P, f)
      BY <2>2, <2>4, <2>5
    <3> QED BY <1>1, <3>1
  <2> QED BY <1>3, <2>4, <2>6 DEF f
<1> HIDE DEF n
<1>5. /\ PackSize \in Nat /\ Zone \in Nat /\ BodyOffset \in Nat /\ LastAddress \in Nat
      /\ m \in Nat /\ m < BodyOffset
  BY Sizes, MetadataEndsAtBody
<1>6. ASSUME NEW i \in DOMAIN segments
      PROVE  /\ partitions'[i].address = PackPosition(i, m)
             /\ partitions'[i].sid = segments[i].sid
             /\ PackPosition(i, m) \in Addresses /\ PackPosition(i, m) >= BodyOffset
             /\ PackPosition(i, m) + PackSize <= segments[i].origin
  <2>1. /\ PackPosition(i, m) >= BodyOffset
        /\ PackPosition(i, m) + PackSize <= segments[i].origin
    BY PackBeforeSegment
  <2>2. /\ segments[i].origin + segments[i].size <= fileSize
        /\ fileSize + Zone + PackSize <= LastAddress
    BY FooterBehindSegments DEF FooterFits
  <2>3. segments[i].origin \in Nat /\ segments[i].size \in Nat /\ PackPosition(i, m) \in Nat
    BY <1>1, SegmentType, PackPositionType
  <2>4. PackPosition(i, m) <= LastAddress
    BY <1>1, <1>5, <2>1, <2>2, <2>3
  <2>5. partitions'[i] = [address |-> PackPosition(i, m), sid |-> segments[i].sid]
    BY <1>1, <1>4
  <2>6. PackPosition(i, m) \in Addresses
    BY <1>5, <2>3, <2>4 DEF Addresses
  <2> QED BY <2>1, <2>5, <2>6
<1>7. /\ FooterPosition(m) \in Addresses
      /\ segments # <<>> => FooterPosition(m) >= BodyOffset
  <2>1. FooterPosition(m) \in Nat
    BY FooterPositionType
  <2>2. CASE segments = <<>>
    <3>1. FooterPosition(m) <= LastAddress
      BY <1>5, <2>2 DEF FooterPosition, AddressesSuffice
    <3> QED BY <1>5, <2>1, <2>2, <3>1 DEF Addresses
  <2>3. CASE segments # <<>>
    <3>1. n \in DOMAIN segments
      BY <1>1, <2>3 DEF n
    <3>2. /\ FooterPosition(m) = fileSize + Zone /\ FooterPosition(m) + PackSize <= LastAddress
          /\ segments[n].origin + segments[n].size <= fileSize
      BY <3>1, FooterBehindSegments
    <3>3. /\ segments[n].origin >= BodyOffset + PackSize
          /\ segments[n].origin \in Nat /\ segments[n].size \in Nat
      BY <1>1, <3>1, SegmentType DEF IInv, Layout, SegmentsApart
    <3> QED BY <1>1, <1>5, <2>1, <3>2, <3>3 DEF Addresses
  <2> QED BY <2>2, <2>3
<1>8. ASSUME NEW i \in DOMAIN partitions'
      PROVE  /\ partitions'[i].address \in Addresses
             /\ disk'[partitions'[i].address] = Pack
             /\ segments # <<>> => partitions'[i].address >= BodyOffset
  <2>1. CASE i \in DOMAIN segments
    BY <1>2, <1>6, <2>1, PacksOnDisk
  <2>2. CASE i \notin DOMAIN segments
    <3>1. i = n + 1
      BY <1>1, <1>4, <2>2
    <3>2. partitions'[i].address = FooterPosition(m)
      BY <1>4, <3>1
    <3> QED BY <1>2, <1>7, <3>2, PacksOnDisk
  <2> QED BY <2>1, <2>2
<1>9. ASSUME NEW i \in DOMAIN segments
      PROVE  partitions'[i + 1].address = EndOf(segments[i])
  <2>1. segments[i].origin \in Nat /\ segments[i].size \in Nat /\ i \in 1 .. n
    BY <1>1, SegmentType
  <2>2. CASE i = n
    <3>1. partitions'[i + 1].address = FooterPosition(m)
      BY <1>4, <2>2
    <3>2. segments # <<>>
      BY <1>1
    <3>3. FooterPosition(m) = EndOf(segments[n])
      BY <1>1, <3>2, FooterPositionType DEF n
    <3> QED BY <2>2, <3>1, <3>3
  <2>3. CASE i # n
    <3>1. i + 1 \in DOMAIN segments /\ i + 1 # 1 /\ (i + 1) - 1 = i
      BY <1>1, <2>1, <2>3
    <3> QED BY <1>6, <3>1, PackPositionType
  <2> QED BY <2>2, <2>3
<1>10. ASSUME NEW i \in DOMAIN segments, NEW a \in Addresses,
              a >= partitions'[i].address + PackSize, a < segments[i].origin
       PROVE  disk'[a] = Fill
  BY <1>2, <1>6, <1>10, FillBeforeSegment
<1>11. ASSUME NEW i \in DOMAIN segments, NEW a \in Addresses,
              a >= segments[i].origin + ValidSize(segments[i]), a < EndOf(segments[i])
       PROVE  disk'[a] = Fill
  BY <1>2, <1>11, FillBehindContent
<1>12. \A i \in DOMAIN segments : /\ ValidSize(segments[i])' = ValidSize(segments[i])
                                  /\ EndOf(segments[i])' = EndOf(segments[i])
  BY <1>2 DEF ValidSize, EndOf, Save
<1> QED BY <1>2, <1>4, <1>6, <1>8, <1>9, <1>10, <1>11, <1>12 DEF SavedLayout, n

\* A save that fails has written metadata, which is before every pack.
LEMMA FailedSaveKeepsLayout ==
  ASSUME IInv, MetadataFits, SavedLayout, NEW m \in MetadataSizes, Save(m), failed' # "none"
  PROVE  SavedLayout'
<1>1. /\ disk' = [a \in Addresses |-> IF a < m THEN Metadata ELSE disk[a]]
      /\ segments' = segments /\ partitions' = partitions /\ saved' = saved /\ size' = size
  BY DEF Save
<1>2. segments # <<>>
  BY DEF Save, SaveFailure
<1>3. m \in Nat /\ BodyOffset \in Nat /\ m < BodyOffset /\ PackSize \in Nat
  BY Sizes, MetadataEndsAtBody
<1>4. \A a \in Addresses : a >= BodyOffset => disk'[a] = disk[a]
  BY <1>1, <1>3 DEF Addresses
<1> SUFFICES ASSUME saved PROVE SavedLayout'
  BY <1>1 DEF SavedLayout
<1>5. ASSUME NEW i \in DOMAIN partitions
      PROVE  disk'[partitions[i].address] = Pack
  BY <1>2, <1>4 DEF SavedLayout
<1>6. ASSUME NEW i \in DOMAIN segments, NEW a \in Addresses,
             a >= partitions[i].address + PackSize, a < segments[i].origin
      PROVE  disk'[a] = Fill
  <2>1. segments \in Segments /\ Len(partitions) = Len(segments) + 1
        /\ partitions \in Seq([address : Nat, sid : Sids \cup {Pack}])
    BY DEF SavedLayout, IInv, TypeOK, Segments, Segment
  <2>2. i \in DOMAIN partitions
    BY <2>1, SegmentType
  <2>3. partitions[i].address >= BodyOffset /\ partitions[i].address \in Addresses
    BY <1>2, <2>2 DEF SavedLayout
  <2>4. a >= BodyOffset
    BY <1>3, <1>6, <2>3 DEF Addresses
  <2> QED BY <1>4, <1>6, <2>4 DEF SavedLayout
<1>7. ASSUME NEW i \in DOMAIN segments, NEW a \in Addresses,
             a >= segments[i].origin + ValidSize(segments[i]), a < EndOf(segments[i])
      PROVE  disk'[a] = Fill
  <2>1. segments \in Segments
    BY DEF IInv, TypeOK, Segments, Segment
  <2>2. segments[i].origin \in Nat /\ segments[i].origin >= BodyOffset + PackSize
    BY <2>1, SegmentType DEF IInv, Layout, SegmentsApart
  <2>3. a >= BodyOffset
    <3>1. ValidSize(segments[i]) \in Nat /\ a \in Nat
      BY ValidSizeType DEF Addresses
    <3> QED BY <1>3, <1>7, <2>2, <3>1
  <2> QED BY <1>4, <1>7, <2>3 DEF SavedLayout
<1>8. \A i \in DOMAIN segments : /\ ValidSize(segments[i])' = ValidSize(segments[i])
                                 /\ EndOf(segments[i])' = EndOf(segments[i])
  BY <1>1 DEF ValidSize, EndOf
<1> QED BY <1>1, <1>5, <1>6, <1>7, <1>8 DEF SavedLayout

\* The address of a pack.
LEMMA PackAddressType ==
  ASSUME partitions \in Seq([address : Nat, sid : Sids \cup {Pack}]),
         NEW i \in 1 .. Len(partitions)
  PROVE  partitions[i].address \in Nat
<1> DEFINE Partition == [address : Nat, sid : Sids \cup {Pack}]
<1>1. partitions \in Seq(Partition)
  OBVIOUS
<1> HIDE DEF Partition
<1>2. partitions[i] \in Partition
  BY <1>1
<1> QED BY <1>2 DEF Partition

\* The address of a segment with content holds the first byte of it.
LEMMA ContentAtOrigin ==
  ASSUME IInv, FooterFits, NEW i \in DOMAIN segments, NEW o \in Nat, o < ValidSize(segments[i])
  PROVE  /\ segments[i].origin + o \in Addresses
         /\ disk[segments[i].origin + o] = <<segments[i].sid, segments[i].start + o>>
<1> DEFINE p == segments[i].start + o
<1>1. segments \in Segments /\ fileSize \in Nat /\ size \in [Sids -> Nat]
  BY DEF IInv, TypeOK, Segments, Segment
<1>2. /\ segments[i].sid \in Sids /\ segments[i].start \in Nat
      /\ segments[i].size \in Nat /\ segments[i].origin \in Nat
  BY <1>1, SegmentType
<1>3. /\ ValidSize(segments[i]) \in Nat /\ ValidSize(segments[i]) <= segments[i].size
      /\ segments[i].start + ValidSize(segments[i]) <= size[segments[i].sid]
           \/ ValidSize(segments[i]) = 0
      /\ size[segments[i].sid] \in Nat
  BY <1>1, <1>2, ValidSizeType
<1>4. p \in 0 .. size[segments[i].sid] - 1 /\ i \in Own(segments[i].sid)
  BY <1>2, <1>3 DEF Own
<1>5. HasPosition(segments[i], p)
  BY <1>2, <1>3 DEF HasPosition
<1>6. p - segments[i].start + segments[i].origin = segments[i].origin + o
  BY <1>2
<1> HIDE DEF p
<1>7. disk[p - segments[i].start + segments[i].origin] = <<segments[i].sid, p>>
  BY <1>2, <1>4, <1>5 DEF IInv, StreamIntact
<1>8. segments[i].origin + o \in Addresses
  <2>1. Placed
    BY <1>1, SegmentsPlaced DEF IInv, SegmentsTyped
  <2>2. segments[i].origin + segments[i].size <= fileSize /\ segments # <<>>
    BY <2>1 DEF Placed
  <2>3. fileSize + Zone + PackSize <= LastAddress
    BY <2>2 DEF FooterFits
  <2>4. Zone \in Nat /\ PackSize \in Nat /\ LastAddress \in Nat
    BY Sizes
  <2>5. segments[i].origin + o <= LastAddress
    BY <1>1, <1>2, <1>3, <2>2, <2>3, <2>4
  <2> QED BY <1>2, <2>4, <2>5 DEF Addresses
<1> QED BY <1>6, <1>7, <1>8 DEF p

\* The addresses of the packs around a segment.
LEMMA PacksAround ==
  ASSUME IInv, SavedLayout, saved, NEW i \in DOMAIN segments
  PROVE  /\ i \in 1 .. Len(partitions) - 1 /\ Len(partitions) = Len(segments) + 1
         /\ partitions[i].address \in Nat /\ partitions[i].sid = segments[i].sid
         /\ partitions[i].address + PackSize <= segments[i].origin
         /\ partitions[i + 1].address = EndOf(segments[i])
         /\ EndOf(segments[i]) \in Addresses /\ disk[EndOf(segments[i])] = Pack
<1>1. segments \in Segments /\ partitions \in Seq([address : Nat, sid : Sids \cup {Pack}])
  BY DEF IInv, TypeOK, Segments, Segment
<1>2. Len(partitions) = Len(segments) + 1
  BY DEF SavedLayout
<1>3. i \in 1 .. Len(segments) /\ Len(segments) \in Nat
  BY <1>1, SegmentType
<1>4. i \in 1 .. Len(partitions) /\ i + 1 \in 1 .. Len(partitions) /\ i \in 1 .. Len(partitions) - 1
  BY <1>2, <1>3
<1>5. i + 1 \in DOMAIN partitions
  BY <1>1, <1>4
<1>6. partitions[i].address \in Nat
  BY <1>1, <1>4, PackAddressType
<1> QED BY <1>2, <1>4, <1>5, <1>6 DEF SavedLayout

\* Behind a pack a reader finds the segment, if it has content, and nothing else.
LEMMA EssenceIsFound ==
  ASSUME IInv, FooterFits, SavedLayout, saved, NEW i \in DOMAIN segments
  PROVE  /\ Readable(segments[i]) => /\ segments[i].origin \in Addresses
                                     /\ IsEssenceOf(segments[i].origin, i)
         /\ \A a \in Addresses : IsEssenceOf(a, i) => a = segments[i].origin
<1> DEFINE seg == segments[i]
           q == partitions[i].address + PackSize
<1>1. segments \in Segments /\ size \in [Sids -> Nat]
  BY DEF IInv, TypeOK, Segments, Segment
<1>2. /\ seg.sid \in Sids /\ seg.start \in Nat /\ seg.size \in Nat \ {0} /\ seg.origin \in Nat
      /\ size[seg.sid] \in Nat /\ ValidSize(seg) \in Nat
  BY <1>1, SegmentType, ValidSizeType
<1>3. /\ partitions[i].address \in Nat /\ q <= seg.origin
      /\ EndOf(seg) \in Addresses /\ disk[EndOf(seg)] = Pack
  BY PacksAround
<1>4. q \in Nat /\ Zone \in Nat /\ PackSize \in Nat /\ LastAddress \in Nat
  BY <1>3, Sizes
<1>5. EndOf(seg) \in Nat /\ EndOf(seg) > seg.origin /\ EndOf(seg) = seg.origin + seg.size + Zone
  BY <1>2, <1>4 DEF EndOf
<1>6. \A b \in Addresses : b >= q /\ b < seg.origin => disk[b] = Fill
  BY DEF SavedLayout
<1>7. \A b \in Addresses : b >= seg.origin + ValidSize(seg) /\ b < EndOf(seg) => disk[b] = Fill
  BY DEF SavedLayout
<1>8. ValidSize(seg) > 0 => /\ seg.origin \in Addresses
                            /\ disk[seg.origin] = <<seg.sid, seg.start>>
                            /\ disk[seg.origin] # Fill
  <2> SUFFICES ASSUME ValidSize(seg) > 0
               PROVE  /\ seg.origin \in Addresses
                      /\ disk[seg.origin] = <<seg.sid, seg.start>>
                      /\ disk[seg.origin] # Fill
    OBVIOUS
  <2>1. /\ seg.origin + 0 \in Addresses
        /\ disk[seg.origin + 0] = <<seg.sid, seg.start + 0>>
    BY ContentAtOrigin
  <2>2. seg.origin + 0 = seg.origin /\ seg.start + 0 = seg.start
    BY <1>2
  <2>3. seg.origin \in Addresses /\ disk[seg.origin] = <<seg.sid, seg.start>>
    BY <2>1, <2>2
  <2>4. <<seg.sid, seg.start>> \in Sids \X Nat
    BY <1>2
  <2> HIDE DEF seg
  <2> QED BY <2>3, <2>4, Marks
<1>9. IsFirstAfter(seg.origin, partitions[i].address) <=> disk[seg.origin] # Fill
  BY <1>2, <1>3, <1>4, <1>6 DEF IsFirstAfter
<1>10. ASSUME Readable(seg)
       PROVE  seg.origin \in Addresses /\ IsEssenceOf(seg.origin, i)
  <2>1. ValidSize(seg) > 0 /\ seg.start \in KeyOffsets
    BY <1>2, <1>10 DEF Readable, ValidSize
  <2> QED BY <1>2, <1>8, <1>9, <2>1 DEF IsEssenceOf, HasEssenceKey
<1>11. ASSUME NEW a \in Addresses, IsEssenceOf(a, i)
       PROVE  a = seg.origin
  <2>1. /\ a >= q /\ disk[a] # Fill
        /\ \A b \in Addresses : b >= q /\ b < a => disk[b] = Fill
    BY <1>11 DEF IsEssenceOf, IsFirstAfter
  <2>2. a \in Nat
    BY <1>4 DEF Addresses
  <2>3. a >= seg.origin
    BY <1>2, <1>6, <2>1, <2>2
  <2>4. CASE ValidSize(seg) > 0
    BY <1>2, <1>3, <1>8, <2>1, <2>2, <2>3, <2>4, <1>4
  <2>5. CASE ValidSize(seg) = 0
    <3>1. a >= EndOf(seg)
      BY <1>2, <1>5, <1>7, <2>1, <2>2, <2>3, <2>5
    <3>2. ~ (a > EndOf(seg))
      <4>1. EndOf(seg) >= q
        BY <1>2, <1>3, <1>4, <1>5
      <4>2. disk[EndOf(seg)] # Fill
        BY <1>3, Marks
      <4> HIDE DEF seg, q
      <4> QED BY <1>3, <2>1, <4>1, <4>2
    <3>3. a = EndOf(seg)
      BY <1>5, <2>2, <3>1, <3>2
    <3>4. PICK sid \in Sids, offset \in KeyOffsets : disk[a] = <<sid, offset>>
      BY <1>11 DEF IsEssenceOf, HasEssenceKey
    <3>5. offset \in Nat
      BY Sizes
    <3> QED BY <1>3, <3>3, <3>4, <3>5, Marks
  <2> QED BY <1>2, <2>4, <2>5
<1> QED BY <1>10, <1>11

\* Every step keeps the layout of a saved file.
LEMMA LayoutKept ==
  ASSUME MetadataFits, AddressesSuffice
  PROVE  IInv /\ FooterFits /\ SavedLayout /\ [Next]_vars => FooterFits' /\ SavedLayout'
<1> SUFFICES ASSUME IInv, FooterFits, SavedLayout, [Next]_vars
             PROVE  FooterFits' /\ SavedLayout'
  OBVIOUS
<1>1. ASSUME NEW sid \in Sids, NEW byteCount \in WriteCounts, NEW overlap \in Overlaps,
             WriteStreamAt(sid, size[sid] - overlap, byteCount)
      PROVE  FooterFits' /\ SavedLayout'
  BY <1>1 DEF WriteStreamAt, InBounds, FooterFits, SavedLayout
<1>2. ASSUME NEW sid \in Sids, NEW newSize \in SetSizes, StreamSetSize(sid, newSize)
      PROVE  FooterFits' /\ SavedLayout'
  BY <1>2 DEF StreamSetSize, InBounds, FooterFits, SavedLayout
<1>3. ASSUME NEW m \in MetadataSizes, Save(m)
      PROVE  FooterFits' /\ SavedLayout'
  <2>1. FooterFits'
    BY <1>3 DEF Save, FooterFits
  <2> QED BY <1>3, <2>1, SaveLaysOut, FailedSaveKeepsLayout
<1>4. CASE UNCHANGED writerVars
  BY <1>4 DEF writerVars, FooterFits, SavedLayout, ValidSize, EndOf
<1>5. RestorePartition \/ UNCHANGED vars => UNCHANGED writerVars
  BY DEF RestorePartition, vars
<1> QED BY <1>1, <1>2, <1>3, <1>4, <1>5 DEF Next

-----------------------------------------------------------------------------
(* What a reader has restored so far.                                        *)

RestoredSoFar ==
  /\ restored # <<>> => saved
  /\ Len(restored) <= Len(segments)
  /\ \A i \in DOMAIN restored : ShiftedByZones(i)
  /\ \A sid \in Sids : restoredSize[sid] = RestoredEnd(sid)

\* The earlier segments are finitely many, and without them there is no shift.
LEMMA EarlierFinite ==
  ASSUME segments \in Segments, NEW i \in DOMAIN segments
  PROVE  /\ IsFiniteSet(Earlier(i)) /\ Cardinality(Earlier(i)) \in Nat
         /\ Earlier(i) = {} => Cardinality(Earlier(i)) = 0
<1>1. i \in Nat
  BY SegmentType
<1>2. IsFiniteSet(1 .. i - 1)
  BY <1>1, FS_Interval
<1>3. Earlier(i) \in SUBSET (1 .. i - 1)
  BY DEF Earlier
<1>4. IsFiniteSet(Earlier(i))
  BY <1>2, <1>3, FS_Subset
<1> QED BY <1>4, FS_CardinalityType, FS_EmptySet

\* The last of the earlier segments has one less before it.
LEMMA EarlierOfLast ==
  ASSUME segments \in Segments, NEW i \in DOMAIN segments, NEW j \in Earlier(i),
         \A k \in Earlier(i) : k <= j
  PROVE  Cardinality(Earlier(i)) = Cardinality(Earlier(j)) + 1
<1>1. /\ i \in Nat /\ j \in Nat /\ j < i /\ j >= 1 /\ j \in DOMAIN segments
      /\ segments[j].sid = segments[i].sid
  BY EarlierType, SegmentType DEF Earlier
<1>2. Earlier(i) = Earlier(j) \cup {j}
  <2>1. ASSUME NEW k \in Earlier(i), k # j PROVE k \in Earlier(j)
    <3>1. k \in 1 .. i - 1 /\ segments[k].sid = segments[i].sid /\ k <= j
      BY DEF Earlier
    <3>2. k \in 1 .. j - 1
      BY <1>1, <2>1, <3>1
    <3> QED BY <1>1, <3>1, <3>2 DEF Earlier
  <2>2. ASSUME NEW k \in Earlier(j) PROVE k \in Earlier(i)
    <3>1. k \in 1 .. j - 1 /\ segments[k].sid = segments[j].sid
      BY DEF Earlier
    <3>2. k \in 1 .. i - 1
      BY <1>1, <3>1
    <3> QED BY <1>1, <3>1, <3>2 DEF Earlier
  <2> QED BY <2>1, <2>2
<1>3. j \notin Earlier(j)
  BY <1>1 DEF Earlier
<1>4. IsFiniteSet(Earlier(j))
  BY <1>1, EarlierFinite
<1> QED BY <1>2, <1>3, <1>4, FS_AddElement

\* One zone more.
LEMMA OneMore == ASSUME NEW z \in Nat, NEW c \in Nat PROVE z * (c + 1) = z * c + z /\ z * c \in Nat
OBVIOUS

\* Where the reader puts the next segment of a stream.
LEMMA NextRestoredAt ==
  ASSUME segments \in Segments, Contiguous, RestoredSoFar, Len(restored) \in Nat,
         DOMAIN restored = 1 .. Len(restored),
         NEW i \in DOMAIN segments, i = Len(restored) + 1
  PROVE  RestoredEnd(segments[i].sid) = segments[i].start + Zone * Cardinality(Earlier(i))
<1> DEFINE sid == segments[i].sid
<1>1. \A j \in 1 .. i - 1 : j \in DOMAIN segments /\ j \in DOMAIN restored
  BY SegmentType DEF Segments
<1>2. i - 1 = Len(restored)
  OBVIOUS
<1>3. RestoredOf(sid) = Earlier(i)
  BY <1>1, <1>2 DEF RestoredOf, Earlier, RestoredSoFar, ShiftedByZones
<1>4. /\ segments[i].start \in Nat /\ Zone \in Nat
  BY SegmentType, Sizes
<1>5. CASE Earlier(i) = {}
  <2>1. Cardinality(Earlier(i)) = 0 /\ segments[i].start = 0 /\ RestoredEnd(sid) = 0
    BY <1>3, <1>5, EarlierFinite DEF Contiguous, RestoredEnd
  <2> QED BY <1>4, <2>1
<1>6. CASE Earlier(i) # {}
  <2> DEFINE j == CHOOSE k \in RestoredOf(sid) : \A l \in RestoredOf(sid) : l <= k
  <2>1. \E k \in Earlier(i) : \A l \in Earlier(i) : l <= k
    <3>1. Earlier(i) \subseteq 1 .. Len(restored)
      BY <1>2 DEF Earlier
    <3> QED BY <1>6, <3>1, GreatestIndex
  <2>2. j \in Earlier(i) /\ \A l \in Earlier(i) : l <= j
    BY <1>3, <2>1
  <2>3. RestoredEnd(sid) = restored[j].start + restored[j].size
    BY <1>3, <1>6 DEF RestoredEnd
  <2> HIDE DEF j
  <2>4. j \in DOMAIN restored /\ j \in DOMAIN segments
    BY <1>1, <2>2 DEF Earlier
  <2>5. /\ restored[j].size = segments[j].size + Zone
        /\ restored[j].start = segments[j].start + Zone * Cardinality(Earlier(j))
    BY <2>4 DEF RestoredSoFar, ShiftedByZones
  <2>6. segments[i].start = segments[j].start + segments[j].size
    BY <2>2 DEF Contiguous
  <2>7. /\ Cardinality(Earlier(i)) = Cardinality(Earlier(j)) + 1
        /\ Cardinality(Earlier(j)) \in Nat
    BY <2>2, <2>4, EarlierOfLast, EarlierFinite
  <2>8. /\ Zone * Cardinality(Earlier(i)) = Zone * Cardinality(Earlier(j)) + Zone
        /\ Zone * Cardinality(Earlier(j)) \in Nat
    BY <1>4, <2>7, OneMore
  <2>9. segments[j].start \in Nat /\ segments[j].size \in Nat
    BY <2>4, SegmentType
  <2> DEFINE c == Zone * Cardinality(Earlier(j))
             d == Zone * Cardinality(Earlier(i))
             start == segments[j].start
             length == segments[j].size
  <2>10. /\ d = c + Zone /\ c \in Nat /\ start \in Nat /\ length \in Nat
         /\ RestoredEnd(sid) = start + c + (length + Zone)
         /\ segments[i].start = start + length
    BY <2>3, <2>5, <2>6, <2>8, <2>9
  <2> HIDE DEF c, d, start, length, sid
  <2>11. start + c + (length + Zone) = start + length + d
    BY <1>4, <2>10
  <2>12. RestoredEnd(sid) = segments[i].start + d
    BY <2>10, <2>11
  <2> QED BY <2>12 DEF d, sid
<1> QED BY <1>5, <1>6

\* One more partition.
LEMMA RestorePartitionKeeps ==
  ASSUME IInv, FooterFits, SavedLayout, Contiguous, RestoredSoFar, RestorePartition
  PROVE  RestoredSoFar'
<1>0. PICK n \in Nat : n = Len(restored)
  BY DEF IInv, TypeOK
<1> DEFINE i == n + 1
<1>1. /\ segments \in Segments /\ restored \in Seq([sid : Sids, start : Int, size : Int, origin : Addresses])
      /\ restoredSize \in [Sids -> Int] /\ DOMAIN restored = 1 .. n
  BY <1>0 DEF IInv, TypeOK, Segments, Segment
<1>2. PICK a \in Addresses :
        /\ IsEssenceOf(a, i)
        /\ restored' = Append(restored, RestoredSegment(i, a))
        /\ restoredSize' = [restoredSize EXCEPT ![partitions[i].sid] = @ + Occupied(i, a)]
  BY <1>0 DEF RestorePartition
<1>3. i < Len(partitions) /\ saved /\ UNCHANGED writerVars /\ segments' = segments /\ saved' = saved
  BY <1>0 DEF RestorePartition, writerVars
<1>4. i \in DOMAIN segments
  <2>1. Len(partitions) = Len(segments) + 1 /\ Len(segments) \in Nat /\ DOMAIN segments = 1 .. Len(segments)
    BY <1>1, <1>3 DEF SavedLayout, Segments
  <2> QED BY <1>3, <2>1
<1> DEFINE seg == segments[i]
           found == RestoredSegment(i, a)
<1>5. /\ partitions[i].address \in Nat /\ partitions[i].sid = seg.sid
      /\ partitions[i + 1].address = EndOf(seg)
      /\ disk[EndOf(seg)] = Pack
  BY <1>3, <1>4, PacksAround
<1>6. a = seg.origin
  BY <1>2, <1>3, <1>4, EssenceIsFound
<1>7. /\ seg.sid \in Sids /\ seg.origin \in Nat /\ seg.size \in Nat \ {0} /\ seg.start \in Nat
      /\ Zone \in Nat /\ PackSize \in Nat /\ EndOf(seg) = seg.origin + seg.size + Zone
      /\ EndOf(seg) - seg.origin = seg.size + Zone /\ EndOf(seg) # seg.origin
  BY <1>1, <1>4, SegmentType, Sizes DEF EndOf
<1>8. RestoredEnd(seg.sid) = seg.start + Zone * Cardinality(Earlier(i))
  BY <1>0, <1>1, <1>4, NextRestoredAt
<1>9. /\ found.sid = seg.sid /\ found.origin = seg.origin /\ found.size = seg.size + Zone
      /\ found.start = RestoredEnd(seg.sid)
  BY <1>5, <1>6, <1>7 DEF RestoredSegment
<1>10. Occupied(i, a) = seg.size + Zone
  <2>1. Occupied(i, a) = EndOf(seg) - seg.origin - 0
    BY <1>5, <1>6, <1>7 DEF Occupied
  <2> HIDE DEF seg
  <2> QED BY <1>7, <2>1
<1> HIDE DEF found
<1>11. /\ DOMAIN restored' = 1 .. i /\ Len(restored') = i /\ restored'[i] = found
       /\ \A j \in DOMAIN restored : restored'[j] = restored[j]
  BY <1>0, <1>1, <1>2 DEF found
<1>12. ASSUME NEW j \in DOMAIN restored'
       PROVE  ShiftedByZones(j)'
  <2>1. Earlier(j)' = Earlier(j)
    BY <1>3 DEF Earlier
  <2>2. CASE j = i
    BY <1>3, <1>8, <1>9, <1>11, <2>1, <2>2 DEF ShiftedByZones
  <2>3. CASE j # i
    <3>1. j \in DOMAIN restored
      BY <1>1, <1>11, <2>3
    <3>2. ShiftedByZones(j)
      BY <3>1 DEF RestoredSoFar
    <3> QED BY <1>3, <1>11, <2>1, <3>1, <3>2 DEF ShiftedByZones
  <2> QED BY <2>2, <2>3
<1>13. ASSUME NEW sid \in Sids
       PROVE  restoredSize'[sid] = RestoredEnd(sid)'
  <2>1. CASE sid = seg.sid
    <3>1. RestoredEnd(sid)' = found.start + found.size
      <4>1. i \in RestoredOf(sid)' /\ \A j \in RestoredOf(sid)' : j <= i /\ j \in Nat
        BY <1>9, <1>11, <2>1 DEF RestoredOf
      <4>2. \A k \in RestoredOf(sid)' : (\A j \in RestoredOf(sid)' : j <= k) => k = i
        <5> TAKE k \in RestoredOf(sid)'
        <5>1. k <= i /\ k \in Nat
          BY <4>1
        <5> QED BY <4>1, <5>1
      <4>3. (CHOOSE k \in RestoredOf(sid)' : \A j \in RestoredOf(sid)' : j <= k) = i
        BY <4>1, <4>2
      <4>4. RestoredOf(sid)' # {}
        BY <4>1
      <4> HIDE DEF i
      <4> QED BY <1>11, <4>3, <4>4 DEF RestoredEnd
    <3>2. restoredSize'[sid] = restoredSize[sid] + (seg.size + Zone)
      BY <1>1, <1>2, <1>5, <1>10, <2>1
    <3>3. restoredSize[sid] = RestoredEnd(sid)
      BY DEF RestoredSoFar
    <3> QED BY <1>9, <2>1, <3>1, <3>2, <3>3
  <2>2. CASE sid # seg.sid
    <3>1. restoredSize'[sid] = restoredSize[sid]
      BY <1>1, <1>2, <1>5, <2>2
    <3>2. RestoredOf(sid)' = RestoredOf(sid)
      <4>1. \A j \in DOMAIN restored' : j = i \/ j \in DOMAIN restored
        BY <1>1, <1>11
      <4>2. \A j \in DOMAIN restored : j \in DOMAIN restored'
        BY <1>1, <1>11
      <4> QED BY <1>9, <1>11, <2>2, <4>1, <4>2 DEF RestoredOf
    <3>3. RestoredEnd(sid)' = RestoredEnd(sid)
      <4>1. CASE RestoredOf(sid) = {}
        BY <3>2, <4>1 DEF RestoredEnd
      <4>2. CASE RestoredOf(sid) # {}
        <5> DEFINE last == CHOOSE j \in RestoredOf(sid) : \A k \in RestoredOf(sid) : k <= j
        <5>1. \E j \in RestoredOf(sid) : \A k \in RestoredOf(sid) : k <= j
          <6>1. RestoredOf(sid) \subseteq 1 .. n
            BY <1>1 DEF RestoredOf
          <6> QED BY <4>2, <6>1, GreatestIndex
        <5>2. last \in DOMAIN restored
          BY <5>1 DEF RestoredOf
        <5>3. RestoredEnd(sid) = restored[last].start + restored[last].size
          BY <4>2 DEF RestoredEnd
        <5>4. RestoredEnd(sid)' = restored'[last].start + restored'[last].size
          BY <3>2, <4>2 DEF RestoredEnd
        <5> HIDE DEF last
        <5> QED BY <1>11, <5>2, <5>3, <5>4
      <4> QED BY <4>1, <4>2
    <3> QED BY <3>1, <3>3 DEF RestoredSoFar
  <2> QED BY <2>1, <2>2
<1>14. Len(restored)' <= Len(segments)'
  <2>1. i \in 1 .. Len(segments)
    BY <1>1, <1>4, SegmentType
  <2> QED BY <1>3, <1>11, <2>1
<1> QED BY <1>3, <1>12, <1>13, <1>14 DEF RestoredSoFar

\* A reader that starts over has restored nothing wrong.
LEMMA NothingIsRestored ==
  ASSUME NothingRestored, segments' \in Segments
  PROVE  RestoredSoFar'
<1>1. restored' = <<>> /\ restoredSize' = [sid \in Sids |-> 0]
  BY DEF NothingRestored
<1>2. \A sid \in Sids : RestoredOf(sid)' = {}
  BY <1>1 DEF RestoredOf
<1>3. \A sid \in Sids : restoredSize'[sid] = RestoredEnd(sid)'
  BY <1>1, <1>2 DEF RestoredEnd
<1>4. Len(restored') <= Len(segments')
  BY <1>1 DEF Segments
<1> QED BY <1>1, <1>3, <1>4 DEF RestoredSoFar

\* Every step keeps what is restored right.
LEMMA RestoringKept ==
  ASSUME MetadataFits
  PROVE  /\ IInv /\ FooterFits /\ SavedLayout /\ Contiguous /\ RestoredSoFar /\ [Next]_vars
         => RestoredSoFar'
<1> SUFFICES ASSUME IInv, FooterFits, SavedLayout, Contiguous, RestoredSoFar, [Next]_vars
             PROVE  RestoredSoFar'
  OBVIOUS
<1>1. NothingRestored => RestoredSoFar'
  <2>1. IInv'
    BY NextKeeps
  <2>2. segments' \in Segments
    BY <2>1 DEF IInv, TypeOK, Segments, Segment
  <2> QED BY <2>2, NothingIsRestored
<1>2. ASSUME NEW sid \in Sids, NEW byteCount \in WriteCounts, NEW overlap \in Overlaps,
             WriteStreamAt(sid, size[sid] - overlap, byteCount)
      PROVE  RestoredSoFar'
  BY <1>1, <1>2 DEF WriteStreamAt
<1>3. ASSUME NEW sid \in Sids, NEW newSize \in SetSizes, StreamSetSize(sid, newSize)
      PROVE  RestoredSoFar'
  BY <1>1, <1>3 DEF StreamSetSize
<1>4. ASSUME NEW m \in MetadataSizes, Save(m)
      PROVE  RestoredSoFar'
  BY <1>1, <1>4 DEF Save
<1>5. CASE RestorePartition
  BY <1>5, RestorePartitionKeeps
<1>6. CASE UNCHANGED vars
  <2>1. /\ segments' = segments /\ saved' = saved
        /\ restored' = restored /\ restoredSize' = restoredSize
    BY <1>6 DEF vars, writerVars, readerVars
  <2>2. \A i \in DOMAIN restored : ShiftedByZones(i) => ShiftedByZones(i)'
    BY <2>1 DEF ShiftedByZones, Earlier
  <2>3. \A sid \in Sids : RestoredEnd(sid)' = RestoredEnd(sid)
    BY <2>1 DEF RestoredEnd, RestoredOf
  <2> QED BY <2>1, <2>2, <2>3 DEF RestoredSoFar
<1> QED BY <1>2, <1>3, <1>4, <1>5, <1>6 DEF Next

\* What was restored reads as what was written, and behind it fill.
LEMMA RestoredReadsBack ==
  ASSUME IInv, FooterFits, SavedLayout, RestoredSoFar, NEW i \in DOMAIN restored
  PROVE  i \in DOMAIN segments /\ ShiftedByZones(i) /\ ContentThenFill(i)
<1>1. /\ segments \in Segments
      /\ restored \in Seq([sid : Sids, start : Int, size : Int, origin : Addresses])
  BY DEF IInv, TypeOK, Segments, Segment
<1>2. i \in 1 .. Len(restored) /\ Len(restored) \in Nat /\ restored # <<>>
  BY <1>1
<1>3. i \in DOMAIN segments /\ saved /\ ShiftedByZones(i)
  <2>1. Len(restored) <= Len(segments) /\ Len(segments) \in Nat /\ DOMAIN segments = 1 .. Len(segments)
    BY <1>1 DEF RestoredSoFar, Segments
  <2> QED BY <1>2, <2>1 DEF RestoredSoFar
<1>4. /\ restored[i].origin = segments[i].origin /\ restored[i].size = segments[i].size + Zone
      /\ segments[i].origin \in Nat /\ segments[i].size \in Nat /\ Zone \in Nat /\ LastAddress \in Nat
      /\ ValidSize(segments[i]) \in Nat
  BY <1>1, <1>3, SegmentType, ValidSizeType, Sizes DEF ShiftedByZones
<1>5. ASSUME NEW o \in 0 .. restored[i].size - 1
      PROVE  disk[restored[i].origin + o] =
               IF o < ValidSize(segments[i]) THEN <<segments[i].sid, segments[i].start + o>> ELSE Fill
  <2>1. o \in Nat /\ o < segments[i].size + Zone
    BY <1>4
  <2>2. CASE o < ValidSize(segments[i])
    BY <1>3, <1>4, <2>1, <2>2, ContentAtOrigin
  <2>3. CASE ~ (o < ValidSize(segments[i]))
    <3> DEFINE b == segments[i].origin + o
    <3>1. /\ b \in Nat /\ b >= segments[i].origin + ValidSize(segments[i])
          /\ b < segments[i].origin + segments[i].size + Zone
      BY <1>4, <2>1, <2>3
    <3>2. EndOf(segments[i]) \in Addresses
      BY <1>3, PacksAround
    <3>3. b < EndOf(segments[i]) /\ EndOf(segments[i]) <= LastAddress
      BY <1>4, <3>1, <3>2 DEF EndOf, Addresses
    <3>4. b \in Addresses
      BY <1>4, <3>1, <3>2, <3>3 DEF Addresses
    <3> HIDE DEF b
    <3>5. disk[b] = Fill
      BY <1>3, <3>1, <3>3, <3>4 DEF SavedLayout
    <3> QED BY <1>4, <2>3, <3>5 DEF b
  <2> QED BY <2>2, <2>3
<1> QED BY <1>3, <1>5 DEF ContentThenFill

\* No assertion of the reader fails when every segment can be read.
LEMMA ReaderSucceeds ==
  ASSUME IInv, FooterFits, SavedLayout, saved, \A i \in DOMAIN segments : Readable(segments[i])
  PROVE  RestoreSucceeds /\ Len(partitions) = Len(segments) + 1
<1>1. segments \in Segments
  BY DEF IInv, TypeOK, Segments, Segment
<1>2. Len(partitions) = Len(segments) + 1
  BY DEF SavedLayout
<1>3. 1 .. Len(partitions) - 1 = DOMAIN segments
  BY <1>1, <1>2 DEF Segments
<1>4. \A i \in DOMAIN segments : \E a \in Addresses : IsEssenceOf(a, i)
  BY EssenceIsFound
<1> QED BY <1>2, <1>3, <1>4 DEF RestoreSucceeds, SavedLayout

\* Whatever grids the streams have and whatever was written, cut off and saved
\* before, no assertion of a reader fails when every segment has content and begins
\* with a packet; and whatever a reader restores are the segments in order, with
\* their content, each further on in its stream by exactly the zones before it: if
\* the metadata fits the space preallocated for it.
THEOREM SegmentsAreFound ==
  ASSUME MetadataFits, AddressesSuffice
  PROVE  Spec => []RestoreFindsSegments
<1> DEFINE Known == FooterFits /\ SavedLayout /\ Contiguous /\ RestoredSoFar
<1>1. Init => Known
  <2> SUFFICES ASSUME Init PROVE Known
    OBVIOUS
  <2>1. segments = <<>> /\ saved = FALSE /\ restored = <<>> /\ restoredSize = [sid \in Sids |-> 0]
    BY DEF Init
  <2>2. \A sid \in Sids : RestoredOf(sid) = {}
    BY <2>1 DEF RestoredOf
  <2>3. RestoredSoFar
    BY <2>1, <2>2 DEF RestoredSoFar, RestoredEnd
  <2> QED BY <2>1, <2>3 DEF FooterFits, SavedLayout, Contiguous
<1>2. IInv /\ Known /\ [Next]_vars => Known'
  BY LayoutKept, ContiguousKept, RestoringKept
<1>3. IInv /\ Known => RestoreFindsSegments
  <2> SUFFICES ASSUME IInv, Known PROVE RestoreFindsSegments
    OBVIOUS
  <2>1. saved /\ (\A i \in DOMAIN segments : Readable(segments[i])) =>
          RestoreSucceeds /\ Len(partitions) = Len(segments) + 1
    BY ReaderSucceeds
  <2>2. \A i \in DOMAIN restored : i \in DOMAIN segments /\ ShiftedByZones(i) /\ ContentThenFill(i)
    BY RestoredReadsBack
  <2> QED BY <2>1, <2>2 DEF RestoreFindsSegments, RestoredSoFar
<1>4. Spec => []IInv
  BY Invariance
<1> HIDE DEF Known
<1> QED BY <1>1, <1>2, <1>3, <1>4, PTL DEF Spec

=============================================================================
