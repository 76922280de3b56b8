----------------------------- MODULE MXFStreams -----------------------------
(***************************************************************************)
(* How OMMXFStorage lays streams out in one file, and what a reader of the *)
(* saved file finds there.                                                 *)
(*                                                                         *)
(* The first BodyOffset addresses are kept for the metadata.  Each stream  *)
(* is a list of segments behind it; a segment grows in place while it is   *)
(* the last of the file, otherwise the stream gets another.  In front of   *)
(* each segment is room for a partition pack and the fill that aligns the  *)
(* segment; Save writes both there, over the end of the segment before     *)
(* which it also fills.  A reader follows the packs from the footer back   *)
(* and takes for a segment what lies between two of them, fill included.   *)
(*                                                                         *)
(* An address stands for several bytes: KL for the key and length of a     *)
(* packet (25), Zone for fillBufferZoneSize (32), PackSize for a pack.     *)
(* The build defines OM_NEW_STREAM_WRITING and OM_FASTER_STREAM_PARSING;   *)
(* the other branches are left out, and so are index streams, writes past  *)
(* the end of a stream, and changes to a file that was opened, not created.*)
(***************************************************************************)
EXTENDS Integers, Sequences, FiniteSets, SequencesExt

CONSTANTS
  Sids,           \* the stream identifiers
  Grid,           \* the grid (KAG) size of each stream
  KL, Zone, PackSize,
  Preallocated,   \* preallocatedMetadataSize
  KeyOffsets,     \* the offsets in a stream where its writer begins a packet
  WriteCounts,    \* how much one call writes
  Overlaps,       \* how far before the end of a stream a write begins
  SetSizes,       \* the sizes a client sets
  MetadataSizes,  \* how far the metadata reaches when it is saved
  MayEmptyNew,    \* may a client set the size of a new stream to zero?
  MaxAllocated,   \* BOUND: no stream is allocated more than this
  LastAddress,    \* BOUND: no file reaches this address
  Blank, Metadata, Fill, Pack   \* what an address holds, apart from content

ASSUME MXFAssumption ==
  /\ KL \in Nat \ {0} /\ Zone \in Nat /\ Zone > KL /\ PackSize \in Nat \ {0}
  /\ Grid \in [Sids -> Nat]
  /\ \A sid \in Sids : Grid[sid] > Zone + PackSize + KL + KL
  /\ Preallocated \in Nat \ {0}
  /\ KeyOffsets \subseteq Nat /\ 0 \in KeyOffsets
  /\ WriteCounts \subseteq Nat \ {0} /\ Overlaps \subseteq Nat /\ SetSizes \subseteq Nat
  /\ MetadataSizes \subseteq Nat \ {0}
  /\ MayEmptyNew \in BOOLEAN
  /\ LastAddress \in Nat
  /\ Fill \notin Sids \X Nat /\ Pack \notin Sids \X Nat /\ Pack # Fill

BodyOffset == Preallocated + Zone

Addresses == 0 .. LastAddress

VARIABLES
  segments,    \* _segments, in the order they were added
  size,        \* _size of each stream
  fileSize,    \* _fileSize
  disk,        \* what each address holds
  partitions,  \* the packs on disk, in file order, the footer last
  saved,       \* has nothing changed since the last save?
  failed,      \* the assertion or exception that ended the program, or "none"
  restored,    \* _segments of a reader of the saved file
  restoredSize \* _size of each stream there

readerVars == <<restored, restoredSize>>
writerVars == <<segments, size, fileSize, disk, partitions, saved, failed>>
vars == <<writerVars, readerVars>>

-----------------------------------------------------------------------------
(* The segments of a stream. *)

\* The stream's own list has its segments in the order of all segments.
Own(sid) == {i \in DOMAIN segments : segments[i].sid = sid}

\* segmentMap()->find: a stream is created with its first segment.
IsCreated(sid) == Own(sid) # {}

\* findLastSegment
LastOf(sid) == CHOOSE i \in Own(sid) : \A j \in Own(sid) : j <= i

\* allocatedSize: the segments of a stream are contiguous in it.
AllocatedSize(sid) ==
  IF IsCreated(sid) THEN segments[LastOf(sid)].start + segments[LastOf(sid)].size ELSE 0

\* findSegment and streamFragment: the position of a stream at an address of one
\* of its segments.
PositionAt(seg, a) == a - seg.origin + seg.start

IsWithin(seg, a) == a >= seg.origin /\ a < seg.origin + seg.size

\* Fault: only the segment the stream ends in has content.
ValidSizeOfTail(seg) ==
  IF size[seg.sid] >= seg.start /\ size[seg.sid] <= seg.start + seg.size
  THEN size[seg.sid] - seg.start ELSE 0

\* validSize: how much of a segment is before the end of the stream.
ValidSize(seg) ==
  IF size[seg.sid] > seg.start + seg.size THEN seg.size
  ELSE IF size[seg.sid] < seg.start THEN 0
  ELSE size[seg.sid] - seg.start

\* A file that is changed has to be opened again to be read.
NothingRestored == restored' = <<>> /\ restoredSize' = [sid \in Sids |-> 0]

Init ==
  /\ segments = <<>>
  /\ size = [sid \in Sids |-> 0]
  /\ fileSize = Preallocated
  /\ disk = [a \in Addresses |-> Blank]
  /\ partitions = <<>>
  /\ saved = FALSE
  /\ failed = "none"
  /\ restored = <<>> /\ restoredSize = [sid \in Sids |-> 0]

-----------------------------------------------------------------------------
(* Growing and writing. *)

\* Fault: a growth of less than a grid is none.
IncrementRoundedDown(sid, growBytes) == (growBytes \div Grid[sid]) * Grid[sid]

\* The growth, in whole grids.
Increment(sid, growBytes) == ((growBytes - 1) \div Grid[sid] + 1) * Grid[sid]

\* Fault: the packet, not its value, is on the grid.
NewOriginOnGrid(sid) == fileSize + Grid[sid]

\* Where a new segment begins: its packet's value is to be on the grid, so its
\* key and length are before it, and in front of them is the partition pack.
NewOrigin(sid) == fileSize + Grid[sid] - KL

\* addSegment
AddedSegment(sid, growBytes) ==
  [sid |-> sid, start |-> AllocatedSize(sid),
   size |-> Increment(sid, growBytes) + KL, origin |-> NewOrigin(sid)]

\* Fault: any segment may be grown in place.
IsLastOfStream(seg) == seg.origin + seg.size <= fileSize

\* Is the last segment of the stream the last of the file?
IsLast(seg) == seg.origin + seg.size = fileSize

\* streamGrow: in place, or into a new segment at the end of the file.
GrowInPlace(sid, growBytes) ==
  /\ IsCreated(sid) /\ IsLast(segments[LastOf(sid)])
  /\ segments' = [segments EXCEPT ![LastOf(sid)].size = @ + Increment(sid, growBytes)]
  /\ fileSize' = fileSize + Increment(sid, growBytes)

GrowBySegment(sid, growBytes) ==
  LET added == AddedSegment(sid, growBytes)
  IN  /\ IsCreated(sid) => ~ IsLast(segments[LastOf(sid)])
      /\ segments' = Append(segments, added)
      /\ fileSize' = added.origin + added.size

StreamGrow(sid, growBytes) ==
  \/ growBytes > 0 /\ (GrowInPlace(sid, growBytes) \/ GrowBySegment(sid, growBytes))
  \/ growBytes <= 0 /\ UNCHANGED <<segments, fileSize>>

InBounds ==
  /\ \A sid \in Sids : AllocatedSize(sid)' <= MaxAllocated
  /\ fileSize' + Zone + PackSize <= LastAddress

\* writeStreamAt, in the fragments streamWriteFragment makes.
\* A byte is known by its stream and its offset there.
WriteStreamAt(sid, position, byteCount) ==
  /\ failed = "none"
  /\ position \in 0 .. size[sid]
  /\ StreamGrow(sid, position + byteCount - AllocatedSize(sid))
  /\ InBounds
  /\ disk' = [a \in Addresses |->
       IF \E i \in Own(sid)' :
            /\ IsWithin(segments'[i], a)
            /\ PositionAt(segments'[i], a) \in position .. position + byteCount - 1
       THEN LET at == CHOOSE i \in Own(sid)' : IsWithin(segments'[i], a)
            IN  <<sid, PositionAt(segments'[at], a)>>
       ELSE disk[a]]
  /\ size' = [size EXCEPT ![sid] = IF position + byteCount > @
                                   THEN position + byteCount ELSE @]
  /\ saved' = FALSE
  /\ NothingRestored
  /\ UNCHANGED <<partitions, failed>>

\* streamSetSize: a larger size allocates and is not recorded.
StreamSetSize(sid, newSize) ==
  /\ failed = "none"
  /\ MayEmptyNew \/ IsCreated(sid) \/ newSize > 0
  /\ IF IsCreated(sid) /\ newSize <= size[sid]
     THEN /\ size' = [size EXCEPT ![sid] = newSize]
          /\ UNCHANGED <<segments, fileSize, failed>>
     ELSE /\ StreamGrow(sid, newSize - size[sid])
          /\ failed' = IF newSize = size[sid] THEN "grow" ELSE "none"
          /\ UNCHANGED size
  /\ saved' = FALSE
  /\ InBounds
  /\ NothingRestored
  /\ UNCHANGED <<disk, partitions>>

-----------------------------------------------------------------------------
(* Saving. *)

\* fillAlignK, from the end of the metadata to the first partition pack.
MetadataEnd(metadataSize) == ((metadataSize + KL) \div BodyOffset + 1) * BodyOffset

EndOf(seg) == seg.origin + seg.size + Zone

\* Where the pack before segment i goes: it ends the segment before.
PackPosition(i, metadataSize) ==
  IF i = 1 THEN MetadataEnd(metadataSize) ELSE EndOf(segments[i - 1])

\* fillAlignV, after the pack: the key and length of the fill, then those of
\* the packet, whose value is on the grid.
AlignedAfter(position, gridSize) ==
  ((position + PackSize + KL + KL) \div gridSize + 1) * gridSize - KL

\* The assertions and the exception of saveStreams.
SaveFailure(metadataSize) ==
  IF segments = <<>> THEN "none"
  ELSE IF metadataSize >= BodyOffset THEN "exhausted"
  ELSE IF \E i \in DOMAIN segments : segments[i].origin <= PackPosition(i, metadataSize)
       THEN "order"
  ELSE IF \E i \in DOMAIN segments :
            segments[i].origin #
              AlignedAfter(PackPosition(i, metadataSize), Grid[segments[i].sid])
       THEN "origin"
  ELSE "none"

FooterPosition(metadataSize) ==
  IF segments = <<>> THEN metadataSize ELSE EndOf(Last(segments))

Packs(metadataSize) ==
  [i \in DOMAIN segments |->
     [address |-> PackPosition(i, metadataSize), sid |-> segments[i].sid]]

\* What saveStreams writes: the packs, the fill after each up to its segment,
\* the fill of what the segments do not use, and that behind the metadata.
Packed(metadataSize) ==
  LET packs == {p.address : p \in ToSet(Packs(metadataSize))} \cup {FooterPosition(metadataSize)}
  IN  UNION {p .. p + PackSize - 1 : p \in packs}

Aligning(metadataSize) ==
  UNION {PackPosition(i, metadataSize) .. segments[i].origin - 1 : i \in DOMAIN segments}

Unused ==
  UNION {segments[i].origin + ValidSize(segments[i]) .. EndOf(segments[i]) - 1 : i \in DOMAIN segments}

BehindMetadata(metadataSize) ==
  IF segments = <<>> THEN {} ELSE metadataSize .. MetadataEnd(metadataSize) - 1

SavedDisk(metadataSize) ==
  LET packed == Packed(metadataSize)
      filled == (Aligning(metadataSize) \cup Unused) \cup BehindMetadata(metadataSize)
  IN  [a \in Addresses |-> IF a \in packed THEN Pack
                           ELSE IF a \in filled THEN Fill
                           ELSE IF a < metadataSize THEN Metadata
                           ELSE disk[a]]

\* OMKLVStoredObject::save: the metadata first, then the streams.  A save that
\* fails has written the metadata; what it wrote after that is left out.
Save(metadataSize) ==
  /\ failed = "none"
  /\ failed' = SaveFailure(metadataSize)
  /\ IF failed' = "none"
     THEN /\ disk' = SavedDisk(metadataSize)
          /\ partitions' = Packs(metadataSize)
                             \o <<[address |-> FooterPosition(metadataSize), sid |-> Pack]>>
          /\ saved' = TRUE
     ELSE /\ disk' = [a \in Addresses |-> IF a < metadataSize THEN Metadata ELSE disk[a]]
          /\ UNCHANGED <<partitions, saved>>
  /\ NothingRestored
  /\ UNCHANGED <<segments, size, fileSize>>

-----------------------------------------------------------------------------
(* Reading the saved file. *)

\* Packet by packet, past the pack at `position' and the fill after it.
IsFirstAfter(a, position) ==
  /\ a >= position + PackSize /\ disk[a] # Fill
  /\ \A b \in Addresses : b >= position + PackSize /\ b < a => disk[b] = Fill

\* An essence element has the key the writer of the stream gave it.
HasEssenceKey(a) == \E sid \in Sids, offset \in KeyOffsets : disk[a] = <<sid, offset>>

\* Where the reader finds the essence of partition i.
IsEssenceOf(a, i) == IsFirstAfter(a, partitions[i].address) /\ HasEssenceKey(a)

RestoredOf(sid) == {i \in DOMAIN restored : restored[i].sid = sid}

\* The end of the last segment of a stream, for the reader.
RestoredEnd(sid) ==
  IF RestoredOf(sid) = {} THEN 0
  ELSE LET last == CHOOSE i \in RestoredOf(sid) : \A j \in RestoredOf(sid) : j <= i
       IN  restored[last].start + restored[last].size

\* Fault: every segment is restored as the first of its stream.
RestoredAtStart(i, a) ==
  [sid |-> partitions[i].sid, start |-> 0,
   size |-> partitions[i + 1].address - a, origin |-> a]

\* streamRestoreSegment: from the essence key at a to the next pack, behind what
\* the stream has by then.
RestoredSegment(i, a) ==
  [sid |-> partitions[i].sid, start |-> RestoredEnd(partitions[i].sid),
   size |-> partitions[i + 1].address - a, origin |-> a]

\* markEssenceSegmentEnd takes off the fill it marked last if the next pack is
\* where that ends.  But marking stops at the essence key, so that fill is the
\* one between the pack and the essence, and ends at a.
Occupied(i, a) ==
  LET next == partitions[i + 1].address
      free == IF next = a THEN a - (partitions[i].address + PackSize) ELSE 0
  IN  next - a - free

\* restoreStreams, one turn of its loop, up to the next partition.
RestorePartition ==
  LET i == Len(restored) + 1 IN
  /\ failed = "none" /\ saved
  /\ i < Len(partitions) /\ partitions[i].sid # Pack
  /\ disk[partitions[i].address] = Pack /\ disk[partitions[i + 1].address] = Pack
  /\ \E a \in Addresses :
       /\ IsEssenceOf(a, i)
       /\ restored' = Append(restored, RestoredSegment(i, a))
       /\ restoredSize' = [restoredSize EXCEPT ![partitions[i].sid] = @ + Occupied(i, a)]
  /\ UNCHANGED writerVars

Next ==
  \/ \E sid \in Sids, byteCount \in WriteCounts, overlap \in Overlaps :
       WriteStreamAt(sid, size[sid] - overlap, byteCount)
  \/ \E sid \in Sids, newSize \in SetSizes : StreamSetSize(sid, newSize)
  \/ \E metadataSize \in MetadataSizes : Save(metadataSize)
  \/ RestorePartition

Spec == Init /\ [][Next]_vars

-----------------------------------------------------------------------------
(* Properties. *)

TypeOK ==
  /\ segments \in Seq([sid : Sids, start : Nat, size : Nat \ {0}, origin : Nat])
  /\ size \in [Sids -> Nat] /\ fileSize \in Nat
  /\ \A sid \in Sids : size[sid] <= AllocatedSize(sid)
  /\ disk \in [Addresses -> {Blank, Metadata, Fill, Pack} \cup (Sids \X Nat)]
  /\ partitions \in Seq([address : Nat, sid : Sids \cup {Pack}])
  /\ saved \in BOOLEAN
  /\ failed \in {"none", "grow", "exhausted", "order", "origin"}
  /\ restored \in Seq([sid : Sids, start : Int, size : Int, origin : Addresses])
  /\ restoredSize \in [Sids -> Int]

\* Between the segments, and between the metadata and the first of them, there
\* is always room for the buffer zone and a partition pack, and the file ends
\* with its last segment: growing a segment in place never runs into another.
SegmentsApart ==
  /\ \A i \in DOMAIN segments : segments[i].origin >= BodyOffset + PackSize
  /\ \A i, j \in DOMAIN segments :
       i < j => segments[j].origin >= EndOf(segments[i]) + PackSize
  /\ segments # <<>> => fileSize = Last(segments).origin + Last(segments).size

\* Every byte a client wrote and did not cut off is where a read looks for it, in
\* whatever segment findSegment finds: no write to another stream, no pack, fill,
\* footer or metadata replaced it.
HasPosition(seg, p) == p >= seg.start /\ p < seg.start + seg.size

StreamIntact ==
  \A sid \in Sids : \A p \in 0 .. size[sid] - 1 :
    /\ \E i \in Own(sid) : HasPosition(segments[i], p)
    /\ \A i \in Own(sid) : HasPosition(segments[i], p) =>
         disk[p - segments[i].start + segments[i].origin] = <<sid, p>>

\* No assertion or exception of the layout fails: the alignment that saveStreams
\* computes from the file always agrees with the one streamGrow computed from sizes.
LayoutAgrees == failed = "none"

\* Every partition has its pack, and its essence before the next one.
RestoreSucceeds ==
  /\ \A i \in DOMAIN partitions : disk[partitions[i].address] = Pack
  /\ \A i \in 1 .. Len(partitions) - 1 : \E a \in Addresses : IsEssenceOf(a, i)

\* The segment has content and begins with a packet.
Readable(seg) == size[seg.sid] > seg.start /\ seg.start \in KeyOffsets

\* The segments of the same stream before segment i.
Earlier(i) == {j \in 1 .. i - 1 : segments[j].sid = segments[i].sid}

\* The reader's segment i is the writer's, with the zone behind it as part of it,
\* and so with those of the segments before it in front of it.
ShiftedByZones(i) ==
  /\ restored[i].sid = segments[i].sid
  /\ restored[i].origin = segments[i].origin
  /\ restored[i].size = segments[i].size + Zone
  /\ restored[i].start = segments[i].start + Zone * Cardinality(Earlier(i))

\* It reads as the content of the writer's segment and, behind it, nothing but fill.
ContentThenFill(i) ==
  \A o \in 0 .. restored[i].size - 1 :
    disk[restored[i].origin + o] =
      IF o < ValidSize(segments[i]) THEN <<segments[i].sid, segments[i].start + o>> ELSE Fill

\* When every segment has content and begins with a packet, no assertion of the
\* reader fails; and whatever it restores are the segments in order, each for its
\* stream, with all its content: at a position that is further on than where it
\* was written by exactly the zones of the segments before, in a stream that is
\* longer than it was and ends where the last segment does.
RestoreFindsSegments ==
  /\ saved /\ (\A i \in DOMAIN segments : Readable(segments[i])) =>
       RestoreSucceeds /\ Len(partitions) = Len(segments) + 1
  /\ \A i \in DOMAIN restored : i \in DOMAIN segments /\ ShiftedByZones(i) /\ ContentThenFill(i)
  /\ \A sid \in Sids : restoredSize[sid] = RestoredEnd(sid)

-----------------------------------------------------------------------------
(* What does not hold. *)

\* "Size properly set": after setSize the stream has the size that was set
\* (POSTCONDITION of OMDataStreamProperty::setSize).
SetSizeTakesEffect ==
  [][\A sid \in Sids, newSize \in SetSizes :
       StreamSetSize(sid, newSize) /\ failed' = "none" => size'[sid] = newSize]_vars

\* A saved file can be read again.
SavedIsReadable == saved => RestoreSucceeds

\* A segment is restored at the position of the stream it was written at.
RestoredInPlace ==
  \A i \in DOMAIN restored : restored[i].start = segments[i].start

=============================================================================
