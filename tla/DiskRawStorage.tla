--------------------------- MODULE DiskRawStorage ---------------------------
(***************************************************************************)
(* The storage without a cache: OMDiskRawStorage over OMStream, which is a *)
(* stdio stream.  What is written sits in the buffer of the stream until   *)
(* the stream is positioned, flushed or closed, or the buffer is full; the *)
(* size of the file on disk lags behind what was written.                  *)
(*                                                                         *)
(* ISO C lets a read follow a write, or a write a read, on one stream only *)
(* when the stream was positioned in between (after a write, a flush will  *)
(* do; after a read, its end of file).  Some libraries are tolerant of the *)
(* rest; in others the call fails, and so does the assertion after it.     *)
(***************************************************************************)
EXTENDS Integers, Sequences

CONSTANTS
  Limit,        \* the bound on sizes and positions
  Value,        \* the bytes clients write
  Zero,         \* the byte a hole in a file reads as, and setSize writes
  Undef,        \* stands for undefined data in the abstract storage
  Original,     \* the bytes an existing file is made of
  Payloads,     \* the byte sequences clients write
  Counts,       \* the byte counts clients ask to read
  Sizes,        \* the sizes clients pass to extend
  Positions,    \* the positions clients use
  InitialSizes, \* the sizes of the files that may be opened
  Tolerant,     \* may reads and writes follow each other in this library?
  ClientsSeek   \* does a client set the position before it changes direction?

Byte == Value \cup {Zero}
Address == 0 .. Limit - 1

ASSUME DiskAssumption ==
  /\ Limit \in Nat \ {0}
  /\ Original \subseteq Value /\ Zero \notin Value /\ Undef \notin Byte
  /\ Payloads \subseteq Seq(Value) \ {<<>>}
  /\ Counts \subseteq Nat \ {0}
  /\ Sizes \subseteq 0 .. Limit
  /\ Positions \subseteq 0 .. Limit
  /\ InitialSizes \subseteq 0 .. Limit
  /\ Tolerant \in BOOLEAN /\ ClientsSeek \in BOOLEAN

VARIABLES
  file,       \* the bytes of the file on disk
  fileSize,   \* its size
  buffered,   \* the bytes in the buffer of the stream; they end at the position
  position,   \* the position of the stream
  last,       \* what the stream did since it was positioned
  mode,       \* _mode, or "closed"
  asked,      \* what the client did since it set the position
  result,     \* the bytes the last call returned
  failed,     \* the assertion that failed, or "none"
  written     \* history: the addresses that were ever written

fileVars == <<file, fileSize>>
vars == <<fileVars, buffered, position, last, mode, asked, result, failed, written>>

Directions == {"none", "read", "write"}
Modes == {"closed", "readOnly", "modify"}
Assertions == {"none", "Successful read", "Successful write"}

Min2(a, b) == IF a <= b THEN a ELSE b
Larger(a, b) == IF a >= b THEN a ELSE b

-----------------------------------------------------------------------------
(* The stdio stream.                                                       *)

\* The byte at an address, as the stream reads it.
Seen(i) ==
  LET first == position - Len(buffered)
  IN  IF first <= i /\ i < position THEN buffered[i - first + 1] ELSE file[i]

\* The size the file has once the buffer is written to it.
StreamSize == IF buffered = <<>> THEN fileSize ELSE Larger(fileSize, position)

\* fflush, which fseeko, fclose and a tolerant fread do first.
Flushed ==
  /\ file' = [i \in Address |-> Seen(i)]
  /\ fileSize' = StreamSize
Flush == Flushed /\ buffered' = <<>>

\* ISO C: a flush ends writing, but not reading.
AfterFlush == IF last = "write" THEN "none" ELSE last

\* The buffer is full: the library writes the first k bytes to the file.
Drain(k) ==
  LET first == position - Len(buffered)
  IN  /\ file' = [i \in Address |-> IF first <= i /\ i < first + k THEN Seen(i) ELSE file[i]]
      /\ fileSize' = Larger(fileSize, first + k)
      /\ buffered' = SubSeq(buffered, k + 1, Len(buffered))
      /\ UNCHANGED <<position, last, mode, asked, result, failed, written>>

-----------------------------------------------------------------------------
(* OMStream.                                                               *)

Fails(assertion) ==
  /\ failed' = assertion
  /\ UNCHANGED <<fileVars, buffered, position, last, asked, result, written>>

\* OMStream::read at pos, where the stream is or was just set.
StreamRead(pos, n, before) ==
  LET count == IF pos < StreamSize THEN Min2(n, StreamSize - pos) ELSE 0
  IN  IF before = "write" /\ ~Tolerant THEN Fails("Successful read")
      ELSE /\ Flush
           /\ result' = [k \in 1 .. count |-> Seen(pos + k - 1)]
           /\ position' = pos + count
           /\ last' = IF count < n THEN "none" ELSE "read"
           /\ asked' = "read"
           /\ UNCHANGED <<failed, written>>

\* Fault: the position stays where the write began.
StreamWriteInPlace(pos, bytes, before, held) ==
  IF before = "read" /\ ~Tolerant THEN Fails("Successful write")
  ELSE /\ buffered' = held \o bytes
       /\ position' = pos
       /\ last' = "write"
       /\ asked' = "write"
       /\ result' = <<>>
       /\ written' = written \cup (pos .. pos + Len(bytes) - 1)
       /\ UNCHANGED failed

\* OMStream::write; `held' is what the buffer holds before it.
StreamWrite(pos, bytes, before, held) ==
  IF before = "read" /\ ~Tolerant THEN Fails("Successful write")
  ELSE /\ buffered' = held \o bytes
       /\ position' = pos + Len(bytes)
       /\ last' = "write"
       /\ asked' = "write"
       /\ result' = <<>>
       /\ written' = written \cup (pos .. pos + Len(bytes) - 1)
       /\ UNCHANGED failed

\* The file after setSize: it is flushed, and grown by a hole and a last byte.
Extended(newSize, currentSize) ==
  IF newSize > currentSize
  THEN /\ file' = [i \in Address |-> IF i = newSize - 1 THEN Zero ELSE Seen(i)]
       /\ fileSize' = Larger(StreamSize, newSize)
  ELSE Flushed

\* Fault: the size is that of the file on disk, before the stream is flushed.
SetSizeOnDisk(newSize) ==
  /\ Extended(newSize, fileSize)
  /\ buffered' = <<>>
  /\ position' = position
  /\ last' = "none"

\* Fault: the position is not restored, nor is the stream positioned.
SetSizeWithoutReturn(newSize) ==
  /\ Extended(newSize, StreamSize)
  /\ buffered' = <<>>
  /\ position' = IF newSize > StreamSize THEN newSize ELSE position
  /\ last' = IF newSize > StreamSize THEN "write" ELSE last

\* OMStream::setSize: size() flushes the stream; a last byte is written at the
\* new end, and the position set back.  A file is never truncated.
SetSize(newSize) ==
  /\ Extended(newSize, StreamSize)
  /\ buffered' = <<>>
  /\ position' = position
  /\ last' = IF newSize > StreamSize THEN "none" ELSE AfterFlush

-----------------------------------------------------------------------------
(* OMDiskRawStorage.                                                       *)

Ready == mode # "closed" /\ failed = "none"
Writable == Ready /\ mode = "modify"

\* readAt and writeAt set the position first, which flushes the stream.
ReadAt(pos, n) ==
  /\ Ready
  /\ StreamRead(pos, n, "none")
  /\ UNCHANGED mode

ReadHere(n) ==
  /\ Ready
  /\ ClientsSeek => asked # "write"
  /\ StreamRead(position, n, last)
  /\ UNCHANGED mode

WriteAt(pos, bytes) ==
  /\ Writable /\ pos + Len(bytes) <= Limit
  /\ StreamWrite(pos, bytes, "none", <<>>)
  /\ Flushed
  /\ UNCHANGED mode

WriteHere(bytes) ==
  /\ Writable /\ position + Len(bytes) <= Limit
  /\ ClientsSeek => asked # "read"
  /\ StreamWrite(position, bytes, last, buffered)
  /\ UNCHANGED <<fileVars, mode>>

Extend(newSize) ==
  /\ Writable
  /\ SetSize(newSize)
  /\ result' = <<>>
  /\ UNCHANGED <<mode, asked, failed, written>>

SetPosition(pos) ==
  /\ Ready
  /\ Flush
  /\ position' = pos
  /\ last' = "none" /\ asked' = "none"
  /\ result' = <<>>
  /\ UNCHANGED <<mode, failed, written>>

\* size() and extent(): the stream is flushed, to ask the system.
Size ==
  /\ Ready
  /\ Flush
  /\ last' = AfterFlush
  /\ UNCHANGED <<position, mode, asked, result, failed, written>>

Synchronize ==
  /\ Ready
  /\ IF mode = "modify" THEN Flush /\ last' = AfterFlush
                        ELSE UNCHANGED <<fileVars, buffered, last>>
  /\ result' = <<>>
  /\ UNCHANGED <<position, mode, asked, failed, written>>

\* The destructor synchronizes the storage and closes the stream.
Close ==
  /\ Ready
  /\ Flush
  /\ mode' = "closed"
  /\ result' = <<>>
  /\ UNCHANGED <<position, last, asked, failed, written>>

\* openExistingRead, openExistingModify; openNewModify makes an empty file.
Open(m) ==
  /\ mode = "closed"
  /\ mode' = m
  /\ position' = 0 /\ last' = "none" /\ asked' = "none"
  /\ result' = <<>>
  /\ UNCHANGED <<fileVars, buffered, failed, written>>

-----------------------------------------------------------------------------

Init ==
  /\ fileSize \in InitialSizes
  /\ file \in [Address -> Original \cup {Zero}]
  /\ \A i \in Address : file[i] = Zero <=> i >= fileSize
  /\ written = 0 .. fileSize - 1
  /\ buffered = <<>> /\ position = 0 /\ last = "none" /\ asked = "none"
  /\ mode = "closed" /\ result = <<>> /\ failed = "none"

Next ==
  \/ \E k \in 1 .. Len(buffered) : Drain(k)
  \/ \E n \in Counts : ReadHere(n) \/ \E pos \in Positions : ReadAt(pos, n)
  \/ \E bytes \in Payloads : WriteHere(bytes) \/ \E pos \in Positions : WriteAt(pos, bytes)
  \/ \E newSize \in Sizes : Extend(newSize)
  \/ \E pos \in Positions : SetPosition(pos)
  \/ Size
  \/ Synchronize
  \/ Close
  \/ \E m \in {"readOnly", "modify"} : Open(m)

Spec == Init /\ [][Next]_vars

-----------------------------------------------------------------------------
(* What must hold.                                                         *)

TypeOK ==
  /\ file \in [Address -> Byte] /\ fileSize \in 0 .. Limit
  /\ buffered \in Seq(Byte) /\ Len(buffered) <= position
  /\ position \in 0 .. Limit
  /\ last \in Directions /\ asked \in Directions /\ mode \in Modes
  /\ buffered # <<>> => last = "write" /\ mode = "modify"
  /\ result \in Seq(Byte) /\ failed \in Assertions
  /\ written \subseteq 0 .. StreamSize - 1

\* A client that sets the position before it changes direction never meets the
\* rule of ISO C: whatever else it called in between, extend above all, which
\* writes a byte of its own, leaves the stream ready for what was legal before.
NoStreamError == failed = "none"

\* Every behaviour of the stream, its buffer and the file is one of a flat array
\* of bytes, whenever the buffer is written out: a size is never asked of a file
\* that lags behind, and nothing is lost between the buffer and the file.
Storage == INSTANCE RawStorage WITH
  content <- [i \in Address |-> IF i \in written THEN Seen(i) ELSE Undef],
  size <- StreamSize,
  extent <- StreamSize

ImplementsStorage == Storage!Spec

\* "If newSize is less than size then this OMDiskRawStorage is truncated" (the
\* comment on OMDiskRawStorage::extend).  setSize does nothing then.
ExtendSetsSize ==
  [][\A newSize \in Sizes : Extend(newSize) => StreamSize' = newSize]_vars
=============================================================================
