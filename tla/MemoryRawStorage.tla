-------------------------- MODULE MemoryRawStorage --------------------------
(***************************************************************************)
(* The storage of an AAF file kept in memory: OMMemoryRawStorage.  The     *)
(* bytes are in pages held by a vector that grows and shrinks with the     *)
(* size; a request is cut into the part of each page it covers.            *)
(*                                                                         *)
(* A storage is used by one thread and calls nothing back, so that a call  *)
(* is one step.  When an assertion of the code fails the call is           *)
(* abandoned: `failed' names the assertion and nothing follows.            *)
(***************************************************************************)
EXTENDS Integers, Sequences

CONSTANTS
  PageSize,     \* _pageSize
  Word,         \* the modulus of OMUInt32 arithmetic, 2^32
  Limit,        \* the bound on sizes and positions
  Value,        \* the bytes clients write
  Junk,         \* the byte `new OMByte[n]' leaves in memory
  Undef,        \* stands for undefined data in the abstract storage
  Payloads,     \* the byte sequences clients write
  Counts,       \* the byte counts clients ask to read
  Sizes,        \* the sizes clients pass to extend
  Positions,    \* the positions clients use
  Careful       \* do clients keep their positions within the size?

ASSUME MemoryAssumption ==
  /\ PageSize \in Nat \ {0} /\ Word \in Nat \ {0, 1} /\ Limit \in Nat \ {0}
  /\ Payloads \subseteq Seq(Value) \ {<<>>}
  /\ Counts \subseteq Nat \ {0}
  /\ Sizes \subseteq 0 .. Limit
  /\ Positions \subseteq 0 .. Limit
  /\ Careful \in BOOLEAN

VARIABLES
  pages,       \* _pageVector: the pages 0 .. PageTotal - 1
  size,        \* _size
  position,    \* _position
  result,      \* the bytes the last call returned
  failed,      \* the assertion that failed, or "none"
  written      \* history: the addresses written and not truncated since

vars == <<pages, size, position, result, failed, written>>

Byte == Value \cup {Junk}
Offset == 0 .. PageSize - 1
Larger(a, b) == IF a >= b THEN a ELSE b

\* Fault: a page that is filled in part is not counted.
PageTotalRoundedDown(sz) == sz \div PageSize

PageTotal(sz) == IF sz = 0 THEN 0 ELSE (sz - 1) \div PageSize + 1

-----------------------------------------------------------------------------
(* A request cut into pages.                                               *)

\* A page number times _pageSize: the product of two OMUInt32.
PageStart(page) == (page * PageSize) % Word

FirstPage(pos) == pos \div PageSize
LastPage(pos, n) == (pos + n) \div PageSize

\* ASSERT("Supported offset") and ASSERT("Supported count").
Supported(pos, n) ==
  /\ pos - PageStart(FirstPage(pos)) < Word - 1
  /\ LastPage(pos, n) > FirstPage(pos) =>
       pos + n - PageStart(LastPage(pos, n)) < Word - 1

\* The pieces of a request for n bytes at pos; `at' is where the piece lies
\* in the client's buffer.
Pieces(pos, n) ==
  LET first == FirstPage(pos)
      last == LastPage(pos, n)
      firstOffset == pos - PageStart(first)
      firstCount == IF last > first THEN PageSize - firstOffset ELSE n
      lastCount == IF last > first THEN pos + n - PageStart(last) ELSE 0
      At(page) == firstCount + (page - first - 1) * PageSize
      all == {[page |-> first, offset |-> firstOffset, count |-> firstCount, at |-> 0]}
        \cup {[page |-> i, offset |-> 0, count |-> PageSize, at |-> At(i)] :
                 i \in first + 1 .. last - 1}
        \cup {[page |-> last, offset |-> 0, count |-> lastCount, at |-> At(last)]}
  IN {piece \in all : piece.count > 0}

\* The preconditions of the page read and the page write.
ValidPieces(pieces, vector) ==
  \A piece \in pieces :
    /\ piece.page \in DOMAIN vector
    /\ piece.offset < PageSize
    /\ piece.count <= PageSize

\* Fault: a piece is read from the beginning of its page.
GatherFromPageStart(pieces, n) ==
  [k \in 1 .. n |->
     LET piece == CHOOSE q \in pieces : k - 1 \in q.at .. q.at + q.count - 1
     IN pages[piece.page][k - 1 - piece.at]]

\* The bytes read: piece by piece into the client's buffer.
Gather(pieces, n) ==
  [k \in 1 .. n |->
     LET piece == CHOOSE q \in pieces : k - 1 \in q.at .. q.at + q.count - 1
     IN pages[piece.page][piece.offset + k - 1 - piece.at]]

\* The pages once `bytes' have been written to them.
Scatter(pieces, vector, bytes) ==
  [p \in DOMAIN vector |-> [o \in Offset |->
     IF \E q \in pieces : q.page = p /\ o \in q.offset .. q.offset + q.count - 1
       THEN LET q == CHOOSE q \in pieces : q.page = p
            IN bytes[q.at + o - q.offset + 1]
       ELSE vector[p][o]]]

\* The vector grown with new pages, or shrunk, to `total' pages.
Resized(total) ==
  [p \in 0 .. total - 1 |-> IF p \in DOMAIN pages THEN pages[p]
                                                  ELSE [o \in Offset |-> Junk]]

\* POSTCONDITION("Consistent size and page count"), again of OMUInt32.
Consistent(sz, total) == sz <= PageStart(total)

-----------------------------------------------------------------------------
(* The calls.                                                              *)

Fails(assertion) ==
  /\ failed' = assertion
  /\ UNCHANGED <<pages, size, position, result, written>>

Succeeds == failed = "none" /\ failed' = "none"

\* The pages there are for a write of n bytes at pos, which extends first.
Target(pos, n) == IF pos + n > size THEN Resized(PageTotal(pos + n)) ELSE pages

ReadableCount(pos, n) ==
  IF pos > size THEN n          \* the difference of two OMUInt64 wraps
  ELSE IF n < size - pos THEN n ELSE size - pos

Read(pos, n) ==
  LET count == ReadableCount(pos, n)
      pieces == Pieces(pos, count)
  IN IF ~ Supported(pos, count) THEN Fails("Supported offset")
     ELSE IF ~ ValidPieces(pieces, pages) THEN Fails("Valid page")
     ELSE /\ Succeeds
          /\ result' = Gather(pieces, count)
          /\ position' = pos + count
          /\ UNCHANGED <<pages, size, written>>

Write(pos, bytes) ==
  LET n == Len(bytes)
      target == Target(pos, n)
      pieces == Pieces(pos, n)
  IN /\ pos + n <= Limit
     /\ IF pos + n > size /\ ~ Consistent(pos + n, PageTotal(pos + n))
          THEN Fails("Consistent size and page count")
        ELSE IF ~ Supported(pos, n) THEN Fails("Supported offset")
        ELSE IF ~ ValidPieces(pieces, target) THEN Fails("Valid page")
        ELSE /\ Succeeds
             /\ pages' = Scatter(pieces, target, bytes)
             /\ size' = Larger(size, pos + n)
             /\ position' = pos + n
             /\ result' = <<>>
             /\ written' = written \cup (pos .. pos + n - 1)

\* readAt and writeAt set the position first.
ReadAt(pos, n) ==
  /\ failed = "none"
  /\ Careful => pos <= size
  /\ IF pos <= size THEN Read(pos, n) ELSE Fails("Valid position")

WriteAt(pos, bytes) ==
  /\ failed = "none"
  /\ Careful => pos <= size
  /\ IF pos <= size THEN Write(pos, bytes) ELSE Fails("Valid position")

ReadHere(n) ==
  /\ failed = "none"
  /\ Careful => position <= size
  /\ Read(position, n)

WriteHere(bytes) ==
  /\ failed = "none"
  /\ Careful => position <= size
  /\ Write(position, bytes)

SetPosition(pos) ==
  /\ failed = "none"
  /\ Careful => pos <= size
  /\ IF pos <= size
       THEN /\ Succeeds
            /\ position' = pos
            /\ result' = <<>>
            /\ UNCHANGED <<pages, size, written>>
       ELSE Fails("Valid position")

\* Fault: the vector is grown but never shrunk.
ExtendGrowing(newSize) ==
  /\ failed = "none"
  /\ Succeeds
  /\ pages' = IF newSize > size THEN Resized(PageTotal(newSize)) ELSE pages
  /\ size' = newSize
  /\ result' = <<>>
  /\ written' = {i \in written : i < newSize}
  /\ UNCHANGED position

\* The loop that frees pages counts an OMUInt32 down to pageCount: when that is
\* 0 it goes on past page 0 with the largest index.
Extend(newSize) ==
  /\ failed = "none"
  /\ IF newSize # size /\ newSize = 0
       THEN Fails("Valid index")
     ELSE IF newSize # size /\ ~ Consistent(newSize, PageTotal(newSize))
       THEN Fails("Consistent size and page count")
     ELSE /\ Succeeds
          /\ pages' = Resized(PageTotal(newSize))
          /\ size' = newSize
          /\ result' = <<>>
          /\ written' = {i \in written : i < newSize}
          /\ UNCHANGED position

Init ==
  /\ pages = [p \in {} |-> [o \in Offset |-> Junk]]
  /\ size = 0
  /\ position = 0
  /\ result = <<>>
  /\ failed = "none"
  /\ written = {}

Next ==
  \/ \E pos \in Positions, n \in Counts : ReadAt(pos, n)
  \/ \E pos \in Positions, bytes \in Payloads : WriteAt(pos, bytes)
  \/ \E n \in Counts : ReadHere(n)
  \/ \E bytes \in Payloads : WriteHere(bytes)
  \/ \E pos \in Positions : SetPosition(pos)
  \/ \E newSize \in Sizes : Extend(newSize)

Spec == Init /\ [][Next]_vars

-----------------------------------------------------------------------------

Assertions ==
  {"Valid position", "Valid index", "Valid page", "Supported offset",
   "Consistent size and page count"}

TypeOK ==
  /\ DOMAIN pages = 0 .. PageTotal(size) - 1
  /\ \A p \in DOMAIN pages : pages[p] \in [Offset -> Byte]
  /\ size \in 0 .. Limit
  /\ position \in 0 .. Limit
  /\ result \in Seq(Byte)
  /\ failed \in Assertions \cup {"none"}
  /\ written \in SUBSET (0 .. Limit - 1)

\* After any sequence of writes, extensions and truncations by a client that
\* keeps its positions within the size, every page a request is cut into
\* exists: no assertion fails.
NoAssertionFails == failed = "none"

\* A storage can be truncated to any size ("If newSize is less than size then
\* this OMMemoryRawStorage is truncated", OMMemoryRawStorage::extend).
TruncationSucceeds == failed # "Valid index"

-----------------------------------------------------------------------------
(* The pages implement the flat storage; extent() is size().               *)

Content ==
  [i \in 0 .. Limit - 1 |->
     IF i \in written THEN pages[i \div PageSize][i % PageSize] ELSE Undef]

Storage == INSTANCE RawStorage WITH
  content <- Content,
  extent <- size

\* Every behaviour of the paged storage is one of a flat array of bytes: the
\* cut into first, whole and last pages reads and writes each byte once, in
\* its place.
ImplementsStorage == Storage!Spec
=============================================================================
