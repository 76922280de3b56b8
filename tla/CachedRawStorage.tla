-------------------------- MODULE CachedRawStorage --------------------------
(***************************************************************************)
(* The storage an AAF file is kept on by default: OMCachedDiskRawStorage,  *)
(* with its two base classes OMCachedRawStorage and OMPageCache.  A write- *)
(* back page cache with a fixed number of pages sits in front of a stdio   *)
(* stream.                                                                 *)
(*                                                                         *)
(* Reads, writes and flushes walk over pages in a loop; each turn of the   *)
(* loop is an action and `call' holds the loop's variables, so that every  *)
(* eviction in the middle of a call is a step of its own.  The file and    *)
(* the page buffers are arrays of bytes per page; the byte at address i is *)
(* at offset i % PageSize of page i \div PageSize.                         *)
(*                                                                         *)
(* `file' is the file as the stdio stream reads it.  The bytes of the page *)
(* written last may still be in the buffer of the stream: until `buffered' *)
(* is NoPage again, a crash may lose them.                                 *)
(***************************************************************************)
EXTENDS Integers, Sequences

CONSTANTS
  PageSize,        \* _pageSize, bytes in a page
  PageCount,       \* _pageCount, pages in the cache
  PageLimit,       \* the bound on the pages of the file
  Value,           \* the bytes clients write
  Zero,            \* the byte a hole in a file reads as
  Junk,            \* the byte uninitialised memory holds
  Undef,           \* stands for undefined data in the abstract storage
  Original,        \* the bytes an existing file is made of
  Payloads,        \* the byte sequences clients write
  Counts,          \* the byte counts clients ask to read
  Sizes,           \* the sizes clients pass to extend
  Positions,       \* the positions clients use
  InitialSizes,    \* the sizes of the files that may be opened
  MayTruncate      \* may a client pass extend a size below size()?

Limit == PageSize * PageLimit
Byte == Value \cup {Zero, Junk}
Page == 0 .. PageLimit - 1
Offset == 0 .. PageSize - 1
Slot == 1 .. PageCount
NoSlot == 0        \* the null CacheEntry pointer
NoPage == -1       \* the page number of an entry not yet allocated

ASSUME CacheAssumption ==
  /\ PageSize \in Nat \ {0}
  /\ PageCount \in Nat \ {0}
  /\ PageLimit \in Nat \ {0}
  /\ Original \subseteq Value /\ Zero \notin Original /\ Undef \notin Byte
  /\ Payloads \subseteq Seq(Value) \ {<<>>}
  /\ Counts \subseteq Nat \ {0}
  /\ Sizes \subseteq 0 .. Limit
  /\ Positions \subseteq 0 .. Limit
  /\ InitialSizes \subseteq 0 .. Limit
  /\ MayTruncate \in BOOLEAN

VARIABLES
  file,            \* the bytes of the file, per page and offset
  fileSize,        \* the size of the file
  buffered,        \* the page the stream's buffer may hold bytes of, or NoPage
  validSize,       \* _validSize
  size,            \* _size
  extent,          \* _extent
  position,        \* _position
  mode,            \* _mode, or "closed" when there is no storage object
  cache,           \* _cache: the entry of each page, or NoSlot
  mruList,         \* _mruList: entries, most recently used first
  mruEntry,        \* _mruEntry
  validPageCount,  \* _validPageCount
  pageNumber,      \* CacheEntry::_pageNumber of each entry
  buffer,          \* CacheEntry::_page: the bytes of each entry
  dirty,           \* CacheEntry::_isDirty of each entry
  call,            \* the call in progress and its loop variables
  result,          \* the bytes the last call returned
  written          \* history: the offsets written so far, per page

imageVars == <<file, fileSize, validSize>>
fileVars == <<imageVars, buffered>>
sizeVars == <<size, extent, position, mode>>
tableVars == <<cache, mruList, mruEntry, validPageCount, pageNumber>>
pageVars == <<buffer, dirty>>
vars == <<fileVars, sizeVars, tableVars, pageVars, call, result, written>>

Larger(a, b) == IF a >= b THEN a ELSE b
Smaller(a, b) == IF a <= b THEN a ELSE b

isReadable == mode \in {"modify", "readOnly"}
isWritable == mode = "modify"

-----------------------------------------------------------------------------
(* A page is moved between its buffer and the file.                        *)

\* How many of `count' bytes from page p on lie before `end'.  The subtraction
\* is unsigned: when `end' is before the page it wraps to a huge number.
Portion(p, end, count) ==
  LET remaining == end - p * PageSize IN
  IF remaining >= 0 /\ remaining < count THEN remaining ELSE count

\* Fault: a page the file ends in the middle of is not read.
ReadWholePage(p, old, image, valid) ==
  IF (p + 1) * PageSize <= valid THEN image[p] ELSE old

\* The buffer after readPage: bytes at or past _validSize are left as they
\* were, whatever they are.
ReadPage(p, old, image, valid) ==
  IF p * PageSize < valid
    THEN [o \in Offset |->
            IF o < Portion(p, valid, PageSize) THEN image[p][o] ELSE old[o]]
    ELSE old

\* writePage of buffer b: the file, its size and _validSize afterwards.  The
\* bytes are in the buffer of the stream, which rawWriteAt emptied by setting
\* the position.
WritePage(p, b) ==
  LET writeSize == Portion(p, extent, PageSize) IN
  /\ file' = [file EXCEPT ![p] = [o \in Offset |->
                IF o < writeSize THEN b[o] ELSE file[p][o]]]
  /\ fileSize' = Larger(fileSize, p * PageSize + writeSize)
  /\ validSize' = Larger(validSize, p * PageSize + writeSize)

\* writePage of entry s, which holds page p, if it is dirty.
WriteDirty(p, s) ==
  IF dirty[s] THEN WritePage(p, buffer[s]) ELSE UNCHANGED imageVars

\* The page in the stream's buffer after readPage: rawReadAt sets the position,
\* which empties the buffer, unless there is nothing to read.
BufferedAfterRead(p, before) ==
  IF p * PageSize < validSize' THEN NoPage ELSE before

\* The library writes out its buffer when it likes.
Drain ==
  /\ buffered # NoPage
  /\ buffered' = NoPage
  /\ UNCHANGED <<imageVars, sizeVars, tableVars, pageVars, call, result, written>>

-----------------------------------------------------------------------------
(* The cache table and the most recently used list.                        *)

\* A cache no page has been read into.
NoPages == [p \in Page |-> NoSlot]
NoNumbers == [s \in Slot |-> NoPage]
Uninitialised == [s \in Slot |-> [o \in Offset |-> Junk]]
AllClean == [s \in Slot |-> FALSE]

\* The list with its i-th element unlinked and put in front.
MoveToFront(list, i) ==
  [j \in 1 .. Len(list) |->
     IF j = 1 THEN list[i] ELSE IF j <= i THEN list[j - 1] ELSE list[j]]

\* The page is the one used last: the list is not touched.
MruEntry(p, s) ==
  /\ mruEntry # NoSlot /\ mruEntry = s /\ pageNumber[s] = p
  /\ UNCHANGED <<fileVars, tableVars>>

IsMru(p) == mruEntry # NoSlot /\ pageNumber[mruEntry] = p

\* Fault: an entry that is found is not promoted.
FindWithoutPromotion(p, s) ==
  /\ ~ IsMru(p) /\ cache[p] = s /\ s # NoSlot
  /\ mruEntry' = s
  /\ UNCHANGED <<fileVars, cache, mruList, validPageCount, pageNumber>>

FindEntry(p, s) ==
  /\ ~ IsMru(p)
  /\ cache[p] = s
  /\ \E i \in 1 .. Len(mruList) :
       mruList[i] = s /\ mruList' = MoveToFront(mruList, i)
  /\ mruEntry' = s
  /\ UNCHANGED <<fileVars, cache, validPageCount, pageNumber>>

NewEntry(p, s) ==
  /\ ~ IsMru(p) /\ cache[p] = NoSlot
  /\ validPageCount < PageCount
  /\ s = validPageCount + 1
  /\ mruList' = <<s>> \o mruList
  /\ pageNumber' = [pageNumber EXCEPT ![s] = p]
  /\ cache' = [cache EXCEPT ![p] = s]
  /\ validPageCount' = validPageCount + 1
  /\ mruEntry' = s
  /\ UNCHANGED imageVars
  /\ buffered' = BufferedAfterRead(p, buffered)

\* Fault: the victim is not written.
ReplaceWithoutWrite(p, s) ==
  /\ ~ IsMru(p) /\ cache[p] = NoSlot
  /\ ~ validPageCount < PageCount
  /\ s = mruList[Len(mruList)]
  /\ mruList' = MoveToFront(mruList, Len(mruList))
  /\ cache' = [cache EXCEPT ![pageNumber[s]] = NoSlot, ![p] = s]
  /\ pageNumber' = [pageNumber EXCEPT ![s] = p]
  /\ mruEntry' = s
  /\ UNCHANGED <<fileVars, validPageCount>>

\* The victim is the least recently used entry; its buffer is reused.
ReplaceEntry(p, s) ==
  /\ ~ IsMru(p) /\ cache[p] = NoSlot
  /\ ~ validPageCount < PageCount
  /\ s = mruList[Len(mruList)]
  /\ WriteDirty(pageNumber[s], s)
  /\ buffered' = BufferedAfterRead(p, IF dirty[s] THEN pageNumber[s] ELSE buffered)
  /\ mruList' = MoveToFront(mruList, Len(mruList))
  /\ cache' = [cache EXCEPT ![pageNumber[s]] = NoSlot, ![p] = s]
  /\ pageNumber' = [pageNumber EXCEPT ![s] = p]
  /\ mruEntry' = s
  /\ UNCHANGED validPageCount

AllocateEntry(p, s) == NewEntry(p, s) \/ ReplaceEntry(p, s)

CacheEntry(p, s) == MruEntry(p, s) \/ FindEntry(p, s) \/ AllocateEntry(p, s)

\* What the entry cacheEntry returned for page p holds: the page as cached, or
\* as allocateEntry read it back, after a victim was written.
Fetched(p, s) ==
  IF pageNumber[s] = p THEN buffer[s]
                       ELSE ReadPage(p, buffer[s], file', validSize')

StillDirty(p, s) == pageNumber[s] = p /\ dirty[s]

-----------------------------------------------------------------------------
(* The loops of readCachedAt, writeCachedAt and flush.                     *)

Idle == [op |-> "none", start |-> 0, count |-> 0, page |-> 0, offset |-> 0,
         left |-> 0, data |-> <<>>]

\* Fault: the position within the file is taken for that within the page.
LoopFromPosition(op, pos, count, data) ==
  [op |-> op, start |-> pos, count |-> count, page |-> pos \div PageSize,
   offset |-> pos, left |-> count, data |-> data]

\* position / _pageSize and the rest of it.
Loop(op, pos, count, data) ==
  [op |-> op, start |-> pos, count |-> count, page |-> pos \div PageSize,
   offset |-> pos - (pos \div PageSize) * PageSize, left |-> count,
   data |-> data]

PieceSize == Smaller(call.left, PageSize - call.offset)

Advance(data) ==
  call' = [call EXCEPT !.page = call.page + 1, !.offset = 0,
                       !.left = call.left - PieceSize, !.data = data]

\* data: the bytes delivered so far.
ReadCachedPage ==
  /\ call.op = "read" /\ call.left > 0
  /\ \E s \in Slot :
       /\ CacheEntry(call.page, s)
       /\ buffer' = [buffer EXCEPT ![s] = Fetched(call.page, s)]
       /\ dirty' = [dirty EXCEPT ![s] = StillDirty(call.page, s)]
       /\ Advance(call.data \o
            [k \in 1 .. PieceSize |-> Fetched(call.page, s)[call.offset + k - 1]])
  /\ UNCHANGED <<sizeVars, result, written>>

\* data: the bytes still to be written.
WriteCachedPage ==
  /\ call.op = "write" /\ call.left > 0
  /\ \E s \in Slot :
       /\ CacheEntry(call.page, s)
       /\ buffer' = [buffer EXCEPT ![s] = [o \in Offset |->
            IF o \in call.offset .. call.offset + PieceSize - 1
              THEN call.data[o - call.offset + 1]
              ELSE Fetched(call.page, s)[o]]]
       /\ dirty' = [dirty EXCEPT ![s] = TRUE]
  /\ written' = [written EXCEPT ![call.page] =
                   @ \cup (call.offset .. call.offset + PieceSize - 1)]
  /\ Advance(SubSeq(call.data, PieceSize + 1, Len(call.data)))
  /\ UNCHANGED <<sizeVars, result>>

\* The cached page the iterator of flush comes to next.
NextCached(p) ==
  /\ p >= call.page /\ cache[p] # NoSlot
  /\ \A q \in Page : q >= call.page /\ cache[q] # NoSlot => p <= q

\* Fault: the iterator does not move on.
FlushSamePage ==
  /\ call.op \in {"flush", "close"}
  /\ \E p \in Page :
       /\ NextCached(p)
       /\ WriteDirty(p, cache[p])
       /\ buffered' = IF dirty[cache[p]] THEN p ELSE buffered
       /\ dirty' = [dirty EXCEPT ![cache[p]] = FALSE]
  /\ UNCHANGED <<sizeVars, tableVars, buffer, call, result, written>>

FlushPage ==
  /\ call.op \in {"flush", "close"}
  /\ \E p \in Page :
       /\ NextCached(p)
       /\ WriteDirty(p, cache[p])
       /\ buffered' = IF dirty[cache[p]] THEN p ELSE buffered
       /\ dirty' = [dirty EXCEPT ![cache[p]] = FALSE]
       /\ call' = [call EXCEPT !.page = p + 1]
  /\ UNCHANGED <<sizeVars, tableVars, buffer, result, written>>

-----------------------------------------------------------------------------
(* The calls.                                                              *)

\* No call is in progress, and a storage object exists.
Ready == call.op = "none" /\ mode # "closed"

ReadAt(pos, n) ==
  /\ Ready /\ isReadable
  /\ IF pos < size
       THEN call' = Loop("read", pos, Smaller(n, size - pos), <<>>)
       ELSE UNCHANGED call
  /\ result' = <<>>
  /\ UNCHANGED <<fileVars, sizeVars, tableVars, pageVars, written>>

ReadReturn ==
  /\ call.op = "read" /\ call.left = 0
  /\ position' = call.start + call.count
  /\ result' = call.data
  /\ call' = Idle
  /\ UNCHANGED <<fileVars, size, extent, mode, tableVars, pageVars, written>>

WriteAt(pos, bytes) ==
  /\ Ready /\ isWritable
  /\ pos + Len(bytes) <= Limit
  /\ extent' = Larger(extent, pos + Len(bytes))
  /\ call' = Loop("write", pos, Len(bytes), bytes)
  /\ result' = <<>>
  /\ UNCHANGED <<fileVars, size, position, mode, tableVars, pageVars, written>>

\* Fault: the size follows the position, back as well as forward.
WriteReturnShrinking ==
  /\ call.op = "write" /\ call.left = 0
  /\ position' = call.start + call.count
  /\ size' = position'
  /\ call' = Idle
  /\ UNCHANGED <<fileVars, extent, mode, tableVars, pageVars, result, written>>

WriteReturn ==
  /\ call.op = "write" /\ call.left = 0
  /\ position' = call.start + call.count
  /\ size' = Larger(size, position')
  /\ call' = Idle
  /\ UNCHANGED <<fileVars, extent, mode, tableVars, pageVars, result, written>>

\* Nothing but the extent changes: not the size, not a cached page.
Extend(newSize) ==
  /\ Ready
  /\ MayTruncate \/ newSize >= size
  /\ extent' = newSize
  /\ result' = <<>>
  /\ UNCHANGED <<fileVars, size, position, mode, tableVars, pageVars, call, written>>

SetPosition(pos) ==
  /\ Ready
  /\ position' = pos
  /\ result' = <<>>
  /\ UNCHANGED <<fileVars, size, extent, mode, tableVars, pageVars, call, written>>

\* synchronize does nothing for a storage that is only read.
Synchronize ==
  /\ Ready
  /\ call' = IF isWritable THEN [Idle EXCEPT !.op = "flush"] ELSE call
  /\ result' = <<>>
  /\ UNCHANGED <<fileVars, sizeVars, tableVars, pageVars, written>>

Flushed == \A p \in Page : p >= call.page => cache[p] = NoSlot

\* Fault: the pages are flushed and the stream is not.
SynchronizeReturnAtOnce ==
  /\ call.op = "flush" /\ Flushed
  /\ call' = Idle
  /\ UNCHANGED <<fileVars, sizeVars, tableVars, pageVars, result, written>>

\* After the pages the stream is flushed: fflush writes out its buffer.
SynchronizeReturn ==
  /\ call.op = "flush" /\ Flushed
  /\ buffered' = NoPage
  /\ call' = Idle
  /\ UNCHANGED <<imageVars, sizeVars, tableVars, pageVars, result, written>>

\* Deleting the storage synchronizes it, frees the pages and closes the stream.
Close ==
  /\ Ready
  /\ call' = [Idle EXCEPT !.op = "close",
                         !.page = IF isWritable THEN 0 ELSE PageLimit]
  /\ result' = <<>>
  /\ UNCHANGED <<fileVars, sizeVars, tableVars, pageVars, written>>

Delete ==
  /\ call.op = "close" /\ Flushed
  /\ buffered' = NoPage
  /\ cache' = NoPages
  /\ mruList' = <<>>
  /\ mruEntry' = NoSlot
  /\ validPageCount' = 0
  /\ pageNumber' = NoNumbers
  /\ buffer' = Uninitialised
  /\ dirty' = AllClean
  /\ mode' = "closed"
  /\ call' = Idle
  /\ UNCHANGED <<imageVars, size, extent, position, result, written>>

\* openExistingRead, openExistingModify, openNewModify: the sizes are those of
\* the file.
Open(m) ==
  /\ mode = "closed"
  /\ mode' = m
  /\ validSize' = fileSize
  /\ size' = fileSize
  /\ extent' = fileSize
  /\ position' = 0
  /\ result' = <<>>
  /\ UNCHANGED <<file, fileSize, buffered, tableVars, pageVars, call, written>>

-----------------------------------------------------------------------------

Init ==
  /\ fileSize \in InitialSizes
  /\ file \in [Page -> [Offset -> Original \cup {Zero}]]
  /\ \A p \in Page, o \in Offset :
       (file[p][o] = Zero) <=> (p * PageSize + o >= fileSize)
  /\ written = [p \in Page |-> {o \in Offset : p * PageSize + o < fileSize}]
  /\ buffered = NoPage
  /\ validSize = fileSize /\ size = fileSize /\ extent = fileSize
  /\ position = 0
  /\ mode = "closed"
  /\ cache = NoPages
  /\ mruList = <<>>
  /\ mruEntry = NoSlot
  /\ validPageCount = 0
  /\ pageNumber = NoNumbers
  /\ buffer = Uninitialised
  /\ dirty = AllClean
  /\ call = Idle
  /\ result = <<>>

Piece == ReadCachedPage \/ WriteCachedPage \/ FlushPage

Return == ReadReturn \/ WriteReturn \/ SynchronizeReturn \/ Delete

Request ==
  \/ \E pos \in Positions \cup {position}, n \in Counts : ReadAt(pos, n)
  \/ \E pos \in Positions \cup {position}, bytes \in Payloads : WriteAt(pos, bytes)
  \/ \E newSize \in Sizes : Extend(newSize)
  \/ \E pos \in Positions : SetPosition(pos)
  \/ Synchronize
  \/ Close
  \/ \E m \in {"readOnly", "modify"} : Open(m)

Next == Piece \/ Return \/ Request \/ Drain

Spec == Init /\ [][Next]_vars

\* A call, once made, runs on its own thread until it returns.
FairSpec == Spec /\ WF_vars(Piece \/ Return)

-----------------------------------------------------------------------------
(* The type invariant.                                                     *)

Calls == {"none", "read", "write", "flush", "close"}

TypeOK ==
  /\ file \in [Page -> [Offset -> Byte]]
  /\ fileSize \in 0 .. Limit
  /\ buffered \in Page \cup {NoPage}
  /\ validSize \in 0 .. Limit
  /\ size \in 0 .. Limit
  /\ extent \in 0 .. Limit
  /\ position \in 0 .. Limit
  /\ mode \in {"closed", "readOnly", "modify"}
  /\ cache \in [Page -> Slot \cup {NoSlot}]
  /\ mruList \in Seq(Slot)
  /\ mruEntry \in Slot \cup {NoSlot}
  /\ validPageCount \in 0 .. PageCount
  /\ pageNumber \in [Slot -> Page \cup {NoPage}]
  /\ buffer \in [Slot -> [Offset -> Byte]]
  /\ dirty \in [Slot -> BOOLEAN]
  /\ call \in [op : Calls, start : 0 .. Limit, count : 0 .. Limit,
               page : Nat, offset : Offset, left : 0 .. Limit,
               data : Seq(Byte)]
  /\ result \in Seq(Byte)
  /\ written \in [Page -> SUBSET Offset]

-----------------------------------------------------------------------------
(* Safety.                                                                 *)

\* No page is ever held by two entries, and an entry is found under the page
\* whose bytes it holds: _cache and CacheEntry::_pageNumber, which
\* replaceEntry re-keys in place, never disagree.
OneEntryPerPage ==
  \A p \in Page, s \in Slot : cache[p] = s <=> pageNumber[s] = p

\* The list replaceEntry takes its victim from holds exactly the allocated
\* entries, each once.
ListHoldsEntries ==
  /\ Len(mruList) = validPageCount
  /\ \A s \in Slot :
       s <= validPageCount <=> \E i \in 1 .. Len(mruList) : mruList[i] = s
  /\ \A s \in Slot : s <= validPageCount <=> pageNumber[s] # NoPage

\* The short cut of cacheEntry, which does not promote _mruEntry, is sound:
\* _mruEntry already heads the list.
MruEntryHeadsList ==
  mruEntry # NoSlot => mruList # <<>> /\ mruEntry = mruList[1]

\* _cache, the entries' page numbers, _mruList, _validPageCount and _mruEntry
\* describe the same cache: each of the three ways into cacheEntry, and
\* replaceEntry above all, updates some of them and must not miss one.
CacheConsistent == OneEntryPerPage /\ ListHoldsEntries /\ MruEntryHeadsList

\* A byte that was written and is not in a dirty page lies inside the file,
\* and a clean page agrees with the file on it: dropping a clean page, or the
\* whole cache once it is flushed, loses nothing.
NothingLost ==
  \A p \in Page : \A o \in written[p] :
    LET s == cache[p] IN
    \/ s # NoSlot /\ dirty[s]
    \/ /\ p * PageSize + o < validSize
       /\ s # NoSlot => buffer[s][o] = file[p][o]

\* ASSERT("Valid write size") of writePage never fails and its subtraction
\* never wraps: a dirty page starts before the extent.
ValidWriteSize ==
  \A s \in Slot : dirty[s] => pageNumber[s] * PageSize < extent

\* The size the storage works with is the size of the file, so that
\* ASSERT("All bytes read") of rawReadAt never fails.
ValidSizeIsFileSize == validSize = fileSize

-----------------------------------------------------------------------------
(* What makes the safety properties inductive.                             *)

\* The loop's variables add up to the request, which lies inside the size
\* (of a read) or the extent (of a write).
LoopInRange ==
  call.op \in {"read", "write"} =>
    /\ call.left <= call.count
    /\ call.left > 0 => call.page * PageSize + call.offset + call.left
                           = call.start + call.count
    /\ call.start + call.count <= IF call.op = "read" THEN size ELSE extent
    /\ call.op = "write" => mode = "modify" /\ Len(call.data) = call.left

\* Nothing is written past the size, or past the end of the request that is
\* about to set it; the size is within the extent.
WrittenInSize ==
  /\ size <= extent
  /\ \A p \in Page : \A o \in written[p] :
       \/ p * PageSize + o < size
       \/ call.op = "write" /\ p * PageSize + o < call.start + call.count

\* Only a page of a writable storage that was written to is dirty.
DirtyWasWritten ==
  \A s \in Slot : dirty[s] =>
    /\ mode = "modify"
    /\ pageNumber[s] # NoPage
    /\ written[pageNumber[s]] # {}

\* The pages flush has passed are clean.
FlushedBehind ==
  call.op \in {"flush", "close"} =>
    \A p \in Page : p < call.page /\ cache[p] # NoSlot => ~ dirty[cache[p]]

ClosedIsEmpty == mode = "closed" => validPageCount = 0 /\ call.op = "none"

IInv ==
  /\ TypeOK
  /\ OneEntryPerPage
  /\ ListHoldsEntries
  /\ MruEntryHeadsList
  /\ NothingLost
  /\ ValidSizeIsFileSize
  /\ LoopInRange
  /\ WrittenInSize
  /\ DirtyWasWritten
  /\ FlushedBehind
  /\ ClosedIsEmpty

-----------------------------------------------------------------------------
(* What a step may never do.                                               *)

\* The byte a client would now read at offset o of page p.
Seen(p, o) == IF cache[p] # NoSlot THEN buffer[cache[p]][o] ELSE file[p][o]

\* Of the bytes written earlier, a step changes those the request in
\* progress writes to this page, and no others: an eviction, a refill of a
\* reused buffer, a flush or a reopening is invisible.
ContentsStable ==
  \A p \in Page : \A o \in written[p] :
    \/ Seen(p, o)' = Seen(p, o)
    \/ /\ call.op = "write" /\ call.page = p
       /\ o \in call.offset .. call.offset + PieceSize - 1

EvictionInvisible == [][ContentsStable]_vars

\* Every byte written is in the file itself as the client saw it, and neither
\* in a page of the cache only nor still in the buffer of the stream.
MadeDurable ==
  \A p \in Page : \A o \in written[p] :
    /\ p # buffered'
    /\ p * PageSize + o < fileSize'
    /\ file'[p][o] = Seen(p, o)

\* When synchronize returns, or the storage is deleted, what was written
\* survives a crash: every dirty page has been flushed, those evicted before
\* were written back, and the stream was flushed after the last of them.
SynchronizeMakesDurable == [][SynchronizeReturn \/ Delete => MadeDurable]_vars

\* Every call returns.
CallsReturn == call.op # "none" ~> call.op = "none"

-----------------------------------------------------------------------------
(* The cached storage implements the flat one.  A write takes effect when  *)
(* it is called: what its loop has still to write counts as written.  A    *)
(* read takes effect when it returns.                                      *)

Writing == call.op = "write"

Pending(i) ==
  /\ Writing
  /\ call.start + call.count - call.left <= i
  /\ i < call.start + call.count

Content ==
  [i \in 0 .. Limit - 1 |->
     LET p == i \div PageSize
         o == i % PageSize
     IN IF Pending(i)
          THEN call.data[i - (call.start + call.count - call.left) + 1]
          ELSE IF o \in written[p] THEN Seen(p, o) ELSE Undef]

Storage == INSTANCE RawStorage WITH
  content <- Content,
  size <- IF Writing THEN Larger(size, call.start + call.count) ELSE size,
  position <- IF Writing THEN call.start + call.count ELSE position

\* Every behaviour of the cached storage is one of a flat array of bytes.
ImplementsStorage == Storage!Spec
=============================================================================
