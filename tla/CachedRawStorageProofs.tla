----------------------- MODULE CachedRawStorageProofs -----------------------
(***************************************************************************)
(* Proofs about CachedRawStorage, for every page size, every number of     *)
(* cache pages and every set of requests: the tables agree, nothing is     *)
(* lost, evictions cannot be seen, synchronize makes durable, and the      *)
(* whole implements RawStorage.                                            *)
(***************************************************************************)
EXTENDS CachedRawStorage, TLAPS

\* The type of `call'.
CallType ==
  [op : Calls, start : 0 .. Limit, count : 0 .. Limit, page : Nat,
   offset : Offset, left : 0 .. Limit, data : Seq(Byte)]

-----------------------------------------------------------------------------
(* Arithmetic on pages.                                                    *)

\* Multiplying by the page size keeps the order.
LEMMA PageOrder ==
  ASSUME NEW x \in Int, NEW y \in Int, x * PageSize < y * PageSize
  PROVE  x < y
<1>1. PageSize \in Nat /\ PageSize > 0
  BY CacheAssumption
<1>. QED
  BY <1>1, SMT

\* position / _pageSize and what is left of position.
LEMMA PageOfPosition ==
  ASSUME NEW pos \in Nat
  PROVE  /\ pos \div PageSize \in Nat
         /\ pos - (pos \div PageSize) * PageSize \in Offset
<1>1. PageSize \in Nat /\ PageSize > 0
  BY CacheAssumption
<1>. QED
  BY <1>1, SMT DEF Offset

\* A page read into a buffer is a page of bytes.
LEMMA ReadPageType ==
  ASSUME NEW p, NEW old \in [Offset -> Byte], NEW valid,
         NEW image \in [Page -> [Offset -> Byte]], p \in Page
  PROVE  ReadPage(p, old, image, valid) \in [Offset -> Byte]
BY DEF ReadPage

\* readPage fetches every byte that lies before _validSize.
LEMMA ReadPageFetches ==
  ASSUME NEW p \in Page, NEW o \in Offset, NEW old, NEW image,
         NEW valid \in Nat, p * PageSize + o < valid
  PROVE  ReadPage(p, old, image, valid)[o] = image[p][o]
<1>1. PageSize \in Nat /\ PageSize > 0 /\ p \in Nat /\ o \in Nat /\ o < PageSize
  BY CacheAssumption DEF Page, Offset
<1>2. p * PageSize \in Nat
  BY <1>1
<1>3. o < Portion(p, valid, PageSize)
  BY <1>1, <1>2 DEF Portion
<1>. QED
  BY <1>1, <1>2, <1>3 DEF ReadPage, Portion

\* writePage stores every byte that lies before the extent, touches no other
\* page, and keeps _validSize equal to the size of the file.
LEMMA WritePageStores ==
  ASSUME TypeOK, ValidSizeIsFileSize, NEW p \in Page, NEW b \in [Offset -> Byte],
         p * PageSize < extent, WritePage(p, b)
  PROVE  /\ file' \in [Page -> [Offset -> Byte]]
         /\ fileSize' \in 0 .. Limit /\ validSize' \in 0 .. Limit
         /\ validSize' = fileSize' /\ validSize' >= validSize
         /\ \A q \in Page : q # p => file'[q] = file[q]
         /\ \A o \in Offset : p * PageSize + o < extent =>
              file'[p][o] = b[o] /\ p * PageSize + o < validSize'
<1>1. PageSize \in Nat /\ PageSize > 0 /\ PageLimit \in Nat /\ p \in Nat
  BY CacheAssumption DEF Page
<1>2. p * PageSize \in Nat /\ Limit \in Nat
  BY <1>1 DEF Limit
<1>3. fileSize \in 0 .. Limit /\ validSize = fileSize /\ extent \in 0 .. Limit
  BY DEF TypeOK, ValidSizeIsFileSize
<1>. DEFINE w == Portion(p, extent, PageSize)
<1>4. w \in Nat /\ w <= PageSize /\ p * PageSize + w <= extent
  BY <1>1, <1>2, <1>3 DEF Portion
<1>5. \A o \in Offset : p * PageSize + o < extent => o < w
  BY <1>1, <1>2, <1>3 DEF Portion, Offset
<1>6. /\ file' = [file EXCEPT ![p] = [o \in Offset |->
                    IF o < w THEN b[o] ELSE file[p][o]]]
      /\ fileSize' = Larger(fileSize, p * PageSize + w)
      /\ validSize' = Larger(validSize, p * PageSize + w)
  BY DEF WritePage
<1>. HIDE DEF w
<1>7. fileSize' \in 0 .. Limit /\ validSize' = fileSize' /\ validSize' >= validSize
      /\ validSize' >= p * PageSize + w
  BY <1>2, <1>3, <1>4, <1>6 DEF Larger
<1>8. file \in [Page -> [Offset -> Byte]]
  BY DEF TypeOK
<1>9. file' \in [Page -> [Offset -> Byte]] /\ \A q \in Page : q # p => file'[q] = file[q]
  BY <1>6, <1>8
<1>10. \A o \in Offset : p * PageSize + o < extent =>
              file'[p][o] = b[o] /\ p * PageSize + o < validSize'
  <2>. SUFFICES ASSUME NEW o \in Offset, p * PageSize + o < extent
                PROVE  file'[p][o] = b[o] /\ p * PageSize + o < validSize'
    OBVIOUS
  <2>1. o < w /\ o \in Nat
    BY <1>5 DEF Offset
  <2>2. file'[p][o] = b[o]
    BY <1>6, <1>8, <2>1
  <2>3. p * PageSize + o < validSize'
    BY <1>2, <1>4, <1>7, <1>3, <2>1
  <2>. QED
    BY <2>2, <2>3
<1>. QED
  BY <1>7, <1>9, <1>10

-----------------------------------------------------------------------------
(* The most recently used list.                                            *)

\* Moving an element to the front keeps the length and the elements.
LEMMA MoveToFrontKeeps ==
  ASSUME NEW S, NEW list \in Seq(S), NEW i \in 1 .. Len(list)
  PROVE  /\ MoveToFront(list, i) \in Seq(S)
         /\ Len(MoveToFront(list, i)) = Len(list)
         /\ MoveToFront(list, i)[1] = list[i]
         /\ \A j \in 1 .. Len(list) :
              \E k \in 1 .. Len(list) : MoveToFront(list, i)[k] = list[j]
         /\ \A j \in 1 .. Len(list) :
              \E k \in 1 .. Len(list) : list[k] = MoveToFront(list, i)[j]
<1>. DEFINE moved == MoveToFront(list, i)
<1>1. Len(list) \in Nat /\ \A j \in 1 .. Len(list) : list[j] \in S
  OBVIOUS
<1>2. moved = [j \in 1 .. Len(list) |->
                 IF j = 1 THEN list[i] ELSE IF j <= i THEN list[j - 1] ELSE list[j]]
  BY DEF MoveToFront
<1>3. \A j \in 1 .. Len(list) : moved[j] \in S
  BY <1>1, <1>2
<1>4. moved \in Seq(S) /\ Len(moved) = Len(list)
  BY <1>1, <1>2, <1>3
<1>5. moved[1] = list[i]
  BY <1>1, <1>2
<1>6. ASSUME NEW j \in 1 .. Len(list)
      PROVE  \E k \in 1 .. Len(list) : moved[k] = list[j]
  <2>1. CASE j = i
    BY <1>1, <1>5, <2>1
  <2>2. CASE j < i
    <3>1. j + 1 \in 1 .. Len(list) /\ j + 1 <= i /\ j + 1 # 1 /\ (j + 1) - 1 = j
      BY <1>1, <2>2
    <3>2. moved[j + 1] = list[(j + 1) - 1]
      BY <1>2, <3>1
    <3>. QED
      BY <3>1, <3>2
  <2>3. CASE j > i
    <3>1. moved[j] = list[j]
      BY <1>1, <1>2, <2>3
    <3>. QED
      BY <3>1
  <2>. QED
    BY <1>1, <2>1, <2>2, <2>3
<1>7. ASSUME NEW j \in 1 .. Len(list)
      PROVE  \E k \in 1 .. Len(list) : list[k] = moved[j]
  <2>1. CASE j = 1
    BY <1>5, <2>1
  <2>2. CASE j # 1 /\ j <= i
    BY <1>1, <1>2, <2>2
  <2>3. CASE j # 1 /\ ~ j <= i
    BY <1>1, <1>2, <2>3
  <2>. QED
    BY <2>1, <2>2, <2>3
<1>. QED
  BY <1>4, <1>5, <1>6, <1>7

\* The same, of the list of the cache.
LEMMA ListAfterMove ==
  ASSUME mruList \in Seq(Slot), NEW i \in 1 .. Len(mruList),
         mruList' = MoveToFront(mruList, i)
  PROVE  /\ mruList' \in Seq(Slot) /\ Len(mruList') = Len(mruList)
         /\ mruList'[1] = mruList[i]
         /\ \A j \in 1 .. Len(mruList) :
              \E k \in 1 .. Len(mruList) : mruList'[k] = mruList[j]
         /\ \A j \in 1 .. Len(mruList) :
              \E k \in 1 .. Len(mruList) : mruList[k] = mruList'[j]
<1>1. mruList' \in Seq(Slot)
  BY MoveToFrontKeeps
<1>2. Len(mruList') = Len(mruList)
  BY MoveToFrontKeeps, ZenonT(30)
<1>3. mruList'[1] = mruList[i]
  BY MoveToFrontKeeps, ZenonT(30)
<1>4. \A j \in 1 .. Len(mruList) :
        \E k \in 1 .. Len(mruList) : mruList'[k] = mruList[j]
  BY MoveToFrontKeeps, ZenonT(30)
<1>5. \A j \in 1 .. Len(mruList) :
        \E k \in 1 .. Len(mruList) : mruList[k] = mruList'[j]
  BY MoveToFrontKeeps, ZenonT(30)
<1>. QED
  BY <1>1, <1>2, <1>3, <1>4, <1>5

\* The cache table after cacheEntry(p): entry s holds p, no other entry has
\* changed its page, and the page s held before, if any, is no longer cached.
TableMoved(p, s) ==
  /\ cache' \in [Page -> Slot \cup {NoSlot}]
  /\ pageNumber' \in [Slot -> Page \cup {NoPage}]
  /\ cache'[p] = s /\ pageNumber'[s] = p
  /\ \A q \in Page : q # p /\ cache[q] # s => cache'[q] = cache[q]
  /\ \A q \in Page : q # p /\ cache[q] = s => cache'[q] = NoSlot
  /\ \A t \in Slot : t # s => pageNumber'[t] = pageNumber[t]

\* The list and the counters after cacheEntry(p).
ListMoved(s) ==
  /\ mruList' \in Seq(Slot)
  /\ validPageCount' \in 0 .. PageCount
  /\ mruEntry' = s
  /\ ListHoldsEntries'
  /\ MruEntryHeadsList'

\* The page that cacheEntry brings in takes the slot of the entry it chose; the
\* other entries keep their slots, positions and dirty marks.
LEMMA CacheEntryMovesTable ==
  ASSUME TypeOK, OneEntryPerPage, ListHoldsEntries, MruEntryHeadsList,
         NEW p \in Page, NEW s \in Slot, CacheEntry(p, s)
  PROVE  TableMoved(p, s) /\ ListMoved(s)
<1>0. /\ cache \in [Page -> Slot \cup {NoSlot}]
      /\ mruList \in Seq(Slot)
      /\ mruEntry \in Slot \cup {NoSlot}
      /\ validPageCount \in 0 .. PageCount
      /\ pageNumber \in [Slot -> Page \cup {NoPage}]
  BY DEF TypeOK
<1>1. PageCount \in Nat /\ NoSlot \notin Slot /\ NoPage \notin Page
      /\ Slot = 1 .. PageCount
  BY CacheAssumption DEF Slot, NoSlot, Page, NoPage
<1>2. CASE MruEntry(p, s)
  <2>1. mruEntry = s /\ pageNumber[s] = p /\ cache[p] = s /\ UNCHANGED tableVars
    BY <1>2 DEF MruEntry, OneEntryPerPage
  <2>2. TableMoved(p, s)
    BY <1>0, <1>1, <2>1 DEF TableMoved, tableVars, OneEntryPerPage
  <2>3. ListMoved(s)
    BY <1>0, <2>1 DEF ListMoved, tableVars, ListHoldsEntries, MruEntryHeadsList
  <2>. QED
    BY <2>2, <2>3
<1>3. CASE FindEntry(p, s)
  <2>1. PICK i \in 1 .. Len(mruList) : mruList[i] = s /\ mruList' = MoveToFront(mruList, i)
    BY <1>3 DEF FindEntry
  <2>2. cache[p] = s /\ pageNumber[s] = p /\ mruEntry' = s
        /\ UNCHANGED <<cache, validPageCount, pageNumber>>
    BY <1>3 DEF FindEntry, OneEntryPerPage
  <2>3. TableMoved(p, s)
    BY <1>0, <1>1, <2>2 DEF TableMoved, OneEntryPerPage
  <2>4. /\ mruList' \in Seq(Slot) /\ Len(mruList') = Len(mruList) /\ mruList'[1] = s
        /\ \A j \in 1 .. Len(mruList) :
             \E k \in 1 .. Len(mruList) : mruList'[k] = mruList[j]
        /\ \A j \in 1 .. Len(mruList) :
             \E k \in 1 .. Len(mruList) : mruList[k] = mruList'[j]
    BY <1>0, <2>1, ListAfterMove
  <2>5. ListHoldsEntries'
    <3>1. Len(mruList') = validPageCount' /\ \A t \in Slot :
            t <= validPageCount' <=> pageNumber'[t] # NoPage
      BY <2>2, <2>4 DEF ListHoldsEntries
    <3>2. \A t \in Slot :
            t <= validPageCount' <=> \E j \in 1 .. Len(mruList) : mruList[j] = t
      BY <2>2 DEF ListHoldsEntries
    <3>3. \A t \in Slot : (\E j \in 1 .. Len(mruList) : mruList[j] = t)
                              <=> (\E j \in 1 .. Len(mruList') : mruList'[j] = t)
      BY <2>4
    <3>. QED
      BY <3>1, <3>2, <3>3 DEF ListHoldsEntries
  <2>6. MruEntryHeadsList'
    BY <1>1, <2>1, <2>2, <2>4 DEF MruEntryHeadsList
  <2>. QED
    BY <1>0, <2>2, <2>3, <2>4, <2>5, <2>6 DEF ListMoved
<1>4. CASE NewEntry(p, s)
  <2>1. /\ cache[p] = NoSlot /\ validPageCount < PageCount /\ s = validPageCount + 1
        /\ mruList' = <<s>> \o mruList
        /\ pageNumber' = [pageNumber EXCEPT ![s] = p]
        /\ cache' = [cache EXCEPT ![p] = s]
        /\ validPageCount' = validPageCount + 1
        /\ mruEntry' = s
    BY <1>4 DEF NewEntry
  <2>2. pageNumber[s] = NoPage /\ \A q \in Page : cache[q] # s
    BY <1>1, <2>1 DEF ListHoldsEntries, OneEntryPerPage
  <2>3. TableMoved(p, s)
    BY <1>0, <1>1, <2>1, <2>2 DEF TableMoved
  <2>4. /\ mruList' \in Seq(Slot) /\ Len(mruList') = Len(mruList) + 1
        /\ mruList'[1] = s
        /\ \A j \in 1 .. Len(mruList) : mruList'[j + 1] = mruList[j]
        /\ \A j \in 2 .. Len(mruList) + 1 : mruList'[j] = mruList[j - 1]
    BY <1>0, <2>1
  <2>5. \A t \in Slot : t <= validPageCount' <=> \E j \in 1 .. Len(mruList') : mruList'[j] = t
    <3>. SUFFICES ASSUME NEW t \in Slot
                  PROVE  t <= validPageCount' <=> \E j \in 1 .. Len(mruList') : mruList'[j] = t
      OBVIOUS
    <3>0. Len(mruList) \in Nat /\ validPageCount \in Nat /\ t \in Nat
      BY <1>0, <1>1
    <3>1. CASE t = s
      BY <2>1, <2>4, <3>0, <3>1
    <3>2. CASE t # s
      <4>1. t <= validPageCount' <=> t <= validPageCount
        BY <2>1, <3>0, <3>2
      <4>2. (\E j \in 1 .. Len(mruList) : mruList[j] = t)
              => (\E j \in 1 .. Len(mruList') : mruList'[j] = t)
        <5>. SUFFICES ASSUME NEW j \in 1 .. Len(mruList), mruList[j] = t
                      PROVE  \E k \in 1 .. Len(mruList') : mruList'[k] = t
          OBVIOUS
        <5>1. j + 1 \in 1 .. Len(mruList') /\ mruList'[j + 1] = t
          BY <2>4, <3>0
        <5>. QED
          BY <5>1
      <4>3. (\E j \in 1 .. Len(mruList') : mruList'[j] = t)
              => (\E j \in 1 .. Len(mruList) : mruList[j] = t)
        <5>. SUFFICES ASSUME NEW j \in 1 .. Len(mruList'), mruList'[j] = t
                      PROVE  \E k \in 1 .. Len(mruList) : mruList[k] = t
          OBVIOUS
        <5>1. j # 1
          BY <2>4, <3>2
        <5>2. j - 1 \in 1 .. Len(mruList) /\ mruList[j - 1] = t
          BY <2>4, <3>0, <5>1
        <5>. QED
          BY <5>2
      <4>. QED
        BY <4>1, <4>2, <4>3 DEF ListHoldsEntries
    <3>. QED
      BY <3>1, <3>2
  <2>6. ListHoldsEntries'
    <3>1. Len(mruList') = validPageCount'
      BY <2>1, <2>4 DEF ListHoldsEntries
    <3>2. \A t \in Slot : t <= validPageCount' <=> pageNumber'[t] # NoPage
      BY <1>0, <1>1, <2>1 DEF ListHoldsEntries
    <3>. QED
      BY <2>5, <3>1, <3>2 DEF ListHoldsEntries
  <2>7. MruEntryHeadsList'
    BY <2>1, <2>4 DEF MruEntryHeadsList
  <2>. QED
    BY <1>0, <1>1, <2>1, <2>3, <2>4, <2>6, <2>7 DEF ListMoved
<1>5. CASE ReplaceEntry(p, s)
  <2>1. /\ cache[p] = NoSlot /\ ~ validPageCount < PageCount
        /\ s = mruList[Len(mruList)]
        /\ mruList' = MoveToFront(mruList, Len(mruList))
        /\ cache' = [cache EXCEPT ![pageNumber[s]] = NoSlot, ![p] = s]
        /\ pageNumber' = [pageNumber EXCEPT ![s] = p]
        /\ mruEntry' = s /\ validPageCount' = validPageCount
    BY <1>5 DEF ReplaceEntry
  <2>2. validPageCount = PageCount /\ Len(mruList) = PageCount /\ PageCount > 0
    BY <1>0, <1>1, <2>1, CacheAssumption DEF ListHoldsEntries
  <2>3. Len(mruList) \in 1 .. Len(mruList)
    BY <1>1, <2>2
  <2>4. pageNumber[s] \in Page /\ cache[pageNumber[s]] = s
    BY <1>0, <1>1, <2>2 DEF ListHoldsEntries, OneEntryPerPage
  <2>5. TableMoved(p, s)
    <3>1. pageNumber[s] # p
      BY <1>1, <2>1, <2>4
    <3>2. cache' \in [Page -> Slot \cup {NoSlot}] /\ cache'[p] = s
          /\ cache'[pageNumber[s]] = NoSlot
          /\ \A q \in Page : q # p /\ q # pageNumber[s] => cache'[q] = cache[q]
      BY <1>0, <2>1, <2>4, <3>1
    <3>3. \A q \in Page : cache[q] = s => q = pageNumber[s]
      BY DEF OneEntryPerPage
    <3>4. pageNumber' \in [Slot -> Page \cup {NoPage}] /\ pageNumber'[s] = p
          /\ \A t \in Slot : t # s => pageNumber'[t] = pageNumber[t]
      BY <1>0, <2>1
    <3>. QED
      BY <2>4, <3>2, <3>3, <3>4 DEF TableMoved
  <2>6. /\ mruList' \in Seq(Slot) /\ Len(mruList') = Len(mruList) /\ mruList'[1] = s
        /\ \A j \in 1 .. Len(mruList) :
             \E k \in 1 .. Len(mruList) : mruList'[k] = mruList[j]
        /\ \A j \in 1 .. Len(mruList) :
             \E k \in 1 .. Len(mruList) : mruList[k] = mruList'[j]
    BY <1>0, <2>1, <2>3, ListAfterMove
  <2>7. ListHoldsEntries'
    <3>1. \A t \in Slot : pageNumber'[t] # NoPage
      BY <1>0, <1>1, <2>1, <2>2 DEF ListHoldsEntries
    <3>2. \A t \in Slot : t <= validPageCount'
      BY <1>1, <2>1, <2>2
    <3>3. \A t \in Slot : \E j \in 1 .. Len(mruList') : mruList'[j] = t
      BY <2>1, <2>6, <3>2 DEF ListHoldsEntries
    <3>4. Len(mruList') = validPageCount'
      BY <2>1, <2>6 DEF ListHoldsEntries
    <3>. QED
      BY <3>1, <3>2, <3>3, <3>4 DEF ListHoldsEntries
  <2>8. MruEntryHeadsList'
    BY <1>1, <2>1, <2>2, <2>6 DEF MruEntryHeadsList
  <2>. QED
    BY <1>0, <2>1, <2>5, <2>6, <2>7, <2>8 DEF ListMoved
<1>. QED
  BY <1>2, <1>3, <1>4, <1>5 DEF CacheEntry, AllocateEntry

-----------------------------------------------------------------------------
(* What a fetch does to the bytes.                                         *)

\* Every byte written so far lies before the extent.
LEMMA WrittenInExtent ==
  ASSUME IInv
  PROVE  \A p \in Page : \A o \in written[p] : p * PageSize + o < extent
<1>1. /\ size \in Nat /\ extent \in Nat /\ written \in [Page -> SUBSET Offset]
      /\ call.start \in Nat /\ call.count \in Nat
  <2>1. Limit \in Nat
    BY CacheAssumption, SMT DEF Limit
  <2>2. TypeOK
    BY DEF IInv
  <2>3. size \in 0 .. Limit /\ extent \in 0 .. Limit
        /\ written \in [Page -> SUBSET Offset]
    BY <2>2 DEF TypeOK
  <2>4. call.start \in 0 .. Limit /\ call.count \in 0 .. Limit
    BY <2>2 DEF TypeOK
  <2>. QED
    BY <2>1, <2>3, <2>4
<1>. SUFFICES ASSUME NEW p \in Page, NEW o \in written[p]
              PROVE  p * PageSize + o < extent
  OBVIOUS
<1>2. p * PageSize + o \in Int
  BY <1>1, CacheAssumption DEF Page, Offset
<1>3. \/ p * PageSize + o < size /\ size <= extent
      \/ call.op = "write" /\ p * PageSize + o < call.start + call.count
  BY DEF IInv, WrittenInSize
<1>4. call.op = "write" => call.start + call.count <= extent
  BY DEF IInv, LoopInRange
<1>. QED
  BY <1>1, <1>2, <1>3, <1>4

\* A dirty page starts before the extent.
LEMMA DirtyInExtent ==
  ASSUME IInv
  PROVE  ValidWriteSize
<1>. SUFFICES ASSUME NEW s \in Slot, dirty[s]
              PROVE  pageNumber[s] * PageSize < extent
  BY DEF ValidWriteSize
<1>1. /\ pageNumber \in [Slot -> Page \cup {NoPage}]
      /\ written \in [Page -> SUBSET Offset]
      /\ extent \in 0 .. Limit
  BY DEF IInv, TypeOK
<1>2. pageNumber[s] \in Page /\ written[pageNumber[s]] # {}
  BY <1>1 DEF IInv, DirtyWasWritten
<1>3. PICK o \in Offset : o \in written[pageNumber[s]]
  BY <1>1, <1>2
<1>4. pageNumber[s] * PageSize + o < extent
  BY <1>2, <1>3, WrittenInExtent
<1>5. pageNumber[s] * PageSize \in Nat /\ o \in Nat /\ extent \in Int
  BY <1>1, <1>2, CacheAssumption DEF Page, Offset, Limit
<1>. QED
  BY <1>4, <1>5

\* After cacheEntry(p) and before the page's buffer s is used: the bytes the
\* buffer is about to hold are the page's, and every other page's bytes are
\* where they were, or in the file.
BytesKept(p, s) ==
  /\ buffered' \in Page \cup {NoPage}
  /\ file' \in [Page -> [Offset -> Byte]]
  /\ fileSize' \in 0 .. Limit /\ validSize' \in 0 .. Limit
  /\ validSize' = fileSize'
  /\ Fetched(p, s) \in [Offset -> Byte]
  /\ \A o \in written[p] :
       /\ Fetched(p, s)[o] = Seen(p, o)
       /\ \/ StillDirty(p, s)
          \/ p * PageSize + o < validSize' /\ Fetched(p, s)[o] = file'[p][o]
  /\ \A q \in Page : q # p => \A o \in written[q] :
       /\ \/ cache'[q] # NoSlot /\ dirty[cache'[q]]
          \/ /\ q * PageSize + o < validSize'
             /\ cache'[q] # NoSlot => buffer[cache'[q]][o] = file'[q][o]
       /\ Seen(q, o) = IF cache'[q] # NoSlot THEN buffer[cache'[q]][o]
                                             ELSE file'[q][o]

\* No byte of the storage changes when cacheEntry brings in a page, whatever it
\* writes back to the file to make room (OMPageCache::replaceEntry).
LEMMA CacheEntryKeepsBytes ==
  ASSUME IInv, NEW p \in Page, NEW s \in Slot, CacheEntry(p, s)
  PROVE  BytesKept(p, s)
<1>0. /\ file \in [Page -> [Offset -> Byte]]
      /\ fileSize \in 0 .. Limit /\ validSize \in 0 .. Limit
      /\ validSize = fileSize
      /\ cache \in [Page -> Slot \cup {NoSlot}]
      /\ pageNumber \in [Slot -> Page \cup {NoPage}]
      /\ buffer \in [Slot -> [Offset -> Byte]]
      /\ dirty \in [Slot -> BOOLEAN]
      /\ written \in [Page -> SUBSET Offset]
  BY DEF IInv, TypeOK, ValidSizeIsFileSize
<1>1. NoSlot \notin Slot /\ NoPage \notin Page
  BY DEF Slot, NoSlot, Page, NoPage
<1>2. /\ \A q \in Page, t \in Slot : cache[q] = t <=> pageNumber[t] = q
      /\ \A q \in Page : \A o \in written[q] :
           \/ cache[q] # NoSlot /\ dirty[cache[q]]
           \/ /\ q * PageSize + o < validSize
              /\ cache[q] # NoSlot => buffer[cache[q]][o] = file[q][o]
  BY DEF IInv, OneEntryPerPage, NothingLost
<1>3. TableMoved(p, s)
  BY CacheEntryMovesTable DEF IInv
<1>b. buffered \in Page \cup {NoPage}
  BY DEF IInv, TypeOK
<1>4. ASSUME pageNumber[s] = p, UNCHANGED fileVars
      PROVE  BytesKept(p, s)
  <2>1. cache[p] = s /\ cache' \in [Page -> Slot \cup {NoSlot}]
        /\ \A q \in Page : q # p => cache'[q] = cache[q]
    BY <1>1, <1>2, <1>3, <1>4 DEF TableMoved
  <2>2. Fetched(p, s) = buffer[s] /\ (StillDirty(p, s) <=> dirty[s])
    BY <1>4 DEF Fetched, StillDirty
  <2>3. file' = file /\ fileSize' = fileSize /\ validSize' = validSize
    BY <1>4 DEF fileVars, imageVars
  <2>4. buffered' \in Page \cup {NoPage}
    BY <1>b, <1>4 DEF fileVars
  <2>. QED
    BY <1>0, <1>1, <1>2, <2>1, <2>2, <2>3, <2>4 DEF BytesKept, Seen
<1>5. ASSUME cache[p] = NoSlot,
             file' \in [Page -> [Offset -> Byte]],
             fileSize' \in 0 .. Limit, validSize' \in 0 .. Limit,
             validSize' = fileSize', validSize' >= validSize,
             file'[p] = file[p]
      PROVE  /\ Fetched(p, s) \in [Offset -> Byte]
             /\ \A o \in written[p] :
                  /\ Fetched(p, s)[o] = Seen(p, o)
                  /\ p * PageSize + o < validSize'
                  /\ Fetched(p, s)[o] = file'[p][o]
  <2>1. Fetched(p, s) = ReadPage(p, buffer[s], file', validSize')
    BY <1>1, <1>2, <1>5 DEF Fetched
  <2>2. Fetched(p, s) \in [Offset -> Byte]
    BY <1>0, <1>5, <2>1, ReadPageType
  <2>3. ASSUME NEW o \in written[p]
        PROVE  /\ Fetched(p, s)[o] = Seen(p, o)
               /\ p * PageSize + o < validSize'
               /\ Fetched(p, s)[o] = file'[p][o]
    <3>1. o \in Offset /\ p * PageSize + o < validSize
      BY <1>0, <1>2, <1>5
    <3>2. p * PageSize + o \in Int /\ validSize \in Int /\ validSize' \in Nat
      BY <1>0, <1>5, <3>1, CacheAssumption DEF Page, Offset, Limit
    <3>3. p * PageSize + o < validSize'
      BY <1>5, <3>1, <3>2
    <3>4. Fetched(p, s)[o] = file'[p][o]
      BY <2>1, <3>1, <3>2, <3>3, ReadPageFetches
    <3>. QED
      BY <1>5, <3>3, <3>4 DEF Seen
  <2>. QED
    BY <2>2, <2>3
<1>6. CASE MruEntry(p, s)
  BY <1>4, <1>6 DEF MruEntry
<1>7. CASE FindEntry(p, s)
  BY <1>2, <1>4, <1>7 DEF FindEntry
<1>8. CASE NewEntry(p, s)
  <2>1. cache[p] = NoSlot /\ UNCHANGED imageVars /\ s = validPageCount + 1
    BY <1>8 DEF NewEntry
  <2>2. file' = file /\ fileSize' = fileSize /\ validSize' = validSize
    BY <2>1 DEF imageVars
  <2>3. \A q \in Page : cache[q] # s
    <3>1. ~ s <= validPageCount
      BY <2>1 DEF IInv, TypeOK
    <3>2. pageNumber[s] = NoPage
      BY <3>1 DEF IInv, ListHoldsEntries
    <3>. QED
      BY <1>1, <1>2, <3>2
  <2>4. \A q \in Page : q # p => cache'[q] = cache[q]
    BY <1>3, <2>3 DEF TableMoved
  <2>5. validSize' >= validSize
    BY <1>0, <2>2 DEF Limit
  <2>6. /\ Fetched(p, s) \in [Offset -> Byte]
        /\ \A o \in written[p] :
             /\ Fetched(p, s)[o] = Seen(p, o)
             /\ p * PageSize + o < validSize'
             /\ Fetched(p, s)[o] = file'[p][o]
    BY <1>0, <1>5, <2>1, <2>2, <2>5
  <2>7. buffered' \in Page \cup {NoPage}
    BY <1>b, <1>8 DEF NewEntry, BufferedAfterRead
  <2>. QED
    BY <1>0, <1>2, <2>2, <2>4, <2>6, <2>7 DEF BytesKept, Seen
<1>9. CASE ReplaceEntry(p, s)
  <2>. DEFINE v == pageNumber[s]
  <2>1. cache[p] = NoSlot
    BY <1>9 DEF ReplaceEntry
  <2>2. v \in Page /\ cache[v] = s /\ v # p
    <3>1. validPageCount \in 0 .. PageCount /\ ~ validPageCount < PageCount
      BY <1>9 DEF ReplaceEntry, IInv, TypeOK
    <3>2. s <= validPageCount
      BY <3>1, CacheAssumption DEF Slot
    <3>3. v # NoPage
      BY <3>2 DEF IInv, ListHoldsEntries
    <3>. QED
      BY <1>0, <1>1, <1>2, <2>1, <3>3
  <2>3. cache'[v] = NoSlot
        /\ \A q \in Page : q # p /\ q # v => cache'[q] = cache[q] /\ cache[q] # s
    BY <1>2, <1>3, <2>2 DEF TableMoved
  <2>4. /\ file' \in [Page -> [Offset -> Byte]]
        /\ fileSize' \in 0 .. Limit /\ validSize' \in 0 .. Limit
        /\ validSize' = fileSize' /\ validSize' >= validSize
        /\ \A q \in Page : q # v => file'[q] = file[q]
        /\ \A o \in written[v] :
             file'[v][o] = buffer[s][o] /\ v * PageSize + o < validSize'
    <3>1. CASE dirty[s]
      <4>1. WritePage(v, buffer[s])
        BY <1>9, <3>1 DEF ReplaceEntry, WriteDirty
      <4>2. v * PageSize < extent
        BY <3>1, DirtyInExtent DEF ValidWriteSize
      <4>3. \A o \in written[v] : o \in Offset /\ v * PageSize + o < extent
        BY <1>0, <2>2, WrittenInExtent
      <4>4. buffer[s] \in [Offset -> Byte]
        BY <1>0
      <4>5. TypeOK /\ ValidSizeIsFileSize
        BY DEF IInv
      <4>. HIDE DEF v
      <4>. QED
        BY <2>2, <4>1, <4>2, <4>3, <4>4, <4>5, WritePageStores
    <3>2. CASE ~ dirty[s]
      <4>1. file' = file /\ fileSize' = fileSize /\ validSize' = validSize
        BY <1>9, <3>2 DEF ReplaceEntry, WriteDirty, imageVars
      <4>2. s # NoSlot
        BY <1>1
      <4>3. \A o \in written[v] :
              v * PageSize + o < validSize /\ buffer[s][o] = file[v][o]
        BY <1>2, <2>2, <3>2, <4>2
      <4>4. validSize' >= validSize
        BY <1>0, <4>1 DEF Limit
      <4>. QED
        BY <1>0, <4>1, <4>3, <4>4
    <3>. QED
      BY <3>1, <3>2
  <2>5. /\ Fetched(p, s) \in [Offset -> Byte]
        /\ \A o \in written[p] :
             /\ Fetched(p, s)[o] = Seen(p, o)
             /\ p * PageSize + o < validSize'
             /\ Fetched(p, s)[o] = file'[p][o]
    BY <1>5, <2>1, <2>2, <2>4
  <2>6. ASSUME NEW q \in Page, q # p, NEW o \in written[q]
        PROVE  /\ \/ cache'[q] # NoSlot /\ dirty[cache'[q]]
                  \/ /\ q * PageSize + o < validSize'
                     /\ cache'[q] # NoSlot => buffer[cache'[q]][o] = file'[q][o]
               /\ Seen(q, o) = IF cache'[q] # NoSlot THEN buffer[cache'[q]][o]
                                                     ELSE file'[q][o]
    <3>1. CASE q = v
      BY <1>1, <2>2, <2>3, <2>4, <2>6, <3>1 DEF Seen
    <3>2. CASE q # v
      <4>1. cache'[q] = cache[q] /\ file'[q] = file[q]
        BY <2>3, <2>4, <2>6, <3>2
      <4>2. q * PageSize + o \in Int /\ validSize \in Int /\ validSize' \in Int
        BY <1>0, <2>4, <2>6, CacheAssumption DEF Page, Offset, Limit
      <4>3. q * PageSize + o < validSize => q * PageSize + o < validSize'
        BY <2>4, <4>2
      <4>. QED
        BY <1>2, <2>6, <4>1, <4>3 DEF Seen
    <3>. QED
      BY <3>1, <3>2
  <2>7. buffered' \in Page \cup {NoPage}
    BY <1>b, <1>9, <2>2 DEF ReplaceEntry, BufferedAfterRead
  <2>. HIDE DEF v
  <2>. QED
    BY <2>4, <2>5, <2>6, <2>7 DEF BytesKept
<1>. QED
  BY <1>6, <1>7, <1>8, <1>9 DEF CacheEntry, AllocateEntry

-----------------------------------------------------------------------------
(* The turns of the loops.                                                 *)

\* The piece of a request that lies in one page.
LEMMA PieceInPage ==
  ASSUME IInv, call.op \in {"read", "write"}, call.left > 0
  PROVE  /\ PieceSize \in Nat /\ PieceSize > 0 /\ PieceSize <= call.left
         /\ call.offset + PieceSize <= PageSize
         /\ call.page \in Page
         /\ call.page * PageSize + call.offset + PieceSize
              <= call.start + call.count
         /\ call.left > PieceSize =>
              (call.page + 1) * PageSize + 0 + (call.left - PieceSize)
                = call.start + call.count
<1>1. /\ PageSize \in Nat /\ PageSize > 0 /\ PageLimit \in Nat
      /\ Limit = PageSize * PageLimit /\ Limit \in Nat
  BY CacheAssumption DEF Limit
<1>2. /\ call.offset \in Nat /\ call.offset < PageSize /\ call.page \in Nat
      /\ call.left \in Nat /\ call.start \in Nat /\ call.count \in Nat
      /\ size <= Limit /\ extent <= Limit /\ size \in Nat /\ extent \in Nat
  BY <1>1 DEF IInv, TypeOK, Offset
<1>3. /\ call.page * PageSize + call.offset + call.left = call.start + call.count
      /\ call.start + call.count <= Limit
  BY <1>1, <1>2 DEF IInv, LoopInRange
<1>4. /\ PieceSize \in Nat /\ PieceSize > 0 /\ PieceSize <= call.left
      /\ call.offset + PieceSize <= PageSize
      /\ call.left > PieceSize => PieceSize = PageSize - call.offset
  BY <1>1, <1>2 DEF PieceSize, Smaller
<1>5. call.page \in Page
  <2>1. call.page * PageSize < PageLimit * PageSize
    <3>1. call.page * PageSize \in Nat
      BY <1>1, <1>2
    <3>2. Limit = PageLimit * PageSize
      BY <1>1
    <3>. QED
      BY <1>1, <1>2, <1>3, <3>1, <3>2
  <2>2. call.page < PageLimit
    BY <1>1, <1>2, <2>1, PageOrder
  <2>. QED
    BY <1>1, <1>2, <2>2 DEF Page
<1>6. call.page * PageSize \in Nat
      /\ (call.page + 1) * PageSize = call.page * PageSize + PageSize
  BY <1>1, <1>2
<1>7. call.page * PageSize + call.offset + PieceSize <= call.start + call.count
  BY <1>2, <1>3, <1>4, <1>6
<1>8. call.left > PieceSize =>
        (call.page + 1) * PageSize + 0 + (call.left - PieceSize)
          = call.start + call.count
  BY <1>1, <1>2, <1>3, <1>4, <1>6
<1>. QED
  BY <1>4, <1>5, <1>7, <1>8

\* The loop variables after one turn.
LEMMA AdvanceKeepsLoop ==
  ASSUME IInv, call.op \in {"read", "write"}, call.left > 0,
         NEW data \in Seq(Byte), Advance(data)
  PROVE  /\ call' \in [op : Calls, start : 0 .. Limit, count : 0 .. Limit,
                       page : Nat, offset : Offset, left : 0 .. Limit,
                       data : Seq(Byte)]
         /\ call'.op = call.op /\ call'.start = call.start
         /\ call'.count = call.count /\ call'.data = data
         /\ call'.left = call.left - PieceSize
         /\ call'.left <= call'.count
         /\ call'.left > 0 => call'.page * PageSize + call'.offset + call'.left
                                = call'.start + call'.count
<1>1. /\ PieceSize \in Nat /\ PieceSize > 0 /\ PieceSize <= call.left
      /\ call.left > PieceSize =>
           (call.page + 1) * PageSize + 0 + (call.left - PieceSize)
             = call.start + call.count
  BY PieceInPage
<1>2. call \in [op : Calls, start : 0 .. Limit, count : 0 .. Limit,
                page : Nat, offset : Offset, left : 0 .. Limit,
                data : Seq(Byte)]
  BY DEF IInv, TypeOK
<1>3. call' = [call EXCEPT !.page = call.page + 1, !.offset = 0,
                           !.left = call.left - PieceSize, !.data = data]
  BY DEF Advance
<1>4. 0 \in Offset /\ Limit \in Nat
  BY CacheAssumption, SMT DEF Offset, Limit
<1>5. /\ call'.op = call.op /\ call'.start = call.start
      /\ call'.count = call.count /\ call'.data = data
      /\ call'.left = call.left - PieceSize
      /\ call'.page = call.page + 1 /\ call'.offset = 0
  BY <1>2, <1>3
<1>6. call.left - PieceSize \in 0 .. Limit /\ call.page + 1 \in Nat
  BY <1>1, <1>2, <1>4
<1>7. call' \in [op : Calls, start : 0 .. Limit, count : 0 .. Limit,
                 page : Nat, offset : Offset, left : 0 .. Limit,
                 data : Seq(Byte)]
  BY <1>2, <1>3, <1>4, <1>6
<1>8. call'.left <= call'.count
  <2>1. call.left <= call.count
    BY DEF IInv, LoopInRange
  <2>2. call.left \in Nat /\ call.count \in Nat
    BY <1>2, <1>4
  <2>. QED
    BY <1>1, <1>5, <2>1, <2>2
<1>9. call'.left > 0 => call'.page * PageSize + call'.offset + call'.left
                          = call'.start + call'.count
  <2>1. call.left \in Nat
    BY <1>2, <1>4
  <2>2. call.left - PieceSize > 0 => call.left > PieceSize
    BY <1>1, <2>1
  <2>. QED
    BY <1>1, <1>5, <2>2
<1>. QED
  BY <1>5, <1>7, <1>8, <1>9

\* A turn of a loop on page p, held by entry s: nb is the entry's new buffer
\* and nd its new dirty bit.  Wherever the page is not going to be dirty, the
\* new buffer holds what was fetched.
PageTurn(p, s, nb, nd) ==
  /\ CacheEntry(p, s)
  /\ nb \in [Offset -> Byte]
  /\ nd \in BOOLEAN
  /\ buffer' = [buffer EXCEPT ![s] = nb]
  /\ dirty' = [dirty EXCEPT ![s] = nd]
  /\ UNCHANGED <<sizeVars, result>>
  /\ written' \in [Page -> SUBSET Offset]
  /\ \A q \in Page : written[q] \subseteq written'[q]
  /\ \A q \in Page : q # p => written'[q] = written[q]
  /\ \A o \in written'[p] :
       nd \/ (o \in written[p] /\ nb[o] = Fetched(p, s)[o] /\ ~ StillDirty(p, s))
  /\ nd => mode = "modify" /\ written'[p] # {}
  /\ call' \in [op : Calls, start : 0 .. Limit, count : 0 .. Limit,
                page : Nat, offset : Offset, left : 0 .. Limit,
                data : Seq(Byte)]

\* What such a turn leaves of the invariant.
InvAfterTurn ==
  /\ TypeOK' /\ OneEntryPerPage' /\ ListHoldsEntries' /\ MruEntryHeadsList'
  /\ NothingLost' /\ ValidSizeIsFileSize' /\ DirtyWasWritten'

SeenAfterTurn(p, s, nb) ==
  /\ \A q \in Page : q # p => \A o \in written[q] : Seen(q, o)' = Seen(q, o)
  /\ \A o \in written[p] : nb[o] = Fetched(p, s)[o] => Seen(p, o)' = Seen(p, o)

\* One turn of the loop over pages in readCachedAt and writeCachedAt keeps the
\* invariant.
LEMMA TurnKeeps ==
  ASSUME IInv, NEW p \in Page, NEW s \in Slot, NEW nb, NEW nd,
         PageTurn(p, s, nb, nd)
  PROVE  InvAfterTurn /\ SeenAfterTurn(p, s, nb)
<1>0. /\ CacheEntry(p, s)
      /\ nb \in [Offset -> Byte]
      /\ nd \in BOOLEAN
      /\ buffer' = [buffer EXCEPT ![s] = nb]
      /\ dirty' = [dirty EXCEPT ![s] = nd]
      /\ UNCHANGED <<sizeVars, result>>
      /\ written' \in [Page -> SUBSET Offset]
      /\ \A q \in Page : written[q] \subseteq written'[q]
      /\ \A q \in Page : q # p => written'[q] = written[q]
      /\ \A o \in written'[p] :
           nd \/ (o \in written[p] /\ nb[o] = Fetched(p, s)[o] /\ ~ StillDirty(p, s))
      /\ nd => mode = "modify" /\ written'[p] # {}
      /\ call' \in [op : Calls, start : 0 .. Limit, count : 0 .. Limit,
                    page : Nat, offset : Offset, left : 0 .. Limit,
                    data : Seq(Byte)]
  BY DEF PageTurn
<1>1. TableMoved(p, s) /\ ListMoved(s)
  BY <1>0, CacheEntryMovesTable DEF IInv
<1>2. BytesKept(p, s)
  BY <1>0, CacheEntryKeepsBytes
<1>3. /\ buffer \in [Slot -> [Offset -> Byte]] /\ dirty \in [Slot -> BOOLEAN]
      /\ cache \in [Page -> Slot \cup {NoSlot}]
      /\ pageNumber \in [Slot -> Page \cup {NoPage}]
      /\ written \in [Page -> SUBSET Offset]
  BY DEF IInv, TypeOK
<1>4. NoSlot \notin Slot /\ NoPage \notin Page
  BY DEF Slot, NoSlot, Page, NoPage
<1>5. /\ buffer' \in [Slot -> [Offset -> Byte]] /\ dirty' \in [Slot -> BOOLEAN]
      /\ buffer'[s] = nb /\ dirty'[s] = nd
      /\ \A t \in Slot : t # s => buffer'[t] = buffer[t] /\ dirty'[t] = dirty[t]
  BY <1>0, <1>3
<1>6. TypeOK'
  <2>1. TypeOK
    BY DEF IInv
  <2>2. /\ size' = size /\ extent' = extent /\ position' = position
        /\ mode' = mode /\ result' = result
    BY <1>0 DEF sizeVars
  <2>3. /\ size \in 0 .. Limit /\ extent \in 0 .. Limit /\ position \in 0 .. Limit
        /\ mode \in {"closed", "readOnly", "modify"} /\ result \in Seq(Byte)
    BY <2>1 DEF TypeOK
  <2>4. mruEntry' \in Slot \cup {NoSlot}
    BY <1>1 DEF ListMoved
  <2>. QED
    BY <1>0, <1>1, <1>2, <1>5, <2>2, <2>3, <2>4
    DEF TypeOK, TableMoved, ListMoved, BytesKept
<1>7. OneEntryPerPage'
  <2>1. \A q \in Page, t \in Slot : cache[q] = t <=> pageNumber[t] = q
    BY DEF IInv, OneEntryPerPage
  <2>. SUFFICES ASSUME NEW q \in Page, NEW t \in Slot
                PROVE  cache'[q] = t <=> pageNumber'[t] = q
    BY DEF OneEntryPerPage
  <2>2. CASE t = s
    BY <1>1, <1>4, <2>1, <2>2 DEF TableMoved
  <2>3. CASE t # s
    <3>1. pageNumber'[t] = pageNumber[t]
      BY <1>1, <2>3 DEF TableMoved
    <3>2. pageNumber[t] = q <=> cache[q] = t
      BY <2>1
    <3>3. CASE q = p
      <4>1. cache'[q] = s /\ pageNumber'[s] = p
        BY <1>1, <3>3 DEF TableMoved
      <4>2. cache[q] # t
        BY <1>0, <1>4, <2>1, <2>3, <3>3
        DEF CacheEntry, MruEntry, FindEntry, AllocateEntry, NewEntry, ReplaceEntry
      <4>. QED
        BY <2>3, <3>1, <3>2, <4>1, <4>2
    <3>4. CASE q # p /\ cache[q] = s
      <4>1. cache'[q] = NoSlot
        BY <1>1, <3>4 DEF TableMoved
      <4>. QED
        BY <1>4, <2>3, <3>1, <3>2, <3>4, <4>1
    <3>5. CASE q # p /\ cache[q] # s
      <4>1. cache'[q] = cache[q]
        BY <1>1, <3>5 DEF TableMoved
      <4>. QED
        BY <3>1, <3>2, <4>1
    <3>. QED
      BY <3>3, <3>4, <3>5
  <2>. QED
    BY <2>2, <2>3
<1>8. ListHoldsEntries' /\ MruEntryHeadsList'
  BY <1>1 DEF ListMoved
<1>9. ValidSizeIsFileSize'
  BY <1>2 DEF BytesKept, ValidSizeIsFileSize
<1>10. \A q \in Page : q # p => cache'[q] # s /\ cache'[q] \in Slot \cup {NoSlot}
  BY <1>1, <1>4 DEF TableMoved
<1>11. NothingLost'
  <2>. SUFFICES ASSUME NEW q \in Page, NEW o \in written'[q]
                PROVE  \/ cache'[q] # NoSlot /\ dirty'[cache'[q]]
                       \/ /\ q * PageSize + o < validSize'
                          /\ cache'[q] # NoSlot => buffer'[cache'[q]][o] = file'[q][o]
    BY DEF NothingLost
  <2>1. CASE q = p
    <3>1. cache'[q] = s /\ s # NoSlot
      BY <1>1, <1>4, <2>1 DEF TableMoved
    <3>2. CASE nd
      BY <1>0, <1>5, <3>1, <3>2
    <3>3. CASE ~ nd
      <4>1. o \in written[p] /\ nb[o] = Fetched(p, s)[o] /\ ~ StillDirty(p, s)
        BY <1>0, <2>1, <3>3
      <4>2. p * PageSize + o < validSize' /\ Fetched(p, s)[o] = file'[p][o]
        BY <1>2, <4>1 DEF BytesKept
      <4>. QED
        BY <1>5, <2>1, <3>1, <4>1, <4>2
    <3>. QED
      BY <3>2, <3>3
  <2>2. CASE q # p
    <3>1. o \in written[q]
      BY <1>0, <2>2
    <3>2. \/ cache'[q] # NoSlot /\ dirty[cache'[q]]
          \/ /\ q * PageSize + o < validSize'
             /\ cache'[q] # NoSlot => buffer[cache'[q]][o] = file'[q][o]
      BY <1>2, <2>2, <3>1 DEF BytesKept
    <3>. QED
      BY <1>5, <1>10, <2>2, <3>2
  <2>. QED
    BY <2>1, <2>2
<1>12. DirtyWasWritten'
  <2>. SUFFICES ASSUME NEW t \in Slot, dirty'[t]
                PROVE  /\ mode' = "modify" /\ pageNumber'[t] # NoPage
                       /\ written'[pageNumber'[t]] # {}
    BY DEF DirtyWasWritten
  <2>1. CASE t = s
    BY <1>0, <1>1, <1>4, <1>5, <2>1 DEF TableMoved, sizeVars
  <2>2. CASE t # s
    <3>1. dirty[t] /\ pageNumber'[t] = pageNumber[t]
      BY <1>1, <1>5, <2>2 DEF TableMoved
    <3>2. mode = "modify" /\ pageNumber[t] # NoPage /\ written[pageNumber[t]] # {}
      BY <3>1 DEF IInv, DirtyWasWritten
    <3>3. pageNumber[t] \in Page
      BY <1>3, <3>2
    <3>. QED
      BY <1>0, <3>1, <3>2, <3>3 DEF sizeVars
  <2>. QED
    BY <2>1, <2>2
<1>13. ASSUME NEW q \in Page, q # p, NEW o \in written[q]
       PROVE  Seen(q, o)' = Seen(q, o)
  <2>1. Seen(q, o) = IF cache'[q] # NoSlot THEN buffer[cache'[q]][o] ELSE file'[q][o]
    BY <1>2, <1>13 DEF BytesKept
  <2>. QED
    BY <1>5, <1>10, <1>13, <2>1 DEF Seen
<1>14. ASSUME NEW o \in written[p], nb[o] = Fetched(p, s)[o]
       PROVE  Seen(p, o)' = Seen(p, o)
  <2>1. Fetched(p, s)[o] = Seen(p, o)
    BY <1>2, <1>14 DEF BytesKept
  <2>2. cache'[p] = s /\ s # NoSlot
    BY <1>1, <1>4 DEF TableMoved
  <2>. QED
    BY <1>5, <1>14, <2>1, <2>2 DEF Seen
<1>. QED
  BY <1>6, <1>7, <1>8, <1>9, <1>11, <1>12, <1>13, <1>14 DEF InvAfterTurn, SeenAfterTurn

\* A turn of the loop of readCachedAt keeps the invariant and every byte.
LEMMA ReadCachedPageStep ==
  ASSUME IInv, ReadCachedPage
  PROVE  IInv' /\ ContentsStable
<1>0. PICK p \in Page : p = call.page
  BY PieceInPage DEF ReadCachedPage
<1>1. /\ call.op = "read" /\ call.left > 0
      /\ UNCHANGED <<sizeVars, result, written>>
  BY DEF ReadCachedPage
<1>2. PICK s \in Slot :
        /\ CacheEntry(p, s)
        /\ buffer' = [buffer EXCEPT ![s] = Fetched(p, s)]
        /\ dirty' = [dirty EXCEPT ![s] = StillDirty(p, s)]
        /\ Advance(call.data \o
             [k \in 1 .. PieceSize |-> Fetched(p, s)[call.offset + k - 1]])
  BY <1>0 DEF ReadCachedPage
<1>3. /\ p \in Page /\ PieceSize \in Nat
      /\ call.offset \in Nat /\ call.offset + PieceSize <= PageSize
  BY <1>0, <1>1, PieceInPage, SMTT(30) DEF IInv, TypeOK, Offset
<1>4. TableMoved(p, s) /\ ListMoved(s)
  BY <1>2, <1>3, CacheEntryMovesTable DEF IInv
<1>5. BytesKept(p, s)
  BY <1>2, <1>3, CacheEntryKeepsBytes
<1>. DEFINE got == call.data \o
             [k \in 1 .. PieceSize |-> Fetched(p, s)[call.offset + k - 1]]
<1>6. got \in Seq(Byte)
  <2>1. \A k \in 1 .. PieceSize : call.offset + k - 1 \in Offset
    BY <1>3, CacheAssumption DEF Offset
  <2>2. [k \in 1 .. PieceSize |-> Fetched(p, s)[call.offset + k - 1]] \in Seq(Byte)
    BY <1>3, <1>5, <2>1 DEF BytesKept
  <2>3. call.data \in Seq(Byte)
    BY DEF IInv, TypeOK
  <2>. QED
    BY <2>2, <2>3
<1>. HIDE DEF got
<1>7. Fetched(p, s) \in [Offset -> Byte] /\ StillDirty(p, s) \in BOOLEAN
  BY <1>5 DEF BytesKept, StillDirty, IInv, TypeOK
<1>8. Advance(got)
  BY <1>2 DEF got
<1>9. /\ call' \in [op : Calls, start : 0 .. Limit, count : 0 .. Limit,
                    page : Nat, offset : Offset, left : 0 .. Limit,
                    data : Seq(Byte)]
      /\ call'.op = "read" /\ call'.start = call.start
      /\ call'.count = call.count /\ call'.left <= call'.count
      /\ call'.left > 0 => call'.page * PageSize + call'.offset + call'.left
                             = call'.start + call'.count
  BY <1>1, <1>6, <1>8, AdvanceKeepsLoop
<1>10. /\ written' = written /\ written \in [Page -> SUBSET Offset]
       /\ size' = size /\ extent' = extent /\ mode' = mode
       /\ UNCHANGED <<sizeVars, result>>
  BY <1>1 DEF sizeVars, IInv, TypeOK
<1>11. StillDirty(p, s) => mode = "modify" /\ written'[p] # {}
  BY <1>10 DEF StillDirty, IInv, DirtyWasWritten
<1>12. InvAfterTurn /\ SeenAfterTurn(p, s, Fetched(p, s))
  <2>1. \A o \in written'[p] :
           StillDirty(p, s) \/ (o \in written[p] /\ ~ StillDirty(p, s))
    BY <1>10
  <2>2. /\ \A q \in Page : written[q] \subseteq written'[q]
        /\ \A q \in Page : q # p => written'[q] = written[q]
    BY <1>10
  <2>3. PageTurn(p, s, Fetched(p, s), StillDirty(p, s))
    BY <1>2, <1>7, <1>9, <1>10, <1>11, <2>1, <2>2 DEF PageTurn
  <2>. QED
    BY <1>3, <2>3, TurnKeeps
<1>13. LoopInRange'
  BY <1>1, <1>9, <1>10 DEF LoopInRange, IInv
<1>14. WrittenInSize'
  BY <1>1, <1>9, <1>10 DEF WrittenInSize, IInv
<1>15. FlushedBehind' /\ ClosedIsEmpty'
  BY <1>1, <1>9, <1>10 DEF FlushedBehind, ClosedIsEmpty, IInv
<1>16. ContentsStable
  <2>. SUFFICES ASSUME NEW q \in Page, NEW o \in written[q]
                PROVE  Seen(q, o)' = Seen(q, o)
    BY DEF ContentsStable
  <2>1. CASE q = p
    BY <1>12, <2>1 DEF SeenAfterTurn
  <2>2. CASE q # p
    BY <1>12, <2>2 DEF SeenAfterTurn
  <2>. QED
    BY <2>1, <2>2
<1>. QED
  BY <1>12, <1>13, <1>14, <1>15, <1>16 DEF IInv, InvAfterTurn
\* A turn of the loop of writeCachedAt keeps the invariant, and every byte
\* outside the piece it writes.
LEMMA WriteCachedPageStep ==
  ASSUME IInv, WriteCachedPage
  PROVE  IInv' /\ ContentsStable
<1>0. PICK p \in Page : p = call.page
  BY PieceInPage DEF WriteCachedPage
<1>. DEFINE piece == call.offset .. call.offset + PieceSize - 1
            rest == SubSeq(call.data, PieceSize + 1, Len(call.data))
<1>1. /\ call.op = "write" /\ call.left > 0
      /\ UNCHANGED <<sizeVars, result>>
      /\ written' = [written EXCEPT ![p] = @ \cup piece]
      /\ Advance(rest)
  BY <1>0 DEF WriteCachedPage
<1>2. PICK s \in Slot :
        /\ CacheEntry(p, s)
        /\ buffer' = [buffer EXCEPT ![s] = [o \in Offset |->
             IF o \in piece THEN call.data[o - call.offset + 1]
                            ELSE Fetched(p, s)[o]]]
        /\ dirty' = [dirty EXCEPT ![s] = TRUE]
  BY <1>0 DEF WriteCachedPage
<1>3. /\ PieceSize \in Nat /\ PieceSize > 0 /\ PieceSize <= call.left
      /\ call.offset \in Nat /\ call.offset + PieceSize <= PageSize
      /\ p * PageSize + call.offset + PieceSize <= call.start + call.count
      /\ call.left \in Nat /\ PageSize \in Nat /\ PageSize > 0
  BY <1>0, <1>1, PieceInPage, CacheAssumption DEF IInv, TypeOK, Offset, Limit
<1>4. BytesKept(p, s)
  BY <1>2, CacheEntryKeepsBytes
<1>5. /\ call.data \in Seq(Byte) /\ Len(call.data) = call.left
      /\ mode = "modify" /\ call.start + call.count <= extent
      /\ written \in [Page -> SUBSET Offset]
  BY <1>1 DEF IInv, TypeOK, LoopInRange
<1>6. rest \in Seq(Byte) /\ Len(rest) = call.left - PieceSize
  BY <1>3, <1>5
<1>7. piece \subseteq Offset /\ call.offset \in piece
  BY <1>3 DEF Offset
<1>8. \A o \in piece : call.data[o - call.offset + 1] \in Byte
  <2>. SUFFICES ASSUME NEW o \in piece
                PROVE  call.data[o - call.offset + 1] \in Byte
    OBVIOUS
  <2>1. o - call.offset + 1 \in 1 .. Len(call.data)
    BY <1>3, <1>5
  <2>. QED
    BY <1>5, <2>1
<1>. HIDE DEF rest
<1>9. /\ call' \in [op : Calls, start : 0 .. Limit, count : 0 .. Limit,
                    page : Nat, offset : Offset, left : 0 .. Limit,
                    data : Seq(Byte)]
      /\ call'.op = "write" /\ call'.start = call.start
      /\ call'.count = call.count /\ call'.data = rest
      /\ call'.left = call.left - PieceSize
      /\ call'.left <= call'.count
      /\ call'.left > 0 => call'.page * PageSize + call'.offset + call'.left
                             = call'.start + call'.count
  BY <1>1, <1>6, AdvanceKeepsLoop
<1>10. PICK nb : nb = [o \in Offset |->
             IF o \in piece THEN call.data[o - call.offset + 1]
                            ELSE Fetched(p, s)[o]]
  OBVIOUS
<1>11. /\ written'[p] = written[p] \cup piece
       /\ \A q \in Page : q # p => written'[q] = written[q]
       /\ written' \in [Page -> SUBSET Offset]
  BY <1>1, <1>5, <1>7
<1>12. InvAfterTurn /\ SeenAfterTurn(p, s, nb)
  <2>1. Fetched(p, s) \in [Offset -> Byte]
    BY <1>4 DEF BytesKept
  <2>2. nb \in [Offset -> Byte]
    BY <1>8, <1>10, <2>1
  <2>3. \A q \in Page : written[q] \subseteq written'[q]
    BY <1>11
  <2>4. written'[p] # {}
    BY <1>7, <1>11
  <2>5. buffer' = [buffer EXCEPT ![s] = nb]
    BY <1>2, <1>10
  <2>6. PageTurn(p, s, nb, TRUE)
    <3>. HIDE DEF piece
    <3>. QED
      BY <1>1, <1>2, <1>5, <1>9, <1>11, <2>2, <2>3, <2>4, <2>5 DEF PageTurn
  <2>. QED
    BY <2>6, TurnKeeps
<1>13. size' = size /\ extent' = extent /\ mode' = mode
  BY <1>1 DEF sizeVars
<1>14. LoopInRange'
  BY <1>5, <1>6, <1>9, <1>13 DEF LoopInRange
<1>15. WrittenInSize'
  <2>1. size' <= extent'
    BY <1>13 DEF IInv, WrittenInSize
  <2>. SUFFICES ASSUME NEW q \in Page, NEW o \in written'[q]
                PROVE  q * PageSize + o < size'
                       \/ q * PageSize + o < call.start + call.count
    BY <1>9, <2>1 DEF WrittenInSize
  <2>2. CASE o \in written[q]
    BY <1>13, <2>2 DEF IInv, WrittenInSize
  <2>3. CASE q = p /\ o \in piece
    <3>1. o \in Int /\ o < call.offset + PieceSize /\ p * PageSize \in Int
      BY <1>3, <2>3 DEF Page
    <3>2. call.start + call.count \in Int
      BY CacheAssumption DEF IInv, TypeOK, Limit
    <3>. QED
      BY <1>3, <2>3, <3>1, <3>2
  <2>. QED
    BY <1>11, <2>2, <2>3
<1>16. FlushedBehind' /\ ClosedIsEmpty'
  BY <1>5, <1>9, <1>13 DEF FlushedBehind, ClosedIsEmpty
<1>17. ContentsStable
  <2>. SUFFICES ASSUME NEW q \in Page, NEW o \in written[q]
                PROVE  \/ Seen(q, o)' = Seen(q, o)
                       \/ q = p /\ o \in piece
    BY <1>0, <1>1 DEF ContentsStable
  <2>1. CASE q = p /\ o \notin piece
    <3>1. o \in Offset
      BY <1>5
    <3>2. nb[o] = Fetched(p, s)[o]
      BY <1>10, <2>1, <3>1
    <3>. QED
      BY <1>12, <2>1, <3>2 DEF SeenAfterTurn
  <2>2. CASE q # p
    BY <1>12, <2>2 DEF SeenAfterTurn
  <2>. QED
    BY <2>1, <2>2
<1>. QED
  BY <1>12, <1>14, <1>15, <1>16, <1>17 DEF IInv, InvAfterTurn
\* A turn of the loop of flush keeps the invariant and every byte.
LEMMA FlushPageStep ==
  ASSUME IInv, FlushPage
  PROVE  IInv' /\ ContentsStable
<1>1. PICK p \in Page :
        /\ NextCached(p)
        /\ WriteDirty(p, cache[p])
        /\ buffered' = IF dirty[cache[p]] THEN p ELSE buffered
        /\ dirty' = [dirty EXCEPT ![cache[p]] = FALSE]
        /\ call' = [call EXCEPT !.page = p + 1]
  BY DEF FlushPage
<1>2. /\ call.op \in {"flush", "close"}
      /\ UNCHANGED <<sizeVars, tableVars, buffer, result, written>>
  BY DEF FlushPage
<1>3. PICK s : s = cache[p]
  OBVIOUS
<1>4. /\ file \in [Page -> [Offset -> Byte]]
      /\ fileSize \in 0 .. Limit /\ validSize \in 0 .. Limit
      /\ validSize = fileSize /\ extent \in 0 .. Limit
      /\ cache \in [Page -> Slot \cup {NoSlot}]
      /\ buffer \in [Slot -> [Offset -> Byte]]
      /\ dirty \in [Slot -> BOOLEAN]
      /\ written \in [Page -> SUBSET Offset]
      /\ call \in [op : Calls, start : 0 .. Limit, count : 0 .. Limit,
                   page : Nat, offset : Offset, left : 0 .. Limit,
                   data : Seq(Byte)]
  BY DEF IInv, TypeOK, ValidSizeIsFileSize
<1>5. s \in Slot /\ pageNumber[s] = p
  BY <1>1, <1>3, <1>4 DEF NextCached, IInv, OneEntryPerPage
<1>6. /\ dirty' \in [Slot -> BOOLEAN] /\ ~ dirty'[s]
      /\ \A t \in Slot : t # s => dirty'[t] = dirty[t]
  BY <1>1, <1>3, <1>4, <1>5
<1>7. /\ cache' = cache /\ mruList' = mruList /\ mruEntry' = mruEntry
      /\ validPageCount' = validPageCount /\ pageNumber' = pageNumber
      /\ buffer' = buffer /\ result' = result /\ written' = written
      /\ size' = size /\ extent' = extent /\ position' = position /\ mode' = mode
  BY <1>2 DEF sizeVars, tableVars
<1>8. /\ file' \in [Page -> [Offset -> Byte]]
      /\ fileSize' \in 0 .. Limit /\ validSize' \in 0 .. Limit
      /\ validSize' = fileSize' /\ validSize' >= validSize
      /\ \A q \in Page : q # p => file'[q] = file[q]
      /\ \A o \in written[p] :
           p * PageSize + o < validSize' /\ file'[p][o] = buffer[s][o]
  <2>1. CASE dirty[s]
    <3>1. p * PageSize < extent
      BY <1>5, <2>1, DirtyInExtent DEF ValidWriteSize
    <3>2. WritePage(p, buffer[s])
      BY <1>1, <1>3, <2>1 DEF WriteDirty
    <3>3. /\ file' \in [Page -> [Offset -> Byte]]
          /\ fileSize' \in 0 .. Limit /\ validSize' \in 0 .. Limit
          /\ validSize' = fileSize' /\ validSize' >= validSize
          /\ \A q \in Page : q # p => file'[q] = file[q]
          /\ \A o \in Offset : p * PageSize + o < extent =>
               file'[p][o] = buffer[s][o] /\ p * PageSize + o < validSize'
      BY <1>4, <1>5, <3>1, <3>2, WritePageStores DEF IInv
    <3>4. \A o \in written[p] : o \in Offset /\ p * PageSize + o < extent
      BY <1>4, WrittenInExtent
    <3>. QED
      BY <3>3, <3>4
  <2>2. CASE ~ dirty[s]
    <3>1. UNCHANGED imageVars
      BY <1>1, <1>3, <2>2 DEF WriteDirty
    <3>2. file' = file /\ fileSize' = fileSize /\ validSize' = validSize
      BY <3>1 DEF imageVars
    <3>3. validSize' >= validSize
      BY <1>4, <3>2, CacheAssumption DEF Limit
    <3>4. \A o \in written[p] :
            p * PageSize + o < validSize /\ buffer[s][o] = file[p][o]
      BY <1>3, <1>5, <2>2 DEF IInv, NothingLost, Slot, NoSlot
    <3>. QED
      BY <1>4, <3>2, <3>3, <3>4
  <2>. QED
    BY <2>1, <2>2
<1>9. /\ call' \in [op : Calls, start : 0 .. Limit, count : 0 .. Limit,
                    page : Nat, offset : Offset, left : 0 .. Limit,
                    data : Seq(Byte)]
      /\ call'.op = call.op /\ call'.page = p + 1
  <2>1. p + 1 \in Nat
    BY DEF Page
  <2>2. call' = [call EXCEPT !.page = p + 1]
    BY <1>1
  <2>. QED
    BY <1>4, <2>1, <2>2
<1>10. TypeOK'
  <2>1. TypeOK
    BY DEF IInv
  <2>2. buffered' \in Page \cup {NoPage}
    BY <1>1, <2>1 DEF TypeOK
  <2>. QED
    BY <1>6, <1>7, <1>8, <1>9, <2>1, <2>2 DEF TypeOK
<1>11. OneEntryPerPage' /\ ListHoldsEntries' /\ MruEntryHeadsList'
  BY <1>7 DEF IInv, OneEntryPerPage, ListHoldsEntries, MruEntryHeadsList
<1>12. \A q \in Page : q # p => cache[q] # s
  BY <1>5 DEF IInv, OneEntryPerPage
<1>13. NothingLost'
  <2>. SUFFICES ASSUME NEW q \in Page, NEW o \in written[q]
                PROVE  \/ cache[q] # NoSlot /\ dirty'[cache[q]]
                       \/ /\ q * PageSize + o < validSize'
                          /\ cache[q] # NoSlot => buffer[cache[q]][o] = file'[q][o]
    BY <1>7 DEF NothingLost
  <2>1. CASE q = p
    BY <1>3, <1>8, <2>1
  <2>2. CASE q # p
    <3>1. cache[q] # NoSlot => cache[q] \in Slot /\ dirty'[cache[q]] = dirty[cache[q]]
      BY <1>4, <1>6, <1>12, <2>2
    <3>2. q * PageSize + o < validSize => q * PageSize + o < validSize'
      <4>1. q * PageSize + o \in Int /\ validSize \in Int /\ validSize' \in Int
        BY <1>4, <1>8, CacheAssumption DEF Page, Offset, Limit
      <4>. QED
        BY <1>8, <4>1
    <3>3. \/ cache[q] # NoSlot /\ dirty[cache[q]]
          \/ /\ q * PageSize + o < validSize
             /\ cache[q] # NoSlot => buffer[cache[q]][o] = file[q][o]
      BY DEF IInv, NothingLost
    <3>4. file'[q] = file[q]
      BY <1>8, <2>2
    <3>. QED
      BY <3>1, <3>2, <3>3, <3>4
  <2>. QED
    BY <2>1, <2>2
<1>14. ValidSizeIsFileSize'
  BY <1>8 DEF ValidSizeIsFileSize
<1>15. LoopInRange' /\ ClosedIsEmpty'
  BY <1>2, <1>7, <1>9 DEF IInv, LoopInRange, ClosedIsEmpty
<1>16. WrittenInSize'
  BY <1>2, <1>7 DEF IInv, WrittenInSize
<1>17. DirtyWasWritten'
  <2>1. \A t \in Slot : dirty'[t] => dirty[t]
    BY <1>6
  <2>. QED
    BY <1>7, <2>1 DEF IInv, DirtyWasWritten
<1>18. FlushedBehind'
  <2>. SUFFICES ASSUME NEW q \in Page, q < p + 1, cache[q] # NoSlot
                PROVE  ~ dirty'[cache[q]]
    BY <1>7, <1>9 DEF FlushedBehind
  <2>1. CASE q = p
    BY <1>3, <1>6, <2>1
  <2>2. CASE q # p
    <3>1. p \in Nat /\ q \in Nat /\ call.page \in Nat
      BY <1>4 DEF Page
    <3>2. ~ q >= call.page
      BY <1>1, <2>2, <3>1 DEF NextCached
    <3>3. ~ dirty[cache[q]]
      BY <1>2, <3>1, <3>2 DEF IInv, FlushedBehind
    <3>. QED
      BY <1>4, <1>6, <1>12, <2>2, <3>3
  <2>. QED
    BY <2>1, <2>2
<1>19. ContentsStable
  <2>. SUFFICES ASSUME NEW q \in Page, NEW o \in written[q]
                PROVE  Seen(q, o)' = Seen(q, o)
    BY DEF ContentsStable
  <2>1. CASE q = p
    <3>1. cache[q] # NoSlot
      BY <1>1, <2>1 DEF NextCached
    <3>. QED
      BY <1>7, <3>1 DEF Seen
  <2>2. CASE q # p
    BY <1>7, <1>8, <2>2 DEF Seen
  <2>. QED
    BY <2>1, <2>2
<1>. QED
  BY <1>10, <1>11, <1>13, <1>14, <1>15, <1>16, <1>17, <1>18, <1>19 DEF IInv

-----------------------------------------------------------------------------
(* The calls.                                                              *)

\* A step that touches neither the file nor the cache, and at most empties the
\* buffer of the stream.
Quiet ==
  /\ buffered' \in {buffered, NoPage}
  /\ UNCHANGED <<imageVars, tableVars, pageVars, written>>

\* A step that leaves the cache, the file and the sizes alone keeps what the
\* invariant says of them.
LEMMA QuietKeeps ==
  ASSUME IInv, Quiet
  PROVE  /\ OneEntryPerPage' /\ ListHoldsEntries' /\ MruEntryHeadsList'
         /\ NothingLost' /\ ValidSizeIsFileSize' /\ ContentsStable
<1>1. /\ file' = file /\ fileSize' = fileSize /\ validSize' = validSize
      /\ cache' = cache /\ mruList' = mruList /\ mruEntry' = mruEntry
      /\ validPageCount' = validPageCount /\ pageNumber' = pageNumber
      /\ buffer' = buffer /\ dirty' = dirty /\ written' = written
  BY DEF Quiet, imageVars, tableVars, pageVars
<1>2. OneEntryPerPage' /\ ListHoldsEntries' /\ MruEntryHeadsList'
  BY <1>1 DEF IInv, OneEntryPerPage, ListHoldsEntries, MruEntryHeadsList
<1>3. NothingLost' /\ ValidSizeIsFileSize'
  BY <1>1 DEF IInv, NothingLost, ValidSizeIsFileSize
<1>4. ContentsStable
  BY <1>1 DEF ContentsStable, Seen
<1>. QED
  BY <1>2, <1>3, <1>4

\* What a quiet step still has to show.
QuietRest ==
  /\ size' \in 0 .. Limit /\ extent' \in 0 .. Limit /\ position' \in 0 .. Limit
  /\ mode' = mode
  /\ call' \in CallType
  /\ result' \in Seq(Byte)
  /\ LoopInRange' /\ WrittenInSize' /\ FlushedBehind'
  /\ mode = "closed" => call'.op = "none"

\* A step that only changes the call in progress keeps the invariant.
LEMMA QuietStep ==
  ASSUME IInv, Quiet, QuietRest
  PROVE  IInv' /\ ContentsStable
<1>1. /\ file' = file /\ fileSize' = fileSize /\ validSize' = validSize
      /\ cache' = cache /\ mruList' = mruList /\ mruEntry' = mruEntry
      /\ validPageCount' = validPageCount /\ pageNumber' = pageNumber
      /\ buffer' = buffer /\ dirty' = dirty /\ written' = written
  BY DEF Quiet, imageVars, tableVars, pageVars
<1>2. TypeOK'
  <2>1. /\ TypeOK
        /\ size' \in 0 .. Limit /\ extent' \in 0 .. Limit /\ position' \in 0 .. Limit
        /\ mode' = mode
        /\ call' \in CallType
        /\ result' \in Seq(Byte)
    BY DEF IInv, QuietRest
  <2>2. buffered' \in Page \cup {NoPage}
    BY <2>1 DEF Quiet, TypeOK
  <2>. QED
    BY <1>1, <2>1, <2>2 DEF TypeOK, CallType
<1>3. DirtyWasWritten' /\ ClosedIsEmpty'
  BY <1>1 DEF QuietRest, IInv, DirtyWasWritten, ClosedIsEmpty
<1>. QED
  BY <1>2, <1>3, QuietKeeps DEF IInv, QuietRest
\* c is the loop of a request for n bytes at pos, not yet begun.
LoopStarted(c, op, pos, n, data) ==
  /\ c \in CallType
  /\ c.op = op /\ c.start = pos /\ c.count = n /\ c.left = n /\ c.data = data
  /\ c.page * PageSize + c.offset + n = pos + n

\* The state between calls has the type of a call.
LEMMA IdleType == Idle \in CallType /\ Idle.op = "none"
<1>1. 0 \in 0 .. Limit /\ 0 \in Offset
  BY CacheAssumption, SMT DEF Limit, Offset
<1>. QED
  BY <1>1 DEF Idle, Calls, CallType

\* The first turn of a loop is at the page and the offset of the position.
LEMMA LoopStarts ==
  ASSUME NEW op \in {"read", "write"}, NEW pos \in 0 .. Limit,
         NEW n \in 0 .. Limit, NEW data \in Seq(Byte)
  PROVE  LoopStarted(Loop(op, pos, n, data), op, pos, n, data)
<1>1. Limit \in Nat /\ PageSize \in Nat /\ PageSize > 0
  BY CacheAssumption, SMT DEF Limit
<1>2. pos \in Nat /\ n \in Nat
  BY <1>1
<1>3. pos \div PageSize \in Nat
      /\ pos - (pos \div PageSize) * PageSize \in Offset
  BY <1>2, PageOfPosition
<1>4. PICK page \in Nat, offset \in Offset :
        page = pos \div PageSize /\ offset = pos - page * PageSize
  BY <1>3
<1>5. Loop(op, pos, n, data) =
        [op |-> op, start |-> pos, count |-> n, page |-> page,
         offset |-> offset, left |-> n, data |-> data]
  BY <1>4 DEF Loop
<1>6. page * PageSize + offset + n = pos + n
  <2>1. page * PageSize \in Int /\ offset \in Int
    BY <1>1 DEF Offset
  <2>. QED
    BY <1>2, <1>4, <2>1
<1>7. op \in Calls
  BY DEF Calls
<1>. QED
  BY <1>5, <1>6, <1>7 DEF LoopStarted, CallType

\* The types of the variables a call changes.
LEMMA CallTypes ==
  ASSUME IInv
  PROVE  /\ size \in 0 .. Limit /\ extent \in 0 .. Limit /\ position \in 0 .. Limit
         /\ size \in Nat /\ extent \in Nat /\ position \in Nat /\ Limit \in Nat
         /\ call \in CallType
         /\ call.start \in Nat /\ call.count \in Nat /\ call.left \in Nat
         /\ result \in Seq(Byte) /\ <<>> \in Seq(Byte)
         /\ written \in [Page -> SUBSET Offset]
<1>1. Limit \in Nat
  BY CacheAssumption, SMT DEF Limit
<1>2. TypeOK
  BY DEF IInv
<1>3. /\ size \in 0 .. Limit /\ extent \in 0 .. Limit /\ position \in 0 .. Limit
      /\ result \in Seq(Byte) /\ written \in [Page -> SUBSET Offset]
  BY <1>2 DEF TypeOK
<1>4. call \in CallType
  BY <1>2 DEF TypeOK, CallType
<1>5. call.start \in Nat /\ call.count \in Nat /\ call.left \in Nat
  BY <1>1, <1>4 DEF CallType
<1>. QED
  BY <1>1, <1>3, <1>4, <1>5

\* Starting a read keeps the invariant (OMCachedRawStorage::readAt).
LEMMA ReadAtStep ==
  ASSUME IInv, NEW pos \in 0 .. Limit, NEW n \in Nat, ReadAt(pos, n)
  PROVE  IInv' /\ ContentsStable
<1>1. /\ call.op = "none" /\ mode # "closed"
      /\ IF pos < size
           THEN call' = Loop("read", pos, Smaller(n, size - pos), <<>>)
           ELSE UNCHANGED call
      /\ result' = <<>>
      /\ size' = size /\ extent' = extent /\ position' = position /\ mode' = mode
      /\ Quiet /\ written' = written
  BY DEF ReadAt, Ready, sizeVars, Quiet, fileVars
<1>2. pos \in Nat /\ (pos < size => Smaller(n, size - pos) \in 0 .. Limit
                                   /\ pos + Smaller(n, size - pos) <= size)
  BY CallTypes DEF Smaller
<1>3. /\ call' \in CallType
      /\ call'.op \in {"none", "read"}
      /\ LoopInRange'
  <2>1. CASE pos < size
    <3>1. PICK m \in 0 .. Limit : m = Smaller(n, size - pos) /\ pos + m <= size
      BY <1>2, <2>1
    <3>2. call' = Loop("read", pos, m, <<>>)
      BY <1>1, <2>1, <3>1
    <3>3. /\ call' \in CallType
          /\ call'.op = "read" /\ call'.start = pos /\ call'.count = m
          /\ call'.left = m
          /\ call'.page * PageSize + call'.offset + m = pos + m
      <4>1. LoopStarted(Loop("read", pos, m, <<>>), "read", pos, m, <<>>)
        BY LoopStarts, CallTypes
      <4>. QED
        BY <3>2, <4>1 DEF LoopStarted
    <3>4. m <= m
      BY CallTypes
    <3>. QED
      BY <1>1, <3>1, <3>3, <3>4 DEF LoopInRange
  <2>2. CASE ~ pos < size
    BY <1>1, <2>2, CallTypes DEF LoopInRange
  <2>. QED
    BY <2>1, <2>2
<1>4. WrittenInSize'
  BY <1>1 DEF IInv, WrittenInSize
<1>5. FlushedBehind'
  BY <1>3 DEF FlushedBehind
<1>6. QuietRest
  BY <1>1, <1>3, <1>4, <1>5, CallTypes DEF QuietRest
<1>. QED
  BY <1>1, <1>6, QuietStep

\* Returning from a read keeps it (OMCachedRawStorage::read).
LEMMA ReadReturnStep ==
  ASSUME IInv, ReadReturn
  PROVE  IInv' /\ ContentsStable
<1>1. /\ call.op = "read" /\ call.left = 0
      /\ position' = call.start + call.count
      /\ result' = call.data
      /\ call' = Idle
      /\ size' = size /\ extent' = extent /\ mode' = mode
      /\ Quiet /\ written' = written
  BY DEF ReadReturn, Quiet, fileVars
<1>2. position' \in 0 .. Limit
  <2>1. call.start + call.count <= size
    BY <1>1 DEF IInv, LoopInRange
  <2>. QED
    BY <1>1, <2>1, CallTypes
<1>3. call'.op = "none"
  BY <1>1, IdleType
<1>4. LoopInRange' /\ FlushedBehind'
  BY <1>3 DEF LoopInRange, FlushedBehind
<1>5. WrittenInSize'
  BY <1>1 DEF IInv, WrittenInSize
<1>6. result' \in Seq(Byte) /\ call' \in CallType
  BY <1>1, CallTypes, IdleType DEF CallType
<1>7. QuietRest
  BY <1>1, <1>2, <1>3, <1>4, <1>5, <1>6, CallTypes DEF QuietRest
<1>. QED
  BY <1>1, <1>7, QuietStep
\* The request is at most Limit bytes and its bytes are among Byte.
LEMMA WriteAtStep ==
  ASSUME IInv, NEW pos \in 0 .. Limit, NEW bytes \in Seq(Value), WriteAt(pos, bytes)
  PROVE  IInv' /\ ContentsStable
<1>1. /\ call.op = "none" /\ mode = "modify"
      /\ pos + Len(bytes) <= Limit
      /\ extent' = Larger(extent, pos + Len(bytes))
      /\ call' = Loop("write", pos, Len(bytes), bytes)
      /\ result' = <<>>
      /\ size' = size /\ position' = position /\ mode' = mode
      /\ Quiet /\ written' = written
  BY DEF WriteAt, Ready, isWritable, Quiet, fileVars
<1>2. PICK n \in 0 .. Limit : n = Len(bytes) /\ pos + n <= Limit
  <2>1. Len(bytes) \in Nat /\ pos \in Nat
    BY CallTypes
  <2>. QED
    BY <1>1, <2>1, CallTypes
<1>3. bytes \in Seq(Byte)
  <2>1. \A i \in 1 .. Len(bytes) : bytes[i] \in Byte
    BY DEF Byte
  <2>. QED
    BY <2>1
<1>4. LoopStarted(call', "write", pos, n, bytes)
  <2>1. LoopStarted(Loop("write", pos, n, bytes), "write", pos, n, bytes)
    BY <1>3, LoopStarts
  <2>. QED
    BY <1>1, <1>2, <2>1
<1>5. extent' \in 0 .. Limit /\ extent' >= extent /\ extent' >= pos + n
  BY <1>1, <1>2, CallTypes DEF Larger
<1>6. LoopInRange'
  <2>1. n <= n
    BY CallTypes
  <2>. QED
    BY <1>1, <1>2, <1>4, <1>5, <2>1 DEF LoopInRange, LoopStarted
<1>7. WrittenInSize'
  <2>1. size <= extent /\ \A p \in Page : \A o \in written[p] : p * PageSize + o < size
    BY <1>1 DEF IInv, WrittenInSize
  <2>2. size <= extent'
    BY <1>5, <2>1, CallTypes
  <2>. QED
    BY <1>1, <2>1, <2>2 DEF WrittenInSize
<1>8. FlushedBehind'
  BY <1>4 DEF FlushedBehind, LoopStarted
<1>9. QuietRest
  BY <1>1, <1>4, <1>5, <1>6, <1>7, <1>8, CallTypes DEF QuietRest, LoopStarted
<1>. QED
  BY <1>1, <1>9, QuietStep

\* Returning from a write keeps it: size and extent cover what was written
\* (OMCachedRawStorage::writeAt).
LEMMA WriteReturnStep ==
  ASSUME IInv, WriteReturn
  PROVE  IInv' /\ ContentsStable
<1>1. /\ call.op = "write" /\ call.left = 0
      /\ position' = call.start + call.count
      /\ size' = Larger(size, position')
      /\ call' = Idle
      /\ extent' = extent /\ mode' = mode /\ result' = result
      /\ Quiet /\ written' = written
  BY DEF WriteReturn, Quiet, fileVars
<1>2. call.start + call.count <= extent /\ size <= extent
  BY <1>1 DEF IInv, LoopInRange, WrittenInSize
<1>3. /\ position' \in 0 .. Limit /\ size' \in 0 .. Limit /\ size' <= extent
      /\ size' >= size /\ size' >= call.start + call.count
  BY <1>1, <1>2, CallTypes DEF Larger
<1>4. call' \in CallType /\ call'.op = "none"
  BY <1>1, IdleType
<1>5. WrittenInSize'
  <2>. SUFFICES ASSUME NEW p \in Page, NEW o \in written[p]
                PROVE  p * PageSize + o < size'
    BY <1>1, <1>3 DEF WrittenInSize
  <2>1. p * PageSize + o < size \/ p * PageSize + o < call.start + call.count
    BY DEF IInv, WrittenInSize
  <2>2. p * PageSize + o \in Int
    BY CallTypes, CacheAssumption DEF Page, Offset
  <2>. QED
    BY <1>3, <2>1, <2>2, CallTypes
<1>6. LoopInRange' /\ FlushedBehind'
  BY <1>4 DEF LoopInRange, FlushedBehind
<1>7. QuietRest
  BY <1>1, <1>3, <1>4, <1>5, <1>6, CallTypes DEF QuietRest
<1>. QED
  BY <1>1, <1>7, QuietStep

\* The size a client extends to is one extend was written for: see MayTruncate.
LEMMA ExtendStep ==
  ASSUME IInv, MayTruncate = FALSE, NEW newSize \in 0 .. Limit, Extend(newSize)
  PROVE  IInv' /\ ContentsStable
<1>1. /\ call.op = "none" /\ mode # "closed" /\ newSize >= size
      /\ extent' = newSize /\ result' = <<>>
      /\ size' = size /\ position' = position /\ mode' = mode /\ call' = call
      /\ Quiet /\ written' = written
  BY DEF Extend, Ready, Quiet, fileVars
<1>2. LoopInRange' /\ FlushedBehind'
  BY <1>1 DEF LoopInRange, FlushedBehind
<1>3. WrittenInSize'
  BY <1>1, CallTypes DEF IInv, WrittenInSize
<1>4. QuietRest
  BY <1>1, <1>2, <1>3, CallTypes DEF QuietRest
<1>. QED
  BY <1>1, <1>4, QuietStep

\* Moving the position keeps it (OMCachedRawStorage::setPosition).
LEMMA SetPositionStep ==
  ASSUME IInv, NEW pos \in 0 .. Limit, SetPosition(pos)
  PROVE  IInv' /\ ContentsStable
<1>1. /\ call.op = "none" /\ position' = pos /\ result' = <<>>
      /\ size' = size /\ extent' = extent /\ mode' = mode /\ call' = call
      /\ Quiet /\ written' = written
  BY DEF SetPosition, Ready, Quiet, fileVars
<1>2. LoopInRange' /\ FlushedBehind'
  BY <1>1 DEF LoopInRange, FlushedBehind
<1>3. WrittenInSize'
  BY <1>1 DEF IInv, WrittenInSize
<1>4. QuietRest
  BY <1>1, <1>2, <1>3, CallTypes DEF QuietRest
<1>. QED
  BY <1>1, <1>4, QuietStep
\* A flush begins before the first page, or past the last if there is nothing
\* to flush.
LEMMA SynchronizeStep ==
  ASSUME IInv, Synchronize
  PROVE  IInv' /\ ContentsStable
<1>1. /\ call.op = "none" /\ mode # "closed" /\ result' = <<>>
      /\ call' = IF isWritable THEN [Idle EXCEPT !.op = "flush"] ELSE call
      /\ size' = size /\ extent' = extent /\ position' = position /\ mode' = mode
      /\ Quiet /\ written' = written
  BY DEF Synchronize, Ready, Quiet, sizeVars, fileVars
<1>2. /\ call' \in CallType /\ call'.op \in {"none", "flush"}
      /\ call'.op = "flush" => call'.page = 0
  <2>1. [Idle EXCEPT !.op = "flush"] \in CallType
    BY IdleType DEF CallType, Calls
  <2>2. [Idle EXCEPT !.op = "flush"].op = "flush"
        /\ [Idle EXCEPT !.op = "flush"].page = 0
    BY DEF Idle
  <2>. QED
    BY <1>1, <2>1, <2>2, CallTypes
<1>3. LoopInRange'
  BY <1>2 DEF LoopInRange
<1>4. FlushedBehind'
  BY <1>2 DEF FlushedBehind, Page
<1>5. WrittenInSize'
  BY <1>1 DEF IInv, WrittenInSize
<1>6. QuietRest
  BY <1>1, <1>2, <1>3, <1>4, <1>5, CallTypes DEF QuietRest
<1>. QED
  BY <1>1, <1>6, QuietStep

\* Starting to synchronize or to delete the storage keeps it.
LEMMA CloseStep ==
  ASSUME IInv, Close
  PROVE  IInv' /\ ContentsStable
<1>1. /\ call.op = "none" /\ mode # "closed" /\ result' = <<>>
      /\ call' = [Idle EXCEPT !.op = "close",
                              !.page = IF isWritable THEN 0 ELSE PageLimit]
      /\ size' = size /\ extent' = extent /\ position' = position /\ mode' = mode
      /\ Quiet /\ written' = written
  BY DEF Close, Ready, Quiet, sizeVars, fileVars
<1>2. /\ call' \in CallType /\ call'.op = "close"
      /\ call'.page = IF isWritable THEN 0 ELSE PageLimit
  <2>1. (IF isWritable THEN 0 ELSE PageLimit) \in Nat
    BY CacheAssumption
  <2>. QED
    BY <1>1, <2>1, IdleType DEF CallType, Calls
<1>3. LoopInRange'
  BY <1>2 DEF LoopInRange
<1>4. FlushedBehind'
  <2>1. CASE isWritable
    BY <1>2, <2>1 DEF FlushedBehind, Page
  <2>2. CASE ~ isWritable
    <3>1. \A s \in Slot : ~ dirty[s]
      BY <2>2 DEF IInv, DirtyWasWritten, isWritable
    <3>2. cache \in [Page -> Slot \cup {NoSlot}] /\ cache' = cache /\ dirty' = dirty
      BY <1>1 DEF Quiet, tableVars, pageVars, IInv, TypeOK
    <3>. QED
      BY <3>1, <3>2 DEF FlushedBehind
  <2>. QED
    BY <2>1, <2>2
<1>5. WrittenInSize'
  BY <1>1 DEF IInv, WrittenInSize
<1>6. QuietRest
  BY <1>1, <1>2, <1>3, <1>4, <1>5, CallTypes DEF QuietRest
<1>. QED
  BY <1>1, <1>6, QuietStep

\* Returning from synchronize keeps it (OMCachedDiskRawStorage::synchronize).
LEMMA SynchronizeReturnStep ==
  ASSUME IInv, SynchronizeReturn
  PROVE  IInv' /\ ContentsStable
<1>1. /\ call.op = "flush" /\ call' = Idle /\ result' = result
      /\ size' = size /\ extent' = extent /\ position' = position /\ mode' = mode
      /\ Quiet /\ written' = written
  BY DEF SynchronizeReturn, Quiet, sizeVars
<1>2. call' \in CallType /\ call'.op = "none"
  BY <1>1, IdleType
<1>3. LoopInRange' /\ FlushedBehind'
  BY <1>2 DEF LoopInRange, FlushedBehind
<1>4. WrittenInSize'
  BY <1>1 DEF IInv, WrittenInSize
<1>5. QuietRest
  BY <1>1, <1>2, <1>3, <1>4, CallTypes DEF QuietRest
<1>. QED
  BY <1>1, <1>5, QuietStep

\* Every byte written is in the file as the stream reads it.
InFile ==
  \A p \in Page : \A o \in written[p] :
    p * PageSize + o < fileSize /\ file[p][o] = Seen(p, o)

\* Once every page has been passed, no entry is dirty and the file alone
\* holds every byte.
LEMMA FlushedIsInFile ==
  ASSUME IInv, call.op \in {"flush", "close"}, Flushed
  PROVE  /\ InFile
         /\ \A p \in Page : cache[p] # NoSlot => ~ dirty[cache[p]]
<1>1. cache \in [Page -> Slot \cup {NoSlot}] /\ call.page \in Nat
  BY DEF IInv, TypeOK
<1>2. \A p \in Page : cache[p] # NoSlot => ~ dirty[cache[p]]
  BY <1>1 DEF Flushed, IInv, FlushedBehind, Page
<1>3. InFile
  <2>. SUFFICES ASSUME NEW p \in Page, NEW o \in written[p]
                PROVE  p * PageSize + o < fileSize /\ file[p][o] = Seen(p, o)
    BY DEF InFile
  <2>1. /\ p * PageSize + o < validSize
        /\ cache[p] # NoSlot => buffer[cache[p]][o] = file[p][o]
    BY <1>2 DEF IInv, NothingLost
  <2>. QED
    BY <2>1 DEF Seen, IInv, ValidSizeIsFileSize
<1>. QED
  BY <1>2, <1>3

\* Deleting the storage keeps it (OMCachedDiskRawStorage's destructor).
LEMMA DeleteStep ==
  ASSUME IInv, Delete
  PROVE  IInv' /\ ContentsStable
<1>1. /\ call.op = "close" /\ Flushed
      /\ cache' = NoPages /\ mruList' = <<>> /\ mruEntry' = NoSlot
      /\ validPageCount' = 0 /\ pageNumber' = NoNumbers
      /\ buffer' = Uninitialised /\ dirty' = AllClean
      /\ mode' = "closed" /\ call' = Idle
      /\ file' = file /\ fileSize' = fileSize /\ validSize' = validSize
      /\ size' = size /\ extent' = extent /\ position' = position
      /\ result' = result /\ written' = written
  BY DEF Delete, imageVars
<1>2. InFile
  BY <1>1, FlushedIsInFile
<1>3. call' \in CallType /\ call'.op = "none"
  BY <1>1, IdleType
<1>4. TypeOK'
  <2>1. TypeOK
    BY DEF IInv
  <2>2. cache' \in [Page -> Slot \cup {NoSlot}] /\ mruList' \in Seq(Slot)
        /\ mruEntry' \in Slot \cup {NoSlot}
        /\ pageNumber' \in [Slot -> Page \cup {NoPage}]
        /\ dirty' \in [Slot -> BOOLEAN]
    BY <1>1 DEF NoPages, NoNumbers, AllClean
  <2>3. buffer' \in [Slot -> [Offset -> Byte]] /\ validPageCount' \in 0 .. PageCount
    BY <1>1, CacheAssumption DEF Uninitialised, Byte
  <2>4. buffered' \in Page \cup {NoPage}
    BY DEF Delete
  <2>. QED
    BY <1>1, <1>3, <2>1, <2>2, <2>3, <2>4 DEF TypeOK, CallType
<1>5. OneEntryPerPage' /\ ListHoldsEntries' /\ MruEntryHeadsList'
  BY <1>1, CacheAssumption
  DEF OneEntryPerPage, ListHoldsEntries, MruEntryHeadsList, NoPages, NoNumbers,
      Slot, NoSlot, Page, NoPage
<1>6. NothingLost' /\ ValidSizeIsFileSize'
  BY <1>1, <1>2 DEF NothingLost, ValidSizeIsFileSize, NoPages, InFile, IInv
<1>7. LoopInRange' /\ FlushedBehind' /\ ClosedIsEmpty'
  BY <1>1, <1>3 DEF LoopInRange, FlushedBehind, ClosedIsEmpty
<1>8. WrittenInSize'
  BY <1>1 DEF IInv, WrittenInSize
<1>9. DirtyWasWritten'
  BY <1>1 DEF DirtyWasWritten, AllClean
<1>10. ContentsStable
  BY <1>1, <1>2 DEF ContentsStable, Seen, NoPages, InFile
<1>. QED
  BY <1>4, <1>5, <1>6, <1>7, <1>8, <1>9, <1>10 DEF IInv

\* A closed storage has no dirty page, so the bytes written are in the file
\* whose size Open takes.
LEMMA OpenStep ==
  ASSUME IInv, NEW m \in {"readOnly", "modify"}, Open(m)
  PROVE  IInv' /\ ContentsStable
<1>1. /\ mode = "closed" /\ mode' = m
      /\ validSize' = fileSize /\ size' = fileSize /\ extent' = fileSize
      /\ position' = 0 /\ result' = <<>>
      /\ file' = file /\ fileSize' = fileSize /\ buffered' = buffered
      /\ cache' = cache /\ mruList' = mruList /\ mruEntry' = mruEntry
      /\ validPageCount' = validPageCount /\ pageNumber' = pageNumber
      /\ buffer' = buffer /\ dirty' = dirty /\ call' = call /\ written' = written
  BY DEF Open, tableVars, pageVars
<1>2. call.op = "none" /\ validSize = fileSize /\ \A s \in Slot : ~ dirty[s]
  BY <1>1 DEF IInv, ClosedIsEmpty, DirtyWasWritten, ValidSizeIsFileSize
<1>3. TypeOK'
  <2>1. TypeOK
    BY DEF IInv
  <2>2. position' \in 0 .. Limit
    BY <1>1, CallTypes
  <2>3. result' \in Seq(Byte)
    BY <1>1, CallTypes
  <2>. QED
    BY <1>1, <2>1, <2>2, <2>3 DEF TypeOK
<1>4. OneEntryPerPage' /\ ListHoldsEntries' /\ MruEntryHeadsList'
  BY <1>1 DEF IInv, OneEntryPerPage, ListHoldsEntries, MruEntryHeadsList
<1>5. NothingLost' /\ ValidSizeIsFileSize'
  BY <1>1, <1>2 DEF IInv, NothingLost, ValidSizeIsFileSize
<1>6. LoopInRange' /\ FlushedBehind' /\ ClosedIsEmpty'
  BY <1>1, <1>2 DEF LoopInRange, FlushedBehind, ClosedIsEmpty
<1>7. WrittenInSize'
  <2>1. fileSize <= fileSize
    BY CallTypes DEF IInv, TypeOK
  <2>2. \A p \in Page : \A o \in written[p] : p * PageSize + o < fileSize
    <3>1. cache \in [Page -> Slot \cup {NoSlot}]
      BY DEF IInv, TypeOK
    <3>. QED
      BY <1>2, <3>1 DEF IInv, NothingLost
  <2>. QED
    BY <1>1, <2>1, <2>2 DEF WrittenInSize
<1>8. DirtyWasWritten'
  BY <1>1, <1>2 DEF DirtyWasWritten
<1>9. ContentsStable
  BY <1>1 DEF ContentsStable, Seen
<1>. QED
  BY <1>3, <1>4, <1>5, <1>6, <1>7, <1>8, <1>9 DEF IInv
-----------------------------------------------------------------------------
(* The invariant.                                                          *)

\* A storage that has just been opened satisfies the invariant.
LEMMA InitEstablishes ==
  ASSUME Init
  PROVE  IInv
<1>1. Limit \in Nat /\ PageSize \in Nat /\ PageSize > 0 /\ 0 \in Offset
      /\ 0 \in 0 .. Limit
  BY CacheAssumption, SMT DEF Limit, Offset
<1>2. fileSize \in 0 .. Limit /\ validSize = fileSize /\ size = fileSize
      /\ extent = fileSize /\ position = 0
  BY CacheAssumption DEF Init
<1>3. mode = "closed" /\ mruList = <<>> /\ mruEntry = NoSlot /\ validPageCount = 0
      /\ call = Idle /\ result = <<>>
  BY DEF Init
<1>4. cache = NoPages /\ pageNumber = NoNumbers /\ buffer = Uninitialised
      /\ dirty = AllClean
  BY DEF Init
<1>5. written = [p \in Page |-> {o \in Offset : p * PageSize + o < fileSize}]
  BY DEF Init
<1>6. TypeOK
  <2>1. file \in [Page -> [Offset -> Byte]]
    <3>1. file \in [Page -> [Offset -> Original \cup {Zero}]]
      BY DEF Init
    <3>2. Original \cup {Zero} \subseteq Byte
      BY CacheAssumption DEF Byte
    <3>. QED
      BY <3>1, <3>2
  <2>2. /\ cache \in [Page -> Slot \cup {NoSlot}]
        /\ pageNumber \in [Slot -> Page \cup {NoPage}]
        /\ dirty \in [Slot -> BOOLEAN]
        /\ buffered \in Page \cup {NoPage}
    BY <1>4 DEF NoPages, NoNumbers, AllClean, Init
  <2>3. buffer \in [Slot -> [Offset -> Byte]]
    BY <1>4 DEF Uninitialised, Byte
  <2>4. written \in [Page -> SUBSET Offset]
    BY <1>5
  <2>5. call \in CallType /\ mruList \in Seq(Slot) /\ result \in Seq(Byte)
        /\ validPageCount \in 0 .. PageCount
    BY <1>3, IdleType, CacheAssumption
  <2>. QED
    BY <1>1, <1>2, <1>3, <2>1, <2>2, <2>3, <2>4, <2>5 DEF TypeOK, CallType
<1>7. OneEntryPerPage /\ ListHoldsEntries /\ MruEntryHeadsList
  BY <1>3, <1>4, CacheAssumption
  DEF OneEntryPerPage, ListHoldsEntries, MruEntryHeadsList, NoPages, NoNumbers,
      Slot, NoSlot, Page, NoPage
<1>8. NothingLost /\ ValidSizeIsFileSize
  BY <1>2, <1>4, <1>5 DEF NothingLost, ValidSizeIsFileSize, NoPages
<1>9. LoopInRange /\ FlushedBehind /\ ClosedIsEmpty
  BY <1>3, IdleType DEF LoopInRange, FlushedBehind, ClosedIsEmpty
<1>10. WrittenInSize
  <2>1. size <= extent
    BY <1>1, <1>2
  <2>. QED
    BY <1>2, <1>5, <2>1 DEF WrittenInSize
<1>11. DirtyWasWritten
  BY <1>4 DEF DirtyWasWritten, AllClean
<1>. QED
  BY <1>6, <1>7, <1>8, <1>9, <1>10, <1>11 DEF IInv

\* Every step inside a call keeps the invariant and the bytes a client sees.
LEMMA PieceStep ==
  ASSUME IInv, Piece
  PROVE  IInv' /\ ContentsStable
BY ReadCachedPageStep, WriteCachedPageStep, FlushPageStep DEF Piece

\* So does every return from a call.
LEMMA ReturnStep ==
  ASSUME IInv, Return
  PROVE  IInv' /\ ContentsStable
BY ReadReturnStep, WriteReturnStep, SynchronizeReturnStep, DeleteStep DEF Return

\* So does every request.
LEMMA RequestStep ==
  ASSUME IInv, MayTruncate = FALSE, Request
  PROVE  IInv' /\ ContentsStable
<1>1. Positions \cup {position} \subseteq 0 .. Limit
  BY CallTypes, CacheAssumption
<1>2. CASE \E pos \in Positions \cup {position}, n \in Counts : ReadAt(pos, n)
  BY <1>1, <1>2, ReadAtStep, CacheAssumption
<1>3. CASE \E pos \in Positions \cup {position}, bytes \in Payloads : WriteAt(pos, bytes)
  BY <1>1, <1>3, WriteAtStep, CacheAssumption
<1>4. CASE \E newSize \in Sizes : Extend(newSize)
  BY <1>4, ExtendStep, CacheAssumption
<1>5. CASE \E pos \in Positions : SetPosition(pos)
  BY <1>5, SetPositionStep, CacheAssumption
<1>6. CASE Synchronize
  BY <1>6, SynchronizeStep
<1>7. CASE Close
  BY <1>7, CloseStep
<1>8. CASE \E m \in {"readOnly", "modify"} : Open(m)
  BY <1>8, OpenStep
<1>. QED
  BY <1>2, <1>3, <1>4, <1>5, <1>6, <1>7, <1>8 DEF Request

\* So does a step that changes nothing, or only empties the stream's buffer.
LEMMA StutterStep ==
  ASSUME IInv, Drain \/ UNCHANGED vars
  PROVE  IInv' /\ ContentsStable
<1>1. Quiet /\ UNCHANGED sizeVars /\ call' = call /\ result' = result
  BY DEF Drain, vars, Quiet, fileVars
<1>2. size' = size /\ extent' = extent /\ position' = position /\ mode' = mode
      /\ cache' = cache /\ dirty' = dirty /\ written' = written
  BY <1>1 DEF sizeVars, Quiet, tableVars, pageVars
<1>3. LoopInRange' /\ WrittenInSize' /\ FlushedBehind'
  BY <1>1, <1>2 DEF IInv, LoopInRange, WrittenInSize, FlushedBehind
<1>4. QuietRest
  BY <1>1, <1>2, <1>3, CallTypes DEF QuietRest, IInv, ClosedIsEmpty
<1>. QED
  BY <1>1, <1>4, QuietStep

\* As long as no client extends a storage to less than its size, every step
\* preserves the inductive invariant, and with it every invariant of the
\* module.
THEOREM Invariance ==
  ASSUME MayTruncate = FALSE
  PROVE  Spec => []IInv
<1>1. Init => IInv
  BY InitEstablishes
<1>2. IInv /\ [Next]_vars => IInv'
  BY PieceStep, ReturnStep, RequestStep, StutterStep DEF Next
<1>. QED
  BY <1>1, <1>2, PTL DEF Spec

\* The variables keep their types: in particular the loop never leaves the
\* file, and the list, the table and the entries only hold real entries.
THEOREM TypeCorrect ==
  ASSUME MayTruncate = FALSE
  PROVE  Spec => []TypeOK
<1>1. IInv => TypeOK
  BY DEF IInv
<1>. QED
  BY <1>1, Invariance, PTL

\* The table, the page numbers kept in the entries, the list and the short cut
\* through _mruEntry agree for ever.
THEOREM CacheIsConsistent ==
  ASSUME MayTruncate = FALSE
  PROVE  Spec => []CacheConsistent
<1>1. IInv => CacheConsistent
  BY DEF IInv, CacheConsistent
<1>. QED
  BY <1>1, Invariance, PTL

\* No eviction ever loses a byte that was written.
THEOREM NeverLost ==
  ASSUME MayTruncate = FALSE
  PROVE  Spec => []NothingLost
<1>1. IInv => NothingLost
  BY DEF IInv
<1>. QED
  BY <1>1, Invariance, PTL

\* Without truncation the assertion "Valid write size" of writePage never
\* fails, and "All bytes read" of rawReadAt never does.
THEOREM AssertionsHold ==
  ASSUME MayTruncate = FALSE
  PROVE  Spec => [](ValidWriteSize /\ ValidSizeIsFileSize)
<1>1. IInv => ValidWriteSize /\ ValidSizeIsFileSize
  BY DirtyInExtent DEF IInv
<1>. QED
  BY <1>1, Invariance, PTL

\* No read, eviction, flush, close or reopening changes a byte that was
\* written; only the write that is in progress does, and only in its piece.
THEOREM EvictionsAreInvisible ==
  ASSUME MayTruncate = FALSE
  PROVE  Spec => EvictionInvisible
<1>1. IInv /\ [Next]_vars => ContentsStable
  BY PieceStep, ReturnStep, RequestStep, StutterStep DEF Next
<1>. QED
  BY <1>1, Invariance, PTL DEF Spec, EvictionInvisible

\* When synchronize or the deletion of the storage returns, every byte written
\* is in the file and no longer in the buffer of the stream.
THEOREM SynchronizeIsDurable ==
  ASSUME MayTruncate = FALSE
  PROVE  Spec => SynchronizeMakesDurable
<1>1. ASSUME IInv, SynchronizeReturn \/ Delete
      PROVE  MadeDurable
  <2>1. /\ call.op \in {"flush", "close"} /\ Flushed
        /\ buffered' = NoPage /\ file' = file /\ fileSize' = fileSize
    BY <1>1 DEF SynchronizeReturn, Delete, imageVars
  <2>2. InFile
    BY <1>1, <2>1, FlushedIsInFile
  <2>3. \A p \in Page : p # NoPage
    BY DEF Page, NoPage
  <2>. QED
    BY <2>1, <2>2, <2>3 DEF MadeDurable, InFile
<1>. QED
  BY <1>1, Invariance, PTL DEF Spec, SynchronizeMakesDurable
-----------------------------------------------------------------------------
(* The refinement of the flat storage.  An address is a page and an offset *)
(* in it; the operators keep the products away from the provers.           *)

Addr(p, o) == p * PageSize + o
PageOf(i) == i \div PageSize
OffsetOf(i) == i % PageSize

\* Has the byte at address i been written, and what would a client read there?
IsWritten(i) == OffsetOf(i) \in written[PageOf(i)]
SeenAt(i) == Seen(PageOf(i), OffsetOf(i))

\* The first address the request in progress has not come to yet.
Done == call.start + call.count - call.left

\* The last byte of the storage was written, or is in the file.
SizeIsReached == size > fileSize => IsWritten(size - 1)

\* What the loop of a write has passed is written.
WriteProgress ==
  call.op = "write" =>
    /\ call.count > 0
    /\ \A i \in call.start .. Done - 1 : IsWritten(i)

\* What the loop of a read has delivered is what a client would read there now,
\* and the request is one that a client made.
ReadProgress ==
  call.op = "read" =>
    /\ call.start < size
    /\ call.start \in Positions \cup {position}
    /\ \E n \in Counts : call.count = Smaller(n, size - call.start)
    /\ Len(call.data) = call.count - call.left
    /\ \A i \in call.start .. Done - 1 :
         IsWritten(i) => call.data[i - call.start + 1] = SeenAt(i)

Progress == SizeIsReached /\ WriteProgress /\ ReadProgress

\* Every address is that of its page and its offset.
LEMMA AddressSplits ==
  ASSUME NEW i \in Nat
  PROVE  /\ PageOf(i) \in Nat /\ OffsetOf(i) \in Offset
         /\ i = Addr(PageOf(i), OffsetOf(i))
         /\ i < Limit => PageOf(i) \in Page
<1>1. PageSize \in Nat /\ PageSize > 0 /\ PageLimit \in Nat
  BY CacheAssumption
<1>2. PageOf(i) \in Nat /\ OffsetOf(i) \in Offset
  BY <1>1, SMT DEF PageOf, OffsetOf, Offset
<1>3. i = PageOf(i) * PageSize + OffsetOf(i)
  BY <1>1, SMT DEF PageOf, OffsetOf
<1>4. i < Limit => PageOf(i) < PageLimit
  <2>. SUFFICES ASSUME i < Limit
                PROVE  PageOf(i) < PageLimit
    OBVIOUS
  <2>1. OffsetOf(i) >= 0 /\ OffsetOf(i) \in Int
    BY <1>1, <1>2 DEF Offset
  <2>2. PageOf(i) * PageSize \in Int
    BY <1>1, <1>2
  <2>3. PageOf(i) * PageSize <= i
    BY <1>3, <2>1, <2>2
  <2>4. PageOf(i) * PageSize < PageLimit * PageSize
    <3>1. Limit = PageLimit * PageSize /\ Limit \in Int
      BY <1>1 DEF Limit
    <3>. QED
      BY <2>2, <2>3, <3>1
  <2>. QED
    BY <1>1, <1>2, <2>4, PageOrder
<1>. QED
  BY <1>1, <1>2, <1>3, <1>4 DEF Addr, Page

\* No two pages and offsets have the same address.
LEMMA AddressJoins ==
  ASSUME NEW p \in Nat, NEW o \in Offset
  PROVE  /\ Addr(p, o) \in Nat
         /\ PageOf(Addr(p, o)) = p
         /\ OffsetOf(Addr(p, o)) = o
<1>1. PageSize \in Nat /\ PageSize > 0
  BY CacheAssumption
<1>2. o \in Nat /\ o < PageSize
  BY <1>1 DEF Offset
<1>3. p * PageSize \in Nat
  BY <1>1
<1>4. (p * PageSize + o) \div PageSize = p
  BY <1>1, <1>2, SMTT(30)
<1>5. (p * PageSize + o) % PageSize = o
  BY <1>1, <1>2, <1>4, SMTT(30)
<1>. QED
  BY <1>2, <1>3, <1>4, <1>5 DEF Addr, PageOf, OffsetOf

\* Some addresses on from an address of the page, still on the page.
LEMMA AddressMoves ==
  ASSUME NEW p \in Nat, NEW o \in Offset, NEW d \in Int, o + d \in Offset
  PROVE  Addr(p, o) + d = Addr(p, o + d)
<1>1. PageSize \in Nat /\ o \in Int /\ p * PageSize \in Int
  BY CacheAssumption DEF Offset
<1>. QED
  BY <1>1 DEF Addr

\* Content, in terms of addresses.
LEMMA ContentIs ==
  /\ Content = [i \in 0 .. Limit - 1 |->
       IF Pending(i) THEN call.data[i - Done + 1]
                     ELSE IF IsWritten(i) THEN SeenAt(i) ELSE Undef]
  /\ \A i : Pending(i) <=> call.op = "write" /\ Done <= i /\ i < call.start + call.count
BY DEF Content, Done, IsWritten, SeenAt, OffsetOf, PageOf, Pending, Writing

\* The same after a step.
LEMMA ContentIsNext ==
  /\ Content' = [i \in 0 .. Limit - 1 |->
       IF Pending(i)' THEN call'.data[i - Done' + 1]
                      ELSE IF IsWritten(i)' THEN SeenAt(i)' ELSE Undef]
  /\ \A i : Pending(i)' <=> call'.op = "write" /\ Done' <= i /\ i < call'.start + call'.count
BY DEF Content, Done, IsWritten, SeenAt, OffsetOf, PageOf, Pending, Writing

\* A step that keeps the bytes written keeps the content of the flat storage,
\* when no write is in progress before it or after it.
LEMMA BytesStay ==
  ASSUME IInv, ContentsStable, written' = written, call.op # "write",
         NEW i \in 0 .. Limit - 1
  PROVE  /\ IsWritten(i)' <=> IsWritten(i)
         /\ IsWritten(i) => SeenAt(i)' = SeenAt(i)
<1>1. i \in Nat /\ i < Limit
  BY CallTypes
<1>2. PageOf(i) \in Page
  BY <1>1, AddressSplits
<1>3. IsWritten(i)' <=> IsWritten(i)
  BY DEF IsWritten
<1>4. ASSUME IsWritten(i)
      PROVE  SeenAt(i)' = SeenAt(i)
  BY <1>2, <1>4 DEF IsWritten, SeenAt, ContentsStable
<1>. QED
  BY <1>3, <1>4

\* So the content itself stays.
LEMMA ContentStays ==
  ASSUME IInv, ContentsStable, written' = written, call.op # "write", call'.op # "write"
  PROVE  Content' = Content
<1>1. ASSUME NEW i \in 0 .. Limit - 1
      PROVE  (IF IsWritten(i)' THEN SeenAt(i)' ELSE Undef)
               = (IF IsWritten(i) THEN SeenAt(i) ELSE Undef)
  BY BytesStay
<1>2. Content = [i \in 0 .. Limit - 1 |-> IF IsWritten(i) THEN SeenAt(i) ELSE Undef]
  BY ContentIs
<1>3. Content' = [i \in 0 .. Limit - 1 |-> IF IsWritten(i)' THEN SeenAt(i)' ELSE Undef]
  BY ContentIsNext
<1>. QED
  BY <1>1, <1>2, <1>3

\* The file never shrinks.
LEMMA WritePageGrows ==
  ASSUME IInv, NEW p \in Page, NEW b, WritePage(p, b)
  PROVE  fileSize' >= fileSize
<1>1. PageSize \in Nat /\ p * PageSize \in Int /\ Limit \in Nat
  BY CacheAssumption, SMT DEF Page, Limit
<1>2. fileSize \in Int /\ extent \in Int
  BY <1>1 DEF IInv, TypeOK
<1>3. PICK w : w = Portion(p, extent, PageSize)
  OBVIOUS
<1>4. w \in Int
  BY <1>1, <1>2, <1>3 DEF Portion
<1>5. fileSize' = Larger(fileSize, p * PageSize + w)
  BY <1>3 DEF WritePage
<1>. QED
  BY <1>1, <1>2, <1>4, <1>5 DEF Larger

\* Finding the entry of a page never shrinks the file.
LEMMA CacheEntryGrows ==
  ASSUME IInv, NEW p \in Page, NEW s \in Slot, CacheEntry(p, s)
  PROVE  fileSize' >= fileSize
<1>1. Limit \in Nat /\ fileSize \in Int
  BY CallTypes DEF IInv, TypeOK
<1>2. CASE UNCHANGED imageVars
  BY <1>1, <1>2 DEF imageVars
<1>3. CASE ReplaceEntry(p, s) /\ dirty[s]
  <2>1. WritePage(pageNumber[s], buffer[s])
    BY <1>3 DEF ReplaceEntry, WriteDirty
  <2>2. pageNumber[s] \in Page
    BY <1>3 DEF IInv, TypeOK, DirtyWasWritten
  <2>. QED
    BY <2>1, <2>2, WritePageGrows
<1>. QED
  BY <1>2, <1>3
  DEF CacheEntry, MruEntry, FindEntry, AllocateEntry, NewEntry, ReplaceEntry,
      WriteDirty, fileVars

\* As long as the storage keeps its size, its last byte stays reached.
LEMMA SizeStaysReached ==
  ASSUME IInv, SizeIsReached, size' = size, fileSize' \in Int, fileSize' >= fileSize,
         \A i \in 0 .. Limit - 1 : IsWritten(i) => IsWritten(i)'
  PROVE  SizeIsReached'
<1>1. fileSize \in Int /\ size \in 0 .. Limit /\ size \in Nat /\ Limit \in Nat
  BY CallTypes DEF IInv, TypeOK
<1>2. CASE size > fileSize'
  <2>1. size > fileSize
    BY <1>1, <1>2
  <2>2. PICK i : i = size - 1
    OBVIOUS
  <2>3. fileSize \in Nat
    BY <1>1 DEF IInv, TypeOK
  <2>4. i \in 0 .. Limit - 1
    BY <1>1, <2>1, <2>2, <2>3
  <2>5. IsWritten(i)'
    BY <2>1, <2>2, <2>4 DEF SizeIsReached
  <2>6. size' - 1 = i
    BY <2>2
  <2>. QED
    BY <2>5, <2>6 DEF SizeIsReached, IsWritten
<1>. QED
  BY <1>2 DEF SizeIsReached

\* Where the piece of a loop's next turn lies.
LEMMA PieceAddresses ==
  ASSUME IInv, call.op \in {"read", "write"}, call.left > 0
  PROVE  /\ call.page \in Page /\ call.offset \in Offset
         /\ PieceSize \in Nat /\ PieceSize > 0 /\ PieceSize <= call.left
         /\ Done \in Nat /\ call.start <= Done
         /\ Done + PieceSize <= call.start + call.count
         /\ call.start + call.count <= Limit
         /\ \A i \in Done .. Done + PieceSize - 1 :
              /\ PageOf(i) = call.page
              /\ OffsetOf(i) = call.offset + (i - Done)
              /\ call.offset + (i - Done) \in Offset
<1>1. /\ PieceSize \in Nat /\ PieceSize > 0 /\ PieceSize <= call.left
      /\ call.offset + PieceSize <= PageSize
      /\ call.page \in Page
  BY PieceInPage
<1>2. /\ call.start \in Nat /\ call.count \in Nat /\ call.left \in Nat
      /\ size \in Nat /\ extent \in Nat /\ size <= Limit /\ extent <= Limit
      /\ Limit \in Nat
  BY CallTypes
<1>3. call.offset \in Offset
  BY CallTypes DEF CallType
<1>4. /\ call.left <= call.count
      /\ call.page * PageSize + call.offset + call.left = call.start + call.count
      /\ call.start + call.count <= Limit
  BY <1>2 DEF IInv, LoopInRange
<1>5. /\ PageSize \in Nat /\ call.offset \in Nat /\ call.page \in Nat
      /\ call.page * PageSize \in Nat
  BY <1>1, <1>3, CacheAssumption DEF Page, Offset
<1>6. Done = Addr(call.page, call.offset)
  BY <1>2, <1>4, <1>5 DEF Done, Addr
<1>7. /\ Done \in Nat /\ call.start <= Done
      /\ Done + PieceSize <= call.start + call.count
  BY <1>1, <1>2, <1>4 DEF Done
<1>8. ASSUME NEW i \in Done .. Done + PieceSize - 1
      PROVE  /\ PageOf(i) = call.page
             /\ OffsetOf(i) = call.offset + (i - Done)
             /\ call.offset + (i - Done) \in Offset
  <2>1. PICK d \in Int : d = i - Done
    BY <1>7
  <2>2. i = Done + d /\ 0 <= d /\ d < PieceSize
    BY <1>1, <1>7, <2>1
  <2>3. call.offset + d \in Offset
    BY <1>1, <1>5, <2>2 DEF Offset
  <2>4. i = Addr(call.page, call.offset + d)
    BY <1>3, <1>5, <1>6, <2>2, <2>3, AddressMoves
  <2>. QED
    BY <1>5, <2>1, <2>3, <2>4, AddressJoins
<1>. QED
  BY <1>1, <1>3, <1>4, <1>7, <1>8

\* What a request for which no loop runs has to show.
LEMMA NoLoop ==
  ASSUME call'.op \notin {"read", "write"}, SizeIsReached'
  PROVE  Progress'
BY DEF Progress, WriteProgress, ReadProgress

\* A turn of the loop of readCachedAt delivers the bytes of its page, and
\* changes nothing a client could tell.
LEMMA ReadTurn ==
  ASSUME IInv, Progress, ReadCachedPage
  PROVE  Progress' /\ UNCHANGED Storage!vars
<1>1. /\ call.op = "read" /\ call.left > 0
      /\ UNCHANGED <<sizeVars, result, written>>
  BY DEF ReadCachedPage
<1>2. /\ call.page \in Page /\ call.offset \in Offset
      /\ PieceSize \in Nat /\ PieceSize > 0 /\ PieceSize <= call.left
      /\ Done \in Nat /\ call.start <= Done
      /\ Done + PieceSize <= call.start + call.count
      /\ call.start + call.count <= Limit
      /\ \A i \in Done .. Done + PieceSize - 1 :
           /\ PageOf(i) = call.page
           /\ OffsetOf(i) = call.offset + (i - Done)
           /\ call.offset + (i - Done) \in Offset
  BY <1>1, PieceAddresses
<1>3. PICK p \in Page : p = call.page
  BY <1>2
<1>4. PICK s \in Slot :
        /\ CacheEntry(p, s)
        /\ Advance(call.data \o
             [k \in 1 .. PieceSize |-> Fetched(p, s)[call.offset + k - 1]])
  BY <1>3 DEF ReadCachedPage
<1>5. BytesKept(p, s)
  BY <1>4, CacheEntryKeepsBytes
<1>6. PICK piece : piece = [k \in 1 .. PieceSize |-> Fetched(p, s)[call.offset + k - 1]]
  OBVIOUS
<1>7. piece \in Seq(Byte) /\ Len(piece) = PieceSize
  <2>1. ASSUME NEW k \in 1 .. PieceSize
        PROVE  call.offset + k - 1 \in Offset
    <3>1. Done + (k - 1) \in Done .. Done + PieceSize - 1
      BY <1>2
    <3>2. call.offset + ((Done + (k - 1)) - Done) \in Offset
      BY <1>2, <3>1
    <3>3. call.offset \in Int
      BY <1>2, CacheAssumption DEF Offset
    <3>. QED
      BY <1>2, <3>2, <3>3
  <2>2. \A k \in 1 .. PieceSize : piece[k] \in Byte
    BY <1>5, <1>6, <2>1 DEF BytesKept
  <2>. QED
    BY <1>2, <1>6, <2>2
<1>8. /\ call.data \in Seq(Byte) /\ Len(call.data) = call.count - call.left
      /\ call.start \in Nat /\ call.count \in Nat /\ call.left \in Nat
      /\ size \in Nat /\ Limit \in Nat
  BY <1>1, CallTypes DEF CallType, Progress, ReadProgress
<1>9. PICK got : got = call.data \o piece
  OBVIOUS
<1>10. /\ got \in Seq(Byte) /\ Len(got) = Len(call.data) + PieceSize
       /\ \A k \in 1 .. Len(call.data) : got[k] = call.data[k]
       /\ \A k \in 1 .. PieceSize : got[Len(call.data) + k] = piece[k]
  <2>1. /\ got \in Seq(Byte) /\ Len(got) = Len(call.data) + Len(piece)
        /\ \A k \in 1 .. Len(call.data) : got[k] = call.data[k]
        /\ \A k \in 1 .. Len(piece) : got[Len(call.data) + k] = piece[k]
    <3>1. PICK data \in Seq(Byte) : data = call.data
      BY <1>8
    <3>2. PICK pc \in Seq(Byte) : pc = piece
      BY <1>7
    <3>3. /\ data \o pc \in Seq(Byte)
          /\ Len(data \o pc) = Len(data) + Len(pc)
          /\ \A k \in 1 .. Len(data) : (data \o pc)[k] = data[k]
          /\ \A k \in 1 .. Len(pc) : (data \o pc)[Len(data) + k] = pc[k]
      OBVIOUS
    <3>4. got = data \o pc
      BY <1>9, <3>1, <3>2
    <3>. QED
      BY <3>1, <3>2, <3>3, <3>4, Zenon
  <2>. QED
    BY <1>7, <2>1
<1>11. /\ call'.op = "read" /\ call'.start = call.start /\ call'.count = call.count
       /\ call'.data = got /\ call'.left = call.left - PieceSize
  <2>1. Advance(got)
    BY <1>4, <1>6, <1>9
  <2>. QED
    BY <1>1, <1>10, <2>1, AdvanceKeepsLoop
<1>12. Done' = Done + PieceSize
  BY <1>2, <1>8, <1>11 DEF Done
<1>13. /\ written' = written /\ size' = size /\ position' = position
       /\ extent' = extent /\ result' = result
  BY <1>1 DEF sizeVars
<1>14. IInv' /\ ContentsStable
  BY ReadCachedPageStep
<1>15. \A i \in 0 .. Limit - 1 : /\ IsWritten(i)' <=> IsWritten(i)
                                 /\ IsWritten(i) => SeenAt(i)' = SeenAt(i)
  BY <1>1, <1>13, <1>14, BytesStay
<1>16. ASSUME NEW i \in call.start .. Done + PieceSize - 1, IsWritten(i)
       PROVE  got[i - call.start + 1] = SeenAt(i)
  <2>1. CASE i < Done
    <3>1. i \in call.start .. Done - 1
      BY <1>2, <1>8, <2>1
    <3>2. i - call.start + 1 \in 1 .. Len(call.data)
      BY <1>8, <3>1 DEF Done
    <3>3. call.data[i - call.start + 1] = SeenAt(i)
      BY <1>1, <1>16, <3>1 DEF Progress, ReadProgress
    <3>. QED
      BY <1>10, <3>2, <3>3
  <2>2. CASE ~ i < Done
    <3>1. i \in Done .. Done + PieceSize - 1
      BY <1>2, <1>8, <2>2
    <3>2. PICK k : k = i - Done + 1
      OBVIOUS
    <3>3. k \in 1 .. PieceSize /\ i - call.start + 1 = Len(call.data) + k
      <4>1. PICK n \in Nat : n = Len(call.data)
        BY <1>8
      <4>2. Done = call.start + n
        BY <1>8, <4>1 DEF Done
      <4>3. k \in 1 .. PieceSize
        BY <1>2, <3>1, <3>2
      <4>4. i \in Int /\ Done \in Int /\ call.start \in Int
        BY <1>2, <1>8, <3>1
      <4>5. i - call.start + 1 = n + k
        <5>1. PICK st \in Int : st = call.start
          BY <4>4
        <5>2. PICK dn \in Int : dn = Done
          BY <4>4
        <5>3. dn = st + n
          BY <4>2, <5>1, <5>2
        <5>4. k = i - dn + 1
          BY <3>2, <5>2
        <5>5. i - st + 1 = n + k
          BY <4>1, <4>4, <5>3, <5>4
        <5>. QED
          BY <5>1, <5>5
      <4>. QED
        BY <4>1, <4>3, <4>5
    <3>4. got[i - call.start + 1] = Fetched(p, s)[call.offset + k - 1]
      BY <1>6, <1>10, <3>3
    <3>5. PageOf(i) = p /\ OffsetOf(i) = call.offset + k - 1
      <4>1. call.offset \in Int
        BY <1>2, CacheAssumption DEF Offset
      <4>2. OffsetOf(i) = call.offset + (i - Done) /\ PageOf(i) = p
        BY <1>2, <1>3, <3>1
      <4>. QED
        BY <1>2, <3>1, <3>2, <4>1, <4>2
    <3>6. Fetched(p, s)[OffsetOf(i)] = Seen(p, OffsetOf(i))
      BY <1>5, <1>16, <3>5 DEF BytesKept, IsWritten
    <3>. QED
      BY <3>4, <3>5, <3>6 DEF SeenAt
  <2>. QED
    BY <2>1, <2>2
<1>17. ReadProgress'
  <2>1. Len(got) = call'.count - call'.left
    BY <1>8, <1>10, <1>11, <1>2
  <2>2. ASSUME NEW i \in call'.start .. Done' - 1, IsWritten(i)'
        PROVE  call'.data[i - call'.start + 1] = SeenAt(i)'
    <3>1. i \in call.start .. Done + PieceSize - 1 /\ i \in 0 .. Limit - 1
      BY <1>2, <1>8, <1>11, <1>12
    <3>2. IsWritten(i) /\ SeenAt(i)' = SeenAt(i)
      BY <1>15, <2>2, <3>1
    <3>. QED
      BY <1>11, <1>16, <3>1, <3>2
  <2>3. /\ call'.start < size' /\ call'.start \in Positions \cup {position'}
        /\ \E n \in Counts : call'.count = Smaller(n, size' - call'.start)
    BY <1>1, <1>11, <1>13 DEF Progress, ReadProgress
  <2>. QED
    BY <1>11, <2>1, <2>2, <2>3 DEF ReadProgress
<1>18. WriteProgress'
  BY <1>11 DEF WriteProgress
<1>19. SizeIsReached'
  <2>1. fileSize' >= fileSize
    BY <1>4, CacheEntryGrows
  <2>2. fileSize' \in Int
    BY <1>8, <1>14 DEF IInv, TypeOK
  <2>. QED
    BY <1>13, <1>15, <2>1, <2>2, SizeStaysReached DEF Progress
<1>20. Content' = Content
  BY <1>1, <1>11, <1>13, <1>14, ContentStays
<1>. QED
  BY <1>1, <1>11, <1>13, <1>17, <1>18, <1>19, <1>20 DEF Progress, Storage!vars, Writing

\* A turn of the loop of writeCachedAt puts the bytes of the piece at their
\* addresses, and no others.
LEMMA PieceWritten ==
  ASSUME IInv, WriteCachedPage, NEW i \in 0 .. Limit - 1
  PROVE  /\ i \in Done .. Done + PieceSize - 1 =>
              IsWritten(i)' /\ SeenAt(i)' = call.data[i - Done + 1]
         /\ i \notin Done .. Done + PieceSize - 1 =>
              /\ IsWritten(i)' <=> IsWritten(i)
              /\ IsWritten(i) => SeenAt(i)' = SeenAt(i)
<1>1. call.op = "write" /\ call.left > 0
  BY DEF WriteCachedPage
<1>2. /\ call.page \in Page /\ call.offset \in Offset
      /\ PieceSize \in Nat /\ PieceSize > 0
      /\ Done \in Nat
      /\ \A j \in Done .. Done + PieceSize - 1 :
           /\ PageOf(j) = call.page
           /\ OffsetOf(j) = call.offset + (j - Done)
           /\ call.offset + (j - Done) \in Offset
      /\ Done + PieceSize <= Limit
  <2>1. Limit \in Nat
    BY CallTypes
  <2>2. call.start \in Nat /\ call.count \in Nat
    BY CallTypes
  <2>. QED
    BY <1>1, <2>1, <2>2, PieceAddresses
<1>3. PICK p \in Page : p = call.page
  BY <1>2
<1>4. PICK s \in Slot :
        /\ CacheEntry(p, s)
        /\ buffer' = [buffer EXCEPT ![s] = [o \in Offset |->
             IF o \in call.offset .. call.offset + PieceSize - 1
               THEN call.data[o - call.offset + 1] ELSE Fetched(p, s)[o]]]
  BY <1>3 DEF WriteCachedPage
<1>5. TableMoved(p, s)
  BY <1>4, CacheEntryMovesTable DEF IInv
<1>6. /\ buffer \in [Slot -> [Offset -> Byte]] /\ written \in [Page -> SUBSET Offset]
  BY DEF IInv, TypeOK
<1>7. /\ written'[p] = written[p] \cup (call.offset .. call.offset + PieceSize - 1)
      /\ \A q \in Page : q # p => written'[q] = written[q]
  BY <1>3, <1>6 DEF WriteCachedPage
<1>8. call.offset \in Nat /\ PageSize \in Nat
  BY <1>2, CacheAssumption DEF Offset
<1>9. ASSUME i \in Done .. Done + PieceSize - 1
      PROVE  IsWritten(i)' /\ SeenAt(i)' = call.data[i - Done + 1]
  <2>1. PICK d \in Int : d = i - Done
    BY <1>2, <1>9
  <2>2. 0 <= d /\ d < PieceSize
    BY <1>2, <1>9, <2>1
  <2>3. PICK o \in Offset : o = call.offset + d
    BY <1>2, <1>9, <2>1
  <2>4. PageOf(i) = p /\ OffsetOf(i) = o
    BY <1>2, <1>3, <1>9, <2>1, <2>3
  <2>5. o \in call.offset .. call.offset + PieceSize - 1 /\ o - call.offset + 1 = d + 1
    BY <1>2, <1>8, <2>2, <2>3
  <2>6. IsWritten(i)'
    BY <1>7, <2>4, <2>5 DEF IsWritten
  <2>7. cache'[p] = s /\ s # NoSlot
    BY <1>5 DEF TableMoved, Slot, NoSlot
  <2>8. buffer'[s][o] = call.data[d + 1]
    BY <1>4, <1>6, <2>5
  <2>9. Seen(p, o)' = buffer'[s][o]
    BY <2>7 DEF Seen
  <2>. QED
    BY <2>1, <2>4, <2>6, <2>8, <2>9 DEF SeenAt, Seen
<1>10. ASSUME i \notin Done .. Done + PieceSize - 1
       PROVE  /\ IsWritten(i)' <=> IsWritten(i)
              /\ IsWritten(i) => SeenAt(i)' = SeenAt(i)
  <2>1. /\ i \in Nat /\ PageOf(i) \in Page /\ OffsetOf(i) \in Offset
        /\ i = Addr(PageOf(i), OffsetOf(i))
    <3>1. i \in Nat /\ i < Limit
      BY CallTypes
    <3>. QED
      BY <3>1, AddressSplits
  <2>2. ~ (PageOf(i) = p /\ OffsetOf(i) \in call.offset .. call.offset + PieceSize - 1)
    <3>. SUFFICES ASSUME PageOf(i) = p,
                         OffsetOf(i) \in call.offset .. call.offset + PieceSize - 1
                  PROVE  FALSE
      OBVIOUS
    <3>1. PICK d \in Int : d = OffsetOf(i) - call.offset
      BY <1>8
    <3>2. 0 <= d /\ d < PieceSize /\ OffsetOf(i) = call.offset + d
      BY <1>2, <1>8, <3>1
    <3>3. Done + d \in Done .. Done + PieceSize - 1
      BY <1>2, <3>2
    <3>4. PageOf(Done + d) = p /\ OffsetOf(Done + d) = call.offset + ((Done + d) - Done)
      BY <1>2, <1>3, <3>3
    <3>5. OffsetOf(Done + d) = OffsetOf(i)
      BY <1>2, <1>8, <3>2, <3>4
    <3>6. Done + d \in Nat
      BY <1>2, <3>2
    <3>7. Done + d = Addr(PageOf(Done + d), OffsetOf(Done + d))
      BY <3>6, AddressSplits
    <3>8. Done + d = i
      BY <2>1, <3>4, <3>5, <3>7
    <3>. QED
      BY <1>10, <3>3, <3>8
  <2>3. IsWritten(i)' <=> IsWritten(i)
    BY <1>7, <2>1, <2>2 DEF IsWritten
  <2>4. ASSUME IsWritten(i)
        PROVE  SeenAt(i)' = SeenAt(i)
    <3>1. ContentsStable
      BY WriteCachedPageStep
    <3>2. Seen(PageOf(i), OffsetOf(i))' = Seen(PageOf(i), OffsetOf(i))
      BY <1>3, <2>1, <2>2, <2>4, <3>1 DEF ContentsStable, IsWritten
    <3>. QED
      BY <3>2 DEF SeenAt
  <2>. QED
    BY <2>3, <2>4
<1>. QED
  BY <1>9, <1>10

\* A turn of the loop of writeCachedAt changes nothing a client could tell: the
\* bytes it writes are those that counted as written since the call was made.
LEMMA WriteTurn ==
  ASSUME IInv, Progress, WriteCachedPage
  PROVE  Progress' /\ UNCHANGED Storage!vars
<1>1. /\ call.op = "write" /\ call.left > 0
      /\ UNCHANGED <<sizeVars, result>>
  BY DEF WriteCachedPage
<1>2. /\ PieceSize \in Nat /\ PieceSize > 0 /\ PieceSize <= call.left
      /\ Done \in Nat /\ call.start <= Done
      /\ Done + PieceSize <= call.start + call.count
      /\ call.start + call.count <= Limit
  BY <1>1, PieceAddresses
<1>3. /\ call.data \in Seq(Byte) /\ Len(call.data) = call.left
      /\ call.start \in Nat /\ call.count \in Nat /\ call.left \in Nat
      /\ size \in Nat /\ Limit \in Nat
  BY <1>1, CallTypes DEF CallType, IInv, LoopInRange
<1>4. PICK rest : rest = SubSeq(call.data, PieceSize + 1, Len(call.data))
  OBVIOUS
<1>5. /\ rest \in Seq(Byte) /\ Len(rest) = call.left - PieceSize
      /\ \A k \in 1 .. call.left - PieceSize : rest[k] = call.data[k + PieceSize]
  <2>1. PICK data \in Seq(Byte) : data = call.data
    BY <1>3
  <2>2. PICK m \in Nat : m = PieceSize /\ m <= Len(data)
    BY <1>2, <1>3, <2>1
  <2>3. PICK tail : tail = SubSeq(data, m + 1, Len(data))
    OBVIOUS
  <2>4. tail \in Seq(Byte) /\ Len(tail) = Len(data) - m
    BY <2>2, <2>3
  <2>5. \A k \in 1 .. Len(data) - m : tail[k] = data[k + m]
    BY <2>2, <2>3
  <2>6. rest = tail /\ Len(data) = call.left
    BY <1>3, <1>4, <2>1, <2>2, <2>3
  <2>. QED
    BY <2>1, <2>2, <2>4, <2>5, <2>6
<1>6. /\ call'.op = "write" /\ call'.start = call.start /\ call'.count = call.count
      /\ call'.data = rest /\ call'.left = call.left - PieceSize
  <2>1. Advance(rest)
    BY <1>4 DEF WriteCachedPage
  <2>. QED
    BY <1>1, <1>5, <2>1, AdvanceKeepsLoop
<1>7. Done' = Done + PieceSize
  BY <1>2, <1>3, <1>6 DEF Done
<1>8. /\ size' = size /\ position' = position /\ extent' = extent /\ result' = result
  BY <1>1 DEF sizeVars
<1>9. IInv'
  BY WriteCachedPageStep
<1>10. \A i \in 0 .. Limit - 1 :
         /\ i \in Done .. Done + PieceSize - 1 =>
              IsWritten(i)' /\ SeenAt(i)' = call.data[i - Done + 1]
         /\ i \notin Done .. Done + PieceSize - 1 =>
              /\ IsWritten(i)' <=> IsWritten(i)
              /\ IsWritten(i) => SeenAt(i)' = SeenAt(i)
  BY PieceWritten
<1>11. WriteProgress'
  <2>1. ASSUME NEW i \in call'.start .. Done' - 1
        PROVE  IsWritten(i)'
    <3>1. i \in 0 .. Limit - 1 /\ (i \in call.start .. Done - 1
                                   \/ i \in Done .. Done + PieceSize - 1)
      BY <1>2, <1>3, <1>6, <1>7
    <3>2. CASE i \in Done .. Done + PieceSize - 1
      BY <1>10, <3>1, <3>2
    <3>3. CASE i \notin Done .. Done + PieceSize - 1
      <4>1. IsWritten(i)
        BY <1>1, <3>1, <3>3 DEF Progress, WriteProgress
      <4>. QED
        BY <1>10, <3>1, <3>3, <4>1
    <3>. QED
      BY <3>2, <3>3
  <2>2. call'.count > 0
    BY <1>1, <1>6 DEF Progress, WriteProgress
  <2>. QED
    BY <2>1, <2>2 DEF WriteProgress
<1>12. ReadProgress'
  BY <1>6 DEF ReadProgress
<1>13. SizeIsReached'
  <2>1. \E p \in Page, s \in Slot : CacheEntry(p, s)
    BY <1>1, PieceAddresses DEF WriteCachedPage
  <2>2. fileSize' >= fileSize
    BY <2>1, CacheEntryGrows
  <2>3. fileSize' \in Int
    BY <1>3, <1>9 DEF IInv, TypeOK
  <2>4. \A i \in 0 .. Limit - 1 : IsWritten(i) => IsWritten(i)'
    BY <1>10
  <2>. QED
    BY <1>8, <2>2, <2>3, <2>4, SizeStaysReached DEF Progress
<1>14. ASSUME NEW i \in 0 .. Limit - 1
       PROVE  Content'[i] = Content[i]
  <2>1. Content[i] = IF Pending(i) THEN call.data[i - Done + 1]
                                   ELSE IF IsWritten(i) THEN SeenAt(i) ELSE Undef
    BY ContentIs
  <2>2. Content'[i] = IF Pending(i)' THEN call'.data[i - Done' + 1]
                                     ELSE IF IsWritten(i)' THEN SeenAt(i)' ELSE Undef
    BY ContentIsNext
  <2>3. Pending(i) <=> Done <= i /\ i < call.start + call.count
    BY <1>1, ContentIs
  <2>4. Pending(i)' <=> Done + PieceSize <= i /\ i < call.start + call.count
    BY <1>6, <1>7, ContentIsNext
  <2>5. i \in Nat
    BY <1>3
  <2>6. CASE i \in Done .. Done + PieceSize - 1
    <3>1. Pending(i) /\ ~ Pending(i)'
      BY <1>2, <1>3, <2>3, <2>4, <2>5, <2>6
    <3>. QED
      BY <1>10, <2>1, <2>2, <2>6, <3>1
  <2>7. CASE Pending(i)'
    <3>1. Pending(i)
      BY <1>2, <1>3, <2>3, <2>4, <2>5, <2>7
    <3>2. call'.data[i - Done' + 1] = call.data[i - Done + 1]
      <4>1. PICK k \in Int : k = i - (Done + PieceSize) + 1
        BY <1>2, <2>5
      <4>2. Done + call.left = call.start + call.count
        BY <1>3 DEF Done
      <4>3. k \in 1 .. call.left - PieceSize
        BY <1>2, <1>3, <2>4, <2>5, <2>7, <4>1, <4>2
      <4>4. k + PieceSize = i - Done + 1
        BY <1>2, <2>5, <4>1
      <4>5. rest[k] = call.data[k + PieceSize]
        BY <1>5, <4>3
      <4>. QED
        BY <1>6, <1>7, <4>1, <4>4, <4>5
    <3>. QED
      BY <2>1, <2>2, <2>7, <3>1, <3>2
  <2>8. CASE i \notin Done .. Done + PieceSize - 1 /\ ~ Pending(i)'
    <3>1. ~ Pending(i)
      BY <1>2, <1>3, <2>3, <2>4, <2>5, <2>8
    <3>. QED
      BY <1>10, <2>1, <2>2, <2>8, <3>1
  <2>. QED
    BY <2>6, <2>7, <2>8
<1>15. Content' = Content
  <2>1. Content' = [i \in 0 .. Limit - 1 |-> Content'[i]]
    BY DEF Content
  <2>2. Content = [i \in 0 .. Limit - 1 |-> Content[i]]
    BY DEF Content
  <2>. QED
    BY <1>14, <2>1, <2>2
<1>16. Writing' <=> Writing
  BY <1>1, <1>6 DEF Writing
<1>. QED
  BY <1>6, <1>8, <1>11, <1>12, <1>13, <1>15, <1>16 DEF Progress, Storage!vars

\* A turn of the loop of flush changes nothing a client could tell.
LEMMA FlushTurn ==
  ASSUME IInv, Progress, FlushPage
  PROVE  Progress' /\ UNCHANGED Storage!vars
<1>1. /\ call.op \in {"flush", "close"}
      /\ UNCHANGED <<sizeVars, result, written>>
  BY DEF FlushPage
<1>2. PICK p \in Page :
        /\ cache[p] # NoSlot
        /\ WriteDirty(p, cache[p])
        /\ call' = [call EXCEPT !.page = p + 1]
  BY DEF FlushPage, NextCached
<1>3. call'.op = call.op
  BY <1>2, CallTypes DEF CallType
<1>4. IInv' /\ ContentsStable
  BY FlushPageStep
<1>5. /\ written' = written /\ size' = size /\ position' = position
      /\ extent' = extent /\ result' = result
  BY <1>1 DEF sizeVars
<1>6. fileSize \in Int /\ fileSize' \in Int
  BY <1>4, CallTypes DEF IInv, TypeOK
<1>7. fileSize' >= fileSize
  <2>1. CASE dirty[cache[p]]
    BY <1>2, <2>1, WritePageGrows DEF WriteDirty
  <2>2. CASE ~ dirty[cache[p]]
    BY <1>2, <1>6, <2>2 DEF WriteDirty, imageVars
  <2>. QED
    BY <2>1, <2>2
<1>8. SizeIsReached'
  BY <1>1, <1>4, <1>5, <1>6, <1>7, BytesStay, SizeStaysReached DEF Progress
<1>9. Content' = Content
  BY <1>1, <1>3, <1>4, <1>5, ContentStays
<1>. QED
  BY <1>1, <1>3, <1>5, <1>8, <1>9, NoLoop DEF Storage!vars, Writing

\* A step that touches neither the file nor the cache keeps what is read.
LEMMA QuietBytes ==
  ASSUME IInv, Quiet
  PROVE  /\ written' = written /\ fileSize' = fileSize /\ ContentsStable
         /\ \A i : (IsWritten(i)' <=> IsWritten(i)) /\ SeenAt(i)' = SeenAt(i)
         /\ SizeIsReached /\ size' = size => SizeIsReached'
<1>1. /\ file' = file /\ fileSize' = fileSize
      /\ cache' = cache /\ buffer' = buffer /\ written' = written
  BY DEF Quiet, imageVars, tableVars, pageVars
<1>2. \A i : (IsWritten(i)' <=> IsWritten(i)) /\ SeenAt(i)' = SeenAt(i)
  BY <1>1 DEF IsWritten, SeenAt, Seen
<1>3. SizeIsReached /\ size' = size => SizeIsReached'
  BY <1>1 DEF SizeIsReached, IsWritten
<1>. QED
  BY <1>1, <1>2, <1>3, QuietKeeps

\* Starting a read, which takes effect when it returns, or a read of nothing.
LEMMA ReadAtSimulated ==
  ASSUME IInv, Progress, NEW pos \in Positions \cup {position}, NEW n \in Counts,
         ReadAt(pos, n)
  PROVE  Progress' /\ (Storage!Synchronize \/ Storage!ReadAt(pos, n))
<1>1. /\ call.op = "none"
      /\ IF pos < size
           THEN call' = Loop("read", pos, Smaller(n, size - pos), <<>>)
           ELSE UNCHANGED call
      /\ result' = <<>>
      /\ size' = size /\ extent' = extent /\ position' = position
      /\ Quiet
  BY DEF ReadAt, Ready, sizeVars, Quiet, fileVars
<1>2. /\ pos \in 0 .. Limit /\ pos \in Nat /\ n \in Nat /\ n > 0
      /\ size \in Nat /\ size <= Limit /\ Limit \in Nat
  BY CallTypes, CacheAssumption
<1>3. /\ written' = written /\ fileSize' = fileSize /\ ContentsStable
      /\ SizeIsReached'
  BY <1>1, QuietBytes DEF Progress
<1>4. CASE pos < size
  <2>1. PICK m \in 0 .. Limit : m = Smaller(n, size - pos)
    <3>1. Smaller(n, size - pos) \in 0 .. Limit
      BY <1>2, <1>4 DEF Smaller
    <3>. QED
      BY <3>1
  <2>2. LoopStarted(call', "read", pos, m, <<>>)
    <3>1. LoopStarted(Loop("read", pos, m, <<>>), "read", pos, m, <<>>)
      BY <1>2, LoopStarts, CallTypes
    <3>. QED
      BY <1>1, <1>4, <2>1, <3>1
  <2>3. /\ call'.op = "read" /\ call'.start = pos /\ call'.count = m /\ call'.left = m
        /\ call'.data = <<>>
    BY <2>2 DEF LoopStarted
  <2>4. ReadProgress'
    <3>1. m \in Nat /\ Len(<<>>) = m - m
      BY <1>2
    <3>2. Done' = pos
      BY <1>2, <2>3, <3>1 DEF Done
    <3>3. call'.start .. Done' - 1 = {}
      BY <1>2, <2>3, <3>2
    <3>4. /\ call'.start < size' /\ call'.start \in Positions \cup {position'}
          /\ call'.count = Smaller(n, size' - call'.start)
      BY <1>1, <1>4, <2>1, <2>3
    <3>. QED
      BY <2>3, <3>1, <3>3, <3>4 DEF ReadProgress
  <2>5. Progress'
    BY <1>3, <2>3, <2>4 DEF Progress, WriteProgress
  <2>6. Content' = Content
    BY <1>1, <1>3, <2>3, ContentStays
  <2>7. Storage!Synchronize
    BY <1>1, <2>3, <2>6 DEF Storage!Synchronize, Writing
  <2>. QED
    BY <2>5, <2>7
<1>5. CASE ~ pos < size
  <2>1. call' = call
    BY <1>1, <1>5
  <2>2. Progress'
    BY <1>1, <1>3, <2>1, NoLoop
  <2>3. Content' = Content
    BY <1>1, <1>3, <2>1, ContentStays
  <2>4. ~ Writing /\ ~ Writing'
    BY <1>1, <2>1 DEF Writing
  <2>5. Storage!ReadCount(pos, n) = 0
    BY <1>5, <2>4 DEF Storage!ReadCount
  <2>6. <<>> \in [1 .. 0 -> Byte]
    OBVIOUS
  <2>7. Storage!Delivers(pos, n, result')
    BY <1>1, <2>5, <2>6 DEF Storage!Delivers
  <2>8. Storage!ReadAt(pos, n)
    BY <1>1, <2>3, <2>4, <2>5, <2>7 DEF Storage!ReadAt
  <2>. QED
    BY <2>2, <2>8
<1>. QED
  BY <1>4, <1>5

\* Returning from a read: what it delivers is what the flat storage holds.
LEMMA ReadReturnSimulated ==
  ASSUME IInv, Progress, ReadReturn
  PROVE  /\ Progress'
         /\ \E pos \in Positions \cup {position}, n \in Counts : Storage!ReadAt(pos, n)
<1>1. /\ call.op = "read" /\ call.left = 0
      /\ position' = call.start + call.count
      /\ result' = call.data
      /\ call' = Idle
      /\ size' = size /\ extent' = extent
      /\ Quiet
  BY DEF ReadReturn, Quiet, fileVars
<1>2. /\ written' = written /\ ContentsStable /\ SizeIsReached'
  BY <1>1, QuietBytes DEF Progress
<1>3. call'.op = "none"
  BY <1>1, IdleType
<1>4. PICK pos \in Positions \cup {position}, n \in Counts :
        /\ pos = call.start /\ pos < size
        /\ call.count = Smaller(n, size - pos)
  BY <1>1 DEF Progress, ReadProgress
<1>5. /\ call.data \in Seq(Byte) /\ Len(call.data) = call.count
      /\ \A i \in pos .. pos + call.count - 1 :
           IsWritten(i) => call.data[i - pos + 1] = SeenAt(i)
  <2>1. call.start + call.count - call.left = call.start + call.count
        /\ call.count - call.left = call.count
    BY <1>1, CallTypes
  <2>. QED
    BY <1>1, <1>4, <2>1, CallTypes DEF CallType, Progress, ReadProgress, Done
<1>6. /\ pos \in Nat /\ n \in Nat /\ n > 0 /\ size \in Nat /\ Limit \in Nat
      /\ size <= Limit /\ call.count \in Nat
  BY <1>4, CallTypes, CacheAssumption
<1>7. call.count > 0 /\ pos + call.count <= size
  BY <1>4, <1>6 DEF Smaller
<1>8. ~ Writing /\ ~ Writing'
  BY <1>1, <1>3 DEF Writing
<1>9. Storage!ReadCount(pos, n) = call.count
  BY <1>4, <1>8 DEF Storage!ReadCount, Storage!Smaller, Smaller
<1>10. ASSUME NEW k \in 1 .. call.count, Content[pos + k - 1] # Undef
       PROVE  result'[k] = Content[pos + k - 1]
  <2>1. PICK i : i = pos + k - 1
    OBVIOUS
  <2>2. i \in 0 .. Limit - 1 /\ i \in pos .. pos + call.count - 1 /\ i - pos + 1 = k
    BY <1>6, <1>7, <2>1
  <2>3. Content[i] = IF IsWritten(i) THEN SeenAt(i) ELSE Undef
    BY <1>1, <2>2, ContentIs
  <2>4. IsWritten(i) /\ Content[i] = SeenAt(i)
    BY <1>10, <2>1, <2>3
  <2>. QED
    BY <1>1, <1>5, <2>1, <2>2, <2>4
<1>11. result' \in [1 .. call.count -> Byte]
  BY <1>1, <1>5
<1>12. Storage!Delivers(pos, n, result')
  BY <1>9, <1>10, <1>11 DEF Storage!Delivers
<1>13. Content' = Content
  BY <1>1, <1>2, <1>3, ContentStays
<1>14. Storage!ReadAt(pos, n)
  BY <1>1, <1>4, <1>7, <1>8, <1>9, <1>12, <1>13 DEF Storage!ReadAt
<1>15. Progress'
  BY <1>2, <1>3, NoLoop
<1>16. pos \in Positions \cup {position} /\ n \in Counts
  BY <1>4
<1>. QED
  BY <1>14, <1>15, <1>16

\* Starting a write: all its bytes count as written.
LEMMA WriteAtSimulated ==
  ASSUME IInv, Progress, NEW pos \in Positions \cup {position}, NEW bytes \in Payloads,
         WriteAt(pos, bytes)
  PROVE  Progress' /\ Storage!WriteAt(pos, bytes)
<1>1. /\ call.op = "none"
      /\ pos + Len(bytes) <= Limit
      /\ extent' = Larger(extent, pos + Len(bytes))
      /\ call' = Loop("write", pos, Len(bytes), bytes)
      /\ result' = <<>>
      /\ size' = size /\ position' = position
      /\ Quiet
  BY DEF WriteAt, Ready, Quiet, fileVars
<1>2. PICK n \in Nat : n = Len(bytes) /\ n > 0 /\ pos + n <= Limit
  <2>1. bytes \in Seq(Value) /\ bytes # <<>>
    BY CacheAssumption
  <2>. QED
    BY <1>1, <2>1
<1>3. /\ pos \in 0 .. Limit /\ pos \in Nat
      /\ size \in Nat /\ extent \in Nat /\ Limit \in Nat /\ n \in 0 .. Limit
  BY <1>2, CallTypes, CacheAssumption
<1>4. bytes \in Seq(Byte)
  <2>1. bytes \in Seq(Value)
    BY CacheAssumption
  <2>2. \A i \in 1 .. Len(bytes) : bytes[i] \in Byte
    BY <2>1 DEF Byte
  <2>. QED
    BY <2>1, <2>2
<1>5. /\ call'.op = "write" /\ call'.start = pos /\ call'.count = n /\ call'.left = n
      /\ call'.data = bytes
  <2>1. LoopStarted(Loop("write", pos, n, bytes), "write", pos, n, bytes)
    BY <1>3, <1>4, LoopStarts
  <2>. QED
    BY <1>1, <1>2, <2>1 DEF LoopStarted
<1>6. Done' = pos
  BY <1>3, <1>5 DEF Done
<1>7. /\ SizeIsReached'
      /\ \A i : (IsWritten(i)' <=> IsWritten(i)) /\ SeenAt(i)' = SeenAt(i)
  BY <1>1, QuietBytes DEF Progress
<1>8. Progress'
  <2>1. call'.start .. Done' - 1 = {}
    BY <1>3, <1>5, <1>6
  <2>2. WriteProgress'
    BY <1>2, <1>5, <2>1 DEF WriteProgress
  <2>. QED
    BY <1>5, <1>7, <2>2 DEF Progress, ReadProgress
<1>9. ASSUME NEW i \in 0 .. Limit - 1
      PROVE  Content'[i] = IF i \in pos .. pos + n - 1 THEN bytes[i - pos + 1]
                                                      ELSE Content[i]
  <2>1. Content[i] = IF IsWritten(i) THEN SeenAt(i) ELSE Undef
    BY <1>1, ContentIs
  <2>2. Content'[i] = IF Pending(i)' THEN call'.data[i - Done' + 1]
                                     ELSE IF IsWritten(i)' THEN SeenAt(i)' ELSE Undef
    BY ContentIsNext
  <2>3. Pending(i)' <=> pos <= i /\ i < pos + n
    BY <1>5, <1>6, ContentIsNext
  <2>4. Pending(i)' <=> i \in pos .. pos + n - 1
    BY <1>2, <1>3, <2>3
  <2>5. CASE Pending(i)'
    BY <1>5, <1>6, <2>2, <2>4, <2>5
  <2>6. CASE ~ Pending(i)'
    BY <1>7, <2>1, <2>2, <2>4, <2>6
  <2>. QED
    BY <2>5, <2>6
<1>10. Content' = [i \in 0 .. Limit - 1 |->
                     IF i \in pos .. pos + n - 1 THEN bytes[i - pos + 1] ELSE Content[i]]
  <2>1. Content' = [i \in 0 .. Limit - 1 |-> Content'[i]]
    BY DEF Content
  <2>. QED
    BY <1>9, <2>1
<1>11. ~ Writing /\ Writing'
  BY <1>1, <1>5 DEF Writing
<1>12. /\ (IF Writing THEN call.start + call.count ELSE position)' = pos + n
       /\ (IF Writing THEN Larger(size, call.start + call.count) ELSE size)'
            = Larger(size, pos + n)
  BY <1>1, <1>5, <1>11 DEF Larger
<1>13. /\ Larger(size, pos + n) = Storage!Larger(size, pos + n)
       /\ Larger(extent, pos + n) = Storage!Larger(extent, pos + n)
  BY DEF Larger, Storage!Larger
<1>14. (IF Writing THEN Larger(size, call.start + call.count) ELSE size) = size
  BY <1>11
<1>15. pos + Len(bytes) = pos + n
  BY <1>2
<1>16. \A i : i \in pos .. pos + n - 1 <=> i \in pos .. pos + Len(bytes) - 1
  BY <1>2, <1>3, <1>15
<1>17. Content' = [i \in 0 .. Limit - 1 |->
            IF i \in pos .. pos + Len(bytes) - 1 THEN bytes[i - pos + 1] ELSE Content[i]]
  BY <1>10, <1>16
<1>18. (IF Writing THEN Larger(size, call.start + call.count) ELSE size)'
         = Storage!Larger((IF Writing THEN Larger(size, call.start + call.count) ELSE size),
                          pos + Len(bytes))
  BY <1>12, <1>13, <1>14, <1>15
<1>19. /\ extent' = Storage!Larger(extent, pos + Len(bytes))
       /\ (IF Writing THEN call.start + call.count ELSE position)' = pos + Len(bytes)
       /\ result' = <<>>
  BY <1>1, <1>12, <1>13, <1>15
<1>20. Storage!WriteAt(pos, bytes)
  BY <1>1, <1>17, <1>18, <1>19 DEF Storage!WriteAt, Storage!Address
<1>. QED
  BY <1>8, <1>20

\* Returning from a write changes nothing a client could tell.
LEMMA WriteReturnSimulated ==
  ASSUME IInv, Progress, WriteReturn
  PROVE  Progress' /\ UNCHANGED Storage!vars
<1>1. /\ call.op = "write" /\ call.left = 0
      /\ position' = call.start + call.count
      /\ size' = Larger(size, position')
      /\ call' = Idle
      /\ extent' = extent /\ result' = result
      /\ Quiet
  BY DEF WriteReturn, Quiet, fileVars
<1>2. call'.op = "none"
  BY <1>1, IdleType
<1>3. /\ call.start \in Nat /\ call.count \in Nat /\ size \in Nat /\ Limit \in Nat
      /\ Done = call.start + call.count
  BY <1>1, CallTypes DEF Done
<1>4. /\ fileSize' = fileSize
      /\ \A i : (IsWritten(i)' <=> IsWritten(i)) /\ SeenAt(i)' = SeenAt(i)
  BY <1>1, QuietBytes
<1>5. SizeIsReached'
  <2>1. CASE size' = size
    BY <1>1, <2>1, QuietBytes DEF Progress
  <2>2. CASE size' # size
    <3>1. size' = call.start + call.count
      BY <1>1, <2>2 DEF Larger
    <3>2. PICK i : i = size' - 1
      OBVIOUS
    <3>3. call.count > 0
      BY <1>1 DEF Progress, WriteProgress
    <3>4. i \in call.start .. Done - 1
      BY <1>3, <3>1, <3>2, <3>3
    <3>5. IsWritten(i)'
      BY <1>1, <1>4, <3>4 DEF Progress, WriteProgress
    <3>. QED
      BY <3>2, <3>5 DEF SizeIsReached, IsWritten
  <2>. QED
    BY <2>1, <2>2
<1>6. Content' = Content
  <2>1. ASSUME NEW i \in 0 .. Limit - 1
        PROVE  ~ Pending(i) /\ ~ Pending(i)'
    <3>1. i \in Nat
      BY <1>3
    <3>2. ~ (Done <= i /\ i < call.start + call.count)
      BY <1>3, <3>1
    <3>. QED
      BY <1>2, <3>2, ContentIs, ContentIsNext
  <2>2. Content = [i \in 0 .. Limit - 1 |-> IF IsWritten(i) THEN SeenAt(i) ELSE Undef]
    BY <2>1, ContentIs
  <2>3. Content' = [i \in 0 .. Limit - 1 |-> IF IsWritten(i)' THEN SeenAt(i)' ELSE Undef]
    BY <2>1, ContentIsNext
  <2>4. \A i \in 0 .. Limit - 1 : (IF IsWritten(i)' THEN SeenAt(i)' ELSE Undef)
                                   = (IF IsWritten(i) THEN SeenAt(i) ELSE Undef)
    BY <1>4
  <2>. QED
    BY <2>2, <2>3, <2>4
<1>7. Writing /\ ~ Writing'
  BY <1>1, <1>2 DEF Writing
<1>8. UNCHANGED Storage!vars
  BY <1>1, <1>6, <1>7 DEF Storage!vars
<1>. QED
  BY <1>2, <1>5, <1>8, NoLoop

\* A change of the extent, the position, or the start or the end of a flush.
LEMMA SimpleSimulated ==
  ASSUME IInv, Progress, call.op \notin {"read", "write"}, call'.op \notin {"read", "write"},
         Quiet, size' = size
  PROVE  Progress' /\ Content' = Content /\ ~ Writing /\ ~ Writing'
<1>1. /\ written' = written /\ ContentsStable /\ SizeIsReached'
  BY QuietBytes DEF Progress
<1>2. Content' = Content
  BY <1>1, ContentStays
<1>. QED
  BY <1>1, <1>2, NoLoop DEF Writing

\* The content of the flat storage is bytes or undefined.
LEMMA ContentType ==
  ASSUME IInv, call.op # "write"
  PROVE  Content \in [0 .. Limit - 1 -> Byte \cup {Undef}]
<1>1. ASSUME NEW i \in 0 .. Limit - 1
      PROVE  SeenAt(i) \in Byte
  <2>1. PageOf(i) \in Page /\ OffsetOf(i) \in Offset
    <3>1. i \in Nat /\ i < Limit
      BY CallTypes
    <3>. QED
      BY <3>1, AddressSplits
  <2>2. /\ file \in [Page -> [Offset -> Byte]]
        /\ buffer \in [Slot -> [Offset -> Byte]]
        /\ cache \in [Page -> Slot \cup {NoSlot}]
    BY DEF IInv, TypeOK
  <2>. QED
    BY <2>1, <2>2 DEF SeenAt, Seen
<1>2. Content = [i \in 0 .. Limit - 1 |-> IF IsWritten(i) THEN SeenAt(i) ELSE Undef]
  BY ContentIs
<1>. QED
  BY <1>1, <1>2

\* Extending the storage changes no byte and no size.
LEMMA ExtendSimulated ==
  ASSUME IInv, Progress, MayTruncate = FALSE, NEW newSize \in Sizes, Extend(newSize)
  PROVE  Progress' /\ Storage!Extend(newSize)
<1>1. /\ call.op = "none" /\ call' = call /\ newSize >= size /\ extent' = newSize
      /\ result' = <<>> /\ size' = size /\ position' = position /\ Quiet
  BY DEF Extend, Ready, Quiet, fileVars
<1>2. Progress' /\ Content' = Content /\ ~ Writing /\ ~ Writing'
  BY <1>1, SimpleSimulated
<1>3. Content \in [0 .. Limit - 1 -> Byte \cup {Undef}]
  BY <1>1, ContentType
<1>4. Storage!Extend(newSize)
  BY <1>1, <1>2, <1>3 DEF Storage!Extend, Storage!Address
<1>. QED
  BY <1>2, <1>4

\* Setting the position changes the position.
LEMMA SetPositionSimulated ==
  ASSUME IInv, Progress, NEW pos \in Positions, SetPosition(pos)
  PROVE  Progress' /\ Storage!SetPosition(pos)
<1>1. /\ call.op = "none" /\ call' = call /\ position' = pos
      /\ result' = <<>> /\ size' = size /\ extent' = extent /\ Quiet
  BY DEF SetPosition, Ready, Quiet, fileVars
<1>2. Progress' /\ Content' = Content /\ ~ Writing /\ ~ Writing'
  BY <1>1, SimpleSimulated
<1>. QED
  BY <1>1, <1>2 DEF Storage!SetPosition

\* Starting to synchronize or to delete the storage.
LEMMA FlushSimulated ==
  ASSUME IInv, Progress, Synchronize \/ Close
  PROVE  Progress' /\ Storage!Synchronize
<1>1. /\ call.op = "none" /\ position' = position
      /\ result' = <<>> /\ size' = size /\ extent' = extent /\ Quiet
  BY DEF Synchronize, Close, Ready, Quiet, sizeVars, fileVars
<1>2. call'.op \in {"none", "flush", "close"}
  BY <1>1 DEF Synchronize, Close, Idle
<1>3. Progress' /\ Content' = Content /\ ~ Writing /\ ~ Writing'
  BY <1>1, <1>2, SimpleSimulated
<1>. QED
  BY <1>1, <1>3 DEF Storage!Synchronize

\* Returning from synchronize, and deleting the storage.
LEMMA FlushReturnSimulated ==
  ASSUME IInv, Progress, SynchronizeReturn \/ Delete
  PROVE  Progress' /\ UNCHANGED Storage!vars
<1>1. /\ call.op \in {"flush", "close"} /\ call' = Idle
      /\ position' = position /\ result' = result
      /\ size' = size /\ extent' = extent
      /\ written' = written /\ fileSize' = fileSize
  BY DEF SynchronizeReturn, Delete, sizeVars, imageVars
<1>2. call'.op = "none"
  BY <1>1, IdleType
<1>3. ContentsStable
  BY SynchronizeReturnStep, DeleteStep
<1>4. SizeIsReached'
  BY <1>1 DEF Progress, SizeIsReached, IsWritten
<1>5. Content' = Content
  BY <1>1, <1>2, <1>3, ContentStays
<1>. QED
  BY <1>1, <1>2, <1>4, <1>5, NoLoop DEF Storage!vars, Writing

\* Opening the file again: every byte written is there, and the storage may
\* have grown to the end of the page that was written last.
LEMMA OpenSimulated ==
  ASSUME IInv, Progress, NEW m \in {"readOnly", "modify"}, Open(m)
  PROVE  Progress' /\ Storage!Reopen
<1>1. /\ mode = "closed" /\ fileSize' = fileSize /\ size' = fileSize
      /\ extent' = fileSize /\ position' = 0 /\ result' = <<>>
      /\ call' = call /\ written' = written
  BY DEF Open
<1>2. call.op = "none" /\ \A s \in Slot : ~ dirty[s]
  BY <1>1 DEF IInv, ClosedIsEmpty, DirtyWasWritten
<1>3. /\ fileSize \in Nat /\ fileSize <= Limit /\ size \in Nat /\ size <= Limit
      /\ Limit \in Nat
  BY CallTypes DEF IInv, TypeOK
<1>4. ContentsStable
  BY OpenStep
<1>5. size <= fileSize
  <2>. SUFFICES ASSUME size > fileSize
                PROVE  FALSE
    BY <1>3
  <2>1. PICK i : i = size - 1
    OBVIOUS
  <2>2. i \in Nat /\ i < Limit /\ i >= fileSize
    BY <1>3, <2>1
  <2>3. IsWritten(i)
    BY <2>1 DEF Progress, SizeIsReached
  <2>4. /\ PageOf(i) \in Page /\ OffsetOf(i) \in written[PageOf(i)]
        /\ i = Addr(PageOf(i), OffsetOf(i))
    BY <2>2, <2>3, AddressSplits DEF IsWritten
  <2>5. cache \in [Page -> Slot \cup {NoSlot}]
    BY DEF IInv, TypeOK
  <2>6. PageOf(i) * PageSize + OffsetOf(i) < validSize
    BY <1>2, <2>4, <2>5 DEF IInv, NothingLost
  <2>7. i < fileSize
    BY <2>4, <2>6 DEF Addr, IInv, ValidSizeIsFileSize
  <2>. QED
    BY <1>3, <2>2, <2>7
<1>6. SizeIsReached'
  BY <1>1, <1>3 DEF SizeIsReached
<1>7. Content' = Content
  BY <1>1, <1>2, <1>4, ContentStays
<1>8. ~ Writing /\ ~ Writing'
  BY <1>1, <1>2 DEF Writing
<1>9. Storage!Reopen
  BY <1>1, <1>3, <1>5, <1>7, <1>8 DEF Storage!Reopen
<1>. QED
  BY <1>1, <1>2, <1>6, <1>9, NoLoop

\* A storage not yet opened is a flat one that holds the bytes of the file.
LEMMA InitSimulated ==
  ASSUME Init
  PROVE  Progress /\ Storage!Init
<1>1. IInv
  BY InitEstablishes
<1>2. /\ size = fileSize /\ extent = fileSize /\ position = 0 /\ result = <<>>
      /\ call.op = "none"
      /\ written = [p \in Page |-> {o \in Offset : p * PageSize + o < fileSize}]
  BY IdleType DEF Init
<1>3. fileSize \in 0 .. Limit /\ Limit \in Nat
  BY <1>1, CallTypes DEF IInv, TypeOK
<1>4. Progress
  <2>1. ~ size > fileSize
    BY <1>2, <1>3
  <2>. QED
    BY <1>2, <2>1 DEF Progress, SizeIsReached, WriteProgress, ReadProgress
<1>5. Content \in [0 .. Limit - 1 -> Byte \cup {Undef}]
  BY <1>1, <1>2, ContentType
<1>6. ASSUME NEW i \in 0 .. Limit - 1
      PROVE  Content[i] # Undef <=> i < fileSize
  <2>1. i \in Nat /\ i < Limit
    BY <1>3
  <2>2. /\ PageOf(i) \in Page /\ OffsetOf(i) \in Offset
        /\ i = PageOf(i) * PageSize + OffsetOf(i)
    BY <2>1, AddressSplits DEF Addr
  <2>3. IsWritten(i) <=> i < fileSize
    BY <1>2, <2>2 DEF IsWritten
  <2>4. Content[i] = IF IsWritten(i) THEN SeenAt(i) ELSE Undef
    BY <1>2, ContentIs
  <2>5. SeenAt(i) = file[PageOf(i)][OffsetOf(i)]
    BY <2>2 DEF Init, NoPages, SeenAt, Seen
  <2>6. file \in [Page -> [Offset -> Byte]]
    BY <1>1 DEF IInv, TypeOK
  <2>7. SeenAt(i) # Undef
    BY <2>2, <2>5, <2>6, CacheAssumption
  <2>. QED
    BY <2>3, <2>4, <2>7
<1>7. ~ Writing
  BY <1>2 DEF Writing
<1>8. Storage!Init
  BY <1>2, <1>3, <1>5, <1>6, <1>7 DEF Storage!Init, Storage!Address
<1>. QED
  BY <1>4, <1>8

\* A turn of a loop changes nothing a client of the flat storage could tell.
LEMMA PieceSimulated ==
  ASSUME IInv, Progress, Piece
  PROVE  Progress' /\ UNCHANGED Storage!vars
BY ReadTurn, WriteTurn, FlushTurn DEF Piece

\* Every request is a step of the flat storage: a write takes effect at once.
LEMMA RequestSimulated ==
  ASSUME IInv, Progress, MayTruncate = FALSE, Request
  PROVE  Progress' /\ (Storage!Next \/ UNCHANGED Storage!vars)
<1>1. CASE \E pos \in Positions \cup {position}, n \in Counts : ReadAt(pos, n)
  <2>1. PICK pos \in Positions \cup {position}, n \in Counts : ReadAt(pos, n)
    BY <1>1
  <2>2. Progress' /\ (Storage!ReadAt(pos, n) \/ Storage!Synchronize)
    BY <2>1, ReadAtSimulated
  <2>3. ~ Writing
    BY <2>1 DEF ReadAt, Ready, Writing
  <2>. QED
    BY <2>2, <2>3 DEF Storage!Next
<1>2. CASE \E pos \in Positions \cup {position}, bytes \in Payloads : WriteAt(pos, bytes)
  <2>1. PICK pos \in Positions \cup {position}, bytes \in Payloads : WriteAt(pos, bytes)
    BY <1>2
  <2>2. Progress' /\ Storage!WriteAt(pos, bytes)
    BY <2>1, WriteAtSimulated
  <2>3. ~ Writing
    BY <2>1 DEF WriteAt, Ready, Writing
  <2>. QED
    BY <2>2, <2>3 DEF Storage!Next
<1>3. CASE \E newSize \in Sizes : Extend(newSize)
  BY <1>3, ExtendSimulated DEF Storage!Next
<1>4. CASE \E pos \in Positions : SetPosition(pos)
  BY <1>4, SetPositionSimulated DEF Storage!Next
<1>5. CASE Synchronize \/ Close
  BY <1>5, FlushSimulated DEF Storage!Next
<1>6. CASE \E m \in {"readOnly", "modify"} : Open(m)
  BY <1>6, OpenSimulated DEF Storage!Next
<1>. QED
  BY <1>1, <1>2, <1>3, <1>4, <1>5, <1>6 DEF Request

\* Of the returns only that of a read is a step of the flat storage.
LEMMA ReturnSimulated ==
  ASSUME IInv, Progress, Return
  PROVE  Progress' /\ (Storage!Next \/ UNCHANGED Storage!vars)
<1>1. CASE ReadReturn
  <2>1. ~ Writing
    BY <1>1 DEF ReadReturn, Writing
  <2>. QED
    BY <1>1, <2>1, ReadReturnSimulated DEF Storage!Next
<1>2. CASE WriteReturn
  BY <1>2, WriteReturnSimulated
<1>3. CASE SynchronizeReturn \/ Delete
  BY <1>3, FlushReturnSimulated
<1>. QED
  BY <1>1, <1>2, <1>3 DEF Return

\* Nothing changes for the flat storage where nothing changes, or the library
\* empties its buffer.
LEMMA StutterSimulated ==
  ASSUME IInv, Progress, Drain \/ UNCHANGED vars
  PROVE  Progress' /\ UNCHANGED Storage!vars
<1>1. /\ call' = call /\ size' = size /\ extent' = extent /\ position' = position
      /\ result' = result /\ written' = written /\ file' = file /\ fileSize' = fileSize
      /\ cache' = cache /\ buffer' = buffer
  BY DEF Drain, vars, fileVars, imageVars, sizeVars, tableVars, pageVars
<1>2. Progress'
  BY <1>1 DEF Progress, SizeIsReached, WriteProgress, ReadProgress, IsWritten, SeenAt,
              Seen, Done
<1>3. Content' = Content
  BY <1>1 DEF Content, Pending, Writing, Seen
<1>. QED
  BY <1>1, <1>2, <1>3 DEF Storage!vars, Writing

\* The storage behind the cache is a flat array of bytes to its clients: a
\* write takes effect when it is called and a read when it returns, whatever
\* pages the loops in between evict, refill and flush.
THEOREM StorageImplemented ==
  ASSUME MayTruncate = FALSE
  PROVE  Spec => ImplementsStorage
<1>1. Init => Progress /\ Storage!Init
  BY InitSimulated
<1>2. IInv /\ Progress /\ [Next]_vars
        => Progress' /\ (Storage!Next \/ UNCHANGED Storage!vars)
  BY PieceSimulated, ReturnSimulated, RequestSimulated, StutterSimulated DEF Next
<1>3. IInv /\ Progress /\ [Next]_vars => Progress' /\ [Storage!Next]_(Storage!vars)
  BY <1>2
<1>. QED
  BY <1>1, <1>3, Invariance, PTL DEF Spec, ImplementsStorage, Storage!Spec
=============================================================================
