----------------------- MODULE MemoryRawStorageProofs -----------------------
(***************************************************************************)
(* Proofs about MemoryRawStorage, for every page size, every storage that  *)
(* OMUInt32 can address and every set of requests of a client that keeps   *)
(* its positions within the size.                                          *)
(***************************************************************************)
EXTENDS MemoryRawStorage, TLAPS

\* The storage and its last page lie below the modulus of OMUInt32.
WordIsLarge == Limit + PageSize < Word

\* The address of the first byte of a page.
Base(page) == page * PageSize

-----------------------------------------------------------------------------
(* Arithmetic on pages.  Base keeps the products away from the provers.    *)

\* Pages follow one another.
LEMMA BaseFacts ==
  ASSUME NEW x \in Int
  PROVE  /\ Base(x) \in Int
         /\ x >= 0 => Base(x) >= 0
         /\ Base(x + 1) = Base(x) + PageSize
<1>1. PageSize \in Nat /\ PageSize > 0
  BY MemoryAssumption
<1>. QED
  BY <1>1, SMT DEF Base

\* Pages begin, and offsets lie, at natural numbers.
LEMMA BaseNat ==
  ASSUME NEW x \in Nat
  PROVE  Base(x) \in Nat
BY BaseFacts

\* An offset in a page is a natural number less than the page size.
LEMMA OffsetNat ==
  ASSUME NEW o \in Offset
  PROVE  PageSize \in Nat /\ o \in Nat /\ o < PageSize
<1>1. PageSize \in Nat
  BY MemoryAssumption
<1>. QED
  BY <1>1 DEF Offset

\* A later page begins after the end of an earlier one.
LEMMA BaseOrder ==
  ASSUME NEW x \in Int, NEW y \in Int, x < y
  PROVE  Base(x) + PageSize <= Base(y)
<1>1. PageSize \in Nat /\ PageSize > 0
  BY MemoryAssumption
<1>2. PICK d \in Nat : y = x + 1 + d
  <2>. y - x - 1 \in Nat
    OBVIOUS
  <2>. y = x + 1 + (y - x - 1)
    OBVIOUS
  <2>. QED
    OBVIOUS
<1>3. y * PageSize = x * PageSize + PageSize + d * PageSize
  BY <1>1, <1>2, SMT
<1>4. d * PageSize >= 0 /\ d * PageSize \in Int /\ x * PageSize \in Int
  BY <1>1, <1>2, SMT
<1>. QED
  BY <1>1, <1>3, <1>4 DEF Base

\* An address lies in the page of its quotient, at the offset of its remainder.
LEMMA AddressInPage ==
  ASSUME NEW i \in Nat
  PROVE  /\ i \div PageSize \in Nat
         /\ Base(i \div PageSize) <= i
         /\ i < Base(i \div PageSize) + PageSize
         /\ i % PageSize = i - Base(i \div PageSize)
         /\ i % PageSize \in Offset
<1>1. PageSize \in Nat /\ PageSize > 0
  BY MemoryAssumption
<1>. QED
  BY <1>1, SMT DEF Base, Offset

\* Only one page holds an address.
LEMMA PageIsUnique ==
  ASSUME NEW i \in Nat, NEW p \in Int,
         Base(p) <= i, i < Base(p) + PageSize
  PROVE  p = i \div PageSize
<1>. DEFINE q == i \div PageSize
<1>1. /\ q \in Nat /\ Base(q) <= i /\ i < Base(q) + PageSize
  BY AddressInPage
<1>2. Base(p) \in Int /\ Base(q) \in Int /\ PageSize \in Int
  BY <1>1, BaseFacts, MemoryAssumption
<1>. HIDE DEF q
<1>3. ~ p < q
  BY <1>1, <1>2, BaseOrder
<1>4. ~ q < p
  BY <1>1, <1>2, BaseOrder
<1>. QED
  BY <1>1, <1>3, <1>4 DEF q

\* The pages for a size are those that begin before it.
LEMMA PageTotalCounts ==
  ASSUME NEW sz \in Nat, NEW p \in Nat
  PROVE  /\ PageTotal(sz) \in Nat
         /\ p \in 0 .. PageTotal(sz) - 1 <=> Base(p) < sz
         /\ sz <= Base(PageTotal(sz))
         /\ Base(PageTotal(sz)) < sz + PageSize
<1>1. PageSize \in Nat /\ PageSize > 0 /\ Base(p) \in Nat
  BY MemoryAssumption, BaseFacts
<1>2. CASE sz = 0
  <2>1. Base(0) = 0
    BY <1>1 DEF Base
  <2>. QED
    BY <1>1, <1>2, <2>1 DEF PageTotal
<1>3. CASE sz # 0
  <2>1. PICK q : q = (sz - 1) \div PageSize
    OBVIOUS
  <2>2. sz - 1 \in Nat
    BY <1>3
  <2>3. q \in Nat /\ Base(q) <= sz - 1 /\ sz - 1 < Base(q) + PageSize /\ Base(q) \in Nat
    BY <2>1, <2>2, AddressInPage, BaseFacts
  <2>4. PageTotal(sz) = q + 1
    BY <1>3, <2>1 DEF PageTotal
  <2>5. Base(q + 1) = Base(q) + PageSize
    BY <2>3, BaseFacts
  <2>6. p <= q => Base(p) <= Base(q)
    BY <1>1, <2>3, BaseOrder
  <2>7. q < p => Base(q) + PageSize <= Base(p)
    BY <2>3, BaseOrder
  <2>. QED
    BY <1>1, <2>3, <2>4, <2>5, <2>6, <2>7
<1>. QED
  BY <1>2, <1>3

\* A page that begins below the limit, and the one after it, are addressed
\* without wrapping around.
LEMMA PageStartIsBase ==
  ASSUME WordIsLarge, NEW p \in Nat, Base(p) <= Limit + PageSize
  PROVE  PageStart(p) = Base(p)
<1>1. Base(p) \in Nat /\ Word \in Nat /\ Limit \in Nat /\ PageSize \in Nat
  BY MemoryAssumption, BaseFacts
<1>2. Base(p) % Word = Base(p)
  BY <1>1 DEF WordIsLarge
<1>. QED
  BY <1>2 DEF PageStart, Base

-----------------------------------------------------------------------------
(* The pieces of a request.                                                *)

FirstPiece(pos, n) ==
  [page |-> FirstPage(pos), offset |-> pos - Base(FirstPage(pos)),
   count |-> IF LastPage(pos, n) > FirstPage(pos)
               THEN PageSize - (pos - Base(FirstPage(pos))) ELSE n,
   at |-> 0]

LaterPiece(pos, n, i) ==
  [page |-> i, offset |-> 0,
   count |-> IF i < LastPage(pos, n) THEN PageSize ELSE pos + n - Base(i),
   at |-> Base(i) - pos]

LaterPages(pos, n) == FirstPage(pos) + 1 .. LastPage(pos, n)

\* The first and the last page of a request, and where they begin.
LEMMA RequestPages ==
  ASSUME WordIsLarge, NEW pos \in Nat, NEW n \in Nat, pos + n <= Limit
  PROVE  LET first == FirstPage(pos)
             last == LastPage(pos, n)
         IN /\ first \in Nat /\ last \in Nat /\ first <= last
            /\ Base(first) \in Nat /\ Base(last) \in Nat
            /\ Base(first) <= pos /\ pos < Base(first) + PageSize
            /\ Base(last) <= pos + n /\ pos + n < Base(last) + PageSize
            /\ PageStart(first) = Base(first)
            /\ PageStart(last) = Base(last)
<1>1. PICK first : first = FirstPage(pos)
  OBVIOUS
<1>2. PICK last : last = LastPage(pos, n)
  OBVIOUS
<1>3. first \in Nat /\ Base(first) <= pos /\ pos < Base(first) + PageSize
  BY <1>1, AddressInPage DEF FirstPage
<1>4. pos + n \in Nat
  OBVIOUS
<1>5. last \in Nat /\ Base(last) <= pos + n /\ pos + n < Base(last) + PageSize
  BY <1>2, <1>4, AddressInPage DEF LastPage
<1>6. Base(first) \in Nat /\ Base(last) \in Nat /\ PageSize \in Nat /\ Limit \in Nat
  BY <1>3, <1>5, BaseFacts, MemoryAssumption
<1>7. ~ last < first
  BY <1>3, <1>4, <1>5, <1>6, BaseOrder
<1>8. Base(first) <= Limit + PageSize /\ Base(last) <= Limit + PageSize
  BY <1>3, <1>5, <1>6
<1>9. PageStart(first) = Base(first) /\ PageStart(last) = Base(last)
  BY <1>3, <1>5, <1>8, PageStartIsBase
<1>. QED
  BY <1>1, <1>2, <1>3, <1>5, <1>6, <1>7, <1>9

\* A request is cut into its first piece and one for each later page, as far
\* as they are not empty.
LEMMA PiecesAre ==
  ASSUME WordIsLarge, NEW pos \in Nat, NEW n \in Nat, pos + n <= Limit, NEW q
  PROVE  q \in Pieces(pos, n) <=>
           /\ q.count > 0
           /\ \/ q = FirstPiece(pos, n)
              \/ \E i \in LaterPages(pos, n) : q = LaterPiece(pos, n, i)
<1>1. PICK first : first = FirstPage(pos)
  OBVIOUS
<1>2. PICK last : last = LastPage(pos, n)
  OBVIOUS
<1>3. /\ first \in Nat /\ last \in Nat /\ first <= last
      /\ Base(first) \in Nat /\ Base(last) \in Nat
      /\ Base(first) <= pos /\ pos < Base(first) + PageSize
      /\ Base(last) <= pos + n /\ pos + n < Base(last) + PageSize
      /\ PageStart(first) = Base(first)
      /\ PageStart(last) = Base(last)
  BY <1>1, <1>2, RequestPages
<1>4. PageSize \in Nat
  BY MemoryAssumption
<1>. DEFINE firstOffset == pos - Base(first)
            firstCount == IF last > first THEN PageSize - firstOffset ELSE n
            lastCount == IF last > first THEN pos + n - Base(last) ELSE 0
            At(page) == firstCount + (page - first - 1) * PageSize
            all == {[page |-> first, offset |-> firstOffset, count |-> firstCount, at |-> 0]}
              \cup {[page |-> i, offset |-> 0, count |-> PageSize, at |-> At(i)] :
                       i \in first + 1 .. last - 1}
              \cup {[page |-> last, offset |-> 0, count |-> lastCount, at |-> At(last)]}
<1>5. Pieces(pos, n) = {piece \in all : piece.count > 0}
  BY <1>1, <1>2, <1>3 DEF Pieces
<1>6. FirstPiece(pos, n)
        = [page |-> first, offset |-> firstOffset, count |-> firstCount, at |-> 0]
  BY <1>1, <1>2 DEF FirstPiece
<1>7. ASSUME NEW i \in Int, last > first
      PROVE  At(i) = Base(i) - pos
  <2>1. (i - first - 1) * PageSize = i * PageSize - first * PageSize - PageSize
    BY <1>3, <1>4, SMT
  <2>2. i * PageSize \in Int /\ first * PageSize \in Int
    BY <1>3, <1>4, SMT
  <2>. QED
    BY <2>1, <2>2, <1>3, <1>4, <1>7 DEF Base
<1>8. LaterPages(pos, n) = first + 1 .. last
  BY <1>1, <1>2 DEF LaterPages
<1>9. ASSUME NEW i \in first + 1 .. last - 1
      PROVE  LaterPiece(pos, n, i)
               = [page |-> i, offset |-> 0, count |-> PageSize, at |-> At(i)]
  <2>1. At(i) = Base(i) - pos
    BY <1>3, <1>7
  <2>2. i < LastPage(pos, n)
    BY <1>2, <1>3
  <2>. HIDE DEF At
  <2>. QED
    BY <2>1, <2>2 DEF LaterPiece
<1>10. last > first => LaterPiece(pos, n, last)
               = [page |-> last, offset |-> 0, count |-> lastCount, at |-> At(last)]
  <2>. SUFFICES ASSUME last > first
                PROVE  LaterPiece(pos, n, last) = [page |-> last, offset |-> 0,
                                          count |-> lastCount, at |-> At(last)]
    OBVIOUS
  <2>1. At(last) = Base(last) - pos
    BY <1>3, <1>7
  <2>2. ~ last < LastPage(pos, n)
    BY <1>2, <1>3
  <2>. HIDE DEF At
  <2>. QED
    BY <2>1, <2>2 DEF LaterPiece
<1>11. last = first => lastCount = 0
  BY <1>3
<1>. HIDE DEF At, firstCount, lastCount, firstOffset
<1>12. ASSUME q \in Pieces(pos, n)
       PROVE  /\ q.count > 0
              /\ \/ q = FirstPiece(pos, n)
                 \/ \E i \in LaterPages(pos, n) : q = LaterPiece(pos, n, i)
  <2>1. q \in all /\ q.count > 0
    BY <1>5, <1>12
  <2>2. CASE q = [page |-> first, offset |-> firstOffset, count |-> firstCount, at |-> 0]
    BY <2>1, <2>2, <1>6
  <2>3. CASE \E i \in first + 1 .. last - 1 :
               q = [page |-> i, offset |-> 0, count |-> PageSize, at |-> At(i)]
    <3>1. PICK i \in first + 1 .. last - 1 :
               q = [page |-> i, offset |-> 0, count |-> PageSize, at |-> At(i)]
      BY <2>3
    <3>2. q = LaterPiece(pos, n, i) /\ i \in LaterPages(pos, n)
      BY <3>1, <1>3, <1>8, <1>9
    <3>. QED
      BY <2>1, <3>2
  <2>4. CASE q = [page |-> last, offset |-> 0, count |-> lastCount, at |-> At(last)]
    <3>1. last > first
      BY <2>1, <2>4, <1>3, <1>11
    <3>2. q = LaterPiece(pos, n, last) /\ last \in LaterPages(pos, n)
      BY <3>1, <2>4, <1>3, <1>8, <1>10
    <3>. QED
      BY <2>1, <3>2
  <2>. QED
    BY <2>1, <2>2, <2>3, <2>4
<1>13. ASSUME q.count > 0, q = FirstPiece(pos, n)
       PROVE  q \in Pieces(pos, n)
  BY <1>5, <1>6, <1>13
<1>14. ASSUME q.count > 0, NEW i \in LaterPages(pos, n), q = LaterPiece(pos, n, i)
       PROVE  q \in Pieces(pos, n)
  <2>1. CASE i < last
    <3>1. i \in first + 1 .. last - 1
      BY <2>1, <1>3, <1>8
    <3>. QED
      BY <3>1, <1>5, <1>9, <1>14
  <2>2. CASE i = last
    <3>1. last > first
      BY <2>2, <1>3, <1>8
    <3>. QED
      BY <2>2, <3>1, <1>5, <1>10, <1>14
  <2>. QED
    BY <2>1, <2>2, <1>3, <1>8
<1>. QED
  BY <1>12, <1>13, <1>14

\* A piece lies within one page, and its bytes in the client's buffer are those
\* at its addresses.
LEMMA PieceFacts ==
  ASSUME WordIsLarge, NEW pos \in Nat, NEW n \in Nat, pos + n <= Limit,
         NEW q \in Pieces(pos, n)
  PROVE  /\ q.page \in Nat /\ q.offset \in Offset /\ q.count \in Nat \ {0} /\ q.at \in Nat
         /\ q.offset + q.count <= PageSize
         /\ Base(q.page) + q.offset = pos + q.at
         /\ q.at + q.count <= n
<1>1. PICK first : first = FirstPage(pos)
  OBVIOUS
<1>2. PICK last : last = LastPage(pos, n)
  OBVIOUS
<1>3. /\ first \in Nat /\ last \in Nat /\ first <= last
      /\ Base(first) \in Nat /\ Base(last) \in Nat
      /\ Base(first) <= pos /\ pos < Base(first) + PageSize
      /\ Base(last) <= pos + n /\ pos + n < Base(last) + PageSize
  BY <1>1, <1>2, RequestPages
<1>4. PageSize \in Nat /\ PageSize > 0
  BY MemoryAssumption
<1>5. q.count > 0
  BY PiecesAre
<1>6. first < last => Base(first) + PageSize <= Base(last)
  BY <1>3, BaseOrder
<1>7. CASE q = FirstPiece(pos, n)
  <2>1. /\ q.page = first /\ q.offset = pos - Base(first) /\ q.at = 0
        /\ q.count = IF last > first THEN PageSize - (pos - Base(first)) ELSE n
    BY <1>1, <1>2, <1>7 DEF FirstPiece
  <2>2. CASE last > first
    BY <2>1, <2>2, <1>3, <1>4, <1>6 DEF Offset
  <2>3. CASE last = first
    BY <2>1, <2>3, <1>3, <1>4, <1>5 DEF Offset
  <2>. QED
    BY <2>2, <2>3, <1>3
<1>8. ASSUME NEW i \in LaterPages(pos, n), q = LaterPiece(pos, n, i)
      PROVE  /\ q.page \in Nat /\ q.offset \in Offset /\ q.count \in Nat \ {0} /\ q.at \in Nat
             /\ q.offset + q.count <= PageSize
             /\ Base(q.page) + q.offset = pos + q.at
             /\ q.at + q.count <= n
  <2>1. i \in Int /\ first < i /\ i <= last
    BY <1>1, <1>2, <1>3 DEF LaterPages
  <2>2. /\ q.page = i /\ q.offset = 0 /\ q.at = Base(i) - pos
        /\ q.count = IF i < last THEN PageSize ELSE pos + n - Base(i)
    BY <1>2, <1>8 DEF LaterPiece
  <2>3. Base(i) \in Int /\ Base(first) + PageSize <= Base(i)
    BY <2>1, <1>3, BaseFacts, BaseOrder
  <2>4. i < last => Base(i) + PageSize <= Base(last)
    BY <2>1, <1>3, BaseOrder
  <2>5. CASE i < last
    BY <2>1, <2>2, <2>3, <2>4, <2>5, <1>3, <1>4 DEF Offset
  <2>6. CASE i = last
    BY <2>1, <2>2, <2>3, <2>6, <1>3, <1>4, <1>5 DEF Offset
  <2>. QED
    BY <2>1, <2>5, <2>6, <1>3
<1>. QED
  BY <1>7, <1>8, PiecesAre

\* A page has one piece of a request at most.
LEMMA PieceIsUnique ==
  ASSUME WordIsLarge, NEW pos \in Nat, NEW n \in Nat, pos + n <= Limit,
         NEW q \in Pieces(pos, n), NEW r \in Pieces(pos, n), q.page = r.page
  PROVE  q = r
<1>1. FirstPage(pos) \in Nat
  BY RequestPages
<1>2. FirstPiece(pos, n).page = FirstPage(pos)
  BY DEF FirstPiece
<1>3. \A i \in LaterPages(pos, n) :
        LaterPiece(pos, n, i).page = i /\ i # FirstPage(pos)
  BY <1>1 DEF LaterPiece, LaterPages
<1>. QED
  BY <1>2, <1>3, PiecesAre

\* Every byte of a request lies in a piece, the one of its page.
LEMMA EveryByteHasAPiece ==
  ASSUME WordIsLarge, NEW pos \in Nat, NEW n \in Nat, pos + n <= Limit,
         NEW k \in 0 .. n - 1
  PROVE  \E q \in Pieces(pos, n) : k \in q.at .. q.at + q.count - 1
<1>1. PICK first : first = FirstPage(pos)
  OBVIOUS
<1>2. PICK last : last = LastPage(pos, n)
  OBVIOUS
<1>3. /\ first \in Nat /\ last \in Nat /\ first <= last
      /\ Base(first) \in Nat /\ Base(last) \in Nat
      /\ Base(first) <= pos /\ pos < Base(first) + PageSize
      /\ Base(last) <= pos + n /\ pos + n < Base(last) + PageSize
  BY <1>1, <1>2, RequestPages
<1>4. PageSize \in Nat /\ PageSize > 0
  BY MemoryAssumption
<1>5. PICK i : i = (pos + k) \div PageSize
  OBVIOUS
<1>6. pos + k \in Nat /\ k \in Nat /\ k < n
  OBVIOUS
<1>7. i \in Nat /\ Base(i) <= pos + k /\ pos + k < Base(i) + PageSize /\ Base(i) \in Nat
  BY <1>5, <1>6, AddressInPage, BaseFacts
<1>8. ~ i < first
  BY <1>3, <1>4, <1>6, <1>7, BaseOrder
<1>9. ~ last < i
  BY <1>3, <1>4, <1>6, <1>7, BaseOrder
<1>10. CASE i = first
  <2>1. PICK q : q = FirstPiece(pos, n)
    OBVIOUS
  <2>2. q.at = 0
        /\ q.count = IF last > first THEN PageSize - (pos - Base(first)) ELSE n
    BY <1>1, <1>2, <2>1 DEF FirstPiece
  <2>3. q.count \in Nat /\ k < q.count
    BY <2>2, <1>3, <1>4, <1>6, <1>7, <1>10
  <2>4. q \in Pieces(pos, n)
    BY <2>1, <2>3, <1>6, PiecesAre
  <2>. QED
    BY <2>2, <2>3, <2>4, <1>6
<1>11. CASE first < i
  <2>1. PICK q : q = LaterPiece(pos, n, i)
    OBVIOUS
  <2>2. q.at = Base(i) - pos
        /\ q.count = IF i < last THEN PageSize ELSE pos + n - Base(i)
    BY <1>2, <2>1 DEF LaterPiece
  <2>3. q.count \in Nat /\ q.count > 0 /\ q.at \in Int /\ q.at <= k /\ k < q.at + q.count
    BY <2>2, <1>3, <1>4, <1>6, <1>7, <1>11
  <2>4. i \in LaterPages(pos, n)
    BY <1>1, <1>2, <1>3, <1>7, <1>9, <1>11 DEF LaterPages
  <2>5. q \in Pieces(pos, n)
    BY <2>1, <2>3, <2>4, PiecesAre
  <2>. QED
    BY <2>3, <2>5, <1>6
<1>. QED
  BY <1>3, <1>7, <1>8, <1>9, <1>10, <1>11

\* The pages of a request begin before its end.
LEMMA RequestIsOnPages ==
  ASSUME WordIsLarge, NEW pos \in Nat, NEW n \in Nat, pos + n <= Limit,
         NEW sz \in Nat, pos + n <= sz, NEW vector, DOMAIN vector = 0 .. PageTotal(sz) - 1
  PROVE  /\ Supported(pos, n)
         /\ ValidPieces(Pieces(pos, n), vector)
<1>1. PageSize \in Nat /\ PageSize > 0 /\ Word \in Nat /\ Limit \in Nat
  BY MemoryAssumption
<1>2. Supported(pos, n)
  <2>1. PICK first : first = FirstPage(pos)
    OBVIOUS
  <2>2. PICK last : last = LastPage(pos, n)
    OBVIOUS
  <2>3. /\ first \in Nat /\ last \in Nat
        /\ Base(first) \in Nat /\ Base(last) \in Nat
        /\ Base(first) <= pos /\ pos < Base(first) + PageSize
        /\ Base(last) <= pos + n /\ pos + n < Base(last) + PageSize
        /\ PageStart(first) = Base(first) /\ PageStart(last) = Base(last)
    BY <2>1, <2>2, RequestPages
  <2>4. PageSize < Word
    BY <1>1 DEF WordIsLarge
  <2>. QED
    BY <1>1, <2>1, <2>2, <2>3, <2>4 DEF Supported
<1>3. ASSUME NEW q \in Pieces(pos, n)
      PROVE  q.page \in DOMAIN vector /\ q.offset < PageSize /\ q.count <= PageSize
  <2>1. /\ q.page \in Nat /\ q.offset \in Offset /\ q.count \in Nat \ {0} /\ q.at \in Nat
        /\ q.offset + q.count <= PageSize
        /\ Base(q.page) + q.offset = pos + q.at
        /\ q.at + q.count <= n
    BY PieceFacts
  <2>2. Base(q.page) \in Nat /\ q.offset \in Nat /\ q.offset < PageSize
    BY <2>1, BaseNat, OffsetNat
  <2>3. Base(q.page) < sz
    <3>1. PICK c \in Nat : c = q.count
      BY <2>1
    <3>2. PICK at \in Nat : at = q.at
      BY <2>1
    <3>3. c > 0 /\ at + c <= n
      BY <2>1, <3>1, <3>2
    <3>4. Base(q.page) <= pos + at
      BY <2>1, <2>2, <3>2
    <3>. QED
      BY <2>2, <3>3, <3>4
  <2>4. q.page \in DOMAIN vector
    BY <2>1, <2>3, PageTotalCounts
  <2>. QED
    BY <1>1, <2>1, <2>2, <2>4
<1>. QED
  BY <1>2, <1>3 DEF ValidPieces

\* A read delivers the byte at each address of the request.
LEMMA GatherReads ==
  ASSUME WordIsLarge, NEW pos \in Nat, NEW n \in Nat, pos + n <= Limit,
         NEW k \in 1 .. n
  PROVE  Gather(Pieces(pos, n), n)[k]
           = pages[(pos + k - 1) \div PageSize][(pos + k - 1) % PageSize]
<1>. DEFINE Holds(q) == k - 1 \in q.at .. q.at + q.count - 1
<1>1. PICK q : q = CHOOSE r \in Pieces(pos, n) : Holds(r)
  OBVIOUS
<1>2. k - 1 \in 0 .. n - 1
  OBVIOUS
<1>3. q \in Pieces(pos, n) /\ Holds(q)
  BY <1>1, <1>2, EveryByteHasAPiece
<1>4. Gather(Pieces(pos, n), n)[k] = pages[q.page][q.offset + k - 1 - q.at]
  BY <1>1 DEF Gather
<1>5. /\ q.page \in Nat /\ q.offset \in Offset /\ q.count \in Nat \ {0} /\ q.at \in Nat
      /\ q.offset + q.count <= PageSize
      /\ Base(q.page) + q.offset = pos + q.at
  BY <1>3, PieceFacts
<1>6. PageSize \in Nat /\ Base(q.page) \in Nat /\ q.offset \in Nat
  BY <1>5, BaseNat, OffsetNat
<1>7. PICK i : i = pos + k - 1
  OBVIOUS
<1>8. i \in Nat /\ Base(q.page) <= i /\ i < Base(q.page) + PageSize
  BY <1>3, <1>5, <1>6, <1>7
<1>9. q.page = i \div PageSize
  BY <1>5, <1>8, PageIsUnique
<1>10. i % PageSize = i - Base(q.page)
  BY <1>8, <1>9, AddressInPage
<1>11. q.offset + k - 1 - q.at = i % PageSize
  BY <1>5, <1>6, <1>7, <1>10
<1>. QED
  BY <1>4, <1>7, <1>9, <1>11

\* A write puts each byte of the request at its address and touches no other.
LEMMA ScatterWrites ==
  ASSUME WordIsLarge, NEW pos \in Nat, NEW n \in Nat, pos + n <= Limit,
         NEW vector, NEW bytes, NEW p \in DOMAIN vector, p \in Nat, NEW o \in Offset,
         NEW i, i = Base(p) + o
  PROVE  Scatter(Pieces(pos, n), vector, bytes)[p][o]
           = IF i \in pos .. pos + n - 1 THEN bytes[i - pos + 1]
                                                   ELSE vector[p][o]
<1>. DEFINE Holds(q) == q.page = p /\ o \in q.offset .. q.offset + q.count - 1
            OfPage == CHOOSE q \in Pieces(pos, n) : q.page = p
<1>1. Scatter(Pieces(pos, n), vector, bytes)[p][o]
        = IF \E q \in Pieces(pos, n) : Holds(q)
            THEN bytes[OfPage.at + o - OfPage.offset + 1]
            ELSE vector[p][o]
  BY DEF Scatter
<1>2. /\ PageSize \in Nat /\ Base(p) \in Nat /\ o \in Nat /\ o < PageSize
      /\ i \in Nat
  BY BaseNat, OffsetNat
<1>3. CASE \E q \in Pieces(pos, n) : Holds(q)
  <2>1. PICK q \in Pieces(pos, n) : Holds(q)
    BY <1>3
  <2>2. OfPage = q
    <3>1. OfPage \in Pieces(pos, n) /\ OfPage.page = p
      BY <2>1
    <3>. QED
      BY <2>1, <3>1, PieceIsUnique
  <2>3. /\ q.offset \in Offset /\ q.count \in Nat \ {0} /\ q.at \in Nat
        /\ Base(p) + q.offset = pos + q.at
        /\ q.at + q.count <= n
    BY <2>1, PieceFacts
  <2>4. q.offset \in Nat /\ q.offset <= o /\ o < q.offset + q.count
    BY <2>1, <2>3 DEF Offset
  <2>5. i \in pos .. pos + n - 1
    BY <1>2, <2>3, <2>4
  <2>6. q.at + o - q.offset + 1 = i - pos + 1
    <3>1. i = Base(p) + o /\ Base(p) \in Int /\ q.offset \in Int /\ q.at \in Int
      BY <1>2, <2>3, <2>4
    <3>2. q.at - q.offset = Base(p) - pos
      BY <2>3, <3>1
    <3>. QED
      BY <1>2, <3>1, <3>2
  <2>. QED
    BY <1>1, <1>3, <2>2, <2>5, <2>6
<1>4. CASE i \in pos .. pos + n - 1
  <2>1. PICK k : k = i - pos
    OBVIOUS
  <2>2. k \in 0 .. n - 1
    BY <1>2, <1>4, <2>1
  <2>3. PICK q \in Pieces(pos, n) : k \in q.at .. q.at + q.count - 1
    BY <2>2, EveryByteHasAPiece
  <2>4. /\ q.page \in Nat /\ q.offset \in Offset /\ q.count \in Nat \ {0} /\ q.at \in Nat
        /\ q.offset + q.count <= PageSize
        /\ Base(q.page) + q.offset = pos + q.at
    BY PieceFacts
  <2>5. q.offset \in Nat /\ Base(q.page) \in Nat
    BY <2>4, BaseFacts DEF Offset
  <2>7. /\ i \in Nat
        /\ Base(q.page) <= i /\ i < Base(q.page) + PageSize
        /\ Base(p) <= i /\ i < Base(p) + PageSize
    BY <1>2, <2>1, <2>3, <2>4, <2>5
  <2>8. q.page = p
    BY <2>4, <2>7, PageIsUnique
  <2>9. Holds(q)
    BY <1>2, <2>1, <2>3, <2>4, <2>5, <2>8
  <2>. QED
    BY <2>9, <1>3
<1>. QED
  BY <1>1, <1>3, <1>4

-----------------------------------------------------------------------------
(* The inductive invariant: the types, and nothing at or after the size has *)
(* been written since the storage was last that small.                      *)

IInv ==
  /\ TypeOK
  /\ written \subseteq 0 .. size - 1

\* Growing or shrinking the vector gives it the pages asked for, and keeps
\* those there were.
LEMMA ResizedPages ==
  ASSUME TypeOK, NEW total \in Nat
  PROVE  /\ DOMAIN Resized(total) = 0 .. total - 1
         /\ \A p \in 0 .. total - 1 :
              /\ Resized(total)[p] \in [Offset -> Byte]
              /\ p \in DOMAIN pages => Resized(total)[p] = pages[p]
BY DEF Resized, TypeOK, Byte

\* A vector with the pages for a size is consistent with it.
LEMMA SizesAreConsistent ==
  ASSUME WordIsLarge, NEW sz \in 0 .. Limit
  PROVE  /\ Consistent(sz, PageTotal(sz))
         /\ PageTotal(sz) \in Nat
<1>1. /\ PageTotal(sz) \in Nat
      /\ sz <= Base(PageTotal(sz))
      /\ Base(PageTotal(sz)) < sz + PageSize
  <2>1. sz \in Nat /\ 0 \in Nat
    BY MemoryAssumption
  <2>. QED
    BY <2>1, PageTotalCounts
<1>2. Base(PageTotal(sz)) \in Nat /\ PageSize \in Nat /\ Limit \in Nat
  BY <1>1, BaseNat, MemoryAssumption
<1>3. Base(PageTotal(sz)) <= Limit + PageSize
  BY <1>1, <1>2
<1>4. PageStart(PageTotal(sz)) = Base(PageTotal(sz))
  BY <1>1, <1>3, PageStartIsBase
<1>. QED
  BY <1>1, <1>4 DEF Consistent

\* An address before the size lies on a page there is.
LEMMA AddressHasAPage ==
  ASSUME TypeOK, NEW i \in Nat, i < size
  PROVE  /\ i \div PageSize \in DOMAIN pages
         /\ i % PageSize \in Offset
         /\ pages[i \div PageSize][i % PageSize] \in Byte
<1>1. size \in Nat /\ DOMAIN pages = 0 .. PageTotal(size) - 1
  BY MemoryAssumption DEF TypeOK
<1>2. PICK p : p = i \div PageSize
  OBVIOUS
<1>3. p \in Nat /\ Base(p) <= i /\ i % PageSize \in Offset
  BY <1>2, AddressInPage
<1>4. Base(p) \in Nat
  BY <1>3, BaseNat
<1>5. Base(p) < size
  BY <1>1, <1>3, <1>4
<1>6. p \in DOMAIN pages
  BY <1>1, <1>3, <1>5, PageTotalCounts
<1>7. pages[p] \in [Offset -> Byte]
  BY <1>6 DEF TypeOK
<1>. QED
  BY <1>2, <1>3, <1>6, <1>7

\* A read from a position within the size fails no assertion and delivers the
\* bytes at the addresses read.
LEMMA ReadEffect ==
  ASSUME WordIsLarge, IInv, failed = "none", NEW pos \in 0 .. size,
         NEW n \in Nat \ {0}, Read(pos, n)
  PROVE  LET count == ReadableCount(pos, n)
         IN /\ failed' = "none"
            /\ count \in Nat
            /\ count = IF n < size - pos THEN n ELSE size - pos
            /\ pos + count <= size
            /\ result' \in [1 .. count -> Byte]
            /\ \A k \in 1 .. count :
                 result'[k] = pages[(pos + k - 1) \div PageSize][(pos + k - 1) % PageSize]
            /\ position' = pos + count
            /\ UNCHANGED <<pages, size, written>>
<1>1. PICK count : count = ReadableCount(pos, n)
  OBVIOUS
<1>2. size \in Nat /\ size <= Limit /\ Limit \in Nat /\ pos \in Nat /\ pos <= size
  BY MemoryAssumption DEF IInv, TypeOK
<1>3. count = IF n < size - pos THEN n ELSE size - pos
  BY <1>1, <1>2 DEF ReadableCount
<1>4. count \in Nat /\ pos + count <= size /\ pos + count <= Limit
  BY <1>2, <1>3
<1>5. DOMAIN pages = 0 .. PageTotal(size) - 1
  BY DEF IInv, TypeOK
<1>6. Supported(pos, count) /\ ValidPieces(Pieces(pos, count), pages)
  BY <1>2, <1>4, <1>5, RequestIsOnPages
<1>7. /\ failed' = "none"
      /\ result' = Gather(Pieces(pos, count), count)
      /\ position' = pos + count
      /\ UNCHANGED <<pages, size, written>>
  BY <1>1, <1>6 DEF Read, Succeeds
<1>8. ASSUME NEW k \in 1 .. count
      PROVE  /\ result'[k] = pages[(pos + k - 1) \div PageSize][(pos + k - 1) % PageSize]
             /\ result'[k] \in Byte
  <2>1. result'[k] = pages[(pos + k - 1) \div PageSize][(pos + k - 1) % PageSize]
    BY <1>2, <1>4, <1>7, GatherReads
  <2>2. PICK i : i = pos + k - 1
    OBVIOUS
  <2>3. i \in Nat /\ i < size
    BY <1>2, <1>4, <2>2
  <2>4. pages[i \div PageSize][i % PageSize] \in Byte
    BY <2>3, AddressHasAPage DEF IInv
  <2>. QED
    BY <2>1, <2>2, <2>4
<1>9. result' \in [1 .. count -> Byte]
  <2>1. result' = [k \in 1 .. count |-> result'[k]]
    BY <1>7 DEF Gather
  <2>. QED
    BY <1>8, <2>1
<1>. QED
  BY <1>1, <1>3, <1>4, <1>7, <1>8, <1>9

\* A write from a position within the size fails no assertion, and puts its
\* bytes in their place on the pages for the new size.
LEMMA WriteEffect ==
  ASSUME WordIsLarge, IInv, failed = "none", NEW pos \in 0 .. size,
         NEW bytes \in Payloads, Write(pos, bytes)
  PROVE  LET n == Len(bytes)
         IN /\ failed' = "none"
            /\ n \in Nat \ {0} /\ bytes \in [1 .. n -> Value] /\ pos + n <= Limit
            /\ pages' = Scatter(Pieces(pos, n), Target(pos, n), bytes)
            /\ DOMAIN Target(pos, n) = 0 .. PageTotal(Larger(size, pos + n)) - 1
            /\ \A p \in DOMAIN Target(pos, n) :
                 /\ Target(pos, n)[p] \in [Offset -> Byte]
                 /\ p \in DOMAIN pages => Target(pos, n)[p] = pages[p]
            /\ size' = Larger(size, pos + n)
            /\ position' = pos + n
            /\ result' = <<>>
            /\ written' = written \cup (pos .. pos + n - 1)
<1>1. PICK n : n = Len(bytes)
  OBVIOUS
<1>2. size \in Nat /\ size <= Limit /\ Limit \in Nat /\ pos \in Nat /\ pos <= size
  BY MemoryAssumption DEF IInv, TypeOK
<1>3. bytes \in Seq(Value) /\ bytes # <<>>
  BY MemoryAssumption
<1>4. n \in Nat \ {0} /\ bytes \in [1 .. n -> Value]
  BY <1>1, <1>3
<1>5. pos + n <= Limit
  BY <1>1 DEF Write
<1>6. pos + n \in 0 .. Limit
  BY <1>2, <1>4, <1>5
<1>7. Consistent(pos + n, PageTotal(pos + n)) /\ PageTotal(pos + n) \in Nat
  BY <1>6, SizesAreConsistent
<1>8. PICK sz : sz = Larger(size, pos + n)
  OBVIOUS
<1>9. sz \in Nat /\ pos + n <= sz
  BY <1>2, <1>4, <1>8 DEF Larger
<1>10. PICK target : target = Target(pos, n)
  OBVIOUS
<1>11. /\ DOMAIN target = 0 .. PageTotal(sz) - 1
       /\ \A p \in DOMAIN target :
            /\ target[p] \in [Offset -> Byte]
            /\ p \in DOMAIN pages => target[p] = pages[p]
  <2>1. CASE pos + n > size
    <3>1. target = Resized(PageTotal(pos + n)) /\ sz = pos + n
      BY <2>1, <1>2, <1>4, <1>8, <1>10 DEF Target, Larger
    <3>. QED
      BY <3>1, <1>7, ResizedPages DEF IInv
  <2>2. CASE ~ pos + n > size
    <3>1. target = pages /\ sz = size
      BY <2>2, <1>2, <1>4, <1>8, <1>10 DEF Target, Larger
    <3>. QED
      BY <3>1 DEF IInv, TypeOK
  <2>. QED
    BY <2>1, <2>2
<1>12. Supported(pos, n) /\ ValidPieces(Pieces(pos, n), target)
  BY <1>2, <1>4, <1>5, <1>9, <1>11, RequestIsOnPages
<1>13. /\ failed' = "none"
       /\ pages' = Scatter(Pieces(pos, n), target, bytes)
       /\ size' = sz
       /\ position' = pos + n
       /\ result' = <<>>
       /\ written' = written \cup (pos .. pos + n - 1)
  BY <1>1, <1>7, <1>8, <1>10, <1>12 DEF Write, Succeeds
<1>. QED
  BY <1>1, <1>4, <1>5, <1>8, <1>10, <1>11, <1>13

\* Growing and writing leave every page of bytes a page of bytes.
LEMMA WrittenPages ==
  ASSUME WordIsLarge, NEW pos \in Nat, NEW n \in Nat, pos + n <= Limit,
         NEW bytes \in [1 .. n -> Value], NEW vector, NEW p \in DOMAIN vector, p \in Nat,
         vector[p] \in [Offset -> Byte]
  PROVE  Scatter(Pieces(pos, n), vector, bytes)[p] \in [Offset -> Byte]
<1>. DEFINE page == Scatter(Pieces(pos, n), vector, bytes)[p]
<1>1. ASSUME NEW o \in Offset
      PROVE  page[o] \in Byte
  <2>1. PICK b : b = Base(p) + o
    OBVIOUS
  <2>2. page[o] = IF b \in pos .. pos + n - 1 THEN bytes[b - pos + 1] ELSE vector[p][o]
    BY <2>1, ScatterWrites
  <2>3. b \in pos .. pos + n - 1 => b - pos + 1 \in 1 .. n
    OBVIOUS
  <2>4. vector[p][o] \in Byte
    OBVIOUS
  <2>. QED
    <3>1. CASE b \in pos .. pos + n - 1
      <4>1. bytes[b - pos + 1] \in Value
        BY <2>3, <3>1
      <4>. QED
        BY <2>2, <3>1, <4>1 DEF Byte
    <3>. QED
      BY <2>2, <2>4, <3>1
<1>2. page = [o \in Offset |-> page[o]]
  BY DEF Scatter
<1>. QED
  BY <1>1, <1>2

\* What a client may rely on of its byte counts and positions.
LEMMA Limits ==
  ASSUME IInv
  PROVE  /\ Limit \in Nat \ {0}
         /\ size \in Nat /\ size <= Limit
         /\ position \in Nat /\ position <= Limit
         /\ written \subseteq 0 .. Limit - 1
         /\ \A i \in written : i \in Nat /\ i < size
BY MemoryAssumption DEF IInv, TypeOK

\* A read keeps the invariant, and is a read of the flat storage.
LEMMA ReadStep ==
  ASSUME WordIsLarge, IInv, failed = "none", NEW pos \in 0 .. size,
         NEW n \in Counts, Read(pos, n)
  PROVE  IInv' /\ failed' = "none" /\ Storage!ReadAt(pos, n)
<1>1. n \in Nat \ {0}
  BY MemoryAssumption
<1>2. PICK count : count = ReadableCount(pos, n)
  OBVIOUS
<1>3. /\ failed' = "none"
      /\ count \in Nat
      /\ count = IF n < size - pos THEN n ELSE size - pos
      /\ pos + count <= size
      /\ result' \in [1 .. count -> Byte]
      /\ \A k \in 1 .. count :
           result'[k] = pages[(pos + k - 1) \div PageSize][(pos + k - 1) % PageSize]
      /\ position' = pos + count
      /\ UNCHANGED <<pages, size, written>>
  BY <1>1, <1>2, ReadEffect
<1>4. /\ Limit \in Nat \ {0} /\ size \in Nat /\ size <= Limit
      /\ pos \in Nat /\ pos <= size
  BY Limits
<1>5. IInv'
  <2>1. position' \in 0 .. Limit
    BY <1>3, <1>4
  <2>2. result' \in Seq(Byte)
    BY <1>3
  <2>. QED
    BY <1>3, <2>1, <2>2 DEF IInv, TypeOK
<1>6. Storage!ReadCount(pos, n) = count
  BY <1>1, <1>3, <1>4 DEF Storage!ReadCount, Storage!Smaller
<1>7. ASSUME NEW k \in 1 .. count, Content[pos + k - 1] # Undef
      PROVE  result'[k] = Content[pos + k - 1]
  <2>1. pos + k - 1 \in 0 .. Limit - 1
    BY <1>3, <1>4
  <2>. QED
    BY <1>3, <1>7, <2>1 DEF Content
<1>8. Storage!Delivers(pos, n, result')
  BY <1>3, <1>6, <1>7 DEF Storage!Delivers
<1>9. Content' = Content
  BY <1>3 DEF Content
<1>10. position' \in {position, pos} \/ count > 0
  BY <1>3, <1>4
<1>11. Storage!ReadAt(pos, n)
  BY <1>3, <1>6, <1>8, <1>9, <1>10 DEF Storage!ReadAt
<1>. QED
  BY <1>3, <1>5, <1>11

\* A write keeps the invariant, and is a write of the flat storage.
LEMMA WriteStep ==
  ASSUME WordIsLarge, IInv, failed = "none", NEW pos \in 0 .. size,
         NEW bytes \in Payloads, Write(pos, bytes)
  PROVE  IInv' /\ failed' = "none" /\ Storage!WriteAt(pos, bytes)
<1>1. PICK n : n = Len(bytes)
  OBVIOUS
<1>2. PICK target : target = Target(pos, n)
  OBVIOUS
<1>3. PICK sz : sz = Larger(size, pos + n)
  OBVIOUS
<1>4. /\ failed' = "none"
      /\ n \in Nat \ {0} /\ bytes \in [1 .. n -> Value] /\ pos + n <= Limit
      /\ pages' = Scatter(Pieces(pos, n), target, bytes)
      /\ DOMAIN target = 0 .. PageTotal(sz) - 1
      /\ \A p \in DOMAIN target :
           /\ target[p] \in [Offset -> Byte]
           /\ p \in DOMAIN pages => target[p] = pages[p]
      /\ size' = sz
      /\ position' = pos + n
      /\ result' = <<>>
      /\ written' = written \cup (pos .. pos + n - 1)
  BY <1>1, <1>2, <1>3, WriteEffect
<1>5. /\ Limit \in Nat \ {0} /\ size \in Nat /\ size <= Limit
      /\ pos \in Nat /\ pos <= size
      /\ \A i \in written : i \in Nat /\ i < size
  BY Limits
<1>6. sz \in Nat /\ sz <= Limit /\ size <= sz /\ pos + n <= sz
  BY <1>3, <1>4, <1>5 DEF Larger
<1>7. DOMAIN pages' = DOMAIN target
  BY <1>4 DEF Scatter
<1>8. ASSUME NEW p \in DOMAIN pages'
      PROVE  pages'[p] \in [Offset -> Byte]
  <2>1. p \in DOMAIN target /\ p \in Nat
    <3>1. PageTotal(sz) \in Nat
      BY <1>6, PageTotalCounts
    <3>. QED
      BY <1>4, <1>7, <3>1
  <2>2. target[p] \in [Offset -> Byte]
    BY <1>4, <2>1
  <2>. QED
    BY <1>4, <1>5, <2>1, <2>2, WrittenPages
<1>9. written' \subseteq 0 .. sz - 1
  BY <1>4, <1>5, <1>6
<1>10. IInv'
  <2>1. size' \in 0 .. Limit /\ position' \in 0 .. Limit
    BY <1>4, <1>5, <1>6
  <2>2. result' \in Seq(Byte)
    BY <1>4
  <2>3. written' \in SUBSET (0 .. Limit - 1)
    BY <1>5, <1>6, <1>9
  <2>4. DOMAIN pages' = 0 .. PageTotal(size') - 1
    BY <1>4, <1>7
  <2>. QED
    BY <1>4, <1>8, <1>9, <2>1, <2>2, <2>3, <2>4 DEF IInv, TypeOK
<1>11. ASSUME NEW i \in 0 .. Limit - 1
       PROVE  Content'[i] = IF i \in pos .. pos + n - 1 THEN bytes[i - pos + 1]
                                                       ELSE Content[i]
  <2>1. Content'[i] = IF i \in written' THEN pages'[i \div PageSize][i % PageSize]
                                        ELSE Undef
    BY DEF Content
  <2>2. Content[i] = IF i \in written THEN pages[i \div PageSize][i % PageSize]
                                      ELSE Undef
    BY DEF Content
  <2>3. i \in Nat
    OBVIOUS
  <2>4. PICK p : p = i \div PageSize
    OBVIOUS
  <2>10. PICK o : o = i % PageSize
    OBVIOUS
  <2>5. i < sz => p \in DOMAIN target
    <3>1. p \in Nat /\ Base(p) <= i
      BY <2>3, <2>4, AddressInPage
    <3>2. Base(p) \in Nat
      BY <3>1, BaseNat
    <3>3. i < sz => Base(p) < sz
      BY <2>3, <3>1, <3>2, <1>6
    <3>. QED
      BY <1>4, <1>6, <3>1, <3>3, PageTotalCounts
  <2>6. i < sz => pages'[p][o]
                    = IF i \in pos .. pos + n - 1 THEN bytes[i - pos + 1]
                                                  ELSE target[p][o]
    <3>. SUFFICES ASSUME i < sz
                  PROVE  pages'[p][o]
                           = IF i \in pos .. pos + n - 1 THEN bytes[i - pos + 1]
                                                         ELSE target[p][o]
      OBVIOUS
    <3>1. /\ p \in DOMAIN target /\ i \in Nat
          /\ pos \in Nat /\ n \in Nat /\ pos + n <= Limit
      BY <1>4, <1>5, <2>3, <2>5
    <3>2. Scatter(Pieces(pos, n), target, bytes)[p][o]
            = IF i \in pos .. pos + n - 1 THEN bytes[i - pos + 1] ELSE target[p][o]
      <4>1. p \in Nat /\ o \in Offset /\ i = Base(p) + o
        <5>1. p \in Nat /\ o \in Offset /\ o = i - Base(p)
          BY <2>4, <2>10, <3>1, AddressInPage
        <5>2. Base(p) \in Nat
          BY <5>1, BaseNat
        <5>. QED
          BY <3>1, <5>1, <5>2
      <4>. QED
        BY <3>1, <4>1, ScatterWrites
    <3>. QED
      BY <1>4, <3>2
  <2>7. CASE i \in pos .. pos + n - 1
    BY <1>4, <1>5, <1>6, <2>1, <2>3, <2>4, <2>6, <2>10, <2>7
  <2>8. CASE i \notin pos .. pos + n - 1 /\ i \in written
    <3>1. i < size
      BY <1>5, <2>8
    <3>4. i < sz
      <4>1. size \in Int /\ sz \in Int /\ i \in Int /\ size <= sz
        BY <1>5, <1>6, <2>3
      <4>. QED
        BY <3>1, <4>1
    <3>2. p \in DOMAIN pages
      BY <2>3, <2>4, <3>1, AddressHasAPage DEF IInv
    <3>3. target[p] = pages[p]
      BY <1>4, <2>5, <3>2, <3>4
    <3>. QED
      BY <1>4, <2>1, <2>2, <2>4, <2>6, <2>10, <2>8, <3>3, <3>4
  <2>9. CASE i \notin pos .. pos + n - 1 /\ i \notin written
    BY <1>4, <2>1, <2>2, <2>9
  <2>. QED
    BY <2>7, <2>8, <2>9
<1>12. Content' = [i \in 0 .. Limit - 1 |->
                     IF i \in pos .. pos + n - 1 THEN bytes[i - pos + 1] ELSE Content[i]]
  <2>1. Content' = [i \in 0 .. Limit - 1 |-> Content'[i]]
    BY DEF Content
  <2>. QED
    BY <1>11, <2>1
<1>13. Storage!WriteAt(pos, bytes)
  <2>1. Storage!Larger(size, pos + n) = sz
    BY <1>3 DEF Storage!Larger, Larger
  <2>. QED
    BY <1>1, <1>4, <1>12, <2>1 DEF Storage!WriteAt, Storage!Address
<1>. QED
  BY <1>4, <1>10, <1>13

\* A change of the size keeps the invariant, and is one of the flat storage.
LEMMA ExtendStep ==
  ASSUME WordIsLarge, IInv, NEW newSize \in Sizes, Extend(newSize)
  PROVE  /\ IInv'
         /\ Storage!Extend(newSize) \/ UNCHANGED Storage!vars
         /\ newSize # 0 => failed' = "none"
<1>1. newSize \in 0 .. Limit
  BY MemoryAssumption
<1>2. Consistent(newSize, PageTotal(newSize)) /\ PageTotal(newSize) \in Nat
  BY <1>1, SizesAreConsistent
<1>3. CASE newSize # size /\ newSize = 0
  <2>1. Fails("Valid index")
    BY <1>3 DEF Extend
  <2>2. /\ failed' \in Assertions
        /\ UNCHANGED <<pages, size, position, result, written>>
    BY <2>1 DEF Fails, Assertions
  <2>3. IInv'
    BY <2>2 DEF IInv, TypeOK
  <2>4. UNCHANGED Storage!vars
    BY <2>2 DEF Storage!vars, Content
  <2>. QED
    BY <1>3, <2>3, <2>4
<1>4. CASE ~ (newSize # size /\ newSize = 0)
  <2>1. /\ failed' = "none"
        /\ pages' = Resized(PageTotal(newSize))
        /\ size' = newSize
        /\ result' = <<>>
        /\ written' = {i \in written : i < newSize}
        /\ UNCHANGED position
    BY <1>2, <1>4 DEF Extend, Succeeds
  <2>2. /\ Limit \in Nat \ {0} /\ size \in Nat /\ size <= Limit
        /\ \A i \in written : i \in Nat /\ i < size
    BY Limits
  <2>3. DOMAIN pages' = 0 .. PageTotal(newSize) - 1
        /\ \A p \in DOMAIN pages' : /\ pages'[p] \in [Offset -> Byte]
                                    /\ p \in DOMAIN pages => pages'[p] = pages[p]
    BY <1>2, <2>1, ResizedPages DEF IInv
  <2>4. IInv'
    <3>1. written' \subseteq 0 .. newSize - 1
      BY <1>1, <2>1, <2>2
    <3>2. written' \in SUBSET (0 .. Limit - 1)
      BY <2>1 DEF IInv, TypeOK
    <3>3. result' \in Seq(Byte)
      BY <2>1
    <3>. QED
      BY <1>1, <2>1, <2>3, <3>1, <3>2, <3>3 DEF IInv, TypeOK
  <2>5. ASSUME NEW i \in 0 .. Limit - 1
        PROVE  /\ Content'[i] \in Byte \cup {Undef}
               /\ Content'[i] = Content[i] \/ (i >= newSize /\ Content'[i] = Undef)
    <3>1. Content'[i] = IF i \in written' THEN pages'[i \div PageSize][i % PageSize]
                                          ELSE Undef
      BY DEF Content
    <3>2. Content[i] = IF i \in written THEN pages[i \div PageSize][i % PageSize]
                                        ELSE Undef
      BY DEF Content
    <3>3. CASE i \in written'
      <4>1. i \in written /\ i \in Nat /\ i < size /\ i < newSize
        BY <2>1, <2>2, <3>3
      <4>2. PICK p : p = i \div PageSize
        OBVIOUS
      <4>3. p \in DOMAIN pages /\ pages[p][i % PageSize] \in Byte
        BY <4>1, <4>2, AddressHasAPage DEF IInv
      <4>4. p \in DOMAIN pages'
        <5>1. p \in Nat /\ Base(p) <= i
          BY <4>1, <4>2, AddressInPage
        <5>2. newSize \in Nat /\ Base(p) \in Nat
          BY <1>1, <5>1, BaseNat
        <5>3. Base(p) < newSize
          BY <4>1, <5>1, <5>2
        <5>. QED
          BY <2>3, <5>1, <5>2, <5>3, PageTotalCounts
      <4>. QED
        BY <2>3, <3>1, <3>2, <3>3, <4>1, <4>2, <4>3, <4>4
    <3>4. CASE i \notin written' /\ i \in written
      <4>1. ~ i < newSize
        BY <2>1, <3>4
      <4>. QED
        BY <1>1, <3>1, <3>4, <4>1
    <3>5. CASE i \notin written' /\ i \notin written
      BY <3>1, <3>2, <3>5
    <3>. QED
      BY <2>1, <3>3, <3>4, <3>5
  <2>6. Content' \in [0 .. Limit - 1 -> Byte \cup {Undef}]
    <3>1. Content' = [i \in 0 .. Limit - 1 |-> Content'[i]]
      BY DEF Content
    <3>. QED
      BY <2>5, <3>1
  <2>7. Storage!Extend(newSize)
    BY <1>1, <2>1, <2>5, <2>6 DEF Storage!Extend, Storage!Address
  <2>. QED
    BY <2>1, <2>4, <2>7
<1>. QED
  BY <1>3, <1>4

-----------------------------------------------------------------------------
(* The theorems.  The client is careful: setPosition asserts that it keeps *)
(* its position within the size, and where a truncation has left the       *)
(* position behind the size it sets it anew before it reads or writes.     *)

\* The invariant holds of a new storage.
LEMMA InvInit == Init => IInv
<1>. SUFFICES ASSUME Init
              PROVE  IInv
  OBVIOUS
<1>1. PageTotal(0) = 0 /\ Limit \in Nat
  BY MemoryAssumption DEF PageTotal
<1>2. DOMAIN pages = {} /\ 0 .. 0 - 1 = {}
  BY DEF Init
<1>. QED
  BY <1>1, <1>2 DEF Init, IInv, TypeOK

\* Each step keeps the invariant, and is a step of the flat storage or leaves
\* it as it was.
LEMMA Step ==
  ASSUME WordIsLarge, Careful, IInv, [Next]_vars
  PROVE  /\ IInv'
         /\ [Storage!Next]_(Storage!vars)
         /\ 0 \notin Sizes /\ failed = "none" => failed' = "none"
<1>1. ASSUME NEW pos \in Positions, NEW n \in Counts, ReadAt(pos, n)
      PROVE  IInv' /\ failed' = "none" /\ Storage!Next
  <2>1. failed = "none" /\ Read(pos, n) /\ pos \in 0 .. size
    BY <1>1, MemoryAssumption DEF ReadAt, IInv, TypeOK
  <2>2. IInv' /\ failed' = "none" /\ Storage!ReadAt(pos, n)
    BY <2>1, ReadStep
  <2>. QED
    BY <2>2 DEF Storage!Next
<1>2. ASSUME NEW pos \in Positions, NEW bytes \in Payloads, WriteAt(pos, bytes)
      PROVE  IInv' /\ failed' = "none" /\ Storage!Next
  <2>1. failed = "none" /\ Write(pos, bytes) /\ pos \in 0 .. size
    BY <1>2, MemoryAssumption DEF WriteAt, IInv, TypeOK
  <2>2. IInv' /\ failed' = "none" /\ Storage!WriteAt(pos, bytes)
    BY <2>1, WriteStep
  <2>. QED
    BY <2>2 DEF Storage!Next
<1>3. ASSUME NEW n \in Counts, ReadHere(n)
      PROVE  IInv' /\ failed' = "none" /\ Storage!Next
  <2>1. failed = "none" /\ Read(position, n) /\ position \in 0 .. size
    BY <1>3 DEF ReadHere, IInv, TypeOK
  <2>2. IInv' /\ failed' = "none" /\ Storage!ReadAt(position, n)
    BY <2>1, ReadStep
  <2>. QED
    BY <2>2 DEF Storage!Next
<1>4. ASSUME NEW bytes \in Payloads, WriteHere(bytes)
      PROVE  IInv' /\ failed' = "none" /\ Storage!Next
  <2>1. failed = "none" /\ Write(position, bytes) /\ position \in 0 .. size
    BY <1>4 DEF WriteHere, IInv, TypeOK
  <2>2. IInv' /\ failed' = "none" /\ Storage!WriteAt(position, bytes)
    BY <2>1, WriteStep
  <2>. QED
    BY <2>2 DEF Storage!Next
<1>5. ASSUME NEW pos \in Positions, SetPosition(pos)
      PROVE  IInv' /\ failed' = "none" /\ Storage!Next
  <2>1. /\ failed' = "none" /\ position' = pos /\ result' = <<>>
        /\ UNCHANGED <<pages, size, written>>
    BY <1>5 DEF SetPosition, Succeeds
  <2>2. pos \in 0 .. Limit
    BY MemoryAssumption
  <2>3. IInv'
    BY <2>1, <2>2 DEF IInv, TypeOK
  <2>4. Storage!SetPosition(pos)
    BY <2>1 DEF Storage!SetPosition, Content
  <2>. QED
    BY <2>1, <2>3, <2>4 DEF Storage!Next
<1>6. ASSUME UNCHANGED vars
      PROVE  IInv' /\ UNCHANGED Storage!vars /\ failed' = failed
  <2>1. IInv' /\ failed' = failed
    BY <1>6 DEF vars, IInv, TypeOK
  <2>2. UNCHANGED Storage!vars
    BY <1>6 DEF vars, Storage!vars, Content
  <2>. QED
    BY <2>1, <2>2
<1>7. ASSUME NEW newSize \in Sizes, Extend(newSize)
      PROVE  /\ IInv'
             /\ [Storage!Next]_(Storage!vars)
             /\ 0 \notin Sizes /\ failed = "none" => failed' = "none"
  <2>1. /\ IInv'
        /\ Storage!Extend(newSize) \/ UNCHANGED Storage!vars
        /\ newSize # 0 => failed' = "none"
    BY <1>7, ExtendStep
  <2>2. [Storage!Next]_(Storage!vars)
    BY <2>1 DEF Storage!Next
  <2>. QED
    BY <2>1, <2>2
<1>. QED
  BY <1>1, <1>2, <1>3, <1>4, <1>5, <1>6, <1>7 DEF Next

\* The inductive invariant holds throughout.
THEOREM Invariance ==
  ASSUME WordIsLarge, Careful
  PROVE  Spec => []IInv
<1>1. IInv /\ [Next]_vars => IInv'
  BY Step
<1>. QED
  BY <1>1, InvInit, PTL DEF Spec

\* The page vector has exactly the pages for the size, each a page of bytes,
\* and the position and the results are what their types say.
THEOREM TypesCorrect ==
  ASSUME WordIsLarge, Careful
  PROVE  Spec => []TypeOK
<1>1. IInv => TypeOK
  BY DEF IInv
<1>. QED
  BY <1>1, Invariance, PTL

\* Every page a request is cut into exists, and no difference or product of two
\* OMUInt32 wraps around: no assertion of OMMemoryRawStorage fails for a careful
\* client that does not truncate the storage to nothing.
THEOREM NoAssertion ==
  ASSUME WordIsLarge, Careful, 0 \notin Sizes
  PROVE  Spec => []NoAssertionFails
<1>1. Init => failed = "none"
  BY DEF Init
<1>2. IInv /\ failed = "none" /\ [Next]_vars => (failed = "none")'
  BY Step
<1>3. failed = "none" <=> NoAssertionFails
  BY DEF NoAssertionFails
<1>. QED
  BY <1>1, <1>2, <1>3, Invariance, PTL DEF Spec

\* Cut into first, whole and last pages, every request reads and writes each
\* byte once and in its place: the paged storage implements the flat one, for a
\* client that truncates to nothing as well.
THEOREM StorageImplemented ==
  ASSUME WordIsLarge, Careful
  PROVE  Spec => ImplementsStorage
<1>1. Init => Storage!Init
  <2>. SUFFICES ASSUME Init
                PROVE  Storage!Init
    OBVIOUS
  <2>1. /\ size = 0 /\ position = 0 /\ result = <<>> /\ written = {}
        /\ Limit \in Nat
    BY MemoryAssumption DEF Init
  <2>2. Content = [i \in 0 .. Limit - 1 |-> Undef]
    BY <2>1 DEF Content
  <2>3. \A i \in 0 .. Limit - 1 : ~ i < 0
    BY <2>1
  <2>. QED
    BY <2>1, <2>2, <2>3 DEF Storage!Init, Storage!Address
<1>2. IInv /\ [Next]_vars => [Storage!Next]_(Storage!vars)
  BY Step
<1>. QED
  BY <1>1, <1>2, Invariance, PTL DEF Spec, ImplementsStorage, Storage!Spec

=============================================================================
