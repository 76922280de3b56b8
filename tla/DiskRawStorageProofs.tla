------------------------ MODULE DiskRawStorageProofs ------------------------
(***************************************************************************)
(* What is proved of DiskRawStorage, for every size of file, every set of  *)
(* bytes and every choice of requests: the buffer of the stream is always  *)
(* the unwritten end of a file opened for modification; a client that      *)
(* positions the storage before it changes direction never meets an error  *)
(* of the stream; and the storage implements the flat array of bytes of    *)
(* RawStorage, whenever the library writes its buffer out.                 *)
(***************************************************************************)
EXTENDS DiskRawStorage, TLAPS

(***************************************************************************)
(* The inductive invariant                                                 *)
(***************************************************************************)

\* The stream is in a direction only if the client went that way since it set
\* the position: no other call leaves it reading or writing.
DirectionIsAsked == last # "none" => asked = last

IInv == TypeOK /\ DirectionIsAsked

(***************************************************************************)
(* The stream                                                              *)
(***************************************************************************)

\* Bytes and sizes the stream gives.
LEMMA StreamTypes ==
  ASSUME TypeOK
  PROVE  /\ \A i \in Address : Seen(i) \in Byte
         /\ StreamSize \in 0 .. Limit
         /\ fileSize <= StreamSize
<1> USE DiskAssumption DEF TypeOK, Address
<1>1. ASSUME NEW i \in Address PROVE Seen(i) \in Byte
  <2>1. CASE position - Len(buffered) <= i /\ i < position
    <3>1. i - (position - Len(buffered)) + 1 \in 1 .. Len(buffered)
      BY <2>1
    <3>2. buffered[i - (position - Len(buffered)) + 1] \in Byte
      BY <3>1
    <3> QED
      BY <2>1, <3>2 DEF Seen
  <2>2. CASE ~ (position - Len(buffered) <= i /\ i < position)
    BY <2>2 DEF Seen
  <2> QED
    BY <2>1, <2>2
<1>2. StreamSize \in 0 .. Limit /\ fileSize <= StreamSize
  BY DEF StreamSize, Larger
<1> QED
  BY <1>1, <1>2

\* No address is in the part of the file that an empty buffer stands for.
LEMMA NoneBetween ==
  ASSUME NEW x \in Int, NEW y, y = 0, NEW i \in Int
  PROVE  ~ (x - y <= i /\ i < x)
OBVIOUS

\* A flush writes what the stream shows to the file, and changes nothing that
\* the stream shows.
LEMMA Flushing ==
  ASSUME TypeOK, Flush, position' \in 0 .. Limit
  PROVE  /\ file' \in [Address -> Byte] /\ fileSize' \in 0 .. Limit /\ buffered' = <<>>
         /\ \A i \in Address : Seen(i)' = Seen(i)
         /\ StreamSize' = StreamSize /\ fileSize' = StreamSize
<1>1. /\ buffered' = <<>> /\ file' = [i \in Address |-> Seen(i)] /\ fileSize' = StreamSize
  BY DEF Flush, Flushed
<1>2. \A i \in Address : Seen(i)' = file'[i]
  <2>1. Len(buffered') = 0 /\ position' \in Int
    BY <1>1, DiskAssumption
  <2>2. ASSUME NEW i \in Address PROVE ~ (position' - Len(buffered') <= i /\ i < position')
    <3>1. i \in Int
      BY DiskAssumption DEF Address
    <3> QED
      BY <2>1, <3>1, NoneBetween
  <2> QED
    BY <2>2 DEF Seen
<1>3. StreamSize' = fileSize'
  BY <1>1 DEF StreamSize
<1> QED
  BY <1>1, <1>2, <1>3, StreamTypes

\* A buffer the library drains shows the same bytes, and the same size.
LEMMA Draining ==
  ASSUME TypeOK, NEW k \in 1 .. Len(buffered), Drain(k)
  PROVE  /\ file' \in [Address -> Byte] /\ fileSize' \in 0 .. Limit
         /\ buffered' \in Seq(Byte) /\ Len(buffered') <= position
         /\ \A i \in Address : Seen(i)' = Seen(i)
         /\ StreamSize' = StreamSize
<1> USE DiskAssumption
<1> DEFINE first == position - Len(buffered)
<1>1. /\ position \in 0 .. Limit /\ buffered \in Seq(Byte) /\ Len(buffered) <= position
      /\ file \in [Address -> Byte] /\ fileSize \in 0 .. Limit
  BY DEF TypeOK
<1>2. /\ file' = [i \in Address |-> IF first <= i /\ i < first + k THEN Seen(i) ELSE file[i]]
      /\ fileSize' = Larger(fileSize, first + k)
      /\ buffered' = SubSeq(buffered, k + 1, Len(buffered))
      /\ position' = position
  BY DEF Drain
<1>3. /\ buffered' \in Seq(Byte) /\ Len(buffered') = Len(buffered) - k
      /\ \A j \in 1 .. Len(buffered) - k : buffered'[j] = buffered[j + k]
  BY <1>1, <1>2
<1>4. ASSUME NEW i \in Address PROVE Seen(i)' = Seen(i)
  <2>1. position' - Len(buffered') = first + k
    BY <1>1, <1>2, <1>3
  <2>2. CASE first + k <= i /\ i < position
    <3>1. i - (first + k) + 1 \in 1 .. Len(buffered) - k
      BY <2>2, <1>1 DEF Address
    <3>2. buffered'[i - (first + k) + 1] = buffered[i - (first + k) + 1 + k]
      BY <1>3, <3>1
    <3>3. i - (first + k) + 1 + k = i - first + 1
      BY <1>1 DEF Address
    <3>4. Seen(i)' = buffered'[i - (first + k) + 1]
      BY <2>1, <2>2, <1>2 DEF Seen
    <3>5. Seen(i) = buffered[i - first + 1]
      BY <2>2, <1>1 DEF Seen, Address
    <3> QED
      BY <3>2, <3>3, <3>4, <3>5
  <2>3. CASE ~ (first + k <= i /\ i < position)
    <3>1. Seen(i)' = file'[i]
      BY <2>1, <2>3, <1>2 DEF Seen
    <3>2. CASE first <= i /\ i < first + k
      BY <3>1, <3>2, <1>2
    <3>3. CASE ~ (first <= i /\ i < first + k)
      <4>1. ~ (first <= i /\ i < position)
        BY <2>3, <3>3, <1>1 DEF Address
      <4> QED
        BY <3>1, <3>3, <4>1, <1>2 DEF Seen
    <3> QED
      BY <3>2, <3>3
  <2> QED
    BY <2>2, <2>3
<1>5. StreamSize' = StreamSize /\ fileSize' \in 0 .. Limit
  <2>1. fileSize' \in 0 .. Limit /\ fileSize' = IF fileSize >= first + k THEN fileSize ELSE first + k
    BY <1>1, <1>2 DEF Larger
  <2>2. StreamSize = IF fileSize >= position THEN fileSize ELSE position
    BY <1>1 DEF StreamSize, Larger
  <2>3. CASE k = Len(buffered)
    <3>1. buffered' = <<>>
      BY <1>3, <2>3
    <3> QED
      BY <2>1, <2>2, <2>3, <3>1, <1>1 DEF StreamSize
  <2>4. CASE k < Len(buffered)
    <3>1. buffered' # <<>>
      BY <1>1, <1>3, <2>4
    <3>2. StreamSize' = IF fileSize' >= position THEN fileSize' ELSE position
      BY <1>2, <3>1 DEF StreamSize, Larger
    <3> QED
      BY <2>1, <2>2, <2>4, <3>2, <1>1
  <2> QED
    BY <2>3, <2>4, <1>1
<1>6. file' \in [Address -> Byte]
  BY <1>1, <1>2, StreamTypes
<1> QED
  BY <1>1, <1>2, <1>3, <1>4, <1>5, <1>6

(***************************************************************************)
(* The steps                                                               *)
(***************************************************************************)

\* Bytes are handed to the stream at pos, behind what its buffer holds: the
\* stream shows them there, and everything else as it was.
Accepted(pos, bytes) ==
  /\ file' \in [Address -> Byte] /\ fileSize' \in 0 .. Limit
  /\ buffered' \in Seq(Byte) /\ buffered' # <<>> /\ Len(buffered') <= position'
  /\ position' = pos + Len(bytes) /\ position' \in 0 .. Limit
  /\ StreamSize' = Larger(StreamSize, pos + Len(bytes))
  /\ \A i \in Address :
       Seen(i)' = IF i \in pos .. pos + Len(bytes) - 1 THEN bytes[i - pos + 1] ELSE Seen(i)

\* A longer range of addresses.
LEMMA RangeGrows ==
  ASSUME NEW m \in Int, NEW n \in Int, m <= n
  PROVE  0 .. m - 1 \subseteq 0 .. n - 1
OBVIOUS

\* What a client writes.
LEMMA PayloadType ==
  ASSUME NEW bytes \in Payloads
  PROVE  bytes \in Seq(Byte) /\ bytes \in Seq(Value) /\ Len(bytes) \in Nat \ {0}
<1>1. bytes \in Seq(Value) /\ bytes # <<>>
  BY DiskAssumption
<1>2. Value \subseteq Byte
  BY DEF Byte
<1>3. bytes \in Seq(Byte)
  BY <1>1, <1>2
<1> QED
  BY <1>1, <1>3

\* writeAt: the stream is flushed and set to pos first.
LEMMA WritingAt ==
  ASSUME TypeOK, NEW pos \in 0 .. Limit, NEW bytes \in Payloads,
         pos + Len(bytes) <= Limit, Flushed, buffered' = bytes,
         position' = pos + Len(bytes)
  PROVE  Accepted(pos, bytes)
<1>1. bytes \in Seq(Byte) /\ Len(bytes) \in Nat \ {0} /\ bytes # <<>>
  BY PayloadType
<1>2. position' \in 0 .. Limit /\ position' - Len(buffered') = pos
  BY <1>1, DiskAssumption
<1>3. file' = [i \in Address |-> Seen(i)] /\ fileSize' = StreamSize
  BY DEF Flushed
<1>4. file' \in [Address -> Byte] /\ fileSize' \in 0 .. Limit
  BY <1>3, StreamTypes
<1>5. StreamSize' = Larger(StreamSize, pos + Len(bytes))
  BY <1>1, <1>3 DEF StreamSize
<1>6. ASSUME NEW i \in Address
      PROVE  Seen(i)' = IF i \in pos .. pos + Len(bytes) - 1 THEN bytes[i - pos + 1] ELSE Seen(i)
  <2>1. i \in pos .. pos + Len(bytes) - 1 <=> pos <= i /\ i < pos + Len(bytes)
    BY <1>1, DiskAssumption DEF Address
  <2>2. Seen(i)' = IF pos <= i /\ i < position' THEN bytes[i - pos + 1] ELSE file'[i]
    BY <1>2 DEF Seen
  <2> QED
    BY <2>1, <2>2, <1>3
<1> QED
  BY <1>1, <1>2, <1>4, <1>5, <1>6 DEF Accepted

\* write: the bytes follow those in the buffer.
LEMMA WritingHere ==
  ASSUME TypeOK, NEW bytes \in Payloads, position + Len(bytes) <= Limit,
         UNCHANGED fileVars, buffered' = buffered \o bytes,
         position' = position + Len(bytes)
  PROVE  Accepted(position, bytes)
<1> USE DiskAssumption
<1>1. bytes \in Seq(Byte) /\ Len(bytes) \in Nat \ {0}
  BY PayloadType
<1>2. /\ position \in 0 .. Limit /\ buffered \in Seq(Byte) /\ Len(buffered) <= position
      /\ file \in [Address -> Byte] /\ fileSize \in 0 .. Limit
  BY DEF TypeOK
<1>3. /\ buffered' \in Seq(Byte) /\ Len(buffered') = Len(buffered) + Len(bytes)
      /\ \A j \in 1 .. Len(buffered) : buffered'[j] = buffered[j]
      /\ \A j \in 1 .. Len(bytes) : buffered'[j + Len(buffered)] = bytes[j]
  BY <1>1, <1>2
<1>4. buffered' # <<>> /\ Len(buffered') <= position' /\ position' \in 0 .. Limit
  BY <1>1, <1>2, <1>3
<1>5. file' = file /\ fileSize' = fileSize
  BY DEF fileVars
<1>6. StreamSize' = Larger(StreamSize, position + Len(bytes))
  BY <1>1, <1>2, <1>4, <1>5 DEF StreamSize, Larger
<1>7. ASSUME NEW i \in Address
      PROVE  Seen(i)' = IF i \in position .. position + Len(bytes) - 1
                        THEN bytes[i - position + 1] ELSE Seen(i)
  <2> DEFINE first == position - Len(buffered)
  <2>1. position' - Len(buffered') = first
    BY <1>1, <1>2, <1>3
  <2>2. Seen(i)' = IF first <= i /\ i < position' THEN buffered'[i - first + 1] ELSE file[i]
    BY <2>1, <1>5 DEF Seen
  <2>3. CASE i \in position .. position + Len(bytes) - 1
    <3>1. first <= i /\ i < position' /\ i - position + 1 \in 1 .. Len(bytes)
      BY <2>3, <1>1, <1>2 DEF Address
    <3>2. i - first + 1 = (i - position + 1) + Len(buffered)
      BY <1>2 DEF Address
    <3> QED
      BY <2>2, <2>3, <3>1, <3>2, <1>3
  <2>4. CASE i \notin position .. position + Len(bytes) - 1
    <3>1. first <= i /\ i < position' <=> first <= i /\ i < position
      BY <2>4, <1>1, <1>2 DEF Address
    <3>2. first <= i /\ i < position => i - first + 1 \in 1 .. Len(buffered)
      BY <1>2 DEF Address
    <3>3. Seen(i) = IF first <= i /\ i < position THEN buffered[i - first + 1] ELSE file[i]
      BY DEF Seen
    <3> QED
      BY <2>2, <2>4, <3>1, <3>2, <3>3, <1>3
  <2> QED
    BY <2>3, <2>4
<1> QED
  BY <1>2, <1>3, <1>4, <1>5, <1>6, <1>7 DEF Accepted

\* A read ends within the bound and returns bytes the stream shows.
LEMMA Reading ==
  ASSUME TypeOK, NEW pos \in 0 .. Limit, NEW n \in Counts, NEW before,
         StreamRead(pos, n, before), ~ (before = "write" /\ ~Tolerant)
  PROVE  LET count == IF pos < StreamSize THEN Min2(n, StreamSize - pos) ELSE 0
         IN  /\ count \in Nat /\ pos + count \in 0 .. Limit
             /\ pos + count <= Larger(StreamSize, pos)
             /\ Flush /\ position' = pos + count
             /\ result' = [k \in 1 .. count |-> Seen(pos + k - 1)]
             /\ result' \in [1 .. count -> Byte]
             /\ result' \in Seq(Byte)
             /\ last' \in {"none", "read"} /\ asked' = "read"
             /\ UNCHANGED <<failed, written>>
<1> DEFINE count == IF pos < StreamSize THEN Min2(n, StreamSize - pos) ELSE 0
<1>1. /\ Flush /\ position' = pos + count
      /\ result' = [k \in 1 .. count |-> Seen(pos + k - 1)]
      /\ last' \in {"none", "read"} /\ asked' = "read"
      /\ UNCHANGED <<failed, written>>
  BY DEF StreamRead
<1>2. n \in Nat \ {0} /\ StreamSize \in 0 .. Limit /\ Limit \in Nat
  BY StreamTypes, DiskAssumption
<1>3. /\ count \in Nat /\ pos + count \in 0 .. Limit /\ pos + count <= Larger(StreamSize, pos)
      /\ count > 0 => pos + count <= StreamSize
  BY <1>2 DEF Min2, Larger
<1> HIDE DEF count
<1>4. ASSUME NEW k \in 1 .. count PROVE Seen(pos + k - 1) \in Byte
  <2>1. pos + k - 1 \in Address
    BY <1>2, <1>3 DEF Address
  <2> QED
    BY <2>1, StreamTypes
<1>5. result' \in [1 .. count -> Byte]
  BY <1>1, <1>4
<1>6. result' \in Seq(Byte)
  BY <1>3, <1>5
<1> QED
  BY <1>1, <1>3, <1>5, <1>6 DEF count

\* setSize, whatever the new size: the file holds what the stream showed.
LEMMA Setting ==
  ASSUME TypeOK, NEW newSize \in Sizes, SetSize(newSize)
  PROVE  /\ file' \in [Address -> Byte] /\ fileSize' \in 0 .. Limit
         /\ buffered' = <<>> /\ position' = position
         /\ StreamSize' = Larger(StreamSize, newSize)
         /\ \A i \in Address : Seen(i)' = Seen(i) \/ i >= StreamSize
         /\ last' \in {"none", last}
<1> USE DiskAssumption
<1>1. /\ Extended(newSize, StreamSize) /\ buffered' = <<>> /\ position' = position
      /\ last' \in {"none", last}
  BY DEF SetSize, AfterFlush
<1>2. StreamSize \in 0 .. Limit /\ newSize \in 0 .. Limit /\ position \in 0 .. Limit
  BY StreamTypes DEF TypeOK
<1>3. CASE newSize > StreamSize
  <2>1. /\ file' = [i \in Address |-> IF i = newSize - 1 THEN Zero ELSE Seen(i)]
        /\ fileSize' = newSize
    BY <1>1, <1>2, <1>3 DEF Extended, Larger
  <2>2. file' \in [Address -> Byte]
    BY <2>1, StreamTypes DEF Byte
  <2>3. StreamSize' = newSize
    BY <1>1, <2>1 DEF StreamSize
  <2>4. ASSUME NEW i \in Address PROVE Seen(i)' = file'[i]
    <3>1. Len(buffered') = 0
      BY <1>1
    <3>2. position' - Len(buffered') = position
      BY <3>1, <1>1, <1>2
    <3>3. ~ (position <= i /\ i < position)
      BY <1>2 DEF Address
    <3> QED
      BY <3>2, <3>3, <1>1 DEF Seen
  <2>5. ASSUME NEW i \in Address PROVE Seen(i)' = Seen(i) \/ i >= StreamSize
    BY <2>1, <2>4, <1>2, <1>3 DEF Address
  <2> QED
    BY <1>1, <1>2, <1>3, <2>1, <2>2, <2>3, <2>5 DEF Larger
<1>4. CASE ~ (newSize > StreamSize)
  <2>1. Flush
    BY <1>1, <1>4 DEF Extended, Flush
  <2>2. Larger(StreamSize, newSize) = StreamSize
    BY <1>2, <1>4 DEF Larger
  <2> QED
    BY <2>1, <2>2, <1>1, <1>2, Flushing
<1> QED
  BY <1>3, <1>4

\* Every step keeps the types, and a direction that was asked for.
LEMMA InvStep == IInv /\ [Next]_vars => IInv'
<1> SUFFICES ASSUME IInv, [Next]_vars PROVE IInv'
  OBVIOUS
<1> USE DiskAssumption DEF IInv
<1>0. /\ file \in [Address -> Byte] /\ fileSize \in 0 .. Limit
      /\ buffered \in Seq(Byte) /\ Len(buffered) <= position
      /\ position \in 0 .. Limit
      /\ last \in Directions /\ asked \in Directions /\ mode \in Modes
      /\ buffered # <<>> => last = "write" /\ mode = "modify"
      /\ result \in Seq(Byte) /\ failed \in Assertions
      /\ written \subseteq 0 .. StreamSize - 1
  BY DEF TypeOK
<1>a. <<>> \in Seq(Byte) /\ Len(<<>>) = 0
  OBVIOUS
<1>1. ASSUME NEW k \in 1 .. Len(buffered), Drain(k) PROVE IInv'
  <2>1. UNCHANGED <<position, last, mode, asked, result, failed, written>>
    BY <1>1 DEF Drain
  <2>2. buffered # <<>>
    BY <1>a, <1>0
  <2> QED
    BY <1>0, <1>1, <2>1, <2>2, Draining DEF TypeOK, DirectionIsAsked
<1>2. ASSUME NEW n \in Counts, NEW pos \in 0 .. Limit, NEW before, Ready,
             StreamRead(pos, n, before), UNCHANGED mode
      PROVE  IInv'
  <2>1. CASE before = "write" /\ ~Tolerant
    <3>1. /\ failed' = "Successful read"
          /\ UNCHANGED <<file, fileSize, buffered, position, last, asked, result, written>>
      BY <1>2, <2>1 DEF StreamRead, Fails, fileVars
    <3>2. StreamSize' = StreamSize
      BY <3>1 DEF StreamSize
    <3> QED
      BY <1>0, <1>2, <3>1, <3>2 DEF TypeOK, DirectionIsAsked, Assertions
  <2>2. CASE ~ (before = "write" /\ ~Tolerant)
    <3>1. /\ Flush /\ position' \in 0 .. Limit /\ result' \in Seq(Byte)
          /\ last' \in {"none", "read"} /\ asked' = "read"
          /\ UNCHANGED <<failed, written>>
      BY <1>2, <2>2, Reading
    <3>2. /\ file' \in [Address -> Byte] /\ fileSize' \in 0 .. Limit
          /\ buffered' = <<>> /\ StreamSize' = StreamSize
      BY <3>1, Flushing
    <3> QED
      BY <1>0, <1>2, <1>a, <3>1, <3>2 DEF TypeOK, DirectionIsAsked, Directions
  <2> QED
    BY <2>1, <2>2
<1>3. ASSUME NEW bytes \in Payloads, NEW pos \in 0 .. Limit, Accepted(pos, bytes), Writable,
             last' = "write", asked' = "write", result' = <<>>,
             written' = written \cup (pos .. pos + Len(bytes) - 1), UNCHANGED <<failed, mode>>
      PROVE  IInv'
  <2>1. Len(bytes) \in Nat \ {0} /\ StreamSize \in 0 .. Limit
    BY PayloadType, StreamTypes
  <2>2. StreamSize' = Larger(StreamSize, pos + Len(bytes))
    BY <1>3 DEF Accepted
  <2>3. written' \subseteq 0 .. StreamSize' - 1
    <3>1. /\ pos + Len(bytes) <= StreamSize' /\ StreamSize <= StreamSize'
          /\ StreamSize' \in Int /\ pos + Len(bytes) \in Int
      BY <2>1, <2>2 DEF Larger
    <3>2. pos .. pos + Len(bytes) - 1 \subseteq 0 .. StreamSize' - 1
      BY <2>1, <3>1
    <3>3. 0 .. StreamSize - 1 \subseteq 0 .. StreamSize' - 1
      <4>1. StreamSize \in Int
        BY <2>1
      <4> QED
        BY <3>1, <4>1, RangeGrows
    <3> QED
      BY <1>0, <1>3, <3>2, <3>3
  <2>4. /\ file' \in [Address -> Byte] /\ fileSize' \in 0 .. Limit
        /\ buffered' \in Seq(Byte) /\ Len(buffered') <= position' /\ position' \in 0 .. Limit
    BY <1>3 DEF Accepted
  <2> QED
    BY <1>0, <1>3, <1>a, <2>3, <2>4 DEF TypeOK, DirectionIsAsked, Directions, Writable
<1>4. ASSUME NEW bytes \in Payloads, WriteHere(bytes) PROVE IInv'
  <2>1. CASE last = "read" /\ ~Tolerant
    <3>1. /\ failed' = "Successful write"
          /\ UNCHANGED <<file, fileSize, buffered, position, last, asked, result, written, mode>>
      BY <1>4, <2>1 DEF WriteHere, StreamWrite, Fails, fileVars
    <3>2. StreamSize' = StreamSize
      BY <3>1 DEF StreamSize
    <3> QED
      BY <1>0, <3>1, <3>2 DEF TypeOK, DirectionIsAsked, Assertions
  <2>2. CASE ~ (last = "read" /\ ~Tolerant)
    <3>1. /\ Writable /\ position + Len(bytes) <= Limit
          /\ buffered' = buffered \o bytes /\ position' = position + Len(bytes)
          /\ last' = "write" /\ asked' = "write" /\ result' = <<>>
          /\ written' = written \cup (position .. position + Len(bytes) - 1)
          /\ UNCHANGED <<failed, mode>> /\ UNCHANGED fileVars
      BY <1>4, <2>2 DEF WriteHere, StreamWrite
    <3>2. Accepted(position, bytes)
      BY <3>1, WritingHere
    <3> QED
      BY <1>0, <1>3, <3>1, <3>2
  <2> QED
    BY <2>1, <2>2
<1>5. ASSUME NEW bytes \in Payloads, NEW pos \in Positions, WriteAt(pos, bytes) PROVE IInv'
  <2>1. /\ Writable /\ pos + Len(bytes) <= Limit
        /\ buffered' = <<>> \o bytes /\ position' = pos + Len(bytes)
        /\ last' = "write" /\ asked' = "write" /\ result' = <<>>
        /\ written' = written \cup (pos .. pos + Len(bytes) - 1)
        /\ UNCHANGED <<failed, mode>> /\ Flushed
    BY <1>5 DEF WriteAt, StreamWrite
  <2>2. buffered' = bytes /\ pos \in 0 .. Limit
    BY <2>1, PayloadType
  <2>3. Accepted(pos, bytes)
    BY <2>1, <2>2, WritingAt
  <2> QED
    BY <1>3, <2>1, <2>2, <2>3
<1>6. ASSUME NEW newSize \in Sizes, Extend(newSize) PROVE IInv'
  <2>1. SetSize(newSize) /\ result' = <<>> /\ UNCHANGED <<mode, asked, failed, written>>
    BY <1>6 DEF Extend
  <2>2. /\ file' \in [Address -> Byte] /\ fileSize' \in 0 .. Limit
        /\ buffered' = <<>> /\ position' = position
        /\ StreamSize' = Larger(StreamSize, newSize)
        /\ last' \in {"none", last}
    BY <2>1, Setting
  <2>3. written' \subseteq 0 .. StreamSize' - 1
    BY <1>0, <2>1, <2>2, StreamTypes DEF Larger
  <2> QED
    BY <1>0, <1>a, <2>1, <2>2, <2>3 DEF TypeOK, DirectionIsAsked, Directions
<1>7. ASSUME Flush, position' \in 0 .. Limit, last' \in {"none", last}, asked' \in Directions,
             last' # "none" => asked' = asked, mode' \in Modes, result' \in Seq(Byte),
             UNCHANGED <<failed, written>>
      PROVE  IInv'
  <2>1. /\ file' \in [Address -> Byte] /\ fileSize' \in 0 .. Limit
        /\ buffered' = <<>> /\ StreamSize' = StreamSize
    BY <1>7, Flushing
  <2> QED
    BY <1>0, <1>7, <1>a, <2>1 DEF TypeOK, DirectionIsAsked, Directions
<1>8. ASSUME NEW pos \in Positions, SetPosition(pos) PROVE IInv'
  BY <1>0, <1>7, <1>8, <1>a DEF SetPosition, Directions
<1>9. ASSUME Size PROVE IInv'
  BY <1>0, <1>7, <1>9 DEF Size, AfterFlush
<1>10. ASSUME Synchronize PROVE IInv'
  <2>1. CASE mode = "modify"
    BY <1>0, <1>7, <1>10, <1>a, <2>1 DEF Synchronize, AfterFlush
  <2>2. CASE mode # "modify"
    <3>1. /\ UNCHANGED <<file, fileSize, buffered, last, position, mode, asked, failed, written>>
          /\ result' = <<>>
      BY <1>10, <2>2 DEF Synchronize, fileVars
    <3>2. StreamSize' = StreamSize
      BY <3>1 DEF StreamSize
    <3> QED
      BY <1>0, <1>a, <3>1, <3>2 DEF TypeOK, DirectionIsAsked
  <2> QED
    BY <2>1, <2>2
<1>11. ASSUME Close PROVE IInv'
  BY <1>0, <1>7, <1>11, <1>a DEF Close, Modes
<1>12. ASSUME NEW m \in {"readOnly", "modify"}, Open(m) PROVE IInv'
  <2>1. /\ mode = "closed" /\ mode' = m /\ position' = 0 /\ last' = "none" /\ asked' = "none"
        /\ result' = <<>> /\ UNCHANGED <<file, fileSize, buffered, failed, written>>
    BY <1>12 DEF Open, fileVars
  <2>2. buffered = <<>>
    BY <1>0, <2>1
  <2>3. StreamSize' = StreamSize
    BY <2>1, <2>2 DEF StreamSize
  <2> QED
    BY <1>0, <1>a, <2>1, <2>2, <2>3 DEF TypeOK, DirectionIsAsked, Directions, Modes
<1>13. ASSUME UNCHANGED vars PROVE IInv'
  <2>1. UNCHANGED <<file, fileSize, buffered, position, last, mode, asked, result, failed, written>>
    BY <1>13 DEF vars, fileVars
  <2>2. StreamSize' = StreamSize
    BY <2>1 DEF StreamSize
  <2> QED
    BY <1>0, <2>1, <2>2 DEF TypeOK, DirectionIsAsked
<1>14. ASSUME NEW n \in Counts, ReadHere(n) PROVE IInv'
  BY <1>0, <1>2, <1>14 DEF ReadHere
<1>15. ASSUME NEW n \in Counts, NEW pos \in Positions, ReadAt(pos, n) PROVE IInv'
  BY <1>2, <1>15 DEF ReadAt
<1> QED
  BY <1>1, <1>4, <1>5, <1>6, <1>8, <1>9, <1>10, <1>11, <1>12, <1>13, <1>14, <1>15 DEF Next

\* The invariant holds when the file is opened.
LEMMA InvInit == Init => IInv
<1> SUFFICES ASSUME Init PROVE IInv
  OBVIOUS
<1> USE DiskAssumption DEF Init
<1>1. file \in [Address -> Byte]
  BY DEF Byte
<1>2. fileSize \in 0 .. Limit /\ position = 0 /\ position \in 0 .. Limit
  OBVIOUS
<1>3. buffered \in Seq(Byte) /\ Len(buffered) <= position /\ result \in Seq(Byte)
  BY <1>2
<1>4. written \subseteq 0 .. StreamSize - 1
  BY DEF StreamSize
<1> QED
  BY <1>1, <1>2, <1>3, <1>4
  DEF IInv, TypeOK, DirectionIsAsked, Directions, Modes, Assertions

\* The invariant holds for ever, for any client and any library.
LEMMA Invariance == Spec => []IInv
BY InvInit, InvStep, PTL DEF Spec

\* The types; and that the buffer of the stream holds the bytes before the
\* position, of a file opened for modification, and bytes only when the stream
\* was last written to.
THEOREM TypesCorrect == Spec => []TypeOK
<1>1. IInv => TypeOK
  BY DEF IInv
<1> QED
  BY <1>1, Invariance, PTL

\* Under the rule of ISO C, OMStream never fails for a client that sets the
\* position before it changes direction, nor ever where the library is tolerant.
THEOREM StreamNeverFails ==
  ASSUME ClientsSeek \/ Tolerant
  PROVE  Spec => []NoStreamError
<1>1. Init => NoStreamError
  BY DEF Init, NoStreamError
<1>2. IInv /\ NoStreamError /\ [Next]_vars => NoStreamError'
  <2> SUFFICES ASSUME IInv, NoStreamError, [Next]_vars PROVE NoStreamError'
    OBVIOUS
  <2> USE DEF NoStreamError, IInv, DirectionIsAsked
  <2>1. ASSUME NEW n \in Counts, NEW pos, NEW before, StreamRead(pos, n, before),
               ~ (before = "write" /\ ~Tolerant)
        PROVE  failed' = "none"
    BY <2>1 DEF StreamRead
  <2>2. ASSUME NEW n \in Counts, ReadHere(n) PROVE failed' = "none"
    <3>1. ClientsSeek => asked # "write"
      BY <2>2 DEF ReadHere
    <3>2. ~ (last = "write" /\ ~Tolerant)
      BY <3>1
    <3>3. StreamRead(position, n, last)
      BY <2>2 DEF ReadHere
    <3> QED
      BY <2>1, <3>2, <3>3
  <2>3. ASSUME NEW n \in Counts, NEW pos \in Positions, ReadAt(pos, n) PROVE failed' = "none"
    BY <2>1, <2>3 DEF ReadAt
  <2>4. ASSUME NEW bytes \in Payloads, WriteHere(bytes) PROVE failed' = "none"
    <3>1. ClientsSeek => asked # "read"
      BY <2>4 DEF WriteHere
    <3>2. ~ (last = "read" /\ ~Tolerant)
      BY <3>1
    <3>3. StreamWrite(position, bytes, last, buffered)
      BY <2>4 DEF WriteHere
    <3> QED
      BY <3>2, <3>3 DEF StreamWrite
  <2>5. ASSUME NEW bytes \in Payloads, NEW pos \in Positions, WriteAt(pos, bytes)
        PROVE  failed' = "none"
    BY <2>5 DEF WriteAt, StreamWrite
  <2>6. ASSUME NEW newSize \in Sizes, Extend(newSize) PROVE failed' = "none"
    BY <2>6 DEF Extend
  <2>7. ASSUME NEW pos \in Positions, SetPosition(pos) PROVE failed' = "none"
    BY <2>7 DEF SetPosition
  <2>8. ASSUME NEW k \in 1 .. Len(buffered), Drain(k) PROVE failed' = "none"
    BY <2>8 DEF Drain
  <2>9. ASSUME Size \/ Synchronize \/ Close \/ UNCHANGED vars PROVE failed' = "none"
    BY <2>9 DEF Size, Synchronize, Close, vars
  <2>10. ASSUME NEW m \in {"readOnly", "modify"}, Open(m) PROVE failed' = "none"
    BY <2>10 DEF Open
  <2> QED
    BY <2>2, <2>3, <2>4, <2>5, <2>6, <2>7, <2>8, <2>9, <2>10 DEF Next
<1> QED
  BY <1>1, <1>2, Invariance, PTL DEF Spec

(***************************************************************************)
(* The refinement of RawStorage                                            *)
(***************************************************************************)

\* The content of the flat storage, as the mapping of DiskRawStorage gives it.
Content == [i \in Address |-> IF i \in written THEN Seen(i) ELSE Undef]

\* A step that shows the same bytes, and writes none, keeps the content.
LEMMA ContentStays ==
  ASSUME UNCHANGED written,
         \A i \in Address : i \in written => Seen(i)' = Seen(i)
  PROVE  Content' = Content
BY DEF Content

\* A file that was just opened is a flat array of bytes at its start.
LEMMA RefinementInit == Init => Storage!Init
<1> SUFFICES ASSUME Init PROVE Storage!Init
  OBVIOUS
<1> USE DiskAssumption
<1>1. IInv
  BY InvInit
<1>2. StreamSize = fileSize /\ fileSize \in 0 .. Limit
  BY DEF Init, StreamSize
<1>3. \A i \in Address : Seen(i) \in Byte
  BY <1>1, StreamTypes DEF IInv
<1>4. \A i \in Address : i \in written <=> i < fileSize
  BY <1>2 DEF Init, Address
<1>5. Content \in [Address -> Byte \cup {Undef}]
  BY <1>3 DEF Content
<1>6. \A i \in Address : Content[i] # Undef <=> i < fileSize
  BY <1>3, <1>4 DEF Content
<1>7. position = 0 /\ result = <<>>
  BY DEF Init
<1> QED
  BY <1>2, <1>5, <1>6, <1>7 DEF Storage!Init, Storage!Address, Address, Content

\* A read of the stream is a read of the flat storage.
LEMMA RefinementRead ==
  ASSUME IInv, NEW n \in Counts, NEW pos \in Positions \cup {position}, NEW before,
         StreamRead(pos, n, before)
  PROVE  [Storage!Next]_(Storage!vars)
<1> USE DiskAssumption
<1>0. TypeOK /\ pos \in 0 .. Limit
  BY DEF IInv, TypeOK
<1>1. CASE before = "write" /\ ~Tolerant
  <2>1. UNCHANGED <<file, fileSize, buffered, position, result, written>>
    BY <1>1 DEF StreamRead, Fails, fileVars
  <2>2. StreamSize' = StreamSize /\ \A i \in Address : Seen(i)' = Seen(i)
    BY <2>1 DEF StreamSize, Seen
  <2>3. Content' = Content
    BY <2>1, <2>2, ContentStays
  <2> QED
    BY <2>1, <2>2, <2>3 DEF Storage!vars, Content
<1>2. CASE ~ (before = "write" /\ ~Tolerant)
  <2> DEFINE count == IF pos < StreamSize THEN Min2(n, StreamSize - pos) ELSE 0
  <2>1. /\ count \in Nat /\ pos + count \in 0 .. Limit /\ Flush /\ position' = pos + count
        /\ pos + count <= Larger(StreamSize, pos)
        /\ result' = [k \in 1 .. count |-> Seen(pos + k - 1)]
        /\ result' \in [1 .. count -> Byte]
        /\ UNCHANGED written
    BY <1>0, <1>2, Reading
  <2>2. StreamSize' = StreamSize /\ \A i \in Address : Seen(i)' = Seen(i)
    BY <1>0, <2>1, Flushing
  <2>3. Content' = Content
    BY <2>1, <2>2, ContentStays
  <2>4. Storage!ReadCount(pos, n) = count
    BY DEF Storage!ReadCount, Storage!Smaller, Min2
  <2>5. StreamSize \in 0 .. Limit
    BY <1>0, StreamTypes
  <2>6. ASSUME NEW k \in 1 .. count, Content[pos + k - 1] # Undef
        PROVE  result'[k] = Content[pos + k - 1]
    <3>1. pos + k - 1 \in Address
      BY <1>0, <2>1, <2>5 DEF Address, Larger
    <3>2. result'[k] = Seen(pos + k - 1)
      BY <2>1
    <3> QED
      BY <3>1, <3>2, <2>6 DEF Content
  <2> HIDE DEF count
  <2>7. Storage!Delivers(pos, n, result')
    BY <2>1, <2>4, <2>6 DEF Storage!Delivers, Content
  <2>8. count = 0 => position' = pos
    BY <2>1, <1>0
  <2>9. Storage!ReadAt(pos, n)
    BY <2>1, <2>2, <2>3, <2>4, <2>7, <2>8 DEF Storage!ReadAt, Content
  <2> QED
    BY <2>9 DEF Storage!Next
<1> QED
  BY <1>1, <1>2

\* Bytes handed to the stream are written to the flat storage.
LEMMA RefinementWrite ==
  ASSUME IInv, NEW bytes \in Payloads, NEW pos \in Positions \cup {position},
         Accepted(pos, bytes), pos + Len(bytes) <= Limit, result' = <<>>,
         written' = written \cup (pos .. pos + Len(bytes) - 1)
  PROVE  Storage!Next
<1> USE DiskAssumption
<1>1. Len(bytes) \in Nat \ {0} /\ pos \in 0 .. Limit
  BY PayloadType DEF IInv, TypeOK
<1>2. /\ StreamSize' = Larger(StreamSize, pos + Len(bytes))
      /\ position' = pos + Len(bytes)
      /\ \A i \in Address :
           Seen(i)' = IF i \in pos .. pos + Len(bytes) - 1 THEN bytes[i - pos + 1] ELSE Seen(i)
  BY DEF Accepted
<1>3. Content' = [i \in Address |-> IF i \in pos .. pos + Len(bytes) - 1
                                    THEN bytes[i - pos + 1] ELSE Content[i]]
  BY <1>2 DEF Content
<1>4. Storage!WriteAt(pos, bytes)
  BY <1>2, <1>3 DEF Storage!WriteAt, Storage!Larger, Larger, Storage!Address, Address, Content
<1> QED
  BY <1>4 DEF Storage!Next

\* Every step of the stream and its buffer is a step of the flat storage, or
\* changes nothing there.
LEMMA RefinementStep == IInv /\ [Next]_vars => [Storage!Next]_(Storage!vars)
<1> SUFFICES ASSUME IInv, [Next]_vars PROVE [Storage!Next]_(Storage!vars)
  OBVIOUS
<1> USE DiskAssumption
<1>0. TypeOK /\ position \in 0 .. Limit /\ StreamSize \in 0 .. Limit
  BY StreamTypes DEF IInv, TypeOK
<1>1. ASSUME NEW k \in 1 .. Len(buffered), Drain(k) PROVE UNCHANGED Storage!vars
  <2>1. StreamSize' = StreamSize /\ \A i \in Address : Seen(i)' = Seen(i)
    BY <1>0, <1>1, Draining
  <2>2. UNCHANGED <<position, result, written>>
    BY <1>1 DEF Drain
  <2>3. Content' = Content
    BY <2>1, <2>2, ContentStays
  <2> QED
    BY <2>1, <2>2, <2>3 DEF Storage!vars, Content
<1>2. ASSUME NEW n \in Counts, ReadHere(n) PROVE [Storage!Next]_(Storage!vars)
  BY <1>2, RefinementRead DEF ReadHere
<1>3. ASSUME NEW n \in Counts, NEW pos \in Positions, ReadAt(pos, n)
      PROVE  [Storage!Next]_(Storage!vars)
  BY <1>3, RefinementRead DEF ReadAt
<1>4. ASSUME NEW bytes \in Payloads, WriteHere(bytes) PROVE [Storage!Next]_(Storage!vars)
  <2>1. CASE last = "read" /\ ~Tolerant
    <3>1. UNCHANGED <<file, fileSize, buffered, position, result, written>>
      BY <1>4, <2>1 DEF WriteHere, StreamWrite, Fails, fileVars
    <3>2. StreamSize' = StreamSize /\ \A i \in Address : Seen(i)' = Seen(i)
      BY <3>1 DEF StreamSize, Seen
    <3>3. Content' = Content
      BY <3>1, <3>2, ContentStays
    <3> QED
      BY <3>1, <3>2, <3>3 DEF Storage!vars, Content
  <2>2. CASE ~ (last = "read" /\ ~Tolerant)
    <3>1. /\ position + Len(bytes) <= Limit
          /\ buffered' = buffered \o bytes /\ position' = position + Len(bytes)
          /\ result' = <<>>
          /\ written' = written \cup (position .. position + Len(bytes) - 1)
          /\ UNCHANGED fileVars
      BY <1>4, <2>2 DEF WriteHere, StreamWrite
    <3>2. Accepted(position, bytes)
      BY <1>0, <3>1, WritingHere
    <3> QED
      BY <3>1, <3>2, RefinementWrite
  <2> QED
    BY <2>1, <2>2
<1>5. ASSUME NEW bytes \in Payloads, NEW pos \in Positions, WriteAt(pos, bytes)
      PROVE  [Storage!Next]_(Storage!vars)
  <2>1. /\ pos + Len(bytes) <= Limit
        /\ buffered' = <<>> \o bytes /\ position' = pos + Len(bytes)
        /\ result' = <<>>
        /\ written' = written \cup (pos .. pos + Len(bytes) - 1)
        /\ Flushed
    BY <1>5 DEF WriteAt, StreamWrite
  <2>2. buffered' = bytes /\ pos \in 0 .. Limit
    BY <2>1, PayloadType
  <2>3. Accepted(pos, bytes)
    BY <1>0, <2>1, <2>2, WritingAt
  <2> QED
    BY <2>1, <2>3, RefinementWrite
<1>6. ASSUME NEW newSize \in Sizes, Extend(newSize) PROVE Storage!Next
  <2>1. SetSize(newSize) /\ result' = <<>> /\ UNCHANGED written
    BY <1>6 DEF Extend
  <2>2. /\ file' \in [Address -> Byte] /\ fileSize' \in 0 .. Limit
        /\ buffered' = <<>> /\ position' = position
        /\ StreamSize' = Larger(StreamSize, newSize)
        /\ \A i \in Address : Seen(i)' = Seen(i) \/ i >= StreamSize
    BY <1>0, <2>1, Setting
  <2>3. written \subseteq 0 .. StreamSize - 1
    BY <1>0 DEF TypeOK
  <2>4. \A i \in Address : i \in written => Seen(i)' = Seen(i)
    BY <1>0, <2>2, <2>3
  <2>5. Content' = Content
    BY <2>1, <2>4, ContentStays
  <2>6. Content \in [Address -> Byte \cup {Undef}]
    BY <1>0, StreamTypes DEF Content
  <2>7. Storage!Extend(newSize)
    BY <1>0, <2>1, <2>2, <2>5, <2>6 DEF Storage!Extend, Storage!Address, Address, Larger, Content
  <2> QED
    BY <2>7 DEF Storage!Next
<1>7. ASSUME Flush, position' \in 0 .. Limit, UNCHANGED written
      PROVE  StreamSize' = StreamSize /\ Content' = Content
  <2>1. StreamSize' = StreamSize /\ \A i \in Address : Seen(i)' = Seen(i)
    BY <1>0, <1>7, Flushing
  <2> QED
    BY <1>7, <2>1, ContentStays
<1>8. ASSUME NEW pos \in Positions, SetPosition(pos) PROVE Storage!Next
  <2>1. /\ position' = pos /\ position' \in 0 .. Limit /\ result' = <<>>
        /\ StreamSize' = StreamSize /\ Content' = Content
    BY <1>7, <1>8 DEF SetPosition
  <2>2. Storage!SetPosition(pos)
    BY <2>1 DEF Storage!SetPosition, Content
  <2> QED
    BY <2>2 DEF Storage!Next
<1>9. ASSUME Size PROVE UNCHANGED Storage!vars
  <2>1. StreamSize' = StreamSize /\ Content' = Content /\ UNCHANGED <<position, result>>
    BY <1>0, <1>7, <1>9 DEF Size
  <2> QED
    BY <2>1 DEF Storage!vars, Content
<1>10. ASSUME Synchronize \/ Close PROVE Storage!Next
  <2>1. /\ StreamSize' = StreamSize /\ Content' = Content
        /\ position' = position /\ result' = <<>>
    <3>1. CASE Flush
      BY <1>0, <1>7, <1>10, <3>1 DEF Synchronize, Close
    <3>2. CASE UNCHANGED <<fileVars, buffered, position, written>>
      <4>1. StreamSize' = StreamSize /\ \A i \in Address : Seen(i)' = Seen(i)
        BY <3>2 DEF StreamSize, Seen, fileVars
      <4> QED
        BY <1>10, <3>2, <4>1, ContentStays DEF Synchronize, Close
    <3> QED
      BY <1>10, <3>1, <3>2 DEF Synchronize, Close
  <2>2. Storage!Synchronize
    BY <2>1 DEF Storage!Synchronize, Content
  <2> QED
    BY <2>2 DEF Storage!Next
<1>11. ASSUME NEW m \in {"readOnly", "modify"}, Open(m) PROVE Storage!Next
  <2>1. /\ mode = "closed" /\ position' = 0 /\ result' = <<>>
        /\ UNCHANGED <<file, fileSize, buffered, written>>
    BY <1>11 DEF Open, fileVars
  <2>2. buffered = <<>>
    BY <1>0, <2>1 DEF TypeOK
  <2>3. StreamSize' = StreamSize
    BY <2>1, <2>2 DEF StreamSize
  <2>4. Len(buffered) = 0
    BY <2>2
  <2>5. \A i \in Address : Seen(i) = file[i]
    <3> SUFFICES ASSUME NEW i \in Address PROVE Seen(i) = file[i]
      OBVIOUS
    <3>1. position \in Int /\ i \in Int
      BY <1>0 DEF Address
    <3>2. ~ (position - Len(buffered) <= i /\ i < position)
      BY <2>4, <3>1, NoneBetween
    <3> QED
      BY <3>2 DEF Seen
  <2>6. \A i \in Address : Seen(i)' = file[i]
    <3> SUFFICES ASSUME NEW i \in Address PROVE Seen(i)' = file[i]
      OBVIOUS
    <3>1. 0 \in Int /\ i \in Int
      BY DEF Address
    <3>2. ~ (0 - Len(buffered) <= i /\ i < 0)
      BY <2>4, <3>1, NoneBetween
    <3> QED
      BY <2>1, <3>2 DEF Seen
  <2>7. Content' = Content
    BY <2>1, <2>5, <2>6, ContentStays
  <2>8. Storage!Reopen
    BY <1>0, <2>1, <2>3, <2>7 DEF Storage!Reopen, Content
  <2> QED
    BY <2>8 DEF Storage!Next
<1>12. ASSUME UNCHANGED vars PROVE UNCHANGED Storage!vars
  <2>1. UNCHANGED <<file, fileSize, buffered, position, result, written>>
    BY <1>12 DEF vars, fileVars
  <2>2. StreamSize' = StreamSize /\ \A i \in Address : Seen(i)' = Seen(i)
    BY <2>1 DEF StreamSize, Seen
  <2>3. Content' = Content
    BY <2>1, <2>2, ContentStays
  <2> QED
    BY <2>1, <2>2, <2>3 DEF Storage!vars, Content
<1> QED
  BY <1>1, <1>2, <1>3, <1>4, <1>5, <1>6, <1>8, <1>9, <1>10, <1>11, <1>12 DEF Next

\* OMDiskRawStorage keeps the promise of OMRawStorage: whenever the library
\* writes its buffer out, and across closing and opening the file, reads and
\* writes are those of a flat array of bytes, whose size never lags behind.
THEOREM StorageImplemented == Spec => ImplementsStorage
<1>1. Init => Storage!Init
  BY RefinementInit
<1>2. IInv /\ [Next]_vars => [Storage!Next]_(Storage!vars)
  BY RefinementStep
<1> QED
  BY <1>1, <1>2, Invariance, PTL DEF Spec, ImplementsStorage, Storage!Spec

=============================================================================
