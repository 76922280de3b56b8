----------------------------- MODULE RawStorage -----------------------------
(***************************************************************************)
(* What a client of OMRawStorage may rely on, whatever stores the bytes:   *)
(* the promise stated by include/OM/OMRawStorage.h.  A storage is a flat   *)
(* array of bytes with a size, an extent and a current position.  There    *)
(* are no pages and no cache here; CachedRawStorage, DiskRawStorage and    *)
(* MemoryRawStorage are each shown to implement this module.               *)
(***************************************************************************)
EXTENDS Integers, Sequences

CONSTANTS
  Limit,      \* addresses are 0 .. Limit - 1 (the bound on every position)
  Byte,       \* the bytes
  Undef,      \* marks an address that holds undefined data
  Payloads,   \* the byte sequences a client writes
  Counts,     \* the byte counts a client asks to read
  Sizes,      \* the sizes a client passes to extend
  Positions   \* the positions a client uses

VARIABLES
  content,    \* the byte at each address, or Undef
  size,       \* the valid size
  extent,     \* the allocated size
  position,   \* the current position for read and write
  result      \* the bytes returned by the last call, if it was a read

vars == <<content, size, extent, position, result>>

Address == 0 .. Limit - 1

Larger(a, b) == IF a >= b THEN a ELSE b
Smaller(a, b) == IF a <= b THEN a ELSE b

(***************************************************************************)
(* What a read of n bytes at pos delivers: fewer bytes than asked for when *)
(* it runs into the size, none at or after the size, and anything at all   *)
(* for a byte that was never written.                                      *)
(***************************************************************************)
ReadCount(pos, n) == IF pos < size THEN Smaller(n, size - pos) ELSE 0

Delivers(pos, n, bytes) ==
  /\ bytes \in [1 .. ReadCount(pos, n) -> Byte]
  /\ \A k \in 1 .. ReadCount(pos, n) :
       content[pos + k - 1] # Undef => bytes[k] = content[pos + k - 1]

TypeOK ==
  /\ content \in [Address -> Byte \cup {Undef}]
  /\ size \in 0 .. Limit
  /\ extent \in 0 .. Limit
  /\ position \in 0 .. Limit
  /\ result \in Seq(Byte)

-----------------------------------------------------------------------------

\* A new storage is empty; an existing one holds some bytes.
Init ==
  /\ size \in 0 .. Limit
  /\ content \in [Address -> Byte \cup {Undef}]
  /\ \A i \in Address : (content[i] # Undef) <=> (i < size)
  /\ extent = size
  /\ position = 0
  /\ result = <<>>

\* The position after a read that returns nothing is where it was or where
\* the client asked to read.
ReadAt(pos, n) ==
  /\ Delivers(pos, n, result')
  /\ IF ReadCount(pos, n) > 0
       THEN position' = pos + ReadCount(pos, n)
       ELSE position' \in {position, pos}
  /\ UNCHANGED <<content, size, extent>>

WriteAt(pos, bytes) ==
  /\ pos + Len(bytes) <= Limit
  /\ content' = [i \in Address |->
                   IF i \in pos .. pos + Len(bytes) - 1 THEN bytes[i - pos + 1]
                                                       ELSE content[i]]
  /\ size' = Larger(size, pos + Len(bytes))
  /\ extent' = Larger(extent, pos + Len(bytes))
  /\ position' = pos + Len(bytes)
  /\ result' = <<>>

\* A change of extent never touches a byte below the new extent.
Extend(newSize) ==
  /\ content' \in [Address -> Byte \cup {Undef}]
  /\ \A i \in Address : content'[i] = content[i] \/ (i >= newSize /\ content'[i] = Undef)
  /\ size' \in {size, newSize}
  /\ extent' \in {extent, newSize}
  /\ extent' >= size'
  /\ position' \in {position, newSize}
  /\ result' = <<>>

SetPosition(pos) ==
  /\ position' = pos
  /\ result' = <<>>
  /\ UNCHANGED <<content, size, extent>>

Synchronize ==
  /\ result' = <<>>
  /\ UNCHANGED <<content, size, extent, position>>

\* Closed and opened again: every byte written is still there.  The storage
\* may have grown, by undefined data, up to an extent it has had.
Reopen ==
  /\ size' \in size .. Limit
  /\ extent' = size'
  /\ position' = 0
  /\ result' = <<>>
  /\ UNCHANGED content

Next ==
  \/ \E pos \in Positions \cup {position}, n \in Counts : ReadAt(pos, n)
  \/ \E pos \in Positions \cup {position}, bytes \in Payloads : WriteAt(pos, bytes)
  \/ \E newSize \in Sizes : Extend(newSize)
  \/ \E pos \in Positions : SetPosition(pos)
  \/ Synchronize
  \/ Reopen

Spec == Init /\ [][Next]_vars
=============================================================================
