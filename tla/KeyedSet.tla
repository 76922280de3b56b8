------------------------------ MODULE KeyedSet ------------------------------
(***************************************************************************)
(* What a keyed set promises the object manager, whose dictionaries, sets  *)
(* of references and tables of definitions are kept in one: items found by *)
(* their unique keys, counted, and visited in the order of the keys.  There*)
(* is no tree here.  RedBlackTree is shown to implement this module.       *)
(***************************************************************************)
EXTENDS Integers, FiniteSets

CONSTANTS
  Key,     \* the keys, which are ordered
  Entries  \* the pairs <<key, value>> that clients insert

VARIABLES
  contents,  \* the value of each key that is present
  asked,     \* the last call
  answer     \* and what it returned: a set of one; {1} is true, {} false or nothing

Present == DOMAIN contents

\* The first key, or the first after a key.
Next(from) ==
  LET above == {k \in Present : \A f \in from : f < k}
  IN  {k \in above : \A j \in above : k <= j}

\* The last key, or the last before a key.
Previous(from) ==
  LET below == {k \in Present : \A f \in from : k < f}
  IN  {k \in below : \A j \in below : j <= k}

Insert(e) ==
  /\ asked' = <<"insert">> /\ answer' = {1 : k \in {e[1]} \ Present}
  /\ contents' = [k \in Present \cup {e[1]} |-> IF k \in Present THEN contents[k] ELSE e[2]]

Remove(k) ==
  /\ asked' = <<"remove">> /\ answer' = {1 : j \in {k} \cap Present}
  /\ contents' = [j \in Present \ {k} |-> contents[j]]

Clear ==
  /\ asked' = <<"clear">> /\ answer' = {}
  /\ contents' = <<>>

\* find and contains, count, and the two steps of an iterator.
Find(k) ==
  /\ asked' = <<"find", k>> /\ answer' = {contents[j] : j \in Present \cap {k}}
  /\ UNCHANGED contents

Count ==
  /\ asked' = <<"count">> /\ answer' = {Cardinality(Present)}
  /\ UNCHANGED contents

Step(side, from) ==
  /\ asked' = <<side, from>>
  /\ answer' = IF side = "right" THEN Next(from) ELSE Previous(from)
  /\ UNCHANGED contents

Init == contents = <<>> /\ asked = <<>> /\ answer = {}

\* What a client may call.
Call ==
  \/ \E e \in Entries : Insert(e)
  \/ \E k \in Key : Remove(k) \/ Find(k)
  \/ Clear
  \/ Count
  \/ \E side \in {"left", "right"}, from \in {{}} \cup {{k} : k \in Present} : Step(side, from)

vars == <<contents, asked, answer>>

Spec == Init /\ [][Call]_vars
=============================================================================
