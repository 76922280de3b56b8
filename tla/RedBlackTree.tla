---------------------------- MODULE RedBlackTree ----------------------------
(***************************************************************************)
(* OMRedBlackTree, in which OMSet keeps its items, and its iterator.  A    *)
(* call links or unlinks a node in one step and then restores the balance, *)
(* one turn of the loop at a time.  The sentinel _nil is a node like any   *)
(* other in that it has a colour and, for a while, a parent: the loop that *)
(* rebalances starts from it.  What the code writes once for each side is  *)
(* written once here, for a side.                                          *)
(***************************************************************************)
EXTENDS Integers, FiniteSets

CONSTANTS
  Node,            \* the nodes there is memory for
  Nil,             \* _nil
  None,            \* the entry of a node that is not allocated
  Key,             \* the keys, which are ordered
  Entries,         \* the pairs <<key, value>> that clients insert
  MayStepBackEmpty \* does a client step back from the end of an empty set?

ASSUME TreeAssumption ==
  /\ Key \subseteq Int /\ IsFiniteSet(Key)
  /\ IsFiniteSet(Node) /\ Cardinality(Node) >= Cardinality(Key)
  /\ Nil \notin Node
  /\ \A e \in Entries : e = <<e[1], e[2]>> /\ e[1] \in Key /\ e # None
  /\ MayStepBackEmpty \in BOOLEAN

VARIABLES
  tree,    \* _root, and _left, _right, _parent and _color of the nodes
  entry,   \* _key and _value of each node, or None
  count,   \* _count
  call,    \* the call whose loop is running
  asked,   \* the last call
  answer   \* and what it returned: a set of one; {1} is true, {} false or nothing

vars == <<tree, entry, count, call, asked, answer>>

Pointer == Node \cup {Nil}
Sides == {"left", "right"}
Other(side) == CHOOSE s \in Sides : s # side

Idle == [op |-> "none", node |-> Nil, gone |-> Nil]
IsIdle == call.op = "none"

Allocated == {n \in Node : entry[n] # None}
NodeKey(n) == entry[n][1]

-----------------------------------------------------------------------------
(* Finding.                                                                *)

Toward(k, n) == IF k < NodeKey(n) THEN "left" ELSE "right"

\* The node of a key, or _nil.
Find(k) ==
  LET from[n \in Pointer] ==
        IF n = Nil \/ NodeKey(n) = k THEN n
        ELSE from[tree.child[Toward(k, n)][n]]
  IN  from[tree.root]

\* Where the descent for an absent key ends, in a tree that is not empty.
LeafFor(k) ==
  LET from[n \in Node] ==
        IF tree.child[Toward(k, n)][n] = Nil THEN n
        ELSE from[tree.child[Toward(k, n)][n]]
  IN  from[tree.root]

\* minimum and maximum of a subtree.
Outermost(side, n) ==
  LET from[m \in Node] ==
        IF tree.child[side][m] = Nil THEN m ELSE from[tree.child[side][m]]
  IN  from[n]

\* The nearest ancestor that has the node on its other side.
Above(side, n) ==
  LET from[m \in Node] ==
        LET p == tree.parent[m]
        IN  IF p # Nil /\ m = tree.child[side][p] THEN from[p] ELSE p
  IN  from[n]

\* Fault: the climb stops at the parent.
NeighbourAtMostParent(side, n) ==
  IF tree.child[side][n] # Nil
  THEN Outermost(Other(side), tree.child[side][n])
  ELSE tree.parent[n]

\* successor, to the right, and predecessor, to the left.
Neighbour(side, n) ==
  IF tree.child[side][n] # Nil
  THEN Outermost(Other(side), tree.child[side][n])
  ELSE Above(side, n)

-----------------------------------------------------------------------------
(* Rotating, on a tree as a value.                                         *)

SideOf(t, n) == IF n = t.child["left"][t.parent[n]] THEN "left" ELSE "right"

Painted(t, nodes, c) ==
  [t EXCEPT !.color = [n \in Pointer |-> IF n \in nodes THEN c ELSE @[n]]]

Red(t, n) == t.color[n] = "red"

\* m takes the place of n under the parent of n.
Substituted(t, n, m) ==
  LET p == t.parent[n]
      u == [t EXCEPT !.parent[m] = p]
  IN  IF p = Nil THEN [u EXCEPT !.root = m]
                 ELSE [u EXCEPT !.child[SideOf(t, n)][p] = m]

\* Fault: the inner child keeps its old parent.
RotatedInnerBehind(side, t, n) ==
  LET y == t.child[Other(side)][n]
  IN  [Substituted(t, n, y) EXCEPT
         !.child[Other(side)][n] = t.child[side][y],
         !.child[side][y] = n,
         !.parent[n] = y]

\* leftRotate and rightRotate: n goes down to that side, its child comes up.
Rotated(side, t, n) ==
  LET y == t.child[Other(side)][n]
      inner == t.child[side][y]
  IN  [Substituted(t, n, y) EXCEPT
         !.child[Other(side)][n] = inner,
         !.child[side][y] = n,
         !.parent = [m \in Pointer |-> IF m = inner /\ m # Nil THEN n
                                       ELSE IF m = n THEN y ELSE @[m]]]

-----------------------------------------------------------------------------
(* Inserting.                                                              *)

\* The new node, red, below the node where the descent ended.
Linked(t, n, k) ==
  LET p == IF t.root = Nil THEN Nil ELSE LeafFor(k)
      u == [t EXCEPT !.child = [s \in Sides |-> [@[s] EXCEPT ![n] = Nil]],
                     !.parent[n] = p, !.color[n] = "red"]
  IN  IF p = Nil THEN [u EXCEPT !.root = n]
                 ELSE [u EXCEPT !.child[Toward(k, p)][p] = n]

Insert(e) ==
  /\ IsIdle
  /\ asked' = <<"insert">> /\ answer' = IF Find(e[1]) = Nil THEN {1} ELSE {}
  /\ IF Find(e[1]) # Nil
     THEN UNCHANGED <<tree, entry, count, call>>
     ELSE LET n == CHOOSE m \in Node : m \notin Allocated
          IN  /\ tree' = Linked(tree, n, e[1])
              /\ entry' = [entry EXCEPT ![n] = e]
              /\ count' = count + 1
              /\ call' = [op |-> "insert", node |-> n, gone |-> Nil]

InsertGoesOn ==
  call.op = "insert" /\ call.node # tree.root /\ Red(tree, tree.parent[call.node])

\* One turn: a red uncle hands the trouble to the grandparent; otherwise a
\* node on the inside is first turned outside, and the grandparent goes down.
InsertTurn ==
  LET n == call.node
      p == tree.parent[n]
      g == tree.parent[p]
      side == SideOf(tree, p)
      uncle == tree.child[Other(side)][g]
      inside == n = tree.child[Other(side)][p]
      straight == IF inside THEN Rotated(side, tree, p) ELSE tree
      low == IF inside THEN p ELSE n
  IN  /\ InsertGoesOn
      /\ IF Red(tree, uncle)
         THEN /\ tree' = Painted(Painted(tree, {p, uncle}, "black"), {g}, "red")
              /\ call' = [call EXCEPT !.node = g]
         ELSE /\ tree' = Rotated(Other(side),
                           Painted(Painted(straight, {straight.parent[low]}, "black"), {g}, "red"), g)
              /\ call' = [call EXCEPT !.node = low]
      /\ UNCHANGED <<entry, count, asked, answer>>

InsertReturn ==
  /\ call.op = "insert" /\ ~InsertGoesOn
  /\ tree' = Painted(tree, {tree.root}, "black")
  /\ call' = Idle
  /\ UNCHANGED <<entry, count, asked, answer>>

-----------------------------------------------------------------------------
(* Removing.                                                               *)

\* The node that is unlinked for z: z, or its successor, whose item z takes.
Victim(z) ==
  IF \E side \in Sides : tree.child[side][z] = Nil THEN z ELSE Neighbour("right", z)

OnlyChild(y) ==
  IF tree.child["left"][y] # Nil THEN tree.child["left"][y] ELSE tree.child["right"][y]

\* Fault: the key is copied, the value is not.
MovedKey(y, z) == [entry EXCEPT ![z] = <<entry[y][1], entry[z][2]>>]

Moved(y, z) == [entry EXCEPT ![z] = entry[y]]

Remove(k) ==
  LET z == Find(k)
      y == Victim(z)
      x == OnlyChild(y)
  IN  /\ IsIdle
      /\ asked' = <<"remove">> /\ answer' = IF z = Nil THEN {} ELSE {1}
      /\ IF z = Nil
         THEN UNCHANGED <<tree, entry, call>>
         ELSE /\ tree' = Substituted(tree, y, x)
              /\ entry' = Moved(y, z)
              /\ call' = [op |-> "remove", node |-> x, gone |-> y]
      /\ UNCHANGED count

\* rebalance is called when a black node went, and climbs from x.
RemoveGoesOn ==
  /\ call.op = "remove" /\ ~Red(tree, call.gone)
  /\ call.node # tree.root /\ ~Red(tree, call.node)

\* A red sibling is turned over the parent first, for a black one.
WithBlackSibling(side, x) ==
  LET p == tree.parent[x]
      w == tree.child[Other(side)][p]
  IN  IF Red(tree, w)
      THEN Rotated(side, Painted(Painted(tree, {w}, "black"), {p}, "red"), p)
      ELSE tree

\* Then a sibling with a red child on the near side only is turned away.
WithFarRed(side, t, w) ==
  LET far == t.child[Other(side)][w]
      near == t.child[side][w]
  IN  IF Red(t, far) THEN t
      ELSE Rotated(Other(side), Painted(Painted(t, {near}, "black"), {w}, "red"), w)

\* Fault: the nephew is not painted.
RebalancedRedNephew(side, t, p) ==
  LET w == t.child[Other(side)][p]
  IN  Rotated(side, Painted(Painted(t, {w}, t.color[p]), {p}, "black"), p)

\* Last, the sibling comes up in the colour of the parent.
Rebalanced(side, t, p) ==
  LET w == t.child[Other(side)][p]
      far == t.child[Other(side)][w]
  IN  Rotated(side, Painted(Painted(t, {w}, t.color[p]), {p, far}, "black"), p)

RemoveTurn ==
  LET x == call.node
      p == tree.parent[x]
      side == SideOf(tree, x)
      t == WithBlackSibling(side, x)
      w == t.child[Other(side)][p]
  IN  /\ RemoveGoesOn
      /\ IF \A s \in Sides : ~Red(t, t.child[s][w])
         THEN /\ tree' = Painted(t, {w}, "red")
              /\ call' = [call EXCEPT !.node = p]
         ELSE /\ tree' = Rebalanced(side, WithFarRed(side, t, w), p)
              /\ call' = [call EXCEPT !.node = tree'.root]
      /\ UNCHANGED <<entry, count, asked, answer>>

RemoveReturn ==
  /\ call.op = "remove" /\ ~RemoveGoesOn
  /\ LET y == call.gone
         t == IF Red(tree, y) THEN tree ELSE Painted(tree, {call.node}, "black")
     IN  /\ tree' = [t EXCEPT !.child = [s \in Sides |-> [@[s] EXCEPT ![y] = Nil]],
                              !.parent[y] = Nil, !.color[y] = "black"]
         /\ entry' = [entry EXCEPT ![y] = None]
  /\ count' = count - 1
  /\ call' = Idle
  /\ UNCHANGED <<asked, answer>>

-----------------------------------------------------------------------------
(* The other operations.                                                   *)

Empty ==
  [root |-> Nil,
   child |-> [s \in Sides |-> [n \in Node |-> Nil]],
   parent |-> [n \in Pointer |-> Nil],
   color |-> [n \in Pointer |-> "black"]]

\* destroy counts down at each node it reaches.
Clear ==
  /\ IsIdle
  /\ tree' = [Empty EXCEPT !.parent[Nil] = tree.parent[Nil]]
  /\ entry' = [n \in Node |-> None]
  /\ count' = count - Cardinality({n \in Allocated : Find(NodeKey(n)) = n})
  /\ asked' = <<"clear">> /\ answer' = {}
  /\ UNCHANGED call

FindValue(k) ==
  /\ IsIdle
  /\ asked' = <<"find", k>> /\ answer' = {entry[n][2] : n \in {Find(k)} \ {Nil}}
  /\ UNCHANGED <<tree, entry, count, call>>

Count ==
  /\ IsIdle
  /\ asked' = <<"count">> /\ answer' = {count}
  /\ UNCHANGED <<tree, entry, count, call>>

\* An iterator that is reset goes to the first or the last item; one that is at
\* an item goes to its neighbour.  Its node is still that of its key, as long
\* as nothing was removed since: an iterator is not used across a removal.
\* From the end of an empty set operator-- stops before the beginning, which
\* is not _nil, and so is taken for an item.
Step(side, at) ==
  LET next == IF at # {} THEN Neighbour(side, CHOOSE n \in at : TRUE)
              ELSE IF tree.root = Nil THEN Nil ELSE Outermost(Other(side), tree.root)
      mistaken == side = "left" /\ tree.root = Nil
  IN  /\ mistaken => MayStepBackEmpty
      /\ asked' = <<side, {NodeKey(n) : n \in at}>>
      /\ answer' = IF mistaken THEN {None} ELSE {NodeKey(n) : n \in {next} \ {Nil}}

Iterate ==
  /\ IsIdle
  /\ \E side \in Sides, at \in {{}} \cup {{n} : n \in Allocated} : Step(side, at)
  /\ UNCHANGED <<tree, entry, count, call>>

-----------------------------------------------------------------------------

Init ==
  /\ tree = Empty
  /\ entry = [n \in Node |-> None]
  /\ count = 0 /\ call = Idle /\ asked = <<>> /\ answer = {}

Turn == InsertTurn \/ InsertReturn \/ RemoveTurn \/ RemoveReturn

Next ==
  \/ \E e \in Entries : Insert(e)
  \/ \E k \in Key : Remove(k) \/ FindValue(k)
  \/ Turn
  \/ Clear
  \/ Count
  \/ Iterate

Spec == Init /\ [][Next]_vars

\* A call, once made, goes on; nobody has to make one.
FairSpec == Spec /\ WF_vars(Turn)
-----------------------------------------------------------------------------
(* What must hold.                                                         *)

\* The nodes of the tree, without the one that is about to be deleted.
InTree == Allocated \ {call.gone}

TypeOK ==
  /\ tree \in [root : Pointer, child : [Sides -> [Node -> Pointer]],
               parent : [Pointer -> Pointer], color : [Pointer -> {"red", "black"}]]
  /\ entry \in [Node -> Entries \cup {None}]
  /\ call \in [op : {"none", "insert", "remove"}, node : Pointer, gone : Pointer]
  /\ count = Cardinality(Allocated)
  /\ \A n \in InTree :
       /\ \A side \in Sides : LET c == tree.child[side][n] IN
            c # Nil => c \in InTree /\ tree.parent[c] = n
       /\ IF tree.parent[n] = Nil THEN tree.root = n
          ELSE tree.parent[n] \in InTree /\ \E side \in Sides : tree.child[side][tree.parent[n]] = n

\* blackHeight.
BlackHeight(n) ==
  LET height[m \in Pointer] ==
        IF m = Nil THEN 1
        ELSE height[tree.child["left"][m]] + IF Red(tree, m) THEN 0 ELSE 1
  IN  height[n]

\* Whenever a call has returned the tree is what checkInvariant asserts of every
\* node, so that its height stays logarithmic: a red node has black children, and
\* there are as many black nodes on each way down.
IsRedBlack ==
  IsIdle =>
    /\ ~Red(tree, tree.root)
    /\ \A n \in Allocated :
         /\ Red(tree, n) => \A side \in Sides : ~Red(tree, tree.child[side][n])
         /\ BlackHeight(tree.child["left"][n]) = BlackHeight(tree.child["right"][n])

\* Whatever was inserted and removed, a search finds what is there, with its
\* value, an iterator visits it in order, and count counts it.  No turn of the
\* loops changes what a search would find.
Promise == INSTANCE KeyedSet WITH
  contents <- [k \in {j \in Key : Find(j) # Nil} |-> entry[Find(k)][2]]

ImplementsSet == Promise!Spec

\* Every insertion and removal ends: its loop climbs until it leaves at the root.
CallsReturn == (call.op # "none") ~> IsIdle

\* POSTCONDITION("Consistent result", IMPLIES(result, !before())) of operator--.
StepsReachItems == asked = <<"left", {}>> => answer # {None}
=============================================================================
