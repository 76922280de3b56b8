------------------------- MODULE RedBlackTreeProofs -------------------------
(***************************************************************************)
(* What is proved of RedBlackTree, for any number of nodes and any keys:   *)
(* its links are those of a tree, whose nodes are in the order of their    *)
(* keys and which is balanced whenever no call is running; and what it     *)
(* does is what KeyedSet promises.                                         *)
(***************************************************************************)
EXTENDS RedBlackTree, FiniteSetTheorems, TLAPS

(***************************************************************************)
(* A tree as a value.  I are the nodes that are in it.                     *)
(***************************************************************************)

Tree ==
  [root : Pointer, child : [Sides -> [Node -> Pointer]],
   parent : [Pointer -> Pointer], color : [Pointer -> {"red", "black"}]]

\* Children and parents name each other.
Shape(t, I) ==
  /\ t \in Tree /\ I \subseteq Node
  /\ \A n \in Node : \A s \in Sides : t.child[s][n] \in I \cup {Nil}
  /\ \A n \in I : \A s \in Sides : t.child[s][n] # Nil => t.parent[t.child[s][n]] = n
  /\ \A n \in I : t.parent[n] # Nil =>
       t.parent[n] \in I /\ \E s \in Sides : t.child[s][t.parent[n]] = n
  /\ \A n \in I : t.parent[n] = Nil <=> t.root = n
  /\ t.root \in I \cup {Nil}
  /\ \A n \in I : t.child["left"][n] = t.child["right"][n] => t.child["left"][n] = Nil

\* Whoever climbs leaves any set of nodes, and whoever descends does too.
Rises(t, I) == \A S \in SUBSET I : S # {} => \E n \in S : t.parent[n] \notin S
Falls(t, I) ==
  \A S \in SUBSET I : S # {} => \E n \in S : \A s \in Sides : t.child[s][n] \notin S

-----------------------------------------------------------------------------
(* Sides.                                                                  *)

\* There are two sides, each the other of the other.
LEMMA TwoSides ==
  /\ Sides = {"left", "right"} /\ "left" # "right"
  /\ Other("left") = "right" /\ Other("right") = "left"
  /\ \A s \in Sides : Other(s) \in Sides /\ Other(s) # s /\ Other(Other(s)) = s
  /\ \A s, r \in Sides : r = s \/ r = Other(s)
<1>1. Sides = {"left", "right"} /\ "left" # "right"
  BY DEF Sides
<1>2. Other("left") = "right"
  BY <1>1 DEF Other
<1>3. Other("right") = "left"
  BY <1>1 DEF Other
<1> QED BY <1>1, <1>2, <1>3, Zenon

\* _nil is not a node.
LEMMA NilIsNoNode == Nil \notin Node /\ Pointer = Node \cup {Nil}
BY TreeAssumption DEF Pointer

\* The children of a node of the tree are two, and its nodes have their parents
\* in it.
LEMMA ShapeFacts ==
  ASSUME NEW t, NEW I, Shape(t, I), NEW n \in I, NEW s \in Sides
  PROVE  /\ n \in Node /\ n # Nil /\ t.parent[n] \in I \cup {Nil}
         /\ t.child[s][n] \in I \cup {Nil}
         /\ t.child[s][n] # Nil => /\ t.parent[t.child[s][n]] = n
                                   /\ t.child[Other(s)][n] # t.child[s][n]
<1>1. t.child[s][n] # Nil => t.child[Other(s)][n] # t.child[s][n]
  BY TwoSides DEF Shape
<1> QED BY <1>1, NilIsNoNode DEF Shape

\* A child is in the tree, and has the node as its parent.
LEMMA ChildFacts ==
  ASSUME NEW t, NEW I, Shape(t, I), NEW n \in I, NEW s \in Sides,
         NEW c, c = t.child[s][n]
  PROVE  /\ c \in I \cup {Nil}
         /\ c # Nil => c \in I /\ t.parent[c] = n
<1>1. n \in Node
  BY DEF Shape
<1>2. c \in I \cup {Nil}
  BY <1>1 DEF Shape
<1>3. c # Nil => t.parent[c] = n
  BY DEF Shape
<1> QED BY <1>2, <1>3

\* Two children differ.
LEMMA TwoChildren ==
  ASSUME NEW t, NEW I, Shape(t, I), NEW n \in I, NEW s \in Sides, NEW r \in Sides, r # s,
         t.child[r][n] = t.child[s][n]
  PROVE  t.child[s][n] = Nil
<1>1. t.child["left"][n] = t.child["right"][n] => t.child["left"][n] = Nil
  BY DEF Shape
<1> QED BY <1>1, TwoSides, Zenon

\* A node is the child of one node on one side.
LEMMA OneParent ==
  ASSUME NEW t, NEW I, Shape(t, I), NEW n \in I, NEW s \in Sides, NEW m \in I, NEW r \in Sides,
         t.child[s][n] = t.child[r][m], t.child[s][n] # Nil
  PROVE  m = n /\ r = s
<1>1. m = n
  BY ShapeFacts
<1> QED BY <1>1, TwoSides, ShapeFacts

\* A node is on the side of its parent that SideOf says.
LEMMA SideOfIs ==
  ASSUME NEW t, NEW I, Shape(t, I), NEW n \in I, t.parent[n] # Nil
  PROVE  /\ SideOf(t, n) \in Sides /\ t.parent[n] \in I
         /\ t.child[SideOf(t, n)][t.parent[n]] = n
         /\ \A s \in Sides : t.child[s][t.parent[n]] = n => s = SideOf(t, n)
<1>1. t.parent[n] \in I /\ \E s \in Sides : t.child[s][t.parent[n]] = n
  BY DEF Shape
<1>2. SideOf(t, n) \in Sides
  BY TwoSides DEF SideOf
<1>3. t.child[SideOf(t, n)][t.parent[n]] = n
  BY <1>1, TwoSides DEF SideOf
<1>4. ASSUME NEW s \in Sides, t.child[s][t.parent[n]] = n PROVE s = SideOf(t, n)
  <2>1. n # Nil
    BY ShapeFacts, <1>2
  <2>2. PICK p : p = t.parent[n]
    OBVIOUS
  <2>3. p \in I /\ t.child[s][p] = n /\ t.child[SideOf(t, n)][p] = n
    BY <1>1, <1>3, <1>4, <2>2
  <2> QED BY <1>2, <1>4, <2>1, <2>3, OneParent
<1> QED BY <1>1, <1>2, <1>3, <1>4

\* No node is its own parent or child.
LEMMA NoLoops ==
  ASSUME NEW t, NEW I, Shape(t, I), Rises(t, I), NEW n \in I, NEW s \in Sides
  PROVE  /\ t.parent[n] # n /\ t.child[s][n] # n
         /\ t.parent[n] # Nil => t.parent[t.parent[n]] # n
         /\ t.child[s][n] # Nil => /\ t.parent[n] # t.child[s][n]
                                   /\ \A r \in Sides : t.child[r][t.child[s][n]] # n
<1>1. ASSUME NEW m \in I, t.parent[m] = m PROVE FALSE
  <2>1. {m} \in SUBSET I /\ {m} # {}
    OBVIOUS
  <2> QED BY <1>1, <2>1 DEF Rises
<1>2. ASSUME NEW m \in I, NEW l \in I, t.parent[m] = l, t.parent[l] = m PROVE FALSE
  <2>1. {m, l} \in SUBSET I
    OBVIOUS
  <2> QED BY <1>2, <2>1 DEF Rises
<1>3. n # Nil /\ n \in Node
  BY ShapeFacts
<1>4. t.child[s][n] # n
  BY <1>1, <1>3, ShapeFacts
<1>5. t.parent[n] # Nil => t.parent[t.parent[n]] # n
  BY <1>2, ShapeFacts
<1>6. ASSUME t.child[s][n] # Nil
      PROVE  t.parent[n] # t.child[s][n] /\ \A r \in Sides : t.child[r][t.child[s][n]] # n
  <2>1. t.child[s][n] \in I /\ t.parent[t.child[s][n]] = n
    BY <1>6, ShapeFacts
  <2>2. t.parent[n] # t.child[s][n]
    BY <1>2, <2>1
  <2> QED BY <1>3, <2>1, <2>2, ShapeFacts
<1> QED BY <1>1, <1>4, <1>5, <1>6

-----------------------------------------------------------------------------
(* Replacing a node under its parent, and rotating.                        *)

\* m takes the place of n.
Replaced(t, u, I, n, m) ==
  /\ u \in Tree /\ u.color = t.color
  /\ u.root = (IF t.parent[n] = Nil THEN m ELSE t.root)
  /\ \A q \in Pointer : u.parent[q] = IF q = m THEN t.parent[n] ELSE t.parent[q]
  /\ \A q \in I, s \in Sides :
       u.child[s][q] = IF t.child[s][q] = n THEN m ELSE t.child[s][q]
  /\ \A q \in Node \ I, s \in Sides : u.child[s][q] = t.child[s][q]

\* That is what Substituted makes of a tree.
LEMMA SubstitutedIs ==
  ASSUME NEW t, NEW I, Shape(t, I), NEW n \in I, NEW m \in Pointer
  PROVE  Replaced(t, Substituted(t, n, m), I, n, m)
<1> DEFINE p == t.parent[n]
           u == Substituted(t, n, m)
<1>1. n \in Node /\ n # Nil /\ p \in I \cup {Nil} /\ I \subseteq Node
  BY TwoSides, ShapeFacts DEF Shape
<1>2. t \in Tree
  BY DEF Shape
<1>3. CASE p = Nil
  <2>1. u = [[t EXCEPT !.parent[m] = p] EXCEPT !.root = m]
    BY <1>3 DEF Substituted
  <2>2. \A q \in I, s \in Sides : t.child[s][q] # n
    BY <1>1, <1>3, ShapeFacts
  <2> HIDE DEF p, u
  <2>3. /\ u \in Tree /\ u.color = t.color /\ u.root = m /\ u.child = t.child
        /\ \A q \in Pointer : u.parent[q] = IF q = m THEN p ELSE t.parent[q]
    BY <1>1, <1>2, <2>1, NilIsNoNode DEF Tree
  <2> QED BY <1>3, <2>2, <2>3 DEF Replaced, p, u
<1>4. CASE p # Nil
  <2> DEFINE side == SideOf(t, n)
  <2>1. /\ side \in Sides /\ p \in I /\ t.child[side][p] = n
    BY <1>4, SideOfIs
  <2>2. u = [[t EXCEPT !.parent[m] = p] EXCEPT !.child[side][p] = m]
    BY <1>4 DEF Substituted
  <2>3. \A q \in I, s \in Sides : t.child[s][q] = n => q = p /\ s = side
    BY <1>1, <2>1, OneParent
  <2> HIDE DEF p, u, side
  <2>4. /\ u \in Tree /\ u.color = t.color /\ u.root = t.root
        /\ \A q \in Pointer : u.parent[q] = IF q = m THEN p ELSE t.parent[q]
    BY <1>1, <1>2, <2>1, <2>2, NilIsNoNode DEF Tree
  <2>5. \A q \in Node, s \in Sides :
          u.child[s][q] = IF q = p /\ s = side THEN m ELSE t.child[s][q]
    BY <1>1, <1>2, <2>1, <2>2, NilIsNoNode DEF Tree
  <2>6. p \notin Node \ I
    BY <2>1
  <2>7. \A q \in I, s \in Sides :
          u.child[s][q] = IF t.child[s][q] = n THEN m ELSE t.child[s][q]
    BY <1>1, <2>1, <2>3, <2>5
  <2>8. \A q \in Node \ I, s \in Sides : u.child[s][q] = t.child[s][q]
    BY <2>5, <2>6
  <2> QED BY <1>4, <2>4, <2>7, <2>8 DEF Replaced, p, u
<1> QED BY <1>3, <1>4

\* y, the child of n on the other side, comes up, and i, its child on this side,
\* goes over to n.
Turned(t, u, I, side, n, y, i) ==
  /\ u \in Tree /\ u.color = t.color
  /\ u.root = (IF t.parent[n] = Nil THEN y ELSE t.root)
  /\ \A m \in Node : u.parent[m] = IF m = i THEN n
                                   ELSE IF m = n THEN y
                                   ELSE IF m = y THEN t.parent[n]
                                   ELSE t.parent[m]
  /\ u.parent[Nil] = t.parent[Nil]
  /\ u.child[side][n] = t.child[side][n] /\ u.child[Other(side)][n] = i
  /\ u.child[side][y] = n /\ u.child[Other(side)][y] = t.child[Other(side)][y]
  /\ \A m \in I \ {n, y}, s \in Sides :
       u.child[s][m] = IF t.child[s][m] = n THEN y ELSE t.child[s][m]
  /\ \A m \in Node \ I, s \in Sides : u.child[s][m] = t.child[s][m]

\* That is what Rotated makes of a tree.
LEMMA RotatedIs ==
  ASSUME NEW t, NEW I, Shape(t, I), Rises(t, I), NEW side \in Sides, NEW n \in I,
         NEW y, y = t.child[Other(side)][n], y # Nil, NEW i, i = t.child[side][y]
  PROVE  Turned(t, Rotated(side, t, n), I, side, n, y, i)
<1> DEFINE v == Substituted(t, n, y)
           u == Rotated(side, t, n)
<1>1. /\ n \in Node /\ n # Nil /\ y \in I /\ y \in Node /\ y # n /\ I \subseteq Node
      /\ i \in I \cup {Nil} /\ t.parent[y] = n
  BY TwoSides, ShapeFacts, NoLoops DEF Shape
<1>2. /\ Other(side) \in Sides /\ Other(side) # side /\ y \in Pointer /\ i \in Pointer
      /\ i # n /\ i # y
  BY <1>1, TwoSides, NilIsNoNode, NoLoops
<1>3. Replaced(t, v, I, n, y)
  BY <1>2, SubstitutedIs
<1>4. u = [v EXCEPT !.child[Other(side)][n] = i, !.child[side][y] = n,
                    !.parent = [m \in Pointer |-> IF m = i /\ m # Nil THEN n
                                                  ELSE IF m = n THEN y ELSE @[m]]]
  BY DEF Rotated
<1> HIDE DEF u, v
<1>5. v \in Tree
  BY <1>3 DEF Replaced
<1>6. u = [v EXCEPT !.child = [@ EXCEPT ![Other(side)][n] = i, ![side][y] = n],
                    !.parent = [m \in Pointer |-> IF m = i /\ m # Nil THEN n
                                                  ELSE IF m = n THEN y ELSE v.parent[m]]]
  BY <1>4, <1>5, <1>2, <1>1, Zenon DEF Tree
<1>7. /\ u.color = v.color /\ u.root = v.root
      /\ u.parent = [m \in Pointer |-> IF m = i /\ m # Nil THEN n
                                       ELSE IF m = n THEN y ELSE v.parent[m]]
      /\ u.child = [v.child EXCEPT ![Other(side)][n] = i, ![side][y] = n]
      /\ u = [root |-> u.root, child |-> u.child, parent |-> u.parent, color |-> u.color]
  BY <1>5, <1>6, Zenon DEF Tree
<1>8. \A s \in Sides, m \in Node :
        u.child[s][m] = IF s = Other(side) /\ m = n THEN i
                        ELSE IF s = side /\ m = y THEN n ELSE v.child[s][m]
  BY <1>1, <1>2, <1>5, <1>7, SMTT(40) DEF Tree
<1>9. u \in Tree
  <2>1. u.child \in [Sides -> [Node -> Pointer]]
    <3>1. v.child \in [Sides -> [Node -> Pointer]] /\ n \in Pointer
      BY <1>1, <1>5, NilIsNoNode DEF Tree
    <3>2. PICK c : c = [v.child EXCEPT ![Other(side)][n] = i]
      OBVIOUS
    <3>3. c \in [Sides -> [Node -> Pointer]]
      BY <1>1, <1>2, <3>1, <3>2, Zenon
    <3>4. u.child = [c EXCEPT ![side][y] = n]
      BY <1>7, <3>2, Zenon
    <3> QED BY <1>1, <3>1, <3>3, <3>4
  <2>2. u.parent \in [Pointer -> Pointer]
    BY <1>1, <1>2, <1>5, <1>7, NilIsNoNode, SMTT(40) DEF Tree
  <2> QED BY <1>5, <1>7, <2>1, <2>2, Zenon DEF Tree
<1>10. \A m \in Node : u.parent[m] = IF m = i THEN n
                                     ELSE IF m = n THEN y
                                     ELSE IF m = y THEN t.parent[n]
                                     ELSE t.parent[m]
  BY <1>1, <1>2, <1>3, <1>7, NilIsNoNode, SMTT(40) DEF Replaced
<1>11. u.parent[Nil] = t.parent[Nil]
  BY <1>1, <1>2, <1>3, <1>7, NilIsNoNode, SMTT(40) DEF Replaced
<1>12. /\ t.child[side][n] # n /\ t.child[Other(side)][y] # n
  BY <1>1, <1>2, NoLoops
<1>13. /\ u.child[side][n] = t.child[side][n] /\ u.child[Other(side)][n] = i
       /\ u.child[side][y] = n /\ u.child[Other(side)][y] = t.child[Other(side)][y]
  BY <1>1, <1>2, <1>3, <1>8, <1>12 DEF Replaced
<1>14. \A m \in I \ {n, y}, s \in Sides :
         u.child[s][m] = IF t.child[s][m] = n THEN y ELSE t.child[s][m]
  BY <1>1, <1>3, <1>8 DEF Replaced
<1>15. \A m \in Node \ I, s \in Sides : u.child[s][m] = t.child[s][m]
  BY <1>1, <1>3, <1>8 DEF Replaced
<1>16. u.color = t.color /\ u.root = (IF t.parent[n] = Nil THEN y ELSE t.root)
  BY <1>3, <1>7, Zenon DEF Replaced
<1> QED BY <1>9, <1>10, <1>11, <1>13, <1>14, <1>15, <1>16, Zenon DEF Turned, u

\* The nodes that a rotation touches.
LEMMA TurnedNodes ==
  ASSUME NEW t, NEW I, Shape(t, I), Rises(t, I), NEW side \in Sides, NEW n \in I,
         NEW y, y = t.child[Other(side)][n], y # Nil, NEW i, i = t.child[side][y]
  PROVE  /\ n \in Node /\ n # Nil /\ y \in I /\ y \in Node /\ y # n /\ I \subseteq Node
         /\ i \in I \cup {Nil} /\ i # n /\ i # y /\ t.parent[y] = n
         /\ i # Nil => i \in I /\ t.parent[i] = y
         /\ t.parent[n] # y /\ t.parent[n] # n /\ (i # Nil => t.parent[n] # i)
         /\ Other(side) \in Sides /\ Other(side) # side
<1>1. /\ n \in Node /\ n # Nil /\ y \in I /\ y \in Node /\ y # n /\ I \subseteq Node
      /\ i \in I \cup {Nil} /\ t.parent[y] = n
  BY TwoSides, ShapeFacts, NoLoops DEF Shape
<1>2. /\ Other(side) \in Sides /\ Other(side) # side /\ i # n /\ i # y
      /\ t.parent[n] # y /\ t.parent[n] # n
  BY <1>1, TwoSides, NoLoops
<1>3. i # Nil => i \in I /\ t.parent[i] = y
  BY <1>1, ShapeFacts
<1>4. i # Nil => t.parent[n] # i
  <2>1. SUFFICES ASSUME i # Nil, t.parent[n] = i PROVE FALSE
    OBVIOUS
  <2>2. {n, y, i} \in SUBSET I /\ {n, y, i} # {}
    BY <1>1, <1>3, <2>1
  <2> QED BY <1>1, <1>3, <2>1, <2>2 DEF Rises
<1>5. i = Nil => t.parent[n] # i \/ t.parent[n] = Nil
  OBVIOUS
<1> QED BY <1>1, <1>2, <1>3, <1>4, <1>5, Zenon

\* A rotation keeps the links of children and parents in agreement.
LEMMA TurnedShape ==
  ASSUME NEW t, NEW u, NEW I, Shape(t, I), Rises(t, I), NEW side \in Sides, NEW n \in I,
         NEW y, y = t.child[Other(side)][n], y # Nil, NEW i, i = t.child[side][y],
         Turned(t, u, I, side, n, y, i)
  PROVE  Shape(u, I)
<1> DEFINE o == Other(side)
           a == t.child[side][n]
           b == t.child[o][y]
<1>1. /\ n \in Node /\ n # Nil /\ y \in I /\ y \in Node /\ y # n /\ I \subseteq Node
      /\ i \in I \cup {Nil} /\ i # n /\ i # y /\ t.parent[y] = n
      /\ (i # Nil => i \in I /\ t.parent[i] = y)
      /\ t.parent[n] # y /\ t.parent[n] # n /\ (i # Nil => t.parent[n] # i)
      /\ o \in Sides /\ o # side
  BY TurnedNodes
<1>2. \A s \in Sides : s = side \/ s = o
  BY TwoSides, Zenon
<1>3. /\ a \in I \cup {Nil} /\ a # n /\ a # y /\ (a # Nil => a \in I /\ a # i /\ t.parent[a] = n)
  <2>1. a \in I \cup {Nil} /\ (a # Nil => t.parent[a] = n /\ y # a)
    <3>1. a \in I \cup {Nil} /\ (a # Nil => t.parent[a] = n)
      BY ChildFacts
    <3>2. y = a => y = Nil
      BY <1>1, TwoChildren
    <3> QED BY <3>1, <3>2
  <2> QED BY <1>1, <2>1, NoLoops, Zenon
<1>4. /\ b \in I \cup {Nil} /\ b # n /\ b # y /\ (b # Nil => b \in I /\ b # i /\ t.parent[b] = y)
  <2>1. b \in I \cup {Nil} /\ (b # Nil => t.parent[b] = y /\ i # b)
    <3>1. Other(o) = side
      BY TwoSides, Zenon
    <3>2. b \in I \cup {Nil} /\ (b # Nil => t.parent[b] = y)
      BY <1>1, ChildFacts
    <3>3. i = b => b = Nil
      BY <1>1, TwoChildren, Zenon
    <3> QED BY <3>2, <3>3
  <2>2. b # n /\ b # y
    BY <1>1, NoLoops
  <2> QED BY <1>1, <2>1, <2>2, Zenon
<1>5. /\ u \in Tree
      /\ u.root = (IF t.parent[n] = Nil THEN y ELSE t.root)
      /\ \A m \in Node : u.parent[m] = IF m = i THEN n
                                       ELSE IF m = n THEN y
                                       ELSE IF m = y THEN t.parent[n]
                                       ELSE t.parent[m]
      /\ u.child[side][n] = a /\ u.child[o][n] = i
      /\ u.child[side][y] = n /\ u.child[o][y] = b
      /\ \A m \in I \ {n, y}, s \in Sides :
           u.child[s][m] = IF t.child[s][m] = n THEN y ELSE t.child[s][m]
      /\ \A m \in Node \ I, s \in Sides : u.child[s][m] = t.child[s][m]
  BY Zenon DEF Turned
<1>6. /\ \A m \in Node : \A s \in Sides : t.child[s][m] \in I \cup {Nil}
      /\ \A m \in I : \A s \in Sides : t.child[s][m] # Nil => t.parent[t.child[s][m]] = m
      /\ \A m \in I : t.parent[m] # Nil =>
           t.parent[m] \in I /\ \E s \in Sides : t.child[s][t.parent[m]] = m
      /\ \A m \in I : t.parent[m] = Nil <=> t.root = m
      /\ t.root \in I \cup {Nil}
  BY DEF Shape
<1>7. \A m \in I, s \in Sides : t.child[Other(s)][m] = t.child[s][m] => t.child[s][m] = Nil
  BY ShapeFacts
<1> HIDE DEF o, a, b
<1>8. ASSUME NEW m \in Node, NEW s \in Sides PROVE u.child[s][m] \in I \cup {Nil}
  <2>1. CASE m = n
    BY <1>1, <1>2, <1>3, <1>5, <2>1, Zenon
  <2>4. CASE m = y
    <3>1. CASE s = side
      BY <1>5, <2>4, <3>1, Zenon
    <3>2. CASE s = o
      BY <1>4, <1>5, <2>4, <3>2, Zenon
    <3> QED BY <1>2, <3>1, <3>2
  <2>2. CASE m \in I \ {n, y}
    <3>1. u.child[s][m] = y \/ u.child[s][m] = t.child[s][m]
      BY <1>5, <2>2, Zenon
    <3> QED BY <1>1, <1>6, <3>1, Zenon
  <2>3. CASE m \in Node \ I
    BY <1>5, <1>6, <2>3
  <2> QED BY <2>1, <2>2, <2>3, <2>4
<1>9. ASSUME NEW m \in I, NEW s \in Sides, u.child[s][m] # Nil
      PROVE  u.parent[u.child[s][m]] = m
  <2>1. CASE m = n
    <3>1. CASE s = side
      <4>1. a # Nil /\ u.child[s][m] = a
        BY <1>5, <1>9, <2>1, <3>1, Zenon
      <4>2. a \in Node /\ a # i /\ a # n /\ a # y
        BY <1>1, <1>3, <4>1, Zenon
      <4> QED BY <1>3, <1>5, <2>1, <4>1, <4>2, Zenon
    <3>2. CASE s = o
      <4>1. i # Nil /\ u.child[s][m] = i
        BY <1>5, <1>9, <2>1, <3>2, Zenon
      <4>2. i \in Node
        BY <1>1, <4>1, Zenon
      <4> QED BY <1>5, <2>1, <4>1, <4>2, Zenon
    <3> QED BY <1>2, <3>1, <3>2
  <2>2. CASE m = y
    <3>1. CASE s = side
      BY <1>1, <1>5, <2>2, <3>1, Zenon
    <3>2. CASE s = o
      <4>1. b # Nil /\ u.child[s][m] = b
        BY <1>5, <1>9, <2>2, <3>2, Zenon
      <4>2. b \in Node /\ b # i /\ b # n /\ b # y
        BY <1>1, <1>4, <4>1, Zenon
      <4> QED BY <1>4, <1>5, <2>2, <4>1, <4>2, Zenon
    <3> QED BY <1>2, <3>1, <3>2
  <2>3. CASE m \notin {n, y} /\ t.child[s][m] = n
    <3>1. u.child[s][m] = y /\ t.parent[n] = m
      BY <1>1, <1>5, <1>6, <2>3, ZenonT(40)
    <3>2. u.parent[y] = t.parent[n]
      BY <1>1, <1>5, Zenon
    <3> QED BY <3>1, <3>2
  <2>4. CASE m \notin {n, y} /\ t.child[s][m] # n
    <3>1. u.child[s][m] = t.child[s][m] /\ t.child[s][m] # Nil
      BY <1>5, <1>9, <2>4, Zenon
    <3>2. t.child[s][m] \in Node /\ t.parent[t.child[s][m]] = m
      BY <1>1, <1>6, <3>1, Zenon
    <3>3. t.child[s][m] # i /\ t.child[s][m] # y
      BY <1>1, <2>4, <3>1, <3>2, Zenon
    <3> QED BY <1>5, <2>4, <3>1, <3>2, <3>3, Zenon
  <2> QED BY <2>1, <2>2, <2>3, <2>4, Zenon
<1>10. ASSUME NEW m \in I, u.parent[m] # Nil
       PROVE  u.parent[m] \in I /\ \E s \in Sides : u.child[s][u.parent[m]] = m
  <2>1. CASE m = i \/ m = n
    BY <1>1, <1>5, <2>1, Zenon
  <2>2. CASE m = y
    <3>1. t.parent[n] \in I \ {n, y} /\ \E s \in Sides : t.child[s][t.parent[n]] = n
      BY <1>1, <1>5, <1>6, <1>10, <2>2, Zenon
    <3>2. u.parent[m] = t.parent[n]
      BY <1>1, <1>5, <2>2, Zenon
    <3> QED BY <1>5, <2>2, <3>1, <3>2
  <2>3. CASE m \notin {i, n, y}
    <3>1. u.parent[m] = t.parent[m]
      BY <1>1, <1>5, <2>3, Zenon
    <3>2. PICK s \in Sides : t.child[s][t.parent[m]] = m /\ t.parent[m] \in I
      BY <1>6, <1>10, <3>1, Zenon
    <3>3. CASE t.parent[m] = n
      BY <1>2, <1>5, <2>3, <3>1, <3>2, <3>3, SMT DEF a, o
    <3>4. CASE t.parent[m] = y
      BY <1>2, <1>5, <2>3, <3>1, <3>2, <3>4, Zenon DEF b, o
    <3>5. CASE t.parent[m] \notin {n, y}
      BY <1>5, <2>3, <3>1, <3>2, <3>5
    <3> QED BY <3>3, <3>4, <3>5
  <2> QED BY <2>1, <2>2, <2>3, Zenon
<1>11. ASSUME NEW m \in I PROVE u.parent[m] = Nil <=> u.root = m
  <2>0. m # Nil /\ m \in Node /\ n \in I
    BY <1>1, NilIsNoNode, Zenon
  <2>1. CASE m = i \/ m = n
    <3>1. u.parent[m] # Nil
      BY <1>1, <1>5, <2>1, NilIsNoNode, Zenon
    <3>2. u.root # m
      BY <1>1, <1>5, <1>6, <2>0, <2>1, Zenon
    <3> QED BY <3>1, <3>2
  <2>2. CASE m = y
    <3>1. u.parent[m] = t.parent[n] /\ t.parent[m] # Nil
      BY <1>1, <1>5, <2>2, Zenon
    <3>2. t.root # m
      BY <1>6, <3>1
    <3>3. CASE t.parent[n] = Nil
      BY <1>5, <2>2, <3>1, <3>3, Zenon
    <3>4. CASE t.parent[n] # Nil
      BY <1>5, <3>1, <3>2, <3>4, Zenon
    <3> QED BY <3>3, <3>4
  <2>3. CASE m \notin {i, n, y}
    <3>1. u.parent[m] = t.parent[m]
      BY <1>5, <2>0, <2>3, Zenon
    <3>2. CASE t.parent[n] = Nil
      BY <1>5, <1>6, <2>3, <3>1, <3>2
    <3>3. CASE t.parent[n] # Nil
      BY <1>5, <1>6, <3>1, <3>3, Zenon
    <3> QED BY <3>2, <3>3
  <2> QED BY <2>1, <2>2, <2>3, Zenon
<1>12. u.root \in I \cup {Nil}
  BY <1>1, <1>5, <1>6, Zenon
<1>13. ASSUME NEW m \in I, u.child["left"][m] = u.child["right"][m]
       PROVE  u.child["left"][m] = Nil
  <2>0. \A s \in Sides : u.child[s][m] = u.child[Other(s)][m]
    BY <1>13, TwoSides
  <2>1. CASE m = n
    <3>1. a = i
      BY <1>1, <1>5, <2>0, <2>1, Zenon DEF o
    <3>2. a = Nil
      BY <1>3, <3>1
    <3>3. \A s \in Sides : u.child[s][m] = Nil
      BY <1>2, <1>5, <2>1, <3>1, <3>2
    <3> QED BY <3>3, TwoSides, Zenon
  <2>2. CASE m = y
    <3>1. n = b
      BY <1>1, <1>5, <2>0, <2>2, Zenon DEF o
    <3> QED BY <1>4, <3>1
  <2>3. CASE m \notin {n, y}
    <3>1. t.child["left"][m] = t.child["right"][m] => t.child["left"][m] = Nil
      BY SMTT(40) DEF Shape
    <3>2. \A s \in Sides : t.child[s][m] # y
      BY <1>1, <1>6, <2>3, NilIsNoNode
    <3>3. /\ u.child["left"][m] = IF t.child["left"][m] = n THEN y ELSE t.child["left"][m]
          /\ u.child["right"][m] = IF t.child["right"][m] = n THEN y ELSE t.child["right"][m]
      BY <1>5, <2>3, TwoSides, Zenon
    <3>4. t.child["left"][m] # y /\ t.child["right"][m] # y
      BY <3>2, TwoSides
    <3> QED BY <1>1, <1>13, <3>1, <3>3, <3>4, Zenon
  <2> QED BY <2>1, <2>2, <2>3
<1> QED BY <1>1, <1>5, <1>8, <1>9, <1>10, <1>11, <1>12, <1>13, Zenon DEF Shape

\* A rotation leaves no set of nodes closed upwards, or downwards.
LEMMA TurnedRises ==
  ASSUME NEW t, NEW u, NEW I, Shape(t, I), Rises(t, I), NEW side \in Sides, NEW n \in I,
         NEW y, y = t.child[Other(side)][n], y # Nil, NEW i, i = t.child[side][y],
         Turned(t, u, I, side, n, y, i)
  PROVE  Rises(u, I)
<1>1. /\ n \in Node /\ n # Nil /\ y \in I /\ y \in Node /\ y # n /\ I \subseteq Node
      /\ i \in I \cup {Nil} /\ i # n /\ i # y /\ t.parent[y] = n
      /\ (i # Nil => i \in I /\ t.parent[i] = y)
  BY TurnedNodes
<1>2. \A m \in Node : u.parent[m] = IF m = i THEN n
                                    ELSE IF m = n THEN y
                                    ELSE IF m = y THEN t.parent[n]
                                    ELSE t.parent[m]
  BY DEF Turned
<1>3. SUFFICES ASSUME NEW S \in SUBSET I, S # {}, \A m \in S : u.parent[m] \in S PROVE FALSE
  BY DEF Rises
<1>4. CASE y \in S
  <2> DEFINE R == S \cup {n}
  <2>1. R \in SUBSET I /\ R # {}
    OBVIOUS
  <2>2. t.parent[n] \in S
    BY <1>1, <1>2, <1>3, <1>4, Zenon
  <2>3. ASSUME NEW m \in R PROVE t.parent[m] \in R
    <3>1. CASE m = n
      BY <2>2, <3>1, Zenon
    <3>2. CASE m = y \/ m = i
      BY <1>1, <1>4, <3>2, NilIsNoNode, Zenon
    <3>3. CASE m \in S \ {n, y, i}
      BY <1>1, <1>2, <1>3, <3>3, Zenon
    <3> QED BY <3>1, <3>2, <3>3
  <2> QED BY <2>1, <2>3, Zenon DEF Rises
<1>5. CASE y \notin S
  <2>1. n \notin S /\ i \notin S
    BY <1>1, <1>2, <1>3, <1>5, Zenon
  <2>2. \A m \in S : t.parent[m] \in S
    BY <1>1, <1>2, <1>3, <1>5, <2>1, Zenon
  <2> QED BY <1>3, <2>2, Zenon DEF Rises
<1> QED BY <1>4, <1>5, Zenon

\* Nor does it close a loop of links downwards.
LEMMA TurnedFalls ==
  ASSUME NEW t, NEW u, NEW I, Shape(t, I), Rises(t, I), Falls(t, I), NEW side \in Sides, NEW n \in I,
         NEW y, y = t.child[Other(side)][n], y # Nil, NEW i, i = t.child[side][y],
         Turned(t, u, I, side, n, y, i)
  PROVE  Falls(u, I)
<1> DEFINE o == Other(side)
           a == t.child[side][n]
           b == t.child[o][y]
<1>1. /\ n \in Node /\ n # Nil /\ y \in I /\ y \in Node /\ y # n /\ I \subseteq Node
      /\ i \in I \cup {Nil} /\ i # n /\ i # y /\ t.parent[y] = n
      /\ o \in Sides /\ o # side
  BY TurnedNodes
<1>2. \A s \in Sides : s = side \/ s = o
  BY TwoSides
<1>3. /\ a # y /\ a # n /\ b # n /\ b # y
  <2>1. a # y
    BY ShapeFacts, TwoSides
  <2> QED BY <1>1, <2>1, NoLoops
<1>4. /\ u.child[side][n] = a /\ u.child[o][n] = i
      /\ u.child[side][y] = n /\ u.child[o][y] = b
      /\ \A m \in I \ {n, y}, s \in Sides :
           u.child[s][m] = IF t.child[s][m] = n THEN y ELSE t.child[s][m]
  BY DEF Turned
<1>5. t.child[side][n] = a /\ t.child[o][n] = y /\ t.child[side][y] = i /\ t.child[o][y] = b
  OBVIOUS
<1> HIDE DEF o, a, b
<1>6. SUFFICES ASSUME NEW S \in SUBSET I, S # {}, \A m \in S : \E s \in Sides : u.child[s][m] \in S
               PROVE  FALSE
  BY DEF Falls
<1>7. ASSUME NEW R \in SUBSET I, R # {}, \A m \in R : \E s \in Sides : t.child[s][m] \in R
      PROVE  FALSE
  BY <1>7 DEF Falls
<1>8. CASE y \in S /\ (b \in S \/ i \in S)
  <2> DEFINE R == S \cup {n}
  <2>1. ASSUME NEW m \in R PROVE \E s \in Sides : t.child[s][m] \in R
    <3>1. CASE m \in {n, y}
      BY <1>1, <1>5, <1>8, <3>1, Zenon
    <3>2. CASE m \notin {n, y}
      BY <1>1, <1>4, <1>6, <3>2, Zenon
    <3> QED BY <3>1, <3>2
  <2> QED BY <1>7, <2>1
<1>9. CASE y \in S /\ b \notin S /\ i \notin S
  <2> DEFINE R == (S \cup {n}) \ {y}
  <2>1. n \in S /\ a \in S
    BY <1>1, <1>2, <1>4, <1>6, <1>9
  <2>2. ASSUME NEW m \in R PROVE \E s \in Sides : t.child[s][m] \in R
    <3>1. CASE m = n
      BY <1>1, <1>3, <1>5, <2>1, <3>1, Zenon
    <3>2. CASE m # n
      <4>1. PICK s \in Sides : u.child[s][m] \in S
        BY <1>6, <3>2
      <4>2. m \in I \ {n, y}
        BY <3>2
      <4>3. t.child[s][m] # y
        BY <1>1, <1>5, <4>2, OneParent
      <4> QED BY <1>1, <1>4, <2>1, <4>1, <4>2, <4>3, Zenon
    <3> QED BY <3>1, <3>2
  <2>3. R \in SUBSET I /\ R # {}
    BY <1>1, <2>1
  <2> HIDE DEF R
  <2> QED BY <1>7, <2>2, <2>3, Zenon
<1>10. CASE y \notin S /\ n \in S /\ i \in S
  <2> DEFINE R == S \cup {y}
  <2>1. ASSUME NEW m \in R PROVE \E s \in Sides : t.child[s][m] \in R
    <3>1. CASE m \in {n, y}
      BY <1>1, <1>5, <1>10, <3>1, Zenon
    <3>2. CASE m \notin {n, y}
      BY <1>1, <1>4, <1>6, <1>10, <3>2
    <3> QED BY <3>1, <3>2
  <2>2. R \in SUBSET I /\ R # {}
    BY <1>1
  <2> HIDE DEF R
  <2> QED BY <1>7, <2>1, <2>2, Zenon
<1>11. CASE y \notin S /\ (n \notin S \/ i \notin S)
  <2>1. ASSUME NEW m \in S PROVE \E s \in Sides : t.child[s][m] \in S
    <3>1. CASE m = n
      BY <1>1, <1>2, <1>4, <1>5, <1>6, <1>11, <3>1
    <3>2. CASE m # n
      BY <1>1, <1>4, <1>6, <1>11, <3>2
    <3> QED BY <3>1, <3>2, Zenon
  <2> QED BY <1>6, <1>7, <2>1
<1> QED BY <1>8, <1>9, <1>10, <1>11

-----------------------------------------------------------------------------
(* Painting.                                                               *)

\* Two trees that differ in colours only.
Alike(t, u) == u \in Tree /\ u.root = t.root /\ u.child = t.child /\ u.parent = t.parent

\* Painting changes the colour of the nodes, and nothing else.
LEMMA PaintedIs ==
  ASSUME NEW t \in Tree, NEW nodes, NEW c \in {"red", "black"}
  PROVE  /\ Alike(t, Painted(t, nodes, c))
         /\ \A n \in Pointer : Painted(t, nodes, c).color[n] = IF n \in nodes THEN c ELSE t.color[n]
<1>1. Painted(t, nodes, c) = [t EXCEPT !.color = [n \in Pointer |-> IF n \in nodes THEN c ELSE t.color[n]]]
  BY DEF Painted, Tree
<1> QED BY <1>1 DEF Alike, Tree

\* The shape of a tree is not a matter of colour.
LEMMA AlikeKeeps ==
  ASSUME NEW t, NEW u, Alike(t, u), NEW I
  PROVE  /\ Shape(t, I) => Shape(u, I)
         /\ Rises(t, I) => Rises(u, I)
         /\ Falls(t, I) => Falls(u, I)
BY DEF Alike, Shape, Rises, Falls

-----------------------------------------------------------------------------
(* Chains: following a pointer until it is _nil.                           *)

\* Following f comes to an end.
Chain(f) ==
  /\ f \in [Node -> Pointer]
  /\ \A S \in SUBSET Node : S # {} => \E n \in S : f[n] \notin S

\* g gives the end.
EndsAt(f, g) ==
  /\ g \in [Node -> Node]
  /\ \A n \in Node : g[n] = IF f[n] = Nil THEN n ELSE g[f[n]]

\* Every chain has its ends: the recursion that follows it is well defined.
LEMMA ChainEnds ==
  ASSUME NEW f, Chain(f)
  PROVE  \E g : EndsAt(f, g)
<1> DEFINE IsClosed(S) == \A x \in S : f[x] # Nil => f[x] \in S
           Reach(n) == {m \in Node : \A S \in SUBSET Node : n \in S /\ IsClosed(S) => m \in S}
           Final(n) == {m \in Reach(n) : f[m] = Nil}
           g == [n \in Node |-> CHOOSE m : m \in Final(n)]
<1>1. f \in [Node -> Pointer] /\ \A n \in Node : f[n] # Nil => f[n] \in Node
  BY NilIsNoNode DEF Chain
<1>2. ASSUME NEW n \in Node PROVE n \in Reach(n) /\ IsClosed(Reach(n))
  BY <1>1
<1>3. ASSUME NEW n \in Node, f[n] = Nil PROVE Final(n) = {n}
  <2>1. {n} \in SUBSET Node /\ n \in {n} /\ IsClosed({n})
    BY <1>3
  <2>2. Reach(n) \subseteq {n}
    BY <2>1
  <2> QED BY <1>2, <1>3, <2>2
<1>4. ASSUME NEW n \in Node, f[n] # Nil PROVE Final(n) = Final(f[n])
  <2>1. f[n] \in Node /\ f[n] \in Reach(n)
    BY <1>1, <1>2, <1>4
  <2>2. Reach(f[n]) \subseteq Reach(n)
    <3>1. Reach(n) \in SUBSET Node /\ IsClosed(Reach(n))
      BY <1>2
    <3> QED BY <2>1, <3>1
  <2>3. Reach(n) \subseteq {n} \cup Reach(f[n])
    <3>1. {n} \cup Reach(f[n]) \in SUBSET Node /\ IsClosed({n} \cup Reach(f[n]))
      BY <1>2, <2>1
    <3> QED BY <3>1
  <2> QED BY <1>4, <2>2, <2>3
<1> HIDE DEF Final, Reach, IsClosed
<1>5. \A n \in Node : Final(n) # {}
  <2> DEFINE Lost == {n \in Node : Final(n) = {}}
  <2>1. \A n \in Lost : f[n] \in Lost
    BY <1>1, <1>3, <1>4
  <2> QED BY <2>1 DEF Chain
<1>6. ASSUME NEW n \in Node PROVE g[n] \in Node
  <2>1. \A m \in Final(n) : m \in Node
    BY DEF Final, Reach
  <2>2. g[n] = CHOOSE m : m \in Final(n)
    OBVIOUS
  <2> QED BY <1>5, <2>1, <2>2
<1>7. ASSUME NEW n \in Node, f[n] = Nil PROVE g[n] = n
  <2>1. g[n] = CHOOSE m : m \in Final(n)
    OBVIOUS
  <2> QED BY <1>3, <1>7, <2>1
<1>8. ASSUME NEW n \in Node, f[n] # Nil PROVE g[n] = g[f[n]]
  BY <1>1, <1>4, <1>8
<1>9. g \in [Node -> Node]
  BY <1>6
<1> HIDE DEF g
<1>10. \A n \in Node : g[n] = IF f[n] = Nil THEN n ELSE g[f[n]]
  BY <1>7, <1>8
<1> QED BY <1>9, <1>10 DEF EndsAt

\* The ends are the only solution of the recursion.
LEMMA EndsAreUnique ==
  ASSUME NEW f, Chain(f), NEW g, EndsAt(f, g), NEW h,
         \A n \in Node : h[n] = IF f[n] = Nil THEN n ELSE h[f[n]]
  PROVE  \A n \in Node : h[n] = g[n]
<1> DEFINE D == {n \in Node : h[n] # g[n]}
<1>1. \A n \in D : f[n] \in D
  BY NilIsNoNode DEF Chain, EndsAt
<1> QED BY <1>1 DEF Chain

\* A set that the chain does not leave holds its end, where the chain stops.
LEMMA ChainStays ==
  ASSUME NEW f, Chain(f), NEW g, EndsAt(f, g), NEW S \in SUBSET Node,
         \A n \in S : f[n] # Nil => f[n] \in S
  PROVE  \A n \in S : g[n] \in S /\ f[g[n]] = Nil
<1> DEFINE D == {n \in S : ~(g[n] \in S /\ f[g[n]] = Nil)}
<1>1. \A n \in D : f[n] \in D
  BY NilIsNoNode DEF Chain, EndsAt
<1> QED BY <1>1 DEF Chain

\* Descending a tree is a chain,
LEMMA DescentIsChain ==
  ASSUME NEW t, NEW I, Shape(t, I), Falls(t, I), NEW f \in [Node -> Pointer],
         \A n \in Node : f[n] = Nil \/ \E s \in Sides : f[n] = t.child[s][n]
  PROVE  Chain(f)
<1>1. SUFFICES ASSUME NEW S \in SUBSET Node, S # {}, \A n \in S : f[n] \in S PROVE FALSE
  BY DEF Chain
<1>2. \A n \in Node : f[n] \in I \cup {Nil}
  BY DEF Shape
<1>3. S \cap I # {}
  BY <1>1, <1>2, NilIsNoNode
<1>4. \A n \in S \cap I : \E s \in Sides : t.child[s][n] \in S \cap I
  BY <1>1, <1>2, NilIsNoNode
<1> QED BY <1>3, <1>4 DEF Falls

\* and so is climbing it.
LEMMA ClimbIsChain ==
  ASSUME NEW t, NEW I, Shape(t, I), Rises(t, I), NEW f \in [Node -> Pointer],
         \A n \in Node : f[n] = Nil \/ (n \in I /\ f[n] = t.parent[n])
  PROVE  Chain(f)
<1>1. SUFFICES ASSUME NEW S \in SUBSET Node, S # {}, \A n \in S : f[n] \in S PROVE FALSE
  BY DEF Chain
<1>2. S \in SUBSET I /\ \A n \in S : t.parent[n] \in S
  BY <1>1, NilIsNoNode
<1> QED BY <1>1, <1>2 DEF Rises

-----------------------------------------------------------------------------
(* What the recursions of the model compute.                               *)

\* Find descends from the root until the key is met, or the links end.
FindDescent(k, f) ==
  \A n \in Node : f[n] = IF NodeKey(n) = k THEN Nil ELSE tree.child[Toward(k, n)][n]

\* Find ends where that descent does, and finds the node if it has the key.
LEMMA FindIs ==
  ASSUME NEW k, NEW f, Chain(f), FindDescent(k, f), NEW g, EndsAt(f, g), tree.root \in Pointer
  PROVE  Find(k) = IF tree.root # Nil /\ NodeKey(g[tree.root]) = k THEN g[tree.root] ELSE Nil
<1> DEFINE Is(h) == h = [n \in Pointer |-> IF n = Nil \/ NodeKey(n) = k THEN n
                                           ELSE h[tree.child[Toward(k, n)][n]]]
           found == [n \in Pointer |-> IF n # Nil /\ NodeKey(g[n]) = k THEN g[n] ELSE Nil]
<1>1. \A n \in Pointer : n # Nil => n \in Node
  BY NilIsNoNode
<1>2. f \in [Node -> Pointer] /\ g \in [Node -> Node]
      /\ \A n \in Node : g[n] = IF f[n] = Nil THEN n ELSE g[f[n]]
  BY DEF Chain, EndsAt
<1>3. ASSUME NEW n \in Pointer
      PROVE  found[n] = IF n = Nil \/ NodeKey(n) = k THEN n
                        ELSE found[tree.child[Toward(k, n)][n]]
  <2>1. CASE n = Nil
    BY <2>1
  <2>2. CASE n # Nil /\ NodeKey(n) = k
    BY <1>1, <1>2, <2>2 DEF FindDescent
  <2>3. CASE n # Nil /\ NodeKey(n) # k
    <3>1. n \in Node /\ f[n] = tree.child[Toward(k, n)][n] /\ f[n] \in Pointer
      BY <1>1, <1>2, <2>3 DEF FindDescent
    <3>2. CASE f[n] = Nil
      BY <1>2, <2>3, <3>1, <3>2
    <3>3. CASE f[n] # Nil
      BY <1>2, <2>3, <3>1, <3>3
    <3> QED BY <3>2, <3>3
  <2> QED BY <2>1, <2>2, <2>3
<1>4. Is(found)
  <2> DEFINE other == [n \in Pointer |-> IF n = Nil \/ NodeKey(n) = k THEN n
                                         ELSE found[tree.child[Toward(k, n)][n]]]
  <2>1. \A n \in Pointer : found[n] = other[n]
    BY <1>3
  <2> QED BY <2>1
<1> DEFINE from == CHOOSE h : Is(h)
<1>5. Find(k) = from[tree.root]
  BY Zenon DEF Find
<1> HIDE DEF found
<1>6. Is(from)
  BY <1>4, Zenon
<1> HIDE DEF from
<1>7. ASSUME NEW n \in Pointer
      PROVE  from[n] = IF n = Nil \/ NodeKey(n) = k THEN n
                       ELSE from[tree.child[Toward(k, n)][n]]
  BY <1>6, Zenon
<1>8. \A n \in Pointer : from[n] = found[n]
  <2> DEFINE D == {n \in Node : from[n] # found[n]}
  <2>1. from[Nil] = found[Nil]
    <3>1. Nil \in Pointer
      BY NilIsNoNode
    <3> QED BY <1>3, <1>7, <3>1
  <2>2. ASSUME NEW n \in D PROVE f[n] \in D
    <3>1. n \in Pointer /\ n \in Node
      BY NilIsNoNode
    <3>2. NodeKey(n) # k /\ n # Nil
      BY <1>3, <1>7, <3>1
    <3>3. f[n] = tree.child[Toward(k, n)][n] /\ f[n] \in Pointer
      BY <1>2, <3>1, <3>2 DEF FindDescent
    <3>4. from[f[n]] # found[f[n]]
      BY <1>3, <1>7, <3>1, <3>2, <3>3
    <3> QED BY <1>1, <2>1, <3>3, <3>4
  <2>3. D = {}
    BY <2>2, Zenon DEF Chain
  <2> QED BY <1>1, <2>1, <2>3
<1>9. found[tree.root] = IF tree.root # Nil /\ NodeKey(g[tree.root]) = k THEN g[tree.root] ELSE Nil
  BY DEF found
<1> QED BY <1>5, <1>8, <1>9

\* So does the search for the leaf a key belongs under.
LeafDescent(k, f) == \A n \in Node : f[n] = tree.child[Toward(k, n)][n]

\* LeafFor ends where that descent does.
LEMMA LeafForIs ==
  ASSUME NEW k, NEW f, Chain(f), LeafDescent(k, f), NEW g, EndsAt(f, g), tree.root \in Node
  PROVE  LeafFor(k) = g[tree.root]
<1> DEFINE Is(h) == h = [n \in Node |-> IF tree.child[Toward(k, n)][n] = Nil THEN n
                                        ELSE h[tree.child[Toward(k, n)][n]]]
           from == CHOOSE h : Is(h)
<1>1. LeafFor(k) = from[tree.root]
  BY DEF LeafFor
<1>2. /\ g \in [Node -> Node]
      /\ \A n \in Node : g[n] = IF tree.child[Toward(k, n)][n] = Nil THEN n
                                ELSE g[tree.child[Toward(k, n)][n]]
  BY DEF EndsAt, LeafDescent
<1>3. Is(g)
  BY <1>2
<1>4. Is(from)
  BY <1>3, Zenon
<1> HIDE DEF from
<1>5. \A n \in Node : from[n] = IF f[n] = Nil THEN n ELSE from[f[n]]
  BY <1>4 DEF LeafDescent
<1> QED BY <1>1, <1>5, EndsAreUnique

\* minimum and maximum go down one side.
SideDescent(side, f) == \A n \in Node : f[n] = tree.child[side][n]

\* Outermost ends where the links of one side do.
LEMMA OutermostIs ==
  ASSUME NEW side, NEW f, Chain(f), SideDescent(side, f), NEW g, EndsAt(f, g), NEW n \in Node
  PROVE  Outermost(side, n) = g[n]
<1> DEFINE Is(h) == h = [m \in Node |-> IF tree.child[side][m] = Nil THEN m
                                        ELSE h[tree.child[side][m]]]
           from == CHOOSE h : Is(h)
<1>1. Outermost(side, n) = from[n]
  BY DEF Outermost
<1>2. /\ g \in [Node -> Node]
      /\ \A m \in Node : g[m] = IF tree.child[side][m] = Nil THEN m
                                ELSE g[tree.child[side][m]]
  BY DEF EndsAt, SideDescent
<1>3. Is(g)
  BY <1>2
<1>4. Is(from)
  BY <1>3, Zenon
<1> HIDE DEF from
<1>5. \A m \in Node : from[m] = IF f[m] = Nil THEN m ELSE from[f[m]]
  BY <1>4 DEF SideDescent
<1> QED BY <1>1, <1>5, EndsAreUnique

\* The climb goes on as long as the node is on the side it comes from.
SideClimb(side, f) ==
  \A n \in Node : f[n] = IF tree.parent[n] # Nil /\ n = tree.child[side][tree.parent[n]]
                         THEN tree.parent[n] ELSE Nil

\* Above is the parent of the node where that climb ends.
LEMMA AboveIs ==
  ASSUME NEW side, NEW f, Chain(f), SideClimb(side, f), NEW g, EndsAt(f, g), NEW n \in Node
  PROVE  Above(side, n) = tree.parent[g[n]]
<1> DEFINE Is(h) == h = [m \in Node |->
                           IF tree.parent[m] # Nil /\ m = tree.child[side][tree.parent[m]]
                           THEN h[tree.parent[m]] ELSE tree.parent[m]]
           from == CHOOSE h : Is(h)
           top == [m \in Node |-> tree.parent[g[m]]]
<1>1. Above(side, n) = from[n]
  BY DEF Above
<1>2. f \in [Node -> Pointer] /\ g \in [Node -> Node]
      /\ \A m \in Node : g[m] = IF f[m] = Nil THEN m ELSE g[f[m]]
  BY DEF Chain, EndsAt
<1>3. ASSUME NEW m \in Node
      PROVE  top[m] = IF tree.parent[m] # Nil /\ m = tree.child[side][tree.parent[m]]
                      THEN top[tree.parent[m]] ELSE tree.parent[m]
  <2>1. f[m] # Nil => f[m] \in Node
    BY <1>2, NilIsNoNode
  <2> QED BY <1>2, <2>1 DEF SideClimb
<1>4. Is(top)
  BY <1>3
<1> HIDE DEF top
<1>5. Is(from)
  BY <1>4, Zenon
<1> HIDE DEF from
<1>6. ASSUME NEW m \in Node
      PROVE  from[m] = IF tree.parent[m] # Nil /\ m = tree.child[side][tree.parent[m]]
                       THEN from[tree.parent[m]] ELSE tree.parent[m]
  BY <1>5
<1>7. \A m \in Node : from[m] = top[m]
  <2> DEFINE D == {m \in Node : from[m] # top[m]}
  <2>1. ASSUME NEW m \in D PROVE f[m] \in D
    <3>1. tree.parent[m] # Nil /\ m = tree.child[side][tree.parent[m]]
      BY <1>3, <1>6
    <3>2. f[m] = tree.parent[m] /\ f[m] \in Node
      BY <1>2, <3>1, NilIsNoNode DEF SideClimb
    <3> QED BY <1>3, <1>6, <3>1, <3>2
  <2> QED BY <2>1 DEF Chain
<1>8. top[n] = tree.parent[g[n]]
  BY DEF top
<1> QED BY <1>1, <1>7, <1>8

(***************************************************************************)
(* The order of the keys.  K gives the key of a node, and B what bounds    *)
(* the keys under it on each side, which is one key or none.               *)
(***************************************************************************)

\* a lies to that side of b.
Beyond(side, a, b) == IF side = "left" THEN a < b ELSE b < a

Bounds == [Sides -> [Node -> SUBSET Int]]

\* The key lies where the node's may.
Spans(B, n, k) == \A s \in Sides : \A b \in B[s][n] : Beyond(s, b, k)

Ordered(t, I, K, B) ==
  /\ B \in Bounds
  /\ \A n \in I : K[n] \in Int /\ Spans(B, n, K[n])
  /\ \A n \in I, s \in Sides : t.child[s][n] # Nil =>
       /\ B[s][t.child[s][n]] = B[s][n]
       /\ B[Other(s)][t.child[s][n]] = {K[n]}
  /\ t.root # Nil => \A s \in Sides : B[s][t.root] = {}

\* Beyond is a strict order of the keys on either side, the reverse of the other's.
LEMMA BeyondOrder ==
  ASSUME NEW s \in Sides, NEW a \in Int, NEW b \in Int, NEW c \in Int
  PROVE  /\ ~Beyond(s, a, a)
         /\ Beyond(s, a, b) => ~Beyond(s, b, a) /\ a # b
         /\ Beyond(s, a, b) /\ Beyond(s, b, c) => Beyond(s, a, c)
         /\ a = b \/ Beyond(s, a, b) \/ Beyond(s, b, a)
         /\ Beyond(Other(s), a, b) <=> Beyond(s, b, a)
         /\ a = b \/ Beyond(s, a, b) \/ Beyond(Other(s), a, b)
<1>1. CASE s = "left"
  BY <1>1, TwoSides, SMT DEF Beyond
<1>2. CASE s = "right"
  BY <1>2, TwoSides, SMT DEF Beyond
<1> QED BY <1>1, <1>2, TwoSides

\* What lies beyond a key that lies beyond a third lies beyond the third.
LEMMA BeyondBoth ==
  ASSUME NEW s \in Sides, NEW a \in Int, NEW b \in Int, NEW c \in Int,
         Beyond(s, a, b), Beyond(s, b, c)
  PROVE  Beyond(s, a, c)
BY BeyondOrder, Zenon

\* A search that comes by a node goes to one side.
LEMMA TowardIs ==
  ASSUME NEW k \in Int, NEW n, NodeKey(n) \in Int
  PROVE  /\ Toward(k, n) \in Sides
         /\ k # NodeKey(n) => \A s \in Sides : Toward(k, n) = s <=> Beyond(s, k, NodeKey(n))
BY TwoSides, SMT DEF Toward, Beyond

\* A child lies on its side of its parent, and within the bounds of it.
LEMMA ChildOrder ==
  ASSUME NEW t, NEW I, Shape(t, I), NEW K, NEW B, Ordered(t, I, K, B),
         NEW n \in I, NEW s \in Sides, t.child[s][n] # Nil, NEW k \in Int
  PROVE  /\ t.child[s][n] \in I /\ K[n] \in Int
         /\ Spans(B, t.child[s][n], k) <=> Spans(B, n, k) /\ Beyond(s, k, K[n])
<1> DEFINE c == t.child[s][n]
           o == Other(s)
<1>1. c \in I /\ c \in Node /\ n \in Node /\ K[n] \in Int
  BY ShapeFacts DEF Shape, Ordered
<1>2. B[s][c] = B[s][n] /\ B[o][c] = {K[n]} /\ \A b \in B[o][n] : Beyond(o, b, K[n])
  BY TwoSides DEF Ordered, Spans
<1>3. \A r \in Sides : B[r][n] \subseteq Int
  BY <1>1 DEF Ordered, Bounds
<1>4. o \in Sides /\ \A r \in Sides : r = s \/ r = o
  BY TwoSides
<1>5. Beyond(o, K[n], k) <=> Beyond(s, k, K[n])
  BY <1>1, BeyondOrder
<1>6. ASSUME Beyond(s, k, K[n]), NEW b \in B[o][n] PROVE Beyond(o, b, k)
  <2>1. b \in Int /\ Beyond(o, b, K[n]) /\ Beyond(o, K[n], k)
    BY <1>2, <1>3, <1>4, <1>5, <1>6
  <2> QED BY <1>1, <1>4, <2>1, BeyondOrder
<1>7. Spans(B, c, k) <=> (\A b \in B[s][n] : Beyond(s, b, k)) /\ Beyond(s, k, K[n])
  <2>1. Spans(B, c, k) <=> (\A b \in B[s][c] : Beyond(s, b, k)) /\ (\A b \in B[o][c] : Beyond(o, b, k))
    BY <1>4 DEF Spans
  <2> QED BY <1>2, <1>5, <2>1
<1>8. Spans(B, n, k) <=> (\A b \in B[s][n] : Beyond(s, b, k)) /\ (\A b \in B[o][n] : Beyond(o, b, k))
  BY <1>4 DEF Spans
<1> QED BY <1>1, <1>6, <1>7, <1>8

\* The way to a key ends at a node that has the key, or has no child there.
EndsWay(t, K, n, k) == \A s \in Sides : Beyond(s, k, K[n]) => t.child[s][n] = Nil

\* The nodes whose bounds span a key are one way down from the root.
LEMMA OneWay ==
  ASSUME NEW t, NEW I, Shape(t, I), Rises(t, I), NEW K, NEW B, Ordered(t, I, K, B),
         NEW k \in Int, NEW m \in I, NEW q \in I, Spans(B, m, k), Spans(B, q, k),
         EndsWay(t, K, m, k), EndsWay(t, K, q, k)
  PROVE  m = q
<1> DEFINE P == {n \in I : Spans(B, n, k)}
           IsClosed(S) == \A x \in S : t.parent[x] # Nil => t.parent[x] \in S
           A == {n \in I : \A S \in SUBSET I : m \in S /\ IsClosed(S) => n \in S}
<1>1. ASSUME NEW n \in P, t.parent[n] # Nil
      PROVE  /\ t.parent[n] \in P
             /\ \E s \in Sides : t.child[s][t.parent[n]] = n /\ Beyond(s, k, K[t.parent[n]])
  <2>1. PICK s \in Sides : t.child[s][t.parent[n]] = n /\ t.parent[n] \in I
    BY <1>1 DEF Shape
  <2>2. n # Nil
    BY <2>1, ShapeFacts
  <2> QED BY <2>1, <2>2, ChildOrder
<1>2. IsClosed(P) /\ m \in P /\ P \in SUBSET I
  BY <1>1
<1>3. A \subseteq P /\ m \in A /\ A \in SUBSET I
  BY <1>2
<1>4. IsClosed(A)
  <2>1. \A x \in I : t.parent[x] # Nil => t.parent[x] \in I
    BY DEF Shape
  <2> QED BY <2>1
<1>5. ASSUME NEW n \in A, n # m PROVE \E c \in A : t.parent[c] = n
  <2>1. A \ {n} \in SUBSET I /\ m \in A \ {n}
    BY <1>3, <1>5
  <2>2. ~IsClosed(A \ {n})
    BY <1>5, <2>1
  <2> QED BY <1>4, <2>2
<1>6. \E x \in A : t.parent[x] = Nil
  BY <1>3, <1>4 DEF Rises
<1>7. \A x \in P : t.parent[x] = Nil => x \in A
  BY <1>3, <1>6 DEF Shape
<1> HIDE DEF A, IsClosed
<1>8. ASSUME NEW n \in P, t.parent[n] # Nil, t.parent[n] \in A PROVE n \in A
  <2> DEFINE p == t.parent[n]
  <2>1. PICK s \in Sides : t.child[s][p] = n /\ Beyond(s, k, K[p])
    BY <1>1, <1>8
  <2>2. n # Nil
    BY <2>1, ShapeFacts
  <2>3. p # m
    BY <2>1, <2>2 DEF EndsWay
  <2>4. PICK c \in A : t.parent[c] = p
    BY <1>5, <1>8, <2>3
  <2>5. PICK r \in Sides : t.child[r][p] = c /\ Beyond(r, k, K[p])
    BY <1>1, <1>3, <1>8, <2>4
  <2>6. K[p] \in Int
    BY <1>1, <1>8 DEF Ordered
  <2>7. r = s
    BY <2>1, <2>5, <2>6, TwoSides, BeyondOrder
  <2> QED BY <2>1, <2>5, <2>7
<1>9. P \subseteq A
  <2> DEFINE S == P \ A
  <2>1. SUFFICES ASSUME S # {} PROVE FALSE
    OBVIOUS
  <2>2. PICK n \in S : t.parent[n] \notin S
    BY <2>1 DEF Rises
  <2> QED BY <1>1, <1>7, <1>8, <2>2
<1>10. q \in A
  BY <1>9
<1>11. SUFFICES ASSUME q # m PROVE FALSE
  OBVIOUS
<1>12. PICK c \in A : t.parent[c] = q
  BY <1>5, <1>10, <1>11
<1>13. PICK s \in Sides : t.child[s][q] = c /\ Beyond(s, k, K[q])
  BY <1>1, <1>3, <1>12, NilIsNoNode DEF Shape
<1>14. c # Nil
  BY <1>3, <1>12, NilIsNoNode DEF Shape
<1> QED BY <1>13, <1>14 DEF EndsWay

\* No two nodes have one key.
LEMMA KeysDiffer ==
  ASSUME NEW t, NEW I, Shape(t, I), Rises(t, I), NEW K, NEW B, Ordered(t, I, K, B),
         NEW m \in I, NEW q \in I, K[m] = K[q]
  PROVE  m = q
<1>1. K[m] \in Int /\ Spans(B, m, K[m]) /\ Spans(B, q, K[m])
  BY DEF Ordered
<1>2. EndsWay(t, K, m, K[m]) /\ EndsWay(t, K, q, K[m])
  BY <1>1, BeyondOrder DEF EndsWay
<1> QED BY <1>1, <1>2, OneWay

\* Where a node has no child there is no key between it and its bound.
LEMMA NoKeyBetween ==
  ASSUME NEW t, NEW I, Shape(t, I), Rises(t, I), NEW K, NEW B, Ordered(t, I, K, B),
         NEW n \in I, NEW s \in Sides, t.child[s][n] = Nil, NEW m \in I,
         Beyond(s, K[m], K[n])
  PROVE  ~Spans(B, n, K[m])
<1>1. SUFFICES ASSUME Spans(B, n, K[m]) PROVE FALSE
  OBVIOUS
<1>2. K[m] \in Int /\ K[n] \in Int /\ Spans(B, m, K[m])
  BY DEF Ordered
<1>3. EndsWay(t, K, m, K[m])
  BY <1>2, BeyondOrder DEF EndsWay
<1>4. EndsWay(t, K, n, K[m])
  BY <1>2, BeyondOrder, TwoSides DEF EndsWay
<1>5. m = n
  BY <1>1, <1>2, <1>3, <1>4, OneWay
<1> QED BY <1>2, <1>5, BeyondOrder

\* A rotation keeps the order: what comes up has the bounds of what goes down,
\* and bounds it.
LEMMA TurnedOrder ==
  ASSUME NEW t, NEW u, NEW I, Shape(t, I), Rises(t, I), NEW K, NEW B, Ordered(t, I, K, B),
         NEW side \in Sides, NEW n \in I,
         NEW y, y = t.child[Other(side)][n], y # Nil, NEW i, i = t.child[side][y],
         Turned(t, u, I, side, n, y, i)
  PROVE  \E C : Ordered(u, I, K, C)
<1> DEFINE o == Other(side)
           a == t.child[side][n]
           b == t.child[o][y]
           C == [s \in Sides |-> [m \in Node |->
                   IF m = y THEN B[s][n] ELSE IF m = n /\ s = o THEN {K[y]} ELSE B[s][m]]]
<1>1. /\ n \in Node /\ n # Nil /\ y \in I /\ y \in Node /\ y # n /\ I \subseteq Node
      /\ i \in I \cup {Nil} /\ i # n /\ i # y /\ t.parent[y] = n
      /\ (i # Nil => i \in I /\ t.parent[i] = y)
      /\ o \in Sides /\ o # side
  BY TurnedNodes
<1>2. Other(o) = side /\ \A s \in Sides : s = side \/ s = o
  BY TwoSides, Zenon
<1>3. /\ a # y /\ a # n /\ b # n /\ b # y
  <2>1. a # y
    BY ShapeFacts, TwoSides
  <2> QED BY <1>1, <2>1, NoLoops
<1>4. /\ u.root = (IF t.parent[n] = Nil THEN y ELSE t.root)
      /\ u.child[side][n] = a /\ u.child[o][n] = i
      /\ u.child[side][y] = n /\ u.child[o][y] = b
      /\ \A m \in I \ {n, y}, s \in Sides :
           u.child[s][m] = IF t.child[s][m] = n THEN y ELSE t.child[s][m]
  BY Zenon DEF Turned
<1>5. t.child[side][n] = a /\ t.child[o][n] = y /\ t.child[side][y] = i /\ t.child[o][y] = b
  OBVIOUS
<1>6. /\ B \in Bounds
      /\ \A m \in I : K[m] \in Int /\ Spans(B, m, K[m])
      /\ t.root # Nil => \A s \in Sides : B[s][t.root] = {}
  BY DEF Ordered
<1>7. \A m \in I, s \in Sides : t.child[s][m] # Nil =>
        B[s][t.child[s][m]] = B[s][m] /\ B[Other(s)][t.child[s][m]] = {K[m]}
  BY Zenon DEF Ordered
<1>8. B[o][y] = B[o][n] /\ B[side][y] = {K[n]}
  BY <1>1, <1>2, <1>5, <1>7, Zenon
<1>13. i # Nil => i \in Node \ {n, y} /\ B[side][i] = {K[n]} /\ B[o][i] = {K[y]}
  <2>1. i # Nil => B[side][i] = B[side][y] /\ B[o][i] = {K[y]}
    BY <1>1, <1>7, Zenon
  <2> QED BY <1>1, <1>8, <2>1, Zenon
<1>14. b # Nil => b \in Node \ {n, y} /\ B[o][b] = B[o][n] /\ B[side][b] = {K[y]}
  <2>1. b # Nil => B[o][b] = B[o][y] /\ B[Other(o)][b] = {K[y]}
    BY <1>1, <1>7, Zenon
  <2>2. b # Nil => b \in I
    BY <1>1, ShapeFacts
  <2> QED BY <1>1, <1>2, <1>3, <1>8, <2>1, <2>2, Zenon
<1> HIDE DEF o, a, b
<1>9. /\ C \in Bounds
      /\ \A s \in Sides : C[s][y] = B[s][n]
      /\ C[o][n] = {K[y]} /\ C[side][n] = B[side][n]
      /\ \A s \in Sides, m \in Node \ {n, y} : C[s][m] = B[s][m]
  BY <1>1, <1>6, Zenon DEF Bounds
<1> HIDE DEF C
<1>10. ASSUME NEW m \in I PROVE K[m] \in Int /\ Spans(C, m, K[m])
  <2>1. CASE m \notin {n, y}
    BY <1>1, <1>6, <1>9, <2>1, SMTT(40) DEF Spans
  <2>2. Beyond(side, K[n], K[y]) /\ Beyond(o, K[y], K[n])
    <3>1. Beyond(side, K[n], K[y])
      BY <1>1, <1>6, <1>8, Zenon DEF Spans
    <3> QED BY <1>1, <1>6, <3>1, BeyondOrder, Zenon DEF o
  <2>3. CASE m = n
    <3>1. \A c \in C[o][n] : Beyond(o, c, K[n])
      BY <1>9, <2>2, Zenon
    <3>2. \A c \in C[side][n] : Beyond(side, c, K[n])
      BY <1>6, <1>9, Zenon DEF Spans
    <3> QED BY <1>2, <1>6, <2>3, <3>1, <3>2 DEF Spans
  <2>4. CASE m = y
    <3>1. \A c \in C[o][y] : Beyond(o, c, K[y])
      BY <1>1, <1>6, <1>8, <1>9, Zenon DEF Spans
    <3>2. ASSUME NEW c \in C[side][y] PROVE Beyond(side, c, K[y])
      <4>1. c \in B[side][n] /\ c \in Int
        BY <1>1, <1>6, <1>9, <3>2, SMTT(40) DEF Bounds
      <4>2. Beyond(side, c, K[n])
        BY <1>6, <4>1 DEF Spans
      <4>3. K[n] \in Int /\ K[y] \in Int
        BY <1>1, <1>6, Zenon
      <4> QED BY <2>2, <4>1, <4>2, <4>3, BeyondBoth, Zenon
    <3> QED BY <1>1, <1>2, <1>6, <2>4, <3>1, <3>2, ZenonT(40) DEF Spans
  <2> QED BY <2>1, <2>3, <2>4
<1>11. ASSUME NEW m \in I, NEW s \in Sides, u.child[s][m] # Nil
       PROVE  C[s][u.child[s][m]] = C[s][m] /\ C[Other(s)][u.child[s][m]] = {K[m]}
  <2>0. Other(s) \in Sides /\ Other(side) = o /\ Other(o) = side
    BY <1>2, TwoSides, Zenon DEF o
  <2>1. CASE m = n /\ s = side
    <3>1. a \in Node \ {n, y} /\ u.child[s][m] = a
      <4>1. u.child[s][m] = a
        BY <1>4, <2>1, Zenon
      <4>2. a \in I
        <5>1. a \in I \cup {Nil}
          BY <1>5, ChildFacts
        <5> QED BY <1>11, <4>1, <5>1
      <4> QED BY <1>1, <1>3, <4>1, <4>2, Zenon
    <3>2. B[side][a] = B[side][n] /\ B[o][a] = {K[n]}
      BY <1>5, <1>7, <1>11, <2>0, <2>1, <3>1, SMTT(40)
    <3> QED BY <1>1, <1>9, <2>0, <2>1, <3>1, <3>2, Zenon
  <2>2. CASE m = n /\ s = o
    <3>1. u.child[s][m] = i /\ i # Nil
      BY <1>4, <1>11, <2>2
    <3>2. C[o][i] = {K[y]} /\ C[side][i] = {K[n]}
      BY <1>1, <1>9, <1>13, <3>1, Zenon
    <3> QED BY <1>9, <2>0, <2>2, <3>1, <3>2, Zenon
  <2>3. CASE m = y /\ s = side
    BY <1>1, <1>4, <1>9, <2>0, <2>3, Zenon
  <2>4. CASE m = y /\ s = o
    <3>1. u.child[s][m] = b /\ b # Nil
      BY <1>4, <1>11, <2>4, Zenon
    <3>2. C[o][b] = B[o][n] /\ C[side][b] = {K[y]}
      BY <1>1, <1>9, <1>14, <3>1, Zenon
    <3> QED BY <1>1, <1>9, <2>0, <2>4, <3>1, <3>2, Zenon
  <2>5. CASE m \notin {n, y} /\ t.child[s][m] = n
    <3>1. u.child[s][m] = y
      BY <1>4, <2>5, Zenon
    <3>2. B[s][n] = B[s][m] /\ B[Other(s)][n] = {K[m]}
      BY <1>1, <1>7, <2>5, Zenon
    <3> QED BY <1>1, <1>9, <2>0, <2>5, <3>1, <3>2
  <2>6. CASE m \notin {n, y} /\ t.child[s][m] # n
    <3>1. u.child[s][m] = t.child[s][m] /\ t.child[s][m] # Nil
      BY <1>4, <1>11, <2>6, Zenon
    <3>2. t.child[s][m] \in Node
      BY <1>1, <3>1, ShapeFacts
    <3>3. t.child[s][m] # y
      BY <1>1, <1>5, <2>6, <3>1, OneParent
    <3>4. B[s][t.child[s][m]] = B[s][m] /\ B[Other(s)][t.child[s][m]] = {K[m]}
      BY <1>7, <3>1
    <3> QED BY <1>1, <1>9, <2>0, <2>6, <3>1, <3>2, <3>3, <3>4, SMTT(40)
  <2> QED BY <1>2, <2>1, <2>2, <2>3, <2>4, <2>5, <2>6, Zenon
<1>12. ASSUME u.root # Nil, NEW s \in Sides PROVE C[s][u.root] = {}
  <2>1. CASE t.parent[n] = Nil
    <3>1. t.root = n /\ u.root = y
      BY <1>4, <2>1 DEF Shape
    <3> QED BY <1>1, <1>6, <1>9, <3>1
  <2>2. CASE t.parent[n] # Nil
    <3>1. u.root = t.root /\ t.root # n
      BY <1>4, <2>2, Zenon DEF Shape
    <3>2. t.root # y /\ t.root \in Node
      <4>1. t.root \in I
        BY <1>12, <3>1 DEF Shape
      <4>2. t.parent[t.root] = Nil
        BY <4>1 DEF Shape
      <4> QED BY <1>1, <4>1, <4>2, Zenon
    <3> QED BY <1>6, <1>9, <1>12, <3>1, <3>2
  <2> QED BY <2>1, <2>2, Zenon
<1> QED BY <1>9, <1>10, <1>11, <1>12, Zenon DEF Ordered

(***************************************************************************)
(* Search trees.                                                           *)
(***************************************************************************)

SearchTree(t, I, K) ==
  /\ Shape(t, I) /\ Rises(t, I) /\ Falls(t, I)
  /\ \E B : Ordered(t, I, K, B)

\* Rotating a search tree gives a search tree.
LEMMA RotatedTree ==
  ASSUME NEW t, NEW I, NEW K, SearchTree(t, I, K), NEW side \in Sides, NEW n \in I,
         NEW y, y = t.child[Other(side)][n], y # Nil, NEW i, i = t.child[side][y]
  PROVE  /\ SearchTree(Rotated(side, t, n), I, K)
         /\ Turned(t, Rotated(side, t, n), I, side, n, y, i)
<1> DEFINE u == Rotated(side, t, n)
<1>1. Shape(t, I) /\ Rises(t, I) /\ Falls(t, I)
  BY DEF SearchTree
<1>2. Turned(t, u, I, side, n, y, i)
  BY <1>1, RotatedIs
<1> HIDE DEF u
<1>3. Shape(u, I)
  BY <1>1, <1>2, TurnedShape
<1>4. Rises(u, I)
  BY <1>1, <1>2, TurnedRises
<1>5. Falls(u, I)
  BY <1>1, <1>2, TurnedFalls
<1>6. PICK B : Ordered(t, I, K, B)
  BY DEF SearchTree
<1>7. \E C : Ordered(u, I, K, C)
  BY <1>1, <1>2, <1>6, TurnedOrder
<1>8. SearchTree(u, I, K)
  BY <1>3, <1>4, <1>5, <1>7 DEF SearchTree
<1> QED BY <1>2, <1>8 DEF u

\* Painting a search tree gives a search tree.
LEMMA PaintedTree ==
  ASSUME NEW t, NEW I, NEW K, SearchTree(t, I, K), NEW nodes, NEW c \in {"red", "black"}
  PROVE  /\ SearchTree(Painted(t, nodes, c), I, K)
         /\ Alike(t, Painted(t, nodes, c))
         /\ \A n \in Pointer : Painted(t, nodes, c).color[n] = IF n \in nodes THEN c ELSE t.color[n]
<1> DEFINE u == Painted(t, nodes, c)
<1>1. t \in Tree
  BY DEF SearchTree, Shape
<1>2. Alike(t, u) /\ \A n \in Pointer : u.color[n] = IF n \in nodes THEN c ELSE t.color[n]
  BY <1>1, PaintedIs
<1> HIDE DEF u
<1>3. Shape(u, I) /\ Rises(u, I) /\ Falls(u, I)
  BY <1>2, AlikeKeeps DEF SearchTree
<1>4. \A B : Ordered(t, I, K, B) => Ordered(u, I, K, B)
  BY <1>2 DEF Ordered, Alike
<1> QED BY <1>2, <1>3, <1>4 DEF SearchTree, u

-----------------------------------------------------------------------------
(* Linking a new node.                                                     *)

\* n becomes the child of p on that side, or the root.
Joined(t, u, n, p, side) ==
  /\ u \in Tree
  /\ u.root = (IF p = Nil THEN n ELSE t.root)
  /\ \A m \in Pointer : u.parent[m] = IF m = n THEN p ELSE t.parent[m]
  /\ \A m \in Node, s \in Sides :
       u.child[s][m] = IF m = n THEN Nil ELSE IF m = p /\ s = side THEN n ELSE t.child[s][m]

\* A node joined where no child was keeps the links in agreement.
LEMMA JoinedShape ==
  ASSUME NEW t, NEW u, NEW I, Shape(t, I), NEW n \in Node \ I, NEW side \in Sides,
         NEW p \in I \cup {Nil}, p = Nil => t.root = Nil, p # Nil => t.child[side][p] = Nil,
         Joined(t, u, n, p, side)
  PROVE  Shape(u, I \cup {n})
<1> DEFINE J == I \cup {n}
<1>1. /\ n \in Node /\ n # Nil /\ I \subseteq Node /\ p # n /\ n \in Pointer
      /\ (p # Nil => p \in I /\ p \in Node) /\ Nil \notin Node /\ J \subseteq Node
      /\ \A m \in Node : m \in Pointer
  BY NilIsNoNode DEF Shape
<1>2. /\ \A m \in Node : \A s \in Sides : t.child[s][m] \in I \cup {Nil}
      /\ \A m \in I : \A s \in Sides : t.child[s][m] # Nil => t.parent[t.child[s][m]] = m
      /\ \A m \in I : t.parent[m] # Nil =>
           t.parent[m] \in I /\ \E s \in Sides : t.child[s][t.parent[m]] = m
      /\ \A m \in I : t.parent[m] = Nil <=> t.root = m
      /\ t.root \in I \cup {Nil}
      /\ \A m \in I : t.child["left"][m] = t.child["right"][m] => t.child["left"][m] = Nil
  BY DEF Shape
<1>3. /\ u.root = (IF p = Nil THEN n ELSE t.root)
      /\ \A m \in Pointer : u.parent[m] = IF m = n THEN p ELSE t.parent[m]
      /\ \A m \in Node, s \in Sides :
           u.child[s][m] = IF m = n THEN Nil ELSE IF m = p /\ s = side THEN n ELSE t.child[s][m]
  BY DEF Joined
<1>4. ASSUME NEW m \in Node, NEW s \in Sides PROVE u.child[s][m] \in J \cup {Nil}
  <2>1. u.child[s][m] = Nil \/ u.child[s][m] = n \/ u.child[s][m] = t.child[s][m]
    BY <1>3
  <2> QED BY <1>2, <2>1
<1>5. ASSUME NEW m \in J, NEW s \in Sides, u.child[s][m] # Nil PROVE u.parent[u.child[s][m]] = m
  <2>1. m # n /\ m \in I
    BY <1>1, <1>3, <1>5
  <2>2. CASE m = p /\ s = side
    BY <1>1, <1>3, <2>1, <2>2
  <2>3. CASE ~(m = p /\ s = side)
    <3>1. u.child[s][m] = t.child[s][m]
      BY <1>1, <1>3, <2>1, <2>3
    <3>2. t.child[s][m] \in I /\ t.parent[t.child[s][m]] = m
      BY <1>1, <1>2, <1>5, <2>1, <3>1
    <3> QED BY <1>1, <1>3, <3>1, <3>2
  <2> QED BY <2>2, <2>3
<1>6. ASSUME NEW m \in J, u.parent[m] # Nil
      PROVE  u.parent[m] \in J /\ \E s \in Sides : u.child[s][u.parent[m]] = m
  <2>1. CASE m = n
    BY <1>1, <1>3, <1>6, <2>1
  <2>2. CASE m # n
    <3>1. m \in I /\ u.parent[m] = t.parent[m]
      BY <1>1, <1>3, <2>2
    <3>2. PICK s \in Sides : t.parent[m] \in I /\ t.child[s][t.parent[m]] = m
      BY <1>2, <1>6, <3>1
    <3>3. ~(t.parent[m] = p /\ s = side)
      BY <1>1, <3>1, <3>2
    <3> QED BY <1>1, <1>3, <3>1, <3>2, <3>3
  <2> QED BY <2>1, <2>2
<1>7. ASSUME NEW m \in J PROVE u.parent[m] = Nil <=> u.root = m
  <2>1. CASE m = n
    BY <1>1, <1>2, <1>3, <2>1
  <2>2. CASE m # n
    BY <1>1, <1>2, <1>3, <2>2
  <2> QED BY <2>1, <2>2
<1>8. u.root \in J \cup {Nil}
  BY <1>2, <1>3
<1>9. ASSUME NEW m \in J, u.child["left"][m] = u.child["right"][m] PROVE u.child["left"][m] = Nil
  <2>1. CASE m = n
    BY <1>1, <1>3, <2>1, TwoSides
  <2>2. CASE m # n
    <3>1. /\ u.child["left"][m] = IF m = p /\ "left" = side THEN n ELSE t.child["left"][m]
          /\ u.child["right"][m] = IF m = p /\ "right" = side THEN n ELSE t.child["right"][m]
      BY <1>1, <1>3, <2>2, TwoSides
    <3>2. t.child["left"][m] # n /\ t.child["right"][m] # n
      BY <1>1, <1>2, TwoSides
    <3>3. CASE m # p
      BY <1>2, <1>9, <2>2, <3>1, <3>3
    <3>4. CASE m = p
      <4>1. side = "left" \/ side = "right"
        BY TwoSides
      <4> QED BY <1>9, <3>1, <3>2, <3>4, <4>1, TwoSides
    <3> QED BY <3>3, <3>4
  <2> QED BY <2>1, <2>2
<1>10. u \in Tree
  BY DEF Joined
<1> HIDE DEF J
<1>11. Shape(u, J)
  BY <1>1, <1>4, <1>5, <1>6, <1>7, <1>8, <1>9, <1>10 DEF Shape
<1> QED BY <1>11 DEF J

\* A new leaf is in no set that is closed, and leaves the others as they are.
LEMMA JoinedEnds ==
  ASSUME NEW t, NEW u, NEW I, Shape(t, I), Rises(t, I), Falls(t, I), NEW n \in Node \ I,
         NEW side \in Sides, NEW p \in I \cup {Nil}, Joined(t, u, n, p, side)
  PROVE  Rises(u, I \cup {n}) /\ Falls(u, I \cup {n})
<1>1. /\ I \subseteq Node /\ p # n /\ Nil \notin Node /\ \A m \in Node : m \in Pointer
      /\ \A m \in Node : \A s \in Sides : t.child[s][m] \in I \cup {Nil}
      /\ \A m \in I : t.parent[m] \in I \cup {Nil}
  BY NilIsNoNode DEF Shape
<1>2. /\ \A m \in Pointer : u.parent[m] = IF m = n THEN p ELSE t.parent[m]
      /\ \A m \in Node, s \in Sides :
           u.child[s][m] = IF m = n THEN Nil ELSE IF m = p /\ s = side THEN n ELSE t.child[s][m]
  BY DEF Joined
<1>3. ASSUME NEW S \in SUBSET (I \cup {n}), S # {}, \A m \in S : u.parent[m] \in S PROVE FALSE
  <2>1. \A m \in S \ {n} : u.parent[m] = t.parent[m] /\ t.parent[m] # n
    BY <1>1, <1>2
  <2>2. CASE S = {n}
    BY <1>1, <1>2, <1>3, <2>2
  <2>3. CASE S \ {n} # {}
    <3>1. S \ {n} \in SUBSET I /\ \A m \in S \ {n} : t.parent[m] \in S \ {n}
      BY <1>3, <2>1
    <3> QED BY <2>3, <3>1 DEF Rises
  <2> QED BY <1>3, <2>2, <2>3
<1>4. ASSUME NEW S \in SUBSET (I \cup {n}), S # {}, \A m \in S : \E s \in Sides : u.child[s][m] \in S
      PROVE  FALSE
  <2>1. n \notin S
    BY <1>1, <1>2, <1>4
  <2>2. S \in SUBSET I
    BY <2>1
  <2>3. \A m \in S : \E s \in Sides : t.child[s][m] \in S
    BY <1>1, <1>2, <1>4, <2>1
  <2> QED BY <1>4, <2>2, <2>3 DEF Falls
<1> QED BY <1>3, <1>4 DEF Rises, Falls

\* A node joined where its key belongs keeps the keys in order; its bounds are
\* those of its parent and the parent's key.
LEMMA JoinedOrder ==
  ASSUME NEW t, NEW u, NEW I, Shape(t, I), NEW K, NEW B, Ordered(t, I, K, B),
         NEW n \in Node \ I, NEW side \in Sides,
         NEW p \in I \cup {Nil}, p = Nil => t.root = Nil, p # Nil => t.child[side][p] = Nil,
         p = Nil => I = {},
         Joined(t, u, n, p, side),
         NEW L, \A m \in I : L[m] = K[m], L[n] \in Int,
         p # Nil => Spans(B, p, L[n]) /\ Beyond(side, L[n], K[p])
  PROVE  \E C : Ordered(u, I \cup {n}, L, C)
<1> DEFINE C == [s \in Sides |-> [m \in Node |->
                   IF m # n THEN B[s][m]
                   ELSE IF p = Nil THEN {}
                   ELSE IF s = side THEN B[s][p] ELSE {K[p]}]]
<1>1. /\ n \in Node /\ n # Nil /\ I \subseteq Node /\ p # n /\ n \in Pointer
      /\ (p # Nil => p \in I /\ p \in Node) /\ Nil \notin Node
      /\ \A m \in Node : m \in Pointer
  BY NilIsNoNode DEF Shape
<1>2. /\ u.root = (IF p = Nil THEN n ELSE t.root)
      /\ \A m \in Node, s \in Sides :
           u.child[s][m] = IF m = n THEN Nil ELSE IF m = p /\ s = side THEN n ELSE t.child[s][m]
  BY DEF Joined
<1>3. /\ B \in Bounds
      /\ \A m \in I : K[m] \in Int /\ Spans(B, m, K[m])
      /\ \A m \in I, s \in Sides : t.child[s][m] # Nil =>
           B[s][t.child[s][m]] = B[s][m] /\ B[Other(s)][t.child[s][m]] = {K[m]}
      /\ t.root # Nil => \A s \in Sides : B[s][t.root] = {}
  BY DEF Ordered
<1>4. /\ C \in Bounds
      /\ \A s \in Sides, m \in Node \ {n} : C[s][m] = B[s][m]
      /\ \A s \in Sides : C[s][n] = IF p = Nil THEN {} ELSE IF s = side THEN B[s][p] ELSE {K[p]}
  BY <1>1, <1>3 DEF Bounds
<1> HIDE DEF C
<1>5. ASSUME NEW m \in I \cup {n} PROVE L[m] \in Int /\ Spans(C, m, L[m])
  <2>1. CASE m # n
    BY <1>1, <1>3, <1>4, <2>1 DEF Spans
  <2>2. CASE m = n /\ p = Nil
    BY <1>4, <2>2 DEF Spans
  <2>3. CASE m = n /\ p # Nil
    <3>1. \A b \in C[side][n] : Beyond(side, b, L[n])
      BY <1>4, <2>3 DEF Spans
    <3>2. Beyond(Other(side), K[p], L[n])
      BY <1>1, <1>3, <2>3, BeyondOrder
    <3>3. \A b \in C[Other(side)][n] : Beyond(Other(side), b, L[n])
      BY <1>4, <2>3, <3>2, TwoSides
    <3>4. \A s \in Sides : s = side \/ s = Other(side)
      BY TwoSides
    <3> QED BY <2>3, <3>1, <3>3, <3>4 DEF Spans
  <2> QED BY <2>1, <2>2, <2>3
<1>6. ASSUME NEW m \in I \cup {n}, NEW s \in Sides, u.child[s][m] # Nil
      PROVE  C[s][u.child[s][m]] = C[s][m] /\ C[Other(s)][u.child[s][m]] = {L[m]}
  <2>1. m # n /\ m \in I /\ m \in Node /\ Other(s) \in Sides /\ Other(s) # s
    BY <1>1, <1>2, <1>6, TwoSides
  <2>2. CASE m = p /\ s = side
    BY <1>1, <1>2, <1>4, <2>1, <2>2
  <2>3. CASE ~(m = p /\ s = side)
    <3>1. u.child[s][m] = t.child[s][m]
      BY <1>1, <1>2, <2>1, <2>3
    <3>2. t.child[s][m] \in I
      BY <1>6, <2>1, <3>1, ShapeFacts
    <3>3. t.child[s][m] # n /\ t.child[s][m] \in Node
      BY <1>1, <3>2
    <3>4. B[s][t.child[s][m]] = B[s][m] /\ B[Other(s)][t.child[s][m]] = {K[m]}
      BY <1>3, <1>6, <2>1, <3>1
    <3> QED BY <1>4, <2>1, <3>1, <3>3, <3>4
  <2> QED BY <2>2, <2>3
<1>7. ASSUME u.root # Nil, NEW s \in Sides PROVE C[s][u.root] = {}
  <2>1. CASE p = Nil
    BY <1>2, <1>4, <2>1
  <2>2. CASE p # Nil
    <3>1. u.root = t.root /\ t.root \in I
      BY <1>2, <1>7, <2>2 DEF Shape
    <3> QED BY <1>1, <1>3, <1>4, <1>7, <3>1
  <2> QED BY <2>1, <2>2
<1> QED BY <1>4, <1>5, <1>6, <1>7 DEF Ordered

\* Linking a key below the node on whose way it is gives a search tree.
LEMMA JoinedTree ==
  ASSUME NEW t, NEW u, NEW I, NEW K, SearchTree(t, I, K), NEW n \in Node \ I, NEW side \in Sides,
         NEW p \in I \cup {Nil}, p = Nil => t.root = Nil /\ I = {},
         p # Nil => t.child[side][p] = Nil, Joined(t, u, n, p, side),
         NEW B, Ordered(t, I, K, B), NEW L, \A m \in I : L[m] = K[m], L[n] \in Int,
         p # Nil => Spans(B, p, L[n]) /\ Beyond(side, L[n], K[p])
  PROVE  SearchTree(u, I \cup {n}, L)
<1>1. Shape(t, I) /\ Rises(t, I) /\ Falls(t, I)
  BY DEF SearchTree
<1>2. Shape(u, I \cup {n})
  BY <1>1, JoinedShape
<1>3. Rises(u, I \cup {n}) /\ Falls(u, I \cup {n})
  BY <1>1, JoinedEnds
<1>4. \E C : Ordered(u, I \cup {n}, L, C)
  BY <1>1, JoinedOrder
<1> QED BY <1>2, <1>3, <1>4 DEF SearchTree

-----------------------------------------------------------------------------
(* Unlinking a node that has one child or none.                            *)

\* x, the child of y if it has one, takes its place.
LEMMA ReplacedShape ==
  ASSUME NEW t, NEW u, NEW I, Shape(t, I), Rises(t, I), NEW y \in I, NEW side \in Sides,
         t.child[Other(side)][y] = Nil, NEW x, x = t.child[side][y], Replaced(t, u, I, y, x),
         \A m \in Node \ I, s \in Sides : t.child[s][m] = Nil
  PROVE  Shape(u, I \ {y}) /\ x \in (I \ {y}) \cup {Nil}
<1> DEFINE J == I \ {y}
           q == t.parent[y]
<1>1. /\ y \in Node /\ y # Nil /\ I \subseteq Node /\ q \in I \cup {Nil} /\ q # y
      /\ x \in I \cup {Nil} /\ x # y /\ Nil \notin Node /\ \A m \in Node : m \in Pointer
      /\ (x # Nil => t.parent[x] = y /\ q # x)
  BY ShapeFacts, NoLoops, NilIsNoNode, TwoSides DEF Shape
<1>2. /\ \A m \in Node : \A s \in Sides : t.child[s][m] \in I \cup {Nil}
      /\ \A m \in I : \A s \in Sides : t.child[s][m] # Nil => t.parent[t.child[s][m]] = m
      /\ \A m \in I : t.parent[m] # Nil =>
           t.parent[m] \in I /\ \E s \in Sides : t.child[s][t.parent[m]] = m
      /\ \A m \in I : t.parent[m] = Nil <=> t.root = m
      /\ t.root \in I \cup {Nil}
      /\ \A m \in I : t.child["left"][m] = t.child["right"][m] => t.child["left"][m] = Nil
  BY DEF Shape
<1>3. /\ u.root = (IF q = Nil THEN x ELSE t.root)
      /\ \A m \in Pointer : u.parent[m] = IF m = x THEN q ELSE t.parent[m]
      /\ \A m \in I, s \in Sides :
           u.child[s][m] = IF t.child[s][m] = y THEN x ELSE t.child[s][m]
      /\ \A m \in Node \ I, s \in Sides : u.child[s][m] = t.child[s][m]
  BY DEF Replaced
<1>14. \A s \in Sides : t.child[s][y] = x \/ t.child[s][y] = Nil
  BY TwoSides
<1> HIDE DEF J, q
<1>15. \A m \in J : m \in I /\ m # y /\ m \in Node /\ m \in Pointer
  BY <1>1 DEF J
<1>16. \A m \in I : m # y => m \in J
  BY DEF J
<1>4. ASSUME NEW m \in Node, NEW s \in Sides PROVE u.child[s][m] \in J \cup {Nil}
  <2>1. CASE m \in Node \ I
    BY <1>3, <2>1
  <2>2. CASE m \in I
    <3>1. u.child[s][m] = IF t.child[s][m] = y THEN x ELSE t.child[s][m]
      BY <1>3, <2>2
    <3> QED BY <1>1, <1>2, <1>16, <3>1
  <2> QED BY <2>1, <2>2
<1>5. ASSUME NEW m \in J, NEW s \in Sides, u.child[s][m] # Nil PROVE u.parent[u.child[s][m]] = m
  <2>0. u.child[s][m] = IF t.child[s][m] = y THEN x ELSE t.child[s][m]
    BY <1>3, <1>15
  <2>1. CASE t.child[s][m] = y
    <3>1. m = q
      BY <1>1, <1>2, <1>15, <2>1 DEF q
    <3> QED BY <1>1, <1>3, <1>5, <2>0, <2>1, <3>1 DEF q
  <2>2. CASE t.child[s][m] # y
    <3>1. t.child[s][m] \in I /\ t.parent[t.child[s][m]] = m /\ t.child[s][m] \in Pointer
      BY <1>1, <1>2, <1>5, <1>15, <2>0, <2>2
    <3>2. t.child[s][m] # x
      BY <1>1, <1>15, <3>1
    <3> QED BY <1>3, <2>0, <2>2, <3>1, <3>2
  <2> QED BY <2>1, <2>2
<1>6. ASSUME NEW m \in J, u.parent[m] # Nil
      PROVE  u.parent[m] \in J /\ \E s \in Sides : u.child[s][u.parent[m]] = m
  <2>1. CASE m = x
    <3>1. u.parent[m] = q /\ q \in I /\ q # y /\ q = t.parent[y]
      BY <1>1, <1>3, <1>6, <1>15, <2>1 DEF q
    <3>2. PICK s \in Sides : t.child[s][q] = y
      BY <1>2, <1>6, <3>1
    <3> QED BY <1>3, <1>16, <2>1, <3>1, <3>2
  <2>2. CASE m # x
    <3>1. m \in I /\ u.parent[m] = t.parent[m]
      BY <1>3, <1>15, <2>2
    <3>2. PICK s \in Sides : t.parent[m] \in I /\ t.child[s][t.parent[m]] = m
      BY <1>2, <1>6, <3>1
    <3>3. t.parent[m] # y
      <4>1. m # Nil
        BY <1>1, <1>15
      <4> QED BY <1>14, <2>2, <3>2, <4>1
    <3>4. u.child[s][t.parent[m]] = m
      BY <1>3, <1>15, <3>2
    <3> QED BY <1>16, <3>1, <3>2, <3>3, <3>4
  <2> QED BY <2>1, <2>2
<1>7. ASSUME NEW m \in J PROVE u.parent[m] = Nil <=> u.root = m
  <2>0. m \in I /\ m # y /\ m \in Pointer /\ m # Nil
    BY <1>1, <1>15
  <2>1. CASE m = x
    <3>1. u.parent[m] = q /\ t.parent[m] # Nil
      BY <1>1, <1>3, <2>0, <2>1
    <3>2. t.root # m
      BY <1>2, <2>0, <3>1
    <3> QED BY <1>3, <2>1, <3>1, <3>2
  <2>2. CASE m # x
    <3>1. u.parent[m] = t.parent[m]
      BY <1>3, <2>0, <2>2
    <3>2. q = Nil => t.root = y
      BY <1>2 DEF q
    <3> QED BY <1>2, <1>3, <2>0, <2>2, <3>1, <3>2
  <2> QED BY <2>1, <2>2
<1>8. u.root \in J \cup {Nil}
  <2>1. q # Nil => t.root # y
    BY <1>2 DEF q
  <2> QED BY <1>1, <1>2, <1>3, <1>16, <2>1
<1>9. ASSUME NEW m \in J, u.child["left"][m] = u.child["right"][m] PROVE u.child["left"][m] = Nil
  <2>1. /\ u.child["left"][m] = IF t.child["left"][m] = y THEN x ELSE t.child["left"][m]
        /\ u.child["right"][m] = IF t.child["right"][m] = y THEN x ELSE t.child["right"][m]
    BY <1>3, <1>15, TwoSides
  <2>2. x # Nil => t.child["left"][m] # x /\ t.child["right"][m] # x
    BY <1>1, <1>2, <1>15, TwoSides
  <2>3. ~(t.child["left"][m] = y /\ t.child["right"][m] = y)
    BY <1>1, <1>2, <1>15
  <2>4. t.child["left"][m] = t.child["right"][m] => t.child["left"][m] = Nil
    BY <1>2, <1>15
  <2> QED BY <1>1, <1>9, <2>1, <2>2, <2>3, <2>4
<1>10. u \in Tree
  BY DEF Replaced
<1>11. Shape(u, J)
  BY <1>4, <1>5, <1>6, <1>7, <1>8, <1>9, <1>10, <1>15 DEF Shape
<1>12. x \in J \cup {Nil}
  BY <1>1, <1>16
<1> QED BY <1>11, <1>12 DEF J

\* A node replaced by its only child leaves no loop of links.
LEMMA ReplacedEnds ==
  ASSUME NEW t, NEW u, NEW I, Shape(t, I), Rises(t, I), Falls(t, I), NEW y \in I, NEW side \in Sides,
         t.child[Other(side)][y] = Nil, NEW x, x = t.child[side][y], Replaced(t, u, I, y, x)
  PROVE  Rises(u, I \ {y}) /\ Falls(u, I \ {y})
<1> DEFINE q == t.parent[y]
<1>1. /\ y \in Node /\ y # Nil /\ I \subseteq Node /\ q \in I \cup {Nil} /\ q # y
      /\ x \in I \cup {Nil} /\ x # y /\ Nil \notin Node /\ \A m \in Node : m \in Pointer
      /\ (x # Nil => t.parent[x] = y /\ q # x)
      /\ \A m \in I, s \in Sides : t.child[s][m] \in I \cup {Nil}
  BY ShapeFacts, NoLoops, NilIsNoNode, TwoSides DEF Shape
<1>2. /\ \A m \in Pointer : u.parent[m] = IF m = x THEN q ELSE t.parent[m]
      /\ \A m \in I, s \in Sides :
           u.child[s][m] = IF t.child[s][m] = y THEN x ELSE t.child[s][m]
  BY DEF Replaced
<1>3. ASSUME NEW S \in SUBSET (I \ {y}), S # {}, \A m \in S : u.parent[m] \in S PROVE FALSE
  <2>1. S \in SUBSET I /\ y \notin S
    OBVIOUS
  <2>2. CASE x \in S
    <3> DEFINE R == S \cup {y}
    <3>1. q \in S
      BY <1>1, <1>2, <1>3, <2>1, <2>2
    <3>2. ASSUME NEW m \in R PROVE t.parent[m] \in R
      <4>1. CASE m = y
        BY <3>1, <4>1
      <4>2. CASE m = x
        BY <1>1, <2>1, <2>2, <4>2
      <4>3. CASE m \in S \ {x}
        BY <1>1, <1>2, <1>3, <2>1, <4>3
      <4> QED BY <4>1, <4>2, <4>3
    <3>3. R \in SUBSET I /\ R # {}
      BY <2>1
    <3> QED BY <3>2, <3>3 DEF Rises
  <2>3. CASE x \notin S
    <3>1. \A m \in S : t.parent[m] \in S
      BY <1>1, <1>2, <1>3, <2>1, <2>3
    <3> QED BY <1>3, <2>1, <3>1 DEF Rises
  <2> QED BY <2>2, <2>3
<1>4. ASSUME NEW S \in SUBSET (I \ {y}), S # {}, \A m \in S : \E s \in Sides : u.child[s][m] \in S
      PROVE  FALSE
  <2>1. S \in SUBSET I /\ y \notin S
    OBVIOUS
  <2>2. CASE x \in S
    <3> DEFINE R == S \cup {y}
    <3>1. ASSUME NEW m \in R PROVE \E s \in Sides : t.child[s][m] \in R
      <4>1. CASE m = y
        BY <2>2, <4>1
      <4>2. CASE m \in S
        <5>1. PICK s \in Sides : u.child[s][m] \in S
          BY <1>4, <4>2
        <5> QED BY <1>2, <2>1, <4>2, <5>1
      <4> QED BY <4>1, <4>2
    <3>2. R \in SUBSET I /\ R # {}
      BY <2>1
    <3> QED BY <3>1, <3>2 DEF Falls
  <2>3. CASE x \notin S
    <3>1. \A m \in S : \E s \in Sides : t.child[s][m] \in S
      BY <1>2, <1>4, <2>1, <2>3
    <3> QED BY <1>4, <2>1, <3>1 DEF Falls
  <2> QED BY <2>2, <2>3
<1> QED BY <1>3, <1>4 DEF Rises, Falls

\* Without a node the bounds that were its key are its bounds: they are wider.
Widened(B, k, y) ==
  [s \in Sides |-> [m \in Node |-> IF B[s][m] = {k} THEN B[s][y] ELSE B[s][m]]]

\* A node replaced by its only child leaves the keys in order.
LEMMA ReplacedOrder ==
  ASSUME NEW t, NEW u, NEW I, Shape(t, I), Rises(t, I), NEW K, NEW B, Ordered(t, I, K, B),
         NEW y \in I, NEW side \in Sides,
         t.child[Other(side)][y] = Nil, NEW x, x = t.child[side][y], Replaced(t, u, I, y, x)
  PROVE  /\ Ordered(u, I \ {y}, K, Widened(B, K[y], y))
         /\ \A m \in I, k \in Int : Spans(B, m, k) => Spans(Widened(B, K[y], y), m, k)
<1> DEFINE q == t.parent[y]
           C == Widened(B, K[y], y)
<1>1. /\ y \in Node /\ y # Nil /\ I \subseteq Node /\ q \in I \cup {Nil}
      /\ x \in I \cup {Nil} /\ x # y /\ Nil \notin Node
      /\ Other(side) \in Sides /\ \A s \in Sides : s = side \/ s = Other(side)
  BY ShapeFacts, NoLoops, NilIsNoNode, TwoSides DEF Shape
<1>2. /\ u.root = (IF q = Nil THEN x ELSE t.root)
      /\ \A m \in I, s \in Sides :
           u.child[s][m] = IF t.child[s][m] = y THEN x ELSE t.child[s][m]
  BY DEF Replaced
<1>3. /\ B \in Bounds
      /\ \A m \in I : K[m] \in Int /\ Spans(B, m, K[m])
      /\ \A m \in I, s \in Sides : t.child[s][m] # Nil =>
           B[s][t.child[s][m]] = B[s][m] /\ B[Other(s)][t.child[s][m]] = {K[m]}
      /\ t.root # Nil => \A s \in Sides : B[s][t.root] = {}
  BY DEF Ordered
<1>4. /\ C \in Bounds
      /\ \A s \in Sides, m \in Node : C[s][m] = IF B[s][m] = {K[y]} THEN B[s][y] ELSE B[s][m]
  BY <1>1, <1>3 DEF Bounds, Widened
<1> HIDE DEF C
<1>5. \A s \in Sides : B[s][y] \subseteq Int /\ \A b \in B[s][y] : Beyond(s, b, K[y])
  BY <1>1, <1>3 DEF Bounds, Spans
<1>6. \A s \in Sides : B[s][y] # {K[y]}
  <2>1. \A s \in Sides : ~Beyond(s, K[y], K[y])
    BY <1>3, BeyondOrder
  <2> QED BY <1>5, <2>1
<1>7. ASSUME NEW m \in I, NEW k \in Int, Spans(B, m, k) PROVE Spans(C, m, k)
  <2>1. SUFFICES ASSUME NEW s \in Sides, NEW b \in C[s][m] PROVE Beyond(s, b, k)
    BY DEF Spans
  <2>2. CASE B[s][m] = {K[y]}
    <3>1. Beyond(s, K[y], k) /\ K[y] \in Int
      BY <1>3, <1>7, <2>2 DEF Spans
    <3>2. b \in B[s][y]
      BY <1>1, <1>4, <2>1, <2>2
    <3>3. b \in Int /\ Beyond(s, b, K[y])
      BY <1>5, <3>2
    <3> QED BY <3>1, <3>3, BeyondOrder
  <2>3. CASE B[s][m] # {K[y]}
    BY <1>1, <1>4, <1>7, <2>1, <2>3 DEF Spans
  <2> QED BY <2>2, <2>3
<1>8. x # Nil => \A s \in Sides : C[s][x] = B[s][y]
  <2>1. SUFFICES ASSUME x # Nil, NEW s \in Sides PROVE C[s][x] = B[s][y]
    OBVIOUS
  <2>2. B[side][x] = B[side][y] /\ B[Other(side)][x] = {K[y]} /\ x \in Node
    BY <1>1, <1>3, <2>1
  <2> QED BY <1>1, <1>4, <2>2
<1>9. ASSUME NEW m \in I \ {y}, NEW s \in Sides, u.child[s][m] # Nil
      PROVE  C[s][u.child[s][m]] = C[s][m] /\ C[Other(s)][u.child[s][m]] = {K[m]}
  <2>1. m \in Node /\ Other(s) \in Sides
    BY <1>1, TwoSides
  <2>2. CASE t.child[s][m] = y
    <3>1. B[s][y] = B[s][m] /\ B[Other(s)][y] = {K[m]}
      BY <1>1, <1>3, <2>2
    <3>2. u.child[s][m] = x
      BY <1>2, <2>2
    <3> QED BY <1>4, <1>6, <1>8, <1>9, <2>1, <3>1, <3>2
  <2>3. CASE t.child[s][m] # y
    <3>1. u.child[s][m] = t.child[s][m] /\ t.child[s][m] # Nil
      BY <1>2, <1>9, <2>3
    <3>2. t.child[s][m] \in Node
      BY <1>1, <3>1, ShapeFacts
    <3>3. B[s][t.child[s][m]] = B[s][m] /\ B[Other(s)][t.child[s][m]] = {K[m]}
      BY <1>3, <3>1
    <3>4. K[m] # K[y]
      BY KeysDiffer
    <3> QED BY <1>4, <2>1, <3>1, <3>2, <3>3, <3>4
  <2> QED BY <2>2, <2>3
<1>10. ASSUME u.root # Nil, NEW s \in Sides PROVE C[s][u.root] = {}
  <2>1. CASE q = Nil
    <3>1. t.root = y /\ u.root = x
      BY <1>2, <2>1 DEF Shape
    <3> QED BY <1>1, <1>3, <1>8, <1>10, <3>1
  <2>2. CASE q # Nil
    <3>1. u.root = t.root /\ t.root \in Node
      BY <1>1, <1>2, <1>10, <2>2 DEF Shape
    <3> QED BY <1>3, <1>4, <1>10, <3>1
  <2> QED BY <2>1, <2>2
<1>11. Ordered(u, I \ {y}, K, C)
  <2>1. \A m \in I \ {y} : K[m] \in Int /\ Spans(C, m, K[m])
    BY <1>3, <1>7
  <2> QED BY <1>4, <1>9, <1>10, <2>1 DEF Ordered
<1> QED BY <1>7, <1>11 DEF C

\* A node may take another key, if all others are on the same side of both.
LEMMA RekeyedOrder ==
  ASSUME NEW t, NEW I, Shape(t, I), Rises(t, I), NEW K, NEW B, Ordered(t, I, K, B),
         NEW z \in I, NEW L, \A m \in I \ {z} : L[m] = K[m], L[z] \in Int, Spans(B, z, L[z]),
         \A m \in I \ {z}, s \in Sides : Beyond(s, K[z], K[m]) => Beyond(s, L[z], K[m])
  PROVE  \E C : Ordered(t, I, L, C)
<1> DEFINE C == [s \in Sides |-> [m \in Node |-> IF B[s][m] = {K[z]} THEN {L[z]} ELSE B[s][m]]]
<1>1. z \in Node /\ I \subseteq Node
  BY DEF Shape
<1>2. /\ B \in Bounds
      /\ \A m \in I : K[m] \in Int /\ Spans(B, m, K[m])
      /\ \A m \in I, s \in Sides : t.child[s][m] # Nil =>
           B[s][t.child[s][m]] = B[s][m] /\ B[Other(s)][t.child[s][m]] = {K[m]}
      /\ t.root # Nil => \A s \in Sides : B[s][t.root] = {}
  BY DEF Ordered
<1>3. /\ C \in Bounds
      /\ \A s \in Sides, m \in Node : C[s][m] = IF B[s][m] = {K[z]} THEN {L[z]} ELSE B[s][m]
  BY <1>1, <1>2 DEF Bounds
<1> HIDE DEF C
<1>4. \A s \in Sides : B[s][z] # {K[z]}
  <2>1. \A s \in Sides : ~Beyond(s, K[z], K[z])
    BY <1>2, BeyondOrder
  <2> QED BY <1>2, <2>1 DEF Spans
<1>5. ASSUME NEW m \in I PROVE L[m] \in Int /\ Spans(C, m, L[m])
  <2>1. CASE m = z
    BY <1>1, <1>3, <1>4, <2>1 DEF Spans
  <2>2. CASE m # z
    <3>1. L[m] = K[m] /\ K[m] \in Int
      BY <1>2, <2>2
    <3>2. ASSUME NEW s \in Sides, NEW b \in C[s][m] PROVE Beyond(s, b, K[m])
      <4>1. CASE B[s][m] = {K[z]}
        <5>1. Beyond(s, K[z], K[m])
          BY <1>2, <4>1 DEF Spans
        <5>2. b = L[z]
          BY <1>1, <1>3, <3>2, <4>1
        <5> QED BY <2>2, <5>1, <5>2
      <4>2. CASE B[s][m] # {K[z]}
        BY <1>1, <1>2, <1>3, <3>2, <4>2 DEF Spans
      <4> QED BY <4>1, <4>2
    <3> QED BY <3>1, <3>2 DEF Spans
  <2> QED BY <2>1, <2>2
<1>6. ASSUME NEW m \in I, NEW s \in Sides, t.child[s][m] # Nil
      PROVE  C[s][t.child[s][m]] = C[s][m] /\ C[Other(s)][t.child[s][m]] = {L[m]}
  <2>1. m \in Node /\ t.child[s][m] \in Node /\ Other(s) \in Sides
    BY <1>1, <1>6, TwoSides, ShapeFacts
  <2>2. B[s][t.child[s][m]] = B[s][m] /\ B[Other(s)][t.child[s][m]] = {K[m]}
    BY <1>2, <1>6
  <2>3. K[m] = K[z] => m = z
    BY KeysDiffer
  <2> QED BY <1>3, <2>1, <2>2, <2>3
<1>7. ASSUME t.root # Nil, NEW s \in Sides PROVE C[s][t.root] = {}
  <2>1. t.root \in Node
    BY <1>1, <1>7 DEF Shape
  <2> QED BY <1>2, <1>3, <1>7, <2>1
<1> QED BY <1>3, <1>5, <1>6, <1>7 DEF Ordered

\* Following one side of the tree is a chain.
LEMMA SideIsChain ==
  ASSUME NEW t, NEW I, Shape(t, I), Falls(t, I), NEW s \in Sides
  PROVE  Chain([m \in Node |-> t.child[s][m]])
<1> DEFINE f == [m \in Node |-> t.child[s][m]]
<1>1. \A m \in Node : t.child[s][m] \in Pointer
  BY NilIsNoNode DEF Shape
<1>2. f \in [Node -> Pointer] /\ \A m \in Node : f[m] = t.child[s][m]
  BY <1>1
<1> HIDE DEF f
<1>3. Chain(f)
  BY <1>2, DescentIsChain
<1> QED BY <1>3 DEF f

\* What is nearest to a node among the nodes under a child of it: its key is the
\* bound of it, and no key lies between.
LEMMA InnermostIs ==
  ASSUME NEW t, NEW I, Shape(t, I), Rises(t, I), Falls(t, I), NEW K, NEW B, Ordered(t, I, K, B),
         NEW n \in I, NEW s \in Sides, t.child[s][n] # Nil,
         NEW g, EndsAt([m \in Node |-> t.child[Other(s)][m]], g), NEW e, e = g[t.child[s][n]]
  PROVE  /\ e \in I /\ e # n /\ t.child[Other(s)][e] = Nil /\ K[e] \in Int
         /\ Spans(B, n, K[e]) /\ Beyond(s, K[e], K[n])
         /\ \A m \in I \ {n, e}, r \in Sides : Beyond(r, K[n], K[m]) => Beyond(r, K[e], K[m])
<1> DEFINE o == Other(s)
           c == t.child[s][n]
           f == [m \in Node |-> t.child[o][m]]
           S == {m \in I : B[o][m] = {K[n]} /\ \A k \in Int : Spans(B, m, k) => Spans(B, n, k)}
<1>1. /\ o \in Sides /\ Other(o) = s /\ o # s /\ I \subseteq Node /\ n \in Node
      /\ Nil \notin Node
  BY TwoSides, NilIsNoNode DEF Shape
<1>2. /\ \A m \in I : K[m] \in Int /\ Spans(B, m, K[m])
      /\ \A m \in I, r \in Sides : t.child[r][m] # Nil =>
           B[r][t.child[r][m]] = B[r][m] /\ B[Other(r)][t.child[r][m]] = {K[m]}
  BY DEF Ordered
<1>3. c \in S
  <2>1. c \in I /\ B[o][c] = {K[n]}
    BY <1>1, <1>2, ChildOrder
  <2>2. \A k \in Int : Spans(B, c, k) => Spans(B, n, k)
    BY ChildOrder
  <2> QED BY <2>1, <2>2
<1>4. ASSUME NEW m \in S, t.child[o][m] # Nil PROVE t.child[o][m] \in S
  <2>1. t.child[o][m] \in I /\ B[o][t.child[o][m]] = {K[n]}
    BY <1>1, <1>2, <1>4, ChildOrder
  <2>2. \A k \in Int : Spans(B, t.child[o][m], k) => Spans(B, n, k)
    BY <1>1, <1>4, ChildOrder
  <2> QED BY <2>1, <2>2
<1>5. Chain(f) /\ EndsAt(f, g) /\ S \in SUBSET Node /\ \A m \in S : f[m] = t.child[o][m]
  <2>1. Chain(f)
    BY <1>1, SideIsChain
  <2> QED BY <1>1, <2>1
<1> HIDE DEF f, S
<1>6. e \in S /\ f[e] = Nil
  <2>1. \A m \in S : f[m] # Nil => f[m] \in S
    BY <1>4, <1>5
  <2> QED BY <1>3, <1>5, <2>1, ChainStays
<1>7. /\ e \in I /\ t.child[o][e] = Nil /\ B[o][e] = {K[n]} /\ K[e] \in Int
      /\ Spans(B, n, K[e]) /\ Spans(B, e, K[e])
  BY <1>2, <1>5, <1>6, Zenon DEF S
<1>8. Beyond(o, K[n], K[e])
  BY <1>1, <1>7 DEF Spans
<1>9. Beyond(s, K[e], K[n]) /\ e # n
  BY <1>1, <1>2, <1>7, <1>8, BeyondOrder, Zenon
<1>10. ASSUME NEW m \in I \ {n, e}, NEW r \in Sides, Beyond(r, K[n], K[m]) PROVE Beyond(r, K[e], K[m])
  <2>1. K[m] \in Int /\ K[n] \in Int /\ K[m] # K[e]
    <3>1. K[m] # K[e]
      <4>1. m \in I /\ e \in I /\ m # e
        BY <1>7, <1>10, Zenon
      <4> QED BY <4>1, KeysDiffer, Zenon
    <3> QED BY <1>2, <3>1, Zenon
  <2>2. CASE r = s
    BY <1>7, <1>9, <1>10, <2>1, <2>2, BeyondOrder, Zenon
  <2>3. CASE r = o
    <3>1. SUFFICES ASSUME Beyond(o, K[m], K[e]) PROVE FALSE
      BY <1>1, <1>7, <2>1, <2>3, BeyondOrder, Zenon
    <3>2. \A b \in B[o][e] : Beyond(o, b, K[m])
      BY <1>7, <1>10, <2>3, Zenon
    <3>3. ASSUME NEW b \in B[s][e] PROVE Beyond(s, b, K[m])
      <4>1. b \in Int /\ Beyond(s, b, K[e])
        BY <1>1, <1>7, <1>3 DEF Ordered, Bounds, Spans
      <4>2. Beyond(s, K[e], K[m])
        BY <1>1, <1>7, <2>1, <3>1, BeyondOrder, Zenon
      <4> QED BY <1>7, <2>1, <4>1, <4>2, BeyondOrder, Zenon
    <3>4. Spans(B, e, K[m])
      BY <1>1, <3>2, <3>3, TwoSides DEF Spans
    <3> QED BY <1>1, <1>7, <3>1, <3>4, NoKeyBetween, Zenon
  <2> QED BY <1>1, <2>2, <2>3, TwoSides
<1> QED BY <1>7, <1>9, <1>10, Zenon

\* Only the keys of the nodes in the tree matter.
LEMMA SameKeys ==
  ASSUME NEW t, NEW I, NEW K, SearchTree(t, I, K), NEW L, \A m \in I : L[m] = K[m]
  PROVE  SearchTree(t, I, L)
<1>1. PICK B : Ordered(t, I, K, B)
  BY DEF SearchTree
<1>2. \A m \in I, s \in Sides : t.child[s][m] # Nil => B[Other(s)][t.child[s][m]] = {L[m]}
  BY <1>1 DEF Ordered
<1>3. Ordered(t, I, L, B)
  BY <1>1, <1>2 DEF Ordered
<1> QED BY <1>3 DEF SearchTree

\* The node that is unlinked has one child or none.
LEMMA VictimIs ==
  ASSUME NEW I, NEW K, SearchTree(tree, I, K), NEW B, Ordered(tree, I, K, B), NEW z \in I
  PROVE  /\ Victim(z) \in I
         /\ \E side \in Sides : /\ tree.child[Other(side)][Victim(z)] = Nil
                                /\ OnlyChild(Victim(z)) = tree.child[side][Victim(z)]
         /\ Victim(z) # z =>
              /\ K[Victim(z)] \in Int /\ Spans(B, z, K[Victim(z)])
              /\ \A m \in I \ {z, Victim(z)}, s \in Sides :
                   Beyond(s, K[z], K[m]) => Beyond(s, K[Victim(z)], K[m])
<1> DEFINE y == Victim(z)
<1>1. Shape(tree, I) /\ Rises(tree, I) /\ Falls(tree, I)
  BY DEF SearchTree
<1>2. y \in I /\ (\E side \in Sides : tree.child[side][y] = Nil)
      /\ (y # z => /\ K[y] \in Int /\ Spans(B, z, K[y])
                   /\ \A m \in I \ {z, y}, s \in Sides :
                        Beyond(s, K[z], K[m]) => Beyond(s, K[y], K[m]))
  <2>1. CASE \E side \in Sides : tree.child[side][z] = Nil
    <3>1. y = z
      BY <2>1 DEF Victim
    <3> QED BY <2>1, <3>1
  <2>2. CASE ~ \E side \in Sides : tree.child[side][z] = Nil
    <3> DEFINE f == [m \in Node |-> tree.child["left"][m]]
               c == tree.child["right"][z]
    <3>1. c # Nil /\ c \in Node
      BY <1>1, <2>2, TwoSides, ShapeFacts DEF Shape
    <3>2. y = Outermost("left", c)
      BY <2>2, <3>1, TwoSides DEF Victim, Neighbour
    <3>3. Chain(f)
      BY <1>1, SideIsChain, TwoSides
    <3>4. PICK g : EndsAt(f, g)
      BY <3>3, ChainEnds
    <3>5. SideDescent("left", f)
      BY DEF SideDescent
    <3>6. y = g[c]
      BY <3>1, <3>2, <3>3, <3>4, <3>5, OutermostIs
    <3>7. f = [m \in Node |-> tree.child[Other("right")][m]]
      BY TwoSides
    <3> HIDE DEF y
    <3>8. /\ y \in I /\ y # z /\ tree.child["left"][y] = Nil /\ K[y] \in Int /\ Spans(B, z, K[y])
          /\ \A m \in I \ {z, y}, s \in Sides :
               Beyond(s, K[z], K[m]) => Beyond(s, K[y], K[m])
      BY <1>1, <3>1, <3>4, <3>6, <3>7, TwoSides, InnermostIs
    <3> QED BY <3>8, TwoSides
  <2> QED BY <2>1, <2>2
<1> HIDE DEF y
<1>3. \E side \in Sides : tree.child[Other(side)][y] = Nil /\ OnlyChild(y) = tree.child[side][y]
  <2>1. CASE tree.child["left"][y] # Nil
    <3>1. tree.child["right"][y] = Nil
      BY <1>2, <2>1, TwoSides
    <3> QED BY <2>1, <3>1, TwoSides DEF OnlyChild
  <2>2. CASE tree.child["left"][y] = Nil
    BY <2>2, TwoSides DEF OnlyChild
  <2> QED BY <2>1, <2>2
<1> QED BY <1>2, <1>3 DEF y

\* Unlinking a node, whose key goes to the one it is unlinked for, gives a search
\* tree.
LEMMA UnlinkedTree ==
  ASSUME NEW I, NEW K, SearchTree(tree, I, K), \A m \in Node \ I, s \in Sides : tree.child[s][m] = Nil,
         NEW z \in I, NEW y, y = Victim(z), NEW x, x = OnlyChild(y),
         NEW L, L[z] = K[y], \A m \in I \ {z} : L[m] = K[m]
  PROVE  /\ y \in I /\ x \in (I \ {y}) \cup {Nil}
         /\ Replaced(tree, Substituted(tree, y, x), I, y, x)
         /\ SearchTree(Substituted(tree, y, x), I \ {y}, L)
         /\ \E side \in Sides : tree.child[Other(side)][y] = Nil /\ x = tree.child[side][y]
<1> DEFINE u == Substituted(tree, y, x)
           J == I \ {y}
<1>1. Shape(tree, I) /\ Rises(tree, I) /\ Falls(tree, I)
  BY DEF SearchTree
<1>2. PICK B : Ordered(tree, I, K, B)
  BY DEF SearchTree
<1>3. y \in I /\ (y # z => /\ K[y] \in Int /\ Spans(B, z, K[y])
                           /\ \A m \in I \ {z, y}, s \in Sides :
                                Beyond(s, K[z], K[m]) => Beyond(s, K[y], K[m]))
  BY <1>2, VictimIs
<1>4. PICK side \in Sides : tree.child[Other(side)][y] = Nil /\ x = tree.child[side][y]
  BY <1>2, VictimIs
<1>5. x \in Pointer
  BY <1>1, <1>3, <1>4, ShapeFacts, NilIsNoNode DEF Shape
<1>6. Replaced(tree, u, I, y, x)
  BY <1>1, <1>3, <1>5, SubstitutedIs
<1> HIDE DEF u
<1>12. /\ Shape(tree, I) /\ Rises(tree, I) /\ y \in I /\ side \in Sides
       /\ tree.child[Other(side)][y] = Nil /\ x = tree.child[side][y] /\ Replaced(tree, u, I, y, x)
  BY <1>1, <1>3, <1>4, <1>6
<1>7. Shape(u, J) /\ x \in J \cup {Nil}
  <2> HIDE DEF J
  <2>1. \A m \in Node \ I, s \in Sides : tree.child[s][m] = Nil
    OBVIOUS
  <2>2. Shape(u, I \ {y}) /\ x \in (I \ {y}) \cup {Nil}
    BY <1>12, <2>1, ReplacedShape
  <2> QED BY <2>2 DEF J
<1>8. Rises(u, J) /\ Falls(u, J)
  BY <1>1, <1>3, <1>4, <1>6, ReplacedEnds
<1> DEFINE C == Widened(B, K[y], y)
<1>9. Ordered(u, J, K, C) /\ \A m \in I, k \in Int : Spans(B, m, k) => Spans(C, m, k)
  BY <1>2, <1>12, ReplacedOrder, Zenon
<1> HIDE DEF C
<1>10. \E D : Ordered(u, J, L, D)
  <2>1. CASE y = z
    <3>1. SearchTree(u, J, K)
      BY <1>7, <1>8, <1>9 DEF SearchTree
    <3>2. \A m \in J : L[m] = K[m]
      BY <2>1
    <3>3. SearchTree(u, J, L)
      BY <3>1, <3>2, SameKeys
    <3> QED BY <3>3 DEF SearchTree
  <2>2. CASE y # z
    <3>1. z \in J /\ (\A m \in J \ {z} : L[m] = K[m]) /\ L[z] \in Int /\ Spans(C, z, L[z])
      BY <1>3, <1>9, <2>2
    <3>2. \A m \in J \ {z}, s \in Sides : Beyond(s, K[z], K[m]) => Beyond(s, L[z], K[m])
      BY <1>3, <2>2
    <3> QED BY <1>7, <1>8, <1>9, <3>1, <3>2, RekeyedOrder
  <2> QED BY <2>1, <2>2
<1>11. SearchTree(u, J, L)
  BY <1>7, <1>8, <1>10 DEF SearchTree
<1> QED BY <1>3, <1>4, <1>6, <1>7, <1>11 DEF u

-----------------------------------------------------------------------------
(* What a search finds.                                                    *)

\* A tree that has a node has a root.
LEMMA RootIs ==
  ASSUME NEW t, NEW I, Shape(t, I), Rises(t, I)
  PROVE  t.root = Nil <=> I = {}
<1>1. ASSUME I # {} PROVE t.root # Nil
  <2>1. PICK n \in I : t.parent[n] \notin I
    BY <1>1 DEF Rises
  <2>2. t.parent[n] = Nil /\ n # Nil
    BY <2>1, NilIsNoNode DEF Shape
  <2> QED BY <2>2 DEF Shape
<1>2. t.root # Nil => I # {}
  BY DEF Shape
<1> QED BY <1>1, <1>2

\* A descent towards a key ends at a node whose bounds span the key.
LEMMA WayEnds ==
  ASSUME NEW t, NEW I, Shape(t, I), NEW K, NEW B, Ordered(t, I, K, B), NEW k \in Int,
         NEW f, Chain(f), NEW g, EndsAt(f, g), t.root # Nil,
         \A n \in I : f[n] # Nil => \E s \in Sides : f[n] = t.child[s][n] /\ Beyond(s, k, K[n])
  PROVE  g[t.root] \in I /\ Spans(B, g[t.root], k) /\ f[g[t.root]] = Nil
<1> DEFINE S == {n \in I : Spans(B, n, k)}
<1>1. S \in SUBSET Node
  BY DEF Shape
<1>2. t.root \in S
  <2>1. t.root \in I /\ \A s \in Sides : B[s][t.root] = {}
    BY DEF Shape, Ordered
  <2> QED BY <2>1 DEF Spans
<1>3. ASSUME NEW n \in S, f[n] # Nil PROVE f[n] \in S
  <2>1. PICK s \in Sides : f[n] = t.child[s][n] /\ Beyond(s, k, K[n])
    BY <1>3
  <2> QED BY <1>3, <2>1, ChildOrder
<1> HIDE DEF S
<1>4. \A n \in S : f[n] # Nil => f[n] \in S
  BY <1>3
<1>5. \A n \in S : g[n] \in S /\ f[g[n]] = Nil
  BY <1>1, <1>4, ChainStays
<1> QED BY <1>2, <1>5 DEF S

\* Find gives the node that has the key.
LEMMA FindFinds ==
  ASSUME NEW I, NEW K, SearchTree(tree, I, K), \A n \in I : K[n] = NodeKey(n), NEW k \in Int
  PROVE  /\ Find(k) \in I \cup {Nil}
         /\ Find(k) # Nil => K[Find(k)] = k
         /\ \A m \in I : K[m] = k => Find(k) = m
<1> DEFINE f == [n \in Node |-> IF NodeKey(n) = k THEN Nil ELSE tree.child[Toward(k, n)][n]]
<1>1. Shape(tree, I) /\ Rises(tree, I) /\ Falls(tree, I) /\ I \subseteq Node
  BY DEF SearchTree, Shape
<1>2. PICK B : Ordered(tree, I, K, B)
  BY DEF SearchTree
<1>3. \A n \in Node : Toward(k, n) \in Sides
  BY TwoSides DEF Toward
<1>4. \A n \in Node, s \in Sides : tree.child[s][n] \in Pointer
  BY <1>1, NilIsNoNode DEF Shape
<1>5. f \in [Node -> Pointer] /\ FindDescent(k, f)
  BY <1>3, <1>4, NilIsNoNode DEF FindDescent
<1> HIDE DEF f
<1>6. Chain(f)
  <2>1. \A n \in Node : f[n] = Nil \/ \E s \in Sides : f[n] = tree.child[s][n]
    BY <1>3, <1>5 DEF FindDescent
  <2> QED BY <1>1, <1>5, <2>1, DescentIsChain
<1>7. PICK g : EndsAt(f, g)
  BY <1>6, ChainEnds
<1>8. tree.root \in Pointer
  BY <1>1, NilIsNoNode DEF Shape
<1>9. Find(k) = IF tree.root # Nil /\ NodeKey(g[tree.root]) = k THEN g[tree.root] ELSE Nil
  BY <1>5, <1>6, <1>7, <1>8, FindIs
<1>10. CASE tree.root = Nil
  BY <1>1, <1>9, <1>10, RootIs
<1>11. CASE tree.root # Nil
  <2> DEFINE e == g[tree.root]
  <2>1. ASSUME NEW n \in I, f[n] # Nil
        PROVE  \E s \in Sides : f[n] = tree.child[s][n] /\ Beyond(s, k, K[n])
    <3>1. NodeKey(n) # k /\ f[n] = tree.child[Toward(k, n)][n] /\ NodeKey(n) \in Int /\ K[n] = NodeKey(n)
      BY <1>1, <1>2, <1>5, <2>1 DEF FindDescent, Ordered
    <3> QED BY <1>1, <1>3, <3>1, TowardIs
  <2>2. e \in I /\ Spans(B, e, k) /\ f[e] = Nil
    BY <1>1, <1>2, <1>6, <1>7, <1>11, <2>1, WayEnds
  <2> HIDE DEF e
  <2>3. K[e] = NodeKey(e) /\ K[e] \in Int
    BY <1>2, <2>2 DEF Ordered
  <2>4. EndsWay(tree, K, e, k)
    <3>1. CASE K[e] = k
      BY <2>3, <3>1, BeyondOrder DEF EndsWay
    <3>2. CASE K[e] # k
      <4>1. tree.child[Toward(k, e)][e] = Nil
        BY <1>1, <1>5, <2>2, <2>3, <3>2 DEF FindDescent
      <4>2. \A s \in Sides : Beyond(s, k, K[e]) => s = Toward(k, e)
        BY <2>3, <3>2, TowardIs
      <4> QED BY <4>1, <4>2 DEF EndsWay
    <3> QED BY <3>1, <3>2
  <2>5. ASSUME NEW m \in I, K[m] = k PROVE m = e
    <3>1. Spans(B, m, k) /\ EndsWay(tree, K, m, k)
      BY <1>2, <2>5, BeyondOrder DEF Ordered, EndsWay
    <3> QED BY <1>1, <1>2, <2>2, <2>4, <3>1, OneWay
  <2>6. Find(k) = IF K[e] = k THEN e ELSE Nil
    BY <1>9, <1>11, <2>3 DEF e
  <2> QED BY <2>2, <2>5, <2>6
<1> QED BY <1>10, <1>11

\* LeafFor gives a node that has no child where an absent key belongs.
LEMMA LeafForFinds ==
  ASSUME NEW I, NEW K, SearchTree(tree, I, K), \A n \in I : K[n] = NodeKey(n), NEW k \in Int,
         \A n \in I : K[n] # k, tree.root # Nil, NEW B, Ordered(tree, I, K, B)
  PROVE  /\ LeafFor(k) \in I /\ Toward(k, LeafFor(k)) \in Sides
         /\ tree.child[Toward(k, LeafFor(k))][LeafFor(k)] = Nil
         /\ Spans(B, LeafFor(k), k) /\ Beyond(Toward(k, LeafFor(k)), k, K[LeafFor(k)])
<1> DEFINE f == [n \in Node |-> tree.child[Toward(k, n)][n]]
<1>1. Shape(tree, I) /\ Falls(tree, I) /\ I \subseteq Node
  BY DEF SearchTree, Shape
<1>2. \A n \in Node : Toward(k, n) \in Sides
  BY TwoSides DEF Toward
<1>3. \A n \in Node, s \in Sides : tree.child[s][n] \in Pointer
  BY <1>1, NilIsNoNode DEF Shape
<1>4. f \in [Node -> Pointer] /\ LeafDescent(k, f)
  BY <1>2, <1>3 DEF LeafDescent
<1> HIDE DEF f
<1>5. Chain(f)
  <2>1. \A n \in Node : f[n] = Nil \/ \E s \in Sides : f[n] = tree.child[s][n]
    BY <1>2, <1>4 DEF LeafDescent
  <2> QED BY <1>1, <1>4, <2>1, DescentIsChain
<1>6. PICK g : EndsAt(f, g)
  BY <1>5, ChainEnds
<1>7. ASSUME NEW n \in I PROVE Beyond(Toward(k, n), k, K[n])
  <2>1. K[n] = NodeKey(n) /\ K[n] \in Int /\ K[n] # k
    BY DEF Ordered
  <2> QED BY <1>1, <1>2, <2>1, TowardIs
<1>8. \A n \in I : f[n] # Nil => \E s \in Sides : f[n] = tree.child[s][n] /\ Beyond(s, k, K[n])
  BY <1>1, <1>2, <1>4, <1>7 DEF LeafDescent
<1>9. g[tree.root] \in I /\ Spans(B, g[tree.root], k) /\ f[g[tree.root]] = Nil
  BY <1>1, <1>5, <1>6, <1>8, WayEnds
<1>10. tree.root \in Node
  BY <1>1 DEF Shape
<1>11. LeafFor(k) = g[tree.root]
  BY <1>4, <1>5, <1>6, <1>10, LeafForIs
<1> QED BY <1>1, <1>2, <1>4, <1>7, <1>9, <1>11 DEF LeafDescent

\* What Linked does to the tree.
LEMMA LinkedIs ==
  ASSUME NEW I, Shape(tree, I), NEW n \in Node \ I, NEW k, NEW p \in I \cup {Nil},
         p = IF tree.root = Nil THEN Nil ELSE LeafFor(k),
         NEW side \in Sides, p # Nil => side = Toward(k, p)
  PROVE  /\ Joined(tree, Linked(tree, n, k), n, p, side)
         /\ \A m \in Pointer : Linked(tree, n, k).color[m] = IF m = n THEN "red" ELSE tree.color[m]
<1> DEFINE u == [tree EXCEPT !.child = [s \in Sides |-> [@[s] EXCEPT ![n] = Nil]],
                             !.parent[n] = p, !.color[n] = "red"]
           v == Linked(tree, n, k)
<1>1. n \in Node /\ n # Nil /\ n \in Pointer /\ p # n /\ (p # Nil => p \in Node) /\ p \in Pointer
      /\ Nil \in Pointer
  BY NilIsNoNode DEF Shape
<1>2. tree \in Tree
  BY DEF Shape
<1>3. v = IF p = Nil THEN [u EXCEPT !.root = n] ELSE [u EXCEPT !.child[Toward(k, p)][p] = n]
  BY DEF Linked
<1>4. u = [root |-> tree.root, child |-> [s \in Sides |-> [tree.child[s] EXCEPT ![n] = Nil]],
           parent |-> [tree.parent EXCEPT ![n] = p], color |-> [tree.color EXCEPT ![n] = "red"]]
  <2> DEFINE c == [s \in Sides |-> [tree.child[s] EXCEPT ![n] = Nil]]
  <2>1. u = [tree EXCEPT !.child = c, !.parent[n] = p, !.color[n] = "red"]
    OBVIOUS
  <2> HIDE DEF c
  <2>2. PICK t : t = tree
    OBVIOUS
  <2>3. t \in Tree /\ u = [t EXCEPT !.child = c, !.parent[n] = p, !.color[n] = "red"]
    BY <1>2, <2>1, <2>2
  <2> HIDE DEF u
  <2>4. u = [root |-> t.root, child |-> c, parent |-> [t.parent EXCEPT ![n] = p],
             color |-> [t.color EXCEPT ![n] = "red"]]
    BY <2>3 DEF Tree
  <2> QED BY <2>2, <2>4 DEF c
<1> HIDE DEF u, v
<1>5. /\ u \in Tree /\ u.root = tree.root
      /\ \A m \in Pointer : u.parent[m] = IF m = n THEN p ELSE tree.parent[m]
      /\ \A m \in Pointer : u.color[m] = IF m = n THEN "red" ELSE tree.color[m]
      /\ \A m \in Node, s \in Sides : u.child[s][m] = IF m = n THEN Nil ELSE tree.child[s][m]
  <2>1. [s \in Sides |-> [tree.child[s] EXCEPT ![n] = Nil]] \in [Sides -> [Node -> Pointer]]
    BY <1>1, <1>2 DEF Tree
  <2>2. [tree.parent EXCEPT ![n] = p] \in [Pointer -> Pointer]
        /\ [tree.color EXCEPT ![n] = "red"] \in [Pointer -> {"red", "black"}]
    BY <1>1, <1>2 DEF Tree
  <2> QED BY <1>1, <1>2, <1>4, <2>1, <2>2 DEF Tree
<1>6. CASE p = Nil
  <2>1. v \in Tree /\ v.root = n /\ v.child = u.child /\ v.parent = u.parent /\ v.color = u.color
    BY <1>1, <1>3, <1>5, <1>6 DEF Tree
  <2>2. \A m \in Node : m # p
    BY <1>6, NilIsNoNode
  <2> QED BY <1>5, <1>6, <2>1, <2>2 DEF Joined, v
<1>7. CASE p # Nil
  <2>1. v = [u EXCEPT !.child[side][p] = n]
    BY <1>3, <1>7
  <2>2. v \in Tree /\ v.root = u.root /\ v.parent = u.parent /\ v.color = u.color
    BY <1>1, <1>5, <1>7, <2>1 DEF Tree
  <2>3. \A m \in Node, s \in Sides :
          v.child[s][m] = IF m = p /\ s = side THEN n ELSE u.child[s][m]
    BY <1>1, <1>5, <1>7, <2>1 DEF Tree
  <2> QED BY <1>1, <1>5, <1>7, <2>2, <2>3 DEF Joined, v
<1> QED BY <1>6, <1>7

\* The node n was linked below a node that has no child there, or is the root.
Grown(t, u, I, n) ==
  \E p \in I \cup {Nil}, side \in Sides :
    /\ Joined(t, u, n, p, side)
    /\ p = Nil => t.root = Nil /\ I = {}
    /\ p # Nil => t.child[side][p] = Nil

\* Linking a node with an absent key gives a search tree.
LEMMA LinkedTree ==
  ASSUME NEW I, NEW K, SearchTree(tree, I, K), \A m \in I : K[m] = NodeKey(m),
         NEW n \in Node \ I, NEW k \in Int, \A m \in I : K[m] # k,
         NEW L, L[n] = k, \A m \in I : L[m] = K[m]
  PROVE  /\ SearchTree(Linked(tree, n, k), I \cup {n}, L)
         /\ Grown(tree, Linked(tree, n, k), I, n)
         /\ \A m \in Pointer : Linked(tree, n, k).color[m] = IF m = n THEN "red" ELSE tree.color[m]
<1> DEFINE p == IF tree.root = Nil THEN Nil ELSE LeafFor(k)
           side == IF p = Nil THEN "left" ELSE Toward(k, p)
           u == Linked(tree, n, k)
<1>1. Shape(tree, I) /\ Rises(tree, I)
  BY DEF SearchTree
<1>2. PICK B : Ordered(tree, I, K, B)
  BY DEF SearchTree
<1>3. /\ p \in I \cup {Nil} /\ side \in Sides
      /\ p # Nil => /\ side = Toward(k, p) /\ tree.child[side][p] = Nil
                    /\ Spans(B, p, k) /\ Beyond(side, k, K[p])
  <2>1. CASE tree.root = Nil
    BY <2>1, TwoSides
  <2>2. CASE tree.root # Nil
    <3>1. p = LeafFor(k) /\ LeafFor(k) \in I /\ LeafFor(k) # Nil
      BY <1>1, <1>2, <2>2, LeafForFinds, NilIsNoNode DEF Shape
    <3>2. side = Toward(k, LeafFor(k))
      BY <3>1
    <3> HIDE DEF side, p
    <3> QED BY <1>2, <2>2, <3>1, <3>2, LeafForFinds
  <2> QED BY <2>1, <2>2
<1>4. p = Nil => tree.root = Nil /\ I = {}
  <2>1. tree.root # Nil => LeafFor(k) # Nil
    BY <1>1, <1>2, LeafForFinds, NilIsNoNode DEF Shape
  <2> QED BY <1>1, <2>1, RootIs
<1>5. p = IF tree.root = Nil THEN Nil ELSE LeafFor(k)
  OBVIOUS
<1> HIDE DEF side, p, u
<1>6. /\ Joined(tree, u, n, p, side)
      /\ \A m \in Pointer : u.color[m] = IF m = n THEN "red" ELSE tree.color[m]
  BY <1>1, <1>3, <1>5, LinkedIs DEF u
<1>7. SearchTree(u, I \cup {n}, L)
  BY <1>2, <1>3, <1>4, <1>6, JoinedTree
<1>8. Grown(tree, u, I, n)
  BY <1>3, <1>4, <1>6 DEF Grown
<1> QED BY <1>6, <1>7, <1>8 DEF u

(***************************************************************************)
(* The balance.  h gives each node the number of black nodes on the ways   *)
(* down from it.  Under p, on the side q, one may be missing.              *)
(***************************************************************************)

Level(t, n) == IF Red(t, n) THEN 0 ELSE 1
Lack(n, s, p, q) == IF n = p /\ s = q THEN 1 ELSE 0

EvenAt(t, h, n, p, q) ==
  \A s \in Sides : h[n] = h[t.child[s][n]] + Level(t, n) + Lack(n, s, p, q)

Heights(h) == h \in [Pointer -> Nat] /\ h[Nil] = 1

Even(t, I, p, q) == \E h : Heights(h) /\ \A n \in I : EvenAt(t, h, n, p, q)

\* Two red nodes, one under the other, are met only at c.
Apart(t, I, c) ==
  \A n \in I, s \in Sides : Red(t, n) /\ Red(t, t.child[s][n]) => c \in {n, t.child[s][n]}

\* A rotation keeps the balance when it does so for the two nodes it turns: n goes
\* down to the height a, y comes up to that of n.
TurnsEven(t, I, side, n, y, i, h, a, p, q) ==
  /\ Heights(h) /\ a \in Nat /\ \A m \in I \ {n, y} : EvenAt(t, h, m, p, q)
  /\ a = h[t.child[side][n]] + Level(t, n) + Lack(n, side, p, q)
  /\ a = h[i] + Level(t, n) + Lack(n, Other(side), p, q)
  /\ h[n] = a + Level(t, y) + Lack(y, side, p, q)
  /\ h[n] = h[t.child[Other(side)][y]] + Level(t, y) + Lack(y, Other(side), p, q)

\* A rotation that does so leaves as many black nodes on both sides of each.
LEMMA TurnedEven ==
  ASSUME NEW t, NEW u, NEW I, Shape(t, I), Rises(t, I), NEW side \in Sides, NEW n \in I,
         NEW y, y = t.child[Other(side)][n], y # Nil, NEW i, i = t.child[side][y],
         Turned(t, u, I, side, n, y, i), NEW p, NEW q, NEW h, NEW a,
         TurnsEven(t, I, side, n, y, i, h, a, p, q)
  PROVE  Even(u, I, p, q)
<1> DEFINE o == Other(side)
           g == [m \in Pointer |-> IF m = n THEN a ELSE IF m = y THEN h[n] ELSE h[m]]
<1>1. /\ n \in Node /\ n # Nil /\ y \in I /\ y \in Node /\ y # n /\ I \subseteq Node
      /\ i \in I \cup {Nil} /\ i # n /\ i # y /\ t.parent[y] = n
      /\ o \in Sides /\ o # side
  BY TurnedNodes
<1>2. \A s \in Sides : s = side \/ s = o
  BY TwoSides, Zenon
<1>3. /\ t.child[side][n] # y /\ t.child[side][n] # n /\ t.child[o][y] # n /\ t.child[o][y] # y
      /\ t.child[side][n] \in I \cup {Nil} /\ t.child[o][y] \in I \cup {Nil}
  <2>1. t.child[side][n] # y
    BY ShapeFacts, TwoSides
  <2>2. t.child[side][n] \in I \cup {Nil} /\ t.child[o][y] \in I \cup {Nil}
    BY <1>1, ShapeFacts
  <2> QED BY <1>1, <2>1, <2>2, NoLoops
<1>4. /\ u.color = t.color
      /\ u.child[side][n] = t.child[side][n] /\ u.child[o][n] = i
      /\ u.child[side][y] = n /\ u.child[o][y] = t.child[o][y]
      /\ \A m \in I \ {n, y}, s \in Sides :
           u.child[s][m] = IF t.child[s][m] = n THEN y ELSE t.child[s][m]
  BY Zenon DEF Turned
<1>5. /\ I \cup {Nil} \subseteq Pointer /\ y \in Pointer /\ n \in Pointer /\ y # Nil
  BY <1>1, NilIsNoNode, Zenon
<1>6. Heights(g) /\ g[n] = a /\ g[y] = h[n] /\ \A m \in Pointer \ {n, y} : g[m] = h[m]
  BY <1>1, <1>5, Zenon DEF Heights, TurnsEven
<1>7. \A m \in Node : Level(u, m) = Level(t, m)
  BY <1>4 DEF Level, Red
<1>12. y = t.child[o][n]
  OBVIOUS
<1>8. /\ a = h[i] + Level(t, n) + Lack(n, o, p, q)
      /\ h[n] = h[t.child[o][y]] + Level(t, y) + Lack(y, o, p, q)
      /\ a = h[t.child[side][n]] + Level(t, n) + Lack(n, side, p, q)
      /\ h[n] = a + Level(t, y) + Lack(y, side, p, q)
  BY Zenon DEF TurnsEven
<1> HIDE DEF g, o
<1>9. EvenAt(u, g, n, p, q)
  <2>1. g[t.child[side][n]] = h[t.child[side][n]] /\ g[i] = h[i]
    BY <1>1, <1>3, <1>5, <1>6, Zenon
  <2>2. g[n] = g[u.child[side][n]] + Level(u, n) + Lack(n, side, p, q)
    BY <1>1, <1>4, <1>6, <1>7, <1>8, <2>1, Zenon
  <2>3. g[n] = g[u.child[o][n]] + Level(u, n) + Lack(n, o, p, q)
    BY <1>1, <1>4, <1>6, <1>7, <1>8, <2>1, Zenon
  <2> QED BY <1>2, <2>2, <2>3, Zenon DEF EvenAt
<1>10. EvenAt(u, g, y, p, q)
  <2>1. g[t.child[o][y]] = h[t.child[o][y]]
    BY <1>3, <1>5, <1>6, Zenon
  <2>2. g[y] = g[u.child[side][y]] + Level(u, y) + Lack(y, side, p, q)
    BY <1>1, <1>4, <1>6, <1>7, <1>8, Zenon
  <2>3. g[y] = g[u.child[o][y]] + Level(u, y) + Lack(y, o, p, q)
    BY <1>1, <1>4, <1>6, <1>7, <1>8, <2>1, Zenon
  <2> QED BY <1>2, <2>2, <2>3, Zenon DEF EvenAt
<1>11. ASSUME NEW m \in I \ {n, y} PROVE EvenAt(u, g, m, p, q)
  <2>1. SUFFICES ASSUME NEW s \in Sides
                 PROVE  g[m] = g[u.child[s][m]] + Level(u, m) + Lack(m, s, p, q)
    BY Zenon DEF EvenAt
  <2>2. h[m] = h[t.child[s][m]] + Level(t, m) + Lack(m, s, p, q)
    BY Zenon DEF EvenAt, TurnsEven
  <2>3. g[m] = h[m] /\ Level(u, m) = Level(t, m)
    BY <1>1, <1>5, <1>6, <1>7, Zenon
  <2>4. g[u.child[s][m]] = h[t.child[s][m]]
    <3>1. CASE t.child[s][m] = n
      BY <1>4, <1>6, <3>1, Zenon
    <3>2. CASE t.child[s][m] # n
      <4>1. u.child[s][m] = t.child[s][m]
        BY <1>4, <3>2, Zenon
      <4>2. t.child[s][m] # y
        BY <1>1, <1>5, <1>12, OneParent
      <4>3. t.child[s][m] \in Pointer
        BY <1>5, ShapeFacts
      <4> QED BY <1>6, <3>2, <4>1, <4>2, <4>3, Zenon
    <3> QED BY <3>1, <3>2, Zenon
  <2> QED BY <2>2, <2>3, <2>4, Zenon
<1> QED BY <1>6, <1>9, <1>10, <1>11 DEF Even

\* What a call that is running has to repair: two red nodes at c, and a black
\* node missing under p on the side q.  Without either the tree is balanced.
Balanced(t, I, c, p, q) ==
  /\ ~Red(t, Nil) /\ Even(t, I, p, q) /\ Apart(t, I, c)
  /\ Red(t, t.root) => t.root = c

\* The nodes that are not in the tree stay as they are.
Keeps(t, u, I) ==
  \A m \in Node \ I :
    u.color[m] = t.color[m] /\ \A s \in Sides : u.child[s][m] = t.child[s][m]

\* A rotation keeps red nodes apart when it does so at the two nodes it turns.
TurnsApart(t, I, side, n, y, i, c) ==
  /\ \A m \in I \ {n, y}, s \in Sides :
       Red(t, m) /\ Red(t, t.child[s][m]) => c \in {m, t.child[s][m]} \/ t.child[s][m] = n
  /\ \A m \in I, s \in Sides : t.child[s][m] = n /\ Red(t, m) /\ Red(t, y) => c \in {m, y}
  /\ \A m \in {t.child[side][n], i, y} : Red(t, n) /\ Red(t, m) => c \in {n, m}
  /\ LET b == t.child[Other(side)][y] IN Red(t, y) /\ Red(t, b) => c \in {y, b}

\* A rotation that does so leaves the red nodes apart.
LEMMA TurnedApart ==
  ASSUME NEW t, NEW u, NEW I, Shape(t, I), Rises(t, I), NEW side \in Sides, NEW n \in I,
         NEW y, y = t.child[Other(side)][n], y # Nil, NEW i, i = t.child[side][y],
         Turned(t, u, I, side, n, y, i), NEW c,
         TurnsApart(t, I, side, n, y, i, c)
  PROVE  Apart(u, I, c)
<1> DEFINE o == Other(side)
<1>1. /\ n \in Node /\ n # Nil /\ y \in I /\ y \in Node /\ y # n /\ o \in Sides /\ o # side
  BY TurnedNodes
<1>2. \A s \in Sides : s = side \/ s = o
  BY TwoSides, Zenon
<1>3. /\ u.color = t.color
      /\ u.child[side][n] = t.child[side][n] /\ u.child[o][n] = i
      /\ u.child[side][y] = n /\ u.child[o][y] = t.child[o][y]
      /\ \A m \in I \ {n, y}, s \in Sides :
           u.child[s][m] = IF t.child[s][m] = n THEN y ELSE t.child[s][m]
  BY Zenon DEF Turned
<1>4. \A m : Red(u, m) <=> Red(t, m)
  BY <1>3, Zenon DEF Red
<1>5. /\ Red(t, y) /\ Red(t, t.child[o][y]) => c \in {y, t.child[o][y]}
      /\ \A m \in I \ {n, y}, s \in Sides :
           Red(t, m) /\ Red(t, t.child[s][m]) => c \in {m, t.child[s][m]} \/ t.child[s][m] = n
      /\ \A m \in I, s \in Sides : t.child[s][m] = n /\ Red(t, m) /\ Red(t, y) => c \in {m, y}
      /\ \A m \in {t.child[side][n], i, y} : Red(t, n) /\ Red(t, m) => c \in {n, m}
  BY DEF TurnsApart
<1> HIDE DEF o
<1>6. ASSUME NEW m \in I, NEW s \in Sides, Red(t, m), Red(t, u.child[s][m])
      PROVE  c \in {m, u.child[s][m]}
  <2>1. CASE m = n
    BY <1>1, <1>2, <1>3, <1>5, <1>6, <2>1, Zenon
  <2>2. CASE m = y
    BY <1>1, <1>2, <1>3, <1>5, <1>6, <2>2, Zenon
  <2>3. CASE m \notin {n, y} /\ t.child[s][m] = n
    BY <1>3, <1>5, <1>6, <2>3, Zenon
  <2>4. CASE m \notin {n, y} /\ t.child[s][m] # n
    BY <1>3, <1>5, <1>6, <2>4, Zenon
  <2> QED BY <2>1, <2>2, <2>3, <2>4
<1> QED BY <1>4, <1>6 DEF Apart

\* A rotation that keeps the balance of the two nodes it turns.
LEMMA RotatedBalanced ==
  ASSUME NEW t, NEW I, NEW K, SearchTree(t, I, K), NEW side \in Sides, NEW n \in I,
         NEW y, y = t.child[Other(side)][n], y # Nil, NEW i, i = t.child[side][y],
         NEW p, NEW q, NEW h, NEW a, TurnsEven(t, I, side, n, y, i, h, a, p, q),
         NEW c, TurnsApart(t, I, side, n, y, i, c),
         ~Red(t, Nil),
         t.parent[n] = Nil /\ Red(t, y) => y = c,
         t.parent[n] # Nil /\ Red(t, t.root) => t.root = c
  PROVE  /\ SearchTree(Rotated(side, t, n), I, K) /\ Keeps(t, Rotated(side, t, n), I)
         /\ Turned(t, Rotated(side, t, n), I, side, n, y, i)
         /\ Balanced(Rotated(side, t, n), I, c, p, q)
<1> DEFINE u == Rotated(side, t, n)
<1>1. SearchTree(u, I, K) /\ Turned(t, u, I, side, n, y, i)
  BY RotatedTree
<1> HIDE DEF u
<1>2. Shape(t, I) /\ Rises(t, I)
  BY Zenon DEF SearchTree
<1>3. Even(u, I, p, q)
  BY <1>1, <1>2, TurnedEven, Zenon
<1>4. Apart(u, I, c)
  BY <1>1, <1>2, TurnedApart
<1>5. u.color = t.color /\ u.root = (IF t.parent[n] = Nil THEN y ELSE t.root)
  BY <1>1, Zenon DEF Turned
<1>6. ~Red(u, Nil) /\ (Red(u, u.root) => u.root = c)
  BY <1>5, Zenon DEF Red
<1>7. Keeps(t, u, I)
  BY <1>1, Zenon DEF Keeps, Turned
<1> QED BY <1>1, <1>3, <1>4, <1>6, <1>7 DEF Balanced, u

-----------------------------------------------------------------------------
(* The turns of an insertion.                                              *)

\* What painting twice gives.
LEMMA PaintedTwice ==
  ASSUME NEW t, NEW I, NEW K, SearchTree(t, I, K),
         NEW A, NEW c \in {"red", "black"}, NEW B, NEW d \in {"red", "black"}
  PROVE  /\ SearchTree(Painted(Painted(t, A, c), B, d), I, K)
         /\ Alike(t, Painted(Painted(t, A, c), B, d))
         /\ \A n \in Pointer : Painted(Painted(t, A, c), B, d).color[n] =
                                 IF n \in B THEN d ELSE IF n \in A THEN c ELSE t.color[n]
<1> DEFINE v == Painted(t, A, c)
           u == Painted(v, B, d)
<1>1. /\ SearchTree(v, I, K) /\ Alike(t, v)
      /\ \A n \in Pointer : v.color[n] = IF n \in A THEN c ELSE t.color[n]
  BY PaintedTree
<1> HIDE DEF v
<1>2. /\ SearchTree(u, I, K) /\ Alike(v, u)
      /\ \A n \in Pointer : u.color[n] = IF n \in B THEN d ELSE v.color[n]
  BY <1>1, PaintedTree
<1> HIDE DEF u
<1>3. Alike(t, u)
  BY <1>1, <1>2 DEF Alike
<1> QED BY <1>1, <1>2, <1>3 DEF u, v

\* No black node is missing.
LEMMA NoLack ==
  ASSUME NEW n \in Node, NEW s, NEW q
  PROVE  Lack(n, s, Nil, q) = 0
BY NilIsNoNode DEF Lack

\* An insertion that goes on: c is red, and its parent may be.
Inserting(t, I, K, c) ==
  /\ SearchTree(t, I, K) /\ Balanced(t, I, c, Nil, "left")
  /\ c \in I /\ Red(t, c) /\ \A s \in Sides : ~Red(t, t.child[s][c])

\* The nodes that a turn looks at.
InsertingAt(t, I, K, c, p, g, side, uncle) ==
  /\ Inserting(t, I, K, c) /\ c # t.root /\ p = t.parent[c] /\ Red(t, p)
  /\ g = t.parent[p] /\ side = SideOf(t, p) /\ uncle = t.child[Other(side)][g]

\* These nodes differ, and hang together as the turn takes for granted.
LEMMA InsertNodes ==
  ASSUME NEW t, NEW I, NEW K, NEW c, NEW p, NEW g, NEW side, NEW uncle,
         InsertingAt(t, I, K, c, p, g, side, uncle)
  PROVE  /\ Shape(t, I) /\ Rises(t, I) /\ ~Red(t, Nil) /\ ~Red(t, t.root) /\ SearchTree(t, I, K)
         /\ p \in I /\ g \in I /\ c # p /\ c # g /\ p # g /\ p # t.root /\ ~Red(t, g)
         /\ side \in Sides /\ Other(side) \in Sides /\ Other(side) # side
         /\ \A s \in Sides : s = side \/ s = Other(side)
         /\ t.child[side][g] = p /\ t.child[Other(side)][g] = uncle
         /\ uncle # p /\ uncle # c /\ uncle \in I \cup {Nil}
         /\ \E s \in Sides : t.child[s][p] = c
<1>0. /\ Inserting(t, I, K, c) /\ c # t.root /\ p = t.parent[c] /\ Red(t, p)
      /\ g = t.parent[p] /\ side = SideOf(t, p) /\ uncle = t.child[Other(side)][g]
  BY DEF InsertingAt
<1>1. /\ Shape(t, I) /\ Rises(t, I) /\ ~Red(t, Nil) /\ c \in I /\ Apart(t, I, c)
      /\ (Red(t, t.root) => t.root = c)
  BY <1>0 DEF Inserting, SearchTree, Balanced
<1>2. p # Nil /\ ~Red(t, t.root)
  BY <1>0, <1>1, Zenon
<1>3. p \in I /\ \E s \in Sides : t.child[s][p] = c
  BY <1>0, <1>1, <1>2, Zenon DEF Shape
<1>4. p # t.root /\ g # Nil
  BY <1>0, <1>1, <1>2, <1>3, Zenon DEF Shape
<1>5. g \in I /\ t.child[side][g] = p /\ side \in Sides
  BY <1>0, <1>1, <1>3, <1>4, SideOfIs, SMTT(40)
<1>6. c # p /\ c # g /\ p # g
  BY <1>0, <1>1, <1>2, <1>3, NoLoops
<1>7. ~Red(t, g)
  BY <1>0, <1>1, <1>5, <1>6, Zenon DEF Apart
<1>10. /\ Other(side) \in Sides /\ Other(side) # side
       /\ \A s \in Sides : s = side \/ s = Other(side)
  BY <1>5, TwoSides
<1>8. uncle # p /\ uncle \in I \cup {Nil}
  <2>1. t.child[Other(side)][g] = t.child[side][g] => t.child[side][g] = Nil
    BY <1>1, <1>5, <1>10, TwoChildren
  <2>2. uncle # p
    BY <1>0, <1>2, <1>5, <2>1, Zenon
  <2>3. uncle \in I \cup {Nil}
    BY <1>0, <1>1, <1>5, <1>10, ChildFacts
  <2> QED BY <2>2, <2>3
<1>9. uncle # c
  <2>1. uncle # Nil => t.parent[uncle] = g
    <3>1. PICK o : o = Other(side)
      OBVIOUS
    <3>2. o \in Sides /\ uncle = t.child[o][g]
      BY <1>0, <1>10, <3>1, Zenon
    <3> QED BY <1>1, <1>5, <3>2, ShapeFacts
  <2>2. c # Nil
    BY <1>1, NilIsNoNode DEF Shape
  <2> QED BY <1>0, <1>6, <2>1, <2>2, Zenon
<1>11. SearchTree(t, I, K)
  BY <1>0, Zenon DEF Inserting
<1> QED BY <1>0, <1>10, <1>11, <1>1, <1>2, <1>3, <1>4, <1>5, <1>6, <1>7, <1>8, <1>9, Zenon

\* A red uncle: the grandparent becomes red instead.
LEMMA RedUncle ==
  ASSUME NEW t, NEW I, NEW K, NEW c, NEW p, NEW g, NEW side, NEW uncle,
         InsertingAt(t, I, K, c, p, g, side, uncle), Red(t, uncle)
  PROVE  LET u == Painted(Painted(t, {p, uncle}, "black"), {g}, "red")
         IN  Inserting(u, I, K, g) /\ Keeps(t, u, I)
<1> DEFINE u == Painted(Painted(t, {p, uncle}, "black"), {g}, "red")
<1>1. /\ p \in I /\ g \in I /\ c # p /\ c # g /\ p # g /\ p # t.root /\ ~Red(t, g)
      /\ ~Red(t, Nil) /\ ~Red(t, t.root) /\ uncle # p /\ uncle # c /\ uncle \in I \cup {Nil}
      /\ t.child[side][g] = p /\ t.child[Other(side)][g] = uncle
  BY InsertNodes
<1>2. uncle \in I /\ uncle # Nil /\ Red(t, p) /\ Inserting(t, I, K, c) /\ t.parent[p] = g
  BY <1>1, Zenon DEF InsertingAt
<1>6. /\ side \in Sides /\ Other(side) \in Sides /\ Other(side) # side
      /\ \A s \in Sides : s = side \/ s = Other(side)
  BY InsertNodes
<1>20. Shape(t, I) /\ Rises(t, I) /\ SearchTree(t, I, K)
  BY InsertNodes
<1>4. I \subseteq Node /\ \A n \in I : n \in Pointer /\ n # Nil /\ n \in Node
  BY <1>20, NilIsNoNode DEF Shape
<1>3. /\ SearchTree(u, I, K) /\ Alike(t, u)
      /\ \A n \in Pointer : u.color[n] = IF n = g THEN "red"
                                         ELSE IF n \in {p, uncle} THEN "black" ELSE t.color[n]
  <2>1. PICK A, B, r, b : A = {p, uncle} /\ B = {g} /\ r = "red" /\ b = "black"
    OBVIOUS
  <2>2. r \in {"red", "black"} /\ b \in {"red", "black"} /\ u = Painted(Painted(t, A, b), B, r)
    BY <2>1
  <2> HIDE DEF u
  <2>3. /\ SearchTree(u, I, K) /\ Alike(t, u)
        /\ \A n \in Pointer : u.color[n] = IF n \in B THEN r ELSE IF n \in A THEN b ELSE t.color[n]
    BY <1>20, <2>2, PaintedTwice
  <2> QED BY <2>1, <2>3
<1> HIDE DEF u
<1>5. \A n \in I, s \in Sides : t.child[s][n] \in I \cup {Nil}
  BY <1>20, ShapeFacts
<1>7. u.child = t.child /\ u.root = t.root
  BY <1>3 DEF Alike
<1>8. \A n \in I : Red(u, n) <=> n = g \/ (Red(t, n) /\ n \notin {p, uncle})
  BY <1>1, <1>2, <1>3, <1>4 DEF Red
<1>9. ~Red(u, Nil)
  BY <1>1, <1>2, <1>3, <1>4, NilIsNoNode DEF Red
<1>10. PICK h : Heights(h) /\ \A n \in I : EvenAt(t, h, n, Nil, "left")
  BY <1>2 DEF Inserting, Balanced, Even
<1> DEFINE k == [n \in Pointer |-> IF n \in {p, uncle} THEN h[n] + 1 ELSE h[n]]
<1>11. Heights(k) /\ \A n \in Pointer : k[n] = IF n \in {p, uncle} THEN h[n] + 1 ELSE h[n]
  <2>1. h \in [Pointer -> Nat] /\ h[Nil] = 1 /\ Nil \in Pointer /\ Nil \notin {p, uncle}
    BY <1>1, <1>2, <1>4, <1>10, NilIsNoNode DEF Heights
  <2>2. \A n \in Pointer : (IF n \in {p, uncle} THEN h[n] + 1 ELSE h[n]) \in Nat
    BY <2>1
  <2> QED BY <2>1, <2>2 DEF Heights
<1> HIDE DEF k
<1>12. ASSUME NEW n \in I, NEW s \in Sides, t.child[s][n] \in {p, uncle} PROVE n = g
  <2>1. t.parent[uncle] = g
    BY <1>1, <1>2, <1>6, <1>20, ShapeFacts
  <2>2. t.parent[t.child[s][n]] = n
    BY <1>2, <1>1, <1>4, <1>12, <1>20, ShapeFacts
  <2> QED BY <1>2, <1>12, <2>1, <2>2
<1>13. ASSUME NEW n \in I, NEW s \in Sides
       PROVE  k[n] = k[u.child[s][n]] + Level(u, n) + Lack(n, s, Nil, "left")
  <2>1. /\ h[n] = h[t.child[s][n]] + Level(t, n) /\ Lack(n, s, Nil, "left") = 0
        /\ Level(t, n) \in Nat
    <3>1. Lack(n, s, Nil, "left") = 0
      BY <1>4, NoLack
    <3>2. h[n] = h[t.child[s][n]] + Level(t, n) + Lack(n, s, Nil, "left") /\ Level(t, n) \in Nat
          /\ h[t.child[s][n]] \in Nat
      BY <1>4, <1>5, <1>10, NilIsNoNode DEF EvenAt, Level, Heights
    <3> QED BY <3>1, <3>2
  <2>2. t.child[s][n] \in Pointer /\ h[t.child[s][n]] \in Nat /\ h[n] \in Nat
    BY <1>4, <1>5, <1>10, NilIsNoNode DEF Heights
  <2>3. CASE n = g
    <3>1. t.child[s][n] \in {p, uncle}
      BY <1>1, <1>6, <2>3
    <3>2. Level(t, n) = 1 /\ Level(u, n) = 0
      BY <1>1, <1>8, <2>3 DEF Level
    <3>3. k[n] = h[n] /\ k[t.child[s][n]] = h[t.child[s][n]] + 1
      <4>1. g # uncle
        BY <1>1, <1>6, <1>20, NoLoops
      <4> QED BY <1>1, <1>4, <1>11, <2>2, <2>3, <3>1, <4>1
    <3> QED BY <1>7, <2>1, <2>2, <3>2, <3>3
  <2>4. CASE n \in {p, uncle}
    <3>0. n # g
      BY <1>1, <1>6, <1>20, <2>4, NoLoops
    <3>1. t.child[s][n] \notin {p, uncle}
      BY <1>12, <3>0
    <3>2. Level(t, n) = 0 /\ Level(u, n) = 1
      BY <1>2, <1>8, <2>4, <3>0 DEF Level
    <3>3. k[n] = h[n] + 1 /\ k[t.child[s][n]] = h[t.child[s][n]]
      BY <1>4, <1>11, <2>2, <2>4, <3>1
    <3> QED BY <1>7, <2>1, <2>2, <3>2, <3>3
  <2>5. CASE n \notin {g, p, uncle}
    <3>1. t.child[s][n] \notin {p, uncle}
      BY <1>12, <2>5
    <3>2. Level(u, n) = Level(t, n)
      BY <1>8, <2>5 DEF Level
    <3>3. k[n] = h[n] /\ k[t.child[s][n]] = h[t.child[s][n]]
      BY <1>4, <1>11, <2>2, <2>5, <3>1
    <3> QED BY <1>7, <2>1, <2>2, <3>2, <3>3
  <2> QED BY <2>3, <2>4, <2>5
<1>14. Even(u, I, Nil, "left")
  BY <1>11, <1>13 DEF Even, EvenAt
<1>15. Apart(u, I, g)
  <2>1. SUFFICES ASSUME NEW n \in I, NEW s \in Sides, Red(u, n), Red(u, t.child[s][n]),
                        g # n, g # t.child[s][n]
                 PROVE  FALSE
    BY <1>7 DEF Apart
  <2>2. t.child[s][n] \in I
    BY <1>5, <1>9, <2>1
  <2>3. Red(t, n) /\ Red(t, t.child[s][n]) /\ n \notin {p, uncle} /\ t.child[s][n] \notin {p, uncle}
    BY <1>8, <2>1, <2>2
  <2>4. c \in {n, t.child[s][n]}
    BY <1>2, <2>3 DEF Inserting, Balanced, Apart
  <2>5. n # c
    BY <1>2, <2>3 DEF Inserting
  <2>6. t.parent[c] = n
    BY <1>4, <1>20, <2>2, <2>4, <2>5, ShapeFacts
  <2> QED BY <2>3, <2>6 DEF InsertingAt
<1>16. Red(u, u.root) => u.root = g
  <2>1. u.root \in I \cup {Nil}
    BY <1>7, <1>20 DEF Shape
  <2> QED BY <1>1, <1>7, <1>8, <1>9, <2>1
<1>17. \A s \in Sides : ~Red(u, u.child[s][g])
  <2>1. \A s \in Sides : t.child[s][g] \in {p, uncle}
    BY <1>1, <1>6
  <2>2. p # g /\ uncle # g
    BY <1>1, <1>6, <1>20, NoLoops
  <2> QED BY <1>1, <1>2, <1>7, <1>8, <2>1, <2>2
<1>18. Red(u, g)
  BY <1>1, <1>8
<1>19. Keeps(t, u, I)
  BY <1>1, <1>2, <1>3, <1>7, NilIsNoNode DEF Keeps
<1> QED BY <1>1, <1>3, <1>9, <1>14, <1>15, <1>16, <1>17, <1>18, <1>19
        DEF Inserting, Balanced, u

\* What the balance says of a child.
LEMMA EvenIs ==
  ASSUME NEW t, NEW I, Shape(t, I), NEW h, Heights(h), NEW n \in I, NEW s \in Sides,
         NEW p, NEW q, EvenAt(t, h, n, p, q)
  PROVE  /\ h[n] \in Nat /\ h[t.child[s][n]] \in Nat /\ Level(t, n) \in {0, 1}
         /\ h[n] = h[t.child[s][n]] + Level(t, n) + Lack(n, s, p, q)
         /\ n # p => Lack(n, s, p, q) = 0 /\ h[n] = h[t.child[s][n]] + Level(t, n)
<1>1. n \in Pointer /\ t.child[s][n] \in Pointer
  BY NilIsNoNode DEF Shape
<1>2. h[n] \in Nat /\ h[t.child[s][n]] \in Nat
  BY <1>1 DEF Heights
<1>3. h[n] = h[t.child[s][n]] + Level(t, n) + Lack(n, s, p, q)
  BY DEF EvenAt
<1>4. Level(t, n) \in {0, 1}
  BY DEF Level
<1>5. n # p => Lack(n, s, p, q) = 0
  BY DEF Lack
<1> QED BY <1>2, <1>3, <1>4, <1>5

\* The grandparent, the parent and the node are on one line.
Outside(t, I, K, low, mid, g, side) ==
  /\ Inserting(t, I, K, low) /\ side \in Sides /\ mid \in I /\ g \in I
  /\ t.child[side][mid] = low /\ t.child[side][g] = mid
  /\ Red(t, mid) /\ ~Red(t, g) /\ ~Red(t, t.child[Other(side)][g])

\* A node on the inside is turned outside.
LEMMA InsideTurn ==
  ASSUME NEW t, NEW I, NEW K, NEW c, NEW p, NEW g, NEW side, NEW uncle,
         InsertingAt(t, I, K, c, p, g, side, uncle), ~Red(t, uncle), c = t.child[Other(side)][p]
  PROVE  LET u == Rotated(side, t, p)
         IN  Outside(u, I, K, p, c, g, side) /\ Keeps(t, u, I) /\ u.parent[p] = c
<1> DEFINE o == Other(side)
           i == t.child[side][c]
           u == Rotated(side, t, p)
<1>1. /\ p \in I /\ g \in I /\ c # p /\ c # g /\ p # g /\ p # t.root /\ ~Red(t, g)
      /\ ~Red(t, Nil) /\ ~Red(t, t.root)
      /\ t.child[side][g] = p /\ t.child[o][g] = uncle
  BY InsertNodes
<1>2. /\ side \in Sides /\ o \in Sides /\ o # side /\ \A s \in Sides : s = side \/ s = o
  BY InsertNodes
<1>3. Shape(t, I) /\ Rises(t, I) /\ SearchTree(t, I, K)
  BY InsertNodes
<1>4. /\ Red(t, p) /\ Red(t, c) /\ c \in I /\ t.parent[p] = g /\ c = t.child[o][p]
      /\ (\A s \in Sides : ~Red(t, t.child[s][c])) /\ Balanced(t, I, c, Nil, "left")
  BY Zenon DEF InsertingAt, Inserting
<1>5. c # Nil /\ g # Nil /\ Nil \notin I
  BY <1>1, <1>3, <1>4, NilIsNoNode DEF Shape
<1>6. i = t.child[side][c]
  OBVIOUS
<1> HIDE DEF o, i
<1>7. PICK h : Heights(h) /\ \A n \in I : EvenAt(t, h, n, Nil, "left")
  BY <1>4 DEF Balanced, Even
<1>8. Level(t, p) = 0 /\ Level(t, c) = 0
  BY <1>4 DEF Level
<1>9. TurnsEven(t, I, side, p, c, i, h, h[p], Nil, "left")
  <2>1. \A n \in {p, c}, s \in Sides : Lack(n, s, Nil, "left") = 0
    BY <1>1, <1>4, <1>5 DEF Lack
  <2>2. h[p] = h[t.child[side][p]] /\ h[p] \in Nat
    BY <1>1, <1>2, <1>3, <1>5, <1>7, <1>8, EvenIs
  <2>3. h[p] = h[c]
    BY <1>1, <1>2, <1>3, <1>4, <1>5, <1>7, <1>8, EvenIs
  <2>4. h[c] = h[i]
    BY <1>2, <1>3, <1>4, <1>5, <1>6, <1>7, <1>8, EvenIs
  <2>5. h[c] = h[t.child[o][c]]
    BY <1>2, <1>3, <1>4, <1>5, <1>7, <1>8, EvenIs
  <2> QED BY <1>2, <1>7, <1>8, <2>1, <2>2, <2>3, <2>4, <2>5 DEF TurnsEven, o
<1>10. ASSUME NEW n \in I, NEW s \in Sides, Red(t, n), Red(t, t.child[s][n])
       PROVE  n = p /\ t.child[s][n] = c
  <2>1. c \in {n, t.child[s][n]}
    BY <1>4, <1>10 DEF Balanced, Apart
  <2>2. c = t.child[s][n]
    BY <1>4, <1>10, <2>1
  <2>3. t.parent[c] = p
    BY Zenon DEF InsertingAt
  <2>4. t.parent[t.child[s][n]] = n
    BY <1>3, <1>5, <2>2, ShapeFacts
  <2> QED BY <2>2, <2>3, <2>4
<1>11. TurnsApart(t, I, side, p, c, i, p)
  BY <1>1, <1>2, <1>4, <1>10 DEF TurnsApart, o
<1>12. /\ SearchTree(u, I, K) /\ Keeps(t, u, I) /\ Turned(t, u, I, side, p, c, i)
       /\ Balanced(u, I, p, Nil, "left")
  <2>1. c = t.child[Other(side)][p]
    BY <1>4 DEF o
  <2>2. t.parent[p] # Nil
    BY <1>4, <1>5, Zenon
  <2> QED BY <1>1, <1>2, <1>3, <1>5, <1>6, <1>9, <1>11, <2>1, <2>2, RotatedBalanced, Zenon
<1> HIDE DEF u
<1>13. /\ u.color = t.color /\ u.child[side][p] = t.child[side][p] /\ u.child[o][p] = i
       /\ u.child[side][c] = p
       /\ \A m \in I \ {p, c}, s \in Sides :
            u.child[s][m] = IF t.child[s][m] = p THEN c ELSE t.child[s][m]
       /\ \A m \in Node : u.parent[m] = IF m = i THEN p ELSE IF m = p THEN c
                                        ELSE IF m = c THEN t.parent[p] ELSE t.parent[m]
  BY <1>12 DEF Turned, o
<1>14. ~Red(t, t.child[side][p]) /\ ~Red(t, i)
  <2>1. t.child[side][p] # c
    BY <1>1, <1>2, <1>3, <1>4, <1>5, OneParent
  <2> QED BY <1>1, <1>2, <1>4, <1>6, <1>10, <2>1
<1>15. Inserting(u, I, K, p)
  <2>1. \A n : Red(u, n) <=> Red(t, n)
    BY <1>13 DEF Red
  <2> QED BY <1>1, <1>2, <1>4, <1>12, <1>13, <1>14, <2>1 DEF Inserting
<1>16. u.child[side][g] = c /\ u.child[o][g] = uncle
  <2>1. uncle # p
    BY InsertNodes
  <2> QED BY <1>1, <1>2, <1>13, <2>1
<1>17. u.parent[p] = c
  <2>1. p # i
    BY <1>2, <1>3, <1>4, <1>5, <1>6, <1>1, NoLoops
  <2>2. p \in Node
    BY <1>1, <1>3 DEF Shape
  <2> QED BY <1>13, <2>1, <2>2
<1>18. Outside(u, I, K, p, c, g, side)
  BY <1>1, <1>2, <1>4, <1>13, <1>15, <1>16 DEF Outside, Red, o
<1> QED BY <1>12, <1>17, <1>18 DEF u

\* The grandparent goes down, red, and the parent comes up, black.
LEMMA OutsideTurn ==
  ASSUME NEW t, NEW I, NEW K, NEW low, NEW mid, NEW g, NEW side, Outside(t, I, K, low, mid, g, side)
  PROVE  LET u == Rotated(Other(side), Painted(Painted(t, {mid}, "black"), {g}, "red"), g)
         IN  Inserting(u, I, K, low) /\ Keeps(t, u, I)
<1> DEFINE o == Other(side)
           v == Painted(Painted(t, {mid}, "black"), {g}, "red")
           u == Rotated(o, v, g)
           i == t.child[o][mid]
           b == t.child[o][g]
<1>1. /\ side \in Sides /\ mid \in I /\ g \in I /\ t.child[side][mid] = low /\ t.child[side][g] = mid
      /\ Red(t, mid) /\ ~Red(t, g) /\ ~Red(t, b) /\ Inserting(t, I, K, low)
  BY DEF Outside
<1>2. /\ SearchTree(t, I, K) /\ Balanced(t, I, low, Nil, "left")
      /\ low \in I /\ Red(t, low) /\ \A s \in Sides : ~Red(t, t.child[s][low])
  BY <1>1 DEF Inserting
<1>3. Shape(t, I) /\ Rises(t, I)
  BY <1>2 DEF SearchTree
<1>4. I \subseteq Node /\ \A n \in I : n \in Pointer /\ n # Nil /\ n \in Node
  BY <1>3, NilIsNoNode DEF Shape
<1>5. /\ o \in Sides /\ o # side /\ Other(o) = side /\ \A s \in Sides : s = side \/ s = o
  BY <1>1, TwoSides
<1>6. /\ SearchTree(v, I, K) /\ Alike(t, v)
      /\ \A n \in Pointer : v.color[n] = IF n = g THEN "red" ELSE IF n = mid THEN "black" ELSE t.color[n]
  <2>1. PICK A, B, r, d : A = {mid} /\ B = {g} /\ r = "red" /\ d = "black"
    OBVIOUS
  <2>2. r \in {"red", "black"} /\ d \in {"red", "black"} /\ v = Painted(Painted(t, A, d), B, r)
    BY <2>1
  <2> HIDE DEF v
  <2>3. /\ SearchTree(v, I, K) /\ Alike(t, v)
        /\ \A n \in Pointer : v.color[n] = IF n \in B THEN r ELSE IF n \in A THEN d ELSE t.color[n]
    BY <1>2, <2>2, PaintedTwice
  <2> QED BY <2>1, <2>3
<1> HIDE DEF o, v
<1>7. v.child = t.child /\ v.root = t.root /\ v.parent = t.parent /\ Shape(v, I) /\ Rises(v, I)
  BY <1>6 DEF Alike, SearchTree
<1>8. low # mid /\ mid # g /\ low # g /\ t.parent[low] = mid /\ t.parent[mid] = g
  BY <1>1, <1>2, <1>3, <1>4, NoLoops, ShapeFacts
<1>9. i \in I \cup {Nil} /\ b \in I \cup {Nil} /\ i # mid /\ i # g /\ b # mid /\ b # g
  <2>1. i \in I \cup {Nil} /\ b \in I \cup {Nil} /\ b # mid
    BY <1>1, <1>3, <1>4, <1>5, ShapeFacts
  <2>2. i # mid /\ b # g
    BY <1>1, <1>3, <1>5, NoLoops
  <2>3. i # g
    BY <1>1, <1>3, <1>4, <1>5, <1>8, NoLoops
  <2> QED BY <2>1, <2>2, <2>3
<1>10. \A n \in Pointer : n # mid /\ n # g => (Red(v, n) <=> Red(t, n))
  BY <1>6 DEF Red
<1>11. ~Red(v, mid) /\ Red(v, g) /\ Level(v, mid) = 1 /\ Level(v, g) = 0
  BY <1>1, <1>4, <1>6, <1>8 DEF Red, Level
<1>12. Nil \in Pointer /\ ~Red(t, Nil) /\ ~Red(v, Nil)
  BY <1>1, <1>2, <1>4, <1>10, NilIsNoNode DEF Balanced
<1>13. ASSUME NEW n \in I, NEW s \in Sides, Red(t, n), Red(t, t.child[s][n])
       PROVE  n = mid /\ t.child[s][n] = low
  <2>1. low \in {n, t.child[s][n]}
    BY <1>2, <1>13 DEF Balanced, Apart
  <2>2. low = t.child[s][n] /\ low # Nil
    BY <1>2, <1>4, <1>13, <2>1
  <2>3. t.parent[t.child[s][n]] = n
    BY <1>3, <2>2, ShapeFacts
  <2> QED BY <1>8, <2>2, <2>3
<1>14. ~Red(t, i) /\ ~Red(v, i) /\ ~Red(v, b)
  <2>1. i # low
    BY <1>1, <1>2, <1>3, <1>4, <1>5, ShapeFacts
  <2>2. i \in Pointer /\ b \in Pointer
    BY <1>4, <1>9, <1>12
  <2> QED BY <1>1, <1>5, <1>9, <1>10, <1>13, <2>1, <2>2
<1>15. PICK h : Heights(h) /\ \A n \in I : EvenAt(t, h, n, Nil, "left")
  BY <1>2 DEF Balanced, Even
<1>16. \A n \in I \ {g, mid} : EvenAt(v, h, n, Nil, "left")
  <2>1. \A n \in I \ {g, mid} : Level(v, n) = Level(t, n)
    BY <1>4, <1>10 DEF Level
  <2> QED BY <1>7, <1>15, <2>1 DEF EvenAt
<1>17. /\ h[g] = h[mid] + 1 /\ h[g] = h[b] + 1 /\ h[mid] = h[low] /\ h[mid] = h[i]
       /\ h[mid] \in Nat /\ h[b] \in Nat
  <2>1. Level(t, g) = 1 /\ Level(t, mid) = 0
    BY <1>1 DEF Level
  <2>2. h[g] = h[mid] + 1
    BY <1>1, <1>3, <1>4, <1>15, <2>1, EvenIs
  <2>3. h[g] = h[b] + 1 /\ h[b] \in Nat
    BY <1>1, <1>3, <1>4, <1>5, <1>15, <2>1, EvenIs
  <2>4. h[mid] = h[low] /\ h[mid] \in Nat
    BY <1>1, <1>3, <1>4, <1>15, <2>1, EvenIs
  <2>5. h[mid] = h[i]
    BY <1>1, <1>3, <1>4, <1>5, <1>15, <2>1, EvenIs
  <2> QED BY <2>2, <2>3, <2>4, <2>5
<1>18. v.child[side][g] = mid /\ v.child[o][g] = b /\ v.child[o][mid] = i /\ v.child[side][mid] = low
  BY <1>1, <1>7 DEF o
<1> HIDE DEF i, b
<1>19. TurnsEven(v, I, o, g, mid, i, h, h[mid], Nil, "left")
  <2>1. \A n \in {g, mid}, s \in Sides : Lack(n, s, Nil, "left") = 0
    BY <1>1, <1>4 DEF Lack
  <2>2. /\ h[mid] = h[v.child[o][g]] + Level(v, g) + Lack(g, o, Nil, "left")
        /\ h[mid] = h[i] + Level(v, g) + Lack(g, side, Nil, "left")
    BY <1>1, <1>5, <1>11, <1>17, <1>18, <2>1
  <2>4. Lack(mid, o, Nil, "left") = 0 /\ Lack(mid, side, Nil, "left") = 0
    BY <1>1, <1>5, <2>1
  <2>5. h[v.child[side][mid]] = h[mid]
    BY <1>17, <1>18
  <2>3. /\ h[g] = h[mid] + Level(v, mid) + Lack(mid, o, Nil, "left")
        /\ h[g] = h[v.child[side][mid]] + Level(v, mid) + Lack(mid, side, Nil, "left")
    BY <1>11, <1>17, <2>4, <2>5
  <2> QED BY <1>5, <1>15, <1>16, <1>17, <2>2, <2>3 DEF TurnsEven
<1>20. TurnsApart(v, I, o, g, mid, i, low)
  <2>1. ASSUME NEW n \in I \ {g, mid}, NEW s \in Sides, Red(v, n), Red(v, v.child[s][n])
        PROVE  low \in {n, v.child[s][n]} \/ v.child[s][n] = g
    <3>1. SUFFICES ASSUME v.child[s][n] # g PROVE FALSE
      OBVIOUS
    <3>2. v.child[s][n] = t.child[s][n] /\ t.child[s][n] \in Pointer /\ v.child[s][n] # mid
      BY <1>3, <1>4, <1>7, <1>11, <1>12, <2>1, ShapeFacts
    <3>3. Red(t, n) /\ Red(t, t.child[s][n])
      BY <1>4, <1>10, <2>1, <3>1, <3>2
    <3> QED BY <1>13, <3>3
  <2>2. \A m \in {v.child[o][g], i, mid} : ~Red(v, m)
    BY <1>11, <1>14, <1>18
  <2> QED BY <1>11, <2>1, <2>2 DEF TurnsApart
<1>21. ~Red(v, v.root) \/ v.root = g
  <2>1. v.root \in I \cup {Nil} /\ v.root # low
    <3>1. t.root # low
      BY <1>2, <1>3, <1>4, <1>1, <1>8 DEF Shape
    <3> QED BY <1>3, <1>7, <3>1 DEF Shape
  <2>2. ~Red(t, v.root)
    BY <1>2, <1>7, <2>1 DEF Balanced
  <2> QED BY <1>4, <1>10, <1>11, <1>12, <2>1, <2>2
<1>22. v.parent[g] # Nil => v.root # g
  BY <1>1, <1>3, <1>7, Zenon DEF Shape
<1>23. /\ SearchTree(u, I, K) /\ Keeps(v, u, I) /\ Turned(v, u, I, o, g, mid, i)
       /\ Balanced(u, I, low, Nil, "left")
  <2>1. mid = v.child[Other(o)][g] /\ mid # Nil /\ i = v.child[o][mid]
    BY <1>1, <1>4, <1>5, <1>18
  <2>2. v.parent[g] = Nil /\ Red(v, mid) => mid = low
    BY <1>11
  <2>3. v.parent[g] # Nil /\ Red(v, v.root) => v.root = low
    BY <1>21, <1>22
  <2> QED BY <1>1, <1>5, <1>6, <1>12, <1>19, <1>20, <2>1, <2>2, <2>3, RotatedBalanced, Zenon
<1> HIDE DEF u
<1>24. ASSUME NEW s \in Sides
       PROVE  u.child[s][low] = t.child[s][low] /\ ~Red(u, t.child[s][low])
  <2>1. t.child[s][low] # g /\ t.child[s][low] # mid /\ t.child[s][low] \in Pointer
    <3>1. t.child[s][low] # mid /\ t.child[s][low] \in Pointer
      BY <1>1, <1>2, <1>3, <1>4, <1>8, <1>12, NoLoops, ShapeFacts
    <3>2. t.child[s][low] # g
      <4>1. SUFFICES ASSUME t.parent[g] = low PROVE FALSE
        BY <1>1, <1>2, <1>3, <1>4, ShapeFacts
      <4>2. {low, mid, g} \in SUBSET I /\ {low, mid, g} # {}
        BY <1>1, <1>2
      <4> QED BY <1>3, <1>8, <4>1, <4>2 DEF Rises
    <3> QED BY <3>1, <3>2
  <2>2. u.child[s][low] = t.child[s][low]
    BY <1>2, <1>7, <1>8, <1>23, <2>1 DEF Turned
  <2>3. u.color = v.color
    BY <1>23 DEF Turned
  <2> QED BY <1>2, <1>10, <2>1, <2>2, <2>3 DEF Red
<1>25. Red(u, low)
  BY <1>2, <1>4, <1>8, <1>10, <1>23 DEF Turned, Red
<1>26. Inserting(u, I, K, low)
  BY <1>2, <1>23, <1>24, <1>25 DEF Inserting
<1>27. Keeps(t, u, I)
  <2>1. \A m \in Node \ I : v.color[m] = t.color[m]
    BY <1>1, <1>6, NilIsNoNode
  <2> QED BY <1>7, <1>23, <2>1 DEF Keeps
<1> QED BY <1>26, <1>27 DEF u, v, o

-----------------------------------------------------------------------------
(* The turns of a removal.                                                 *)

\* A black node is missing above x, which is black, on that side of p.
Lacking(t, I, K, x, p, side) ==
  /\ SearchTree(t, I, K) /\ Balanced(t, I, x, p, side)
  /\ p \in I /\ side \in Sides /\ t.child[side][p] = x /\ ~Red(t, x)

LackingAt(t, I, K, x, p, side, w) ==
  Lacking(t, I, K, x, p, side) /\ w = t.child[Other(side)][p]

\* There is a sibling, on which there is the black node more; and no red node has
\* a red child.
LEMMA LackingNodes ==
  ASSUME NEW t, NEW I, NEW K, NEW x, NEW p, NEW side, NEW w, LackingAt(t, I, K, x, p, side, w)
  PROVE  /\ p \in I /\ w \in I /\ x \in I \cup {Nil} /\ w # p /\ x # p /\ w # x
         /\ t.child[side][p] = x /\ t.child[Other(side)][p] = w /\ t.parent[w] = p
         /\ \E h : /\ Heights(h) /\ \A n \in I : EvenAt(t, h, n, p, side)
                   /\ h[x] \in Nat \ {0} /\ h[w] = h[x] + 1 /\ h[p] = h[w] + Level(t, p)
                   /\ h[p] \in Nat /\ h[w] \in Nat
<1> DEFINE o == Other(side)
<1>1. /\ SearchTree(t, I, K) /\ Balanced(t, I, x, p, side)
      /\ p \in I /\ side \in Sides /\ t.child[side][p] = x /\ ~Red(t, x) /\ w = t.child[o][p]
  BY DEF LackingAt, Lacking
<1>2. Shape(t, I) /\ Rises(t, I)
  BY <1>1 DEF SearchTree
<1>3. PICK h : Heights(h) /\ \A n \in I : EvenAt(t, h, n, p, side)
  BY <1>1 DEF Balanced, Even
<1>4. o \in Sides /\ o # side
  BY <1>1, TwoSides
<1> HIDE DEF o
<1>5. x \in I \cup {Nil} /\ w \in I \cup {Nil}
  BY <1>1, <1>2, <1>4, ShapeFacts
<1>6. h[p] = h[x] + Level(t, p) + 1 /\ h[x] \in Nat /\ Level(t, p) \in {0, 1} /\ h[p] \in Nat
  <2>1. h[p] = h[x] + Level(t, p) + Lack(p, side, p, side) /\ h[x] \in Nat /\ Level(t, p) \in {0, 1}
        /\ h[p] \in Nat
    BY <1>1, <1>2, <1>3, EvenIs
  <2>2. Lack(p, side, p, side) = 1
    BY DEF Lack
  <2> QED BY <2>1, <2>2
<1>7. h[p] = h[w] + Level(t, p) /\ h[w] \in Nat
  <2>1. h[p] = h[w] + Level(t, p) + Lack(p, o, p, side) /\ h[w] \in Nat
    BY <1>1, <1>2, <1>3, <1>4, EvenIs
  <2>2. Lack(p, o, p, side) = 0
    BY <1>4 DEF Lack
  <2> QED BY <1>6, <2>1, <2>2
<1>8. h[w] = h[x] + 1
  BY <1>6, <1>7
<1>9. h[Nil] = 1
  BY <1>3 DEF Heights
<1>10. x # p
  BY <1>1, <1>2, NoLoops
<1>11. h[x] # 0
  <2>1. CASE x = Nil
    BY <1>9, <2>1
  <2>2. CASE x # Nil
    <3>1. x \in I /\ Level(t, x) = 1
      BY <1>1, <1>5, <2>2 DEF Level
    <3>2. h[x] = h[t.child[side][x]] + Level(t, x) /\ h[t.child[side][x]] \in Nat
      BY <1>1, <1>2, <1>3, <1>10, <3>1, EvenIs
    <3> QED BY <3>1, <3>2
  <2> QED BY <2>1, <2>2
<1>12. w # Nil
  BY <1>6, <1>8, <1>9, <1>11
<1>13. w \in I /\ t.parent[w] = p /\ w # x
  <2>1. w \in I
    BY <1>5, <1>12
  <2>2. t.parent[w] = p
    BY <1>1, <1>2, <1>4, <1>12, ShapeFacts
  <2>3. w # x
    BY <1>1, <1>2, <1>12, ShapeFacts DEF o
  <2> QED BY <2>1, <2>2, <2>3
<1>14. w # p
  BY <1>1, <1>2, <1>4, NoLoops
<1> QED BY <1>1, <1>3, <1>5, <1>6, <1>7, <1>8, <1>10, <1>11, <1>13, <1>14 DEF o

\* While a black node is missing nothing red is at the places a turn looks at.
LEMMA LackingColors ==
  ASSUME NEW t, NEW I, NEW K, NEW x, NEW p, NEW side, NEW w, LackingAt(t, I, K, x, p, side, w)
  PROVE  /\ ~Red(t, x) /\ ~Red(t, Nil) /\ ~Red(t, t.root)
         /\ \A n \in I, s \in Sides : ~(Red(t, n) /\ Red(t, t.child[s][n]))
<1>1. ~Red(t, x) /\ Balanced(t, I, x, p, side)
  BY DEF LackingAt, Lacking
<1> QED BY <1>1 DEF Balanced, Apart

\* While a black node is missing the tree is one all the same.
LEMMA LackingShape ==
  ASSUME NEW t, NEW I, NEW K, NEW x, NEW p, NEW side, NEW w, LackingAt(t, I, K, x, p, side, w)
  PROVE  /\ SearchTree(t, I, K) /\ Shape(t, I) /\ Rises(t, I)
         /\ I \subseteq Node /\ Nil \in Pointer
         /\ \A n \in I : n \in Pointer /\ n # Nil /\ n \in Node
         /\ side \in Sides /\ Other(side) \in Sides /\ Other(side) # side
         /\ Other(Other(side)) = side /\ \A s \in Sides : s = side \/ s = Other(side)
<1>1. SearchTree(t, I, K) /\ side \in Sides
  BY DEF LackingAt, Lacking
<1>2. Shape(t, I) /\ Rises(t, I)
  BY <1>1 DEF SearchTree
<1>3. I \subseteq Node /\ Nil \in Pointer /\ \A n \in I : n \in Pointer /\ n # Nil /\ n \in Node
  BY <1>2, NilIsNoNode DEF Shape
<1> QED BY <1>1, <1>2, <1>3, TwoSides

\* A red sibling comes up over the parent, for a black one.
LEMMA RedSibling ==
  ASSUME NEW t, NEW I, NEW K, NEW x, NEW p, NEW side, NEW w, LackingAt(t, I, K, x, p, side, w),
         Red(t, w)
  PROVE  LET u == Rotated(side, Painted(Painted(t, {w}, "black"), {p}, "red"), p)
         IN  /\ Lacking(u, I, K, x, p, side) /\ Keeps(t, u, I)
             /\ ~Red(u, u.child[Other(side)][p])
<1> DEFINE o == Other(side)
           v == Painted(Painted(t, {w}, "black"), {p}, "red")
           u == Rotated(side, v, p)
           i == t.child[side][w]
           b == t.child[o][w]
<1>1. /\ p \in I /\ w \in I /\ x \in I \cup {Nil} /\ w # p /\ x # p /\ w # x
      /\ t.child[side][p] = x /\ t.child[o][p] = w /\ t.parent[w] = p
  BY LackingNodes
<1>2. PICK h : /\ Heights(h) /\ \A n \in I : EvenAt(t, h, n, p, side)
               /\ h[x] \in Nat \ {0} /\ h[w] = h[x] + 1 /\ h[p] = h[w] + Level(t, p)
               /\ h[p] \in Nat /\ h[w] \in Nat
  BY LackingNodes
<1>3. /\ ~Red(t, x) /\ ~Red(t, Nil) /\ ~Red(t, t.root)
      /\ \A n \in I, s \in Sides : ~(Red(t, n) /\ Red(t, t.child[s][n]))
  BY LackingColors
<1>4. SearchTree(t, I, K) /\ Shape(t, I) /\ Rises(t, I)
  BY LackingShape
<1>5. I \subseteq Node /\ Nil \in Pointer /\ \A n \in I : n \in Pointer /\ n # Nil /\ n \in Node
  BY LackingShape
<1>6. /\ side \in Sides /\ o \in Sides /\ o # side /\ Other(o) = side
      /\ \A s \in Sides : s = side \/ s = o
  BY LackingShape
<1>7. /\ SearchTree(v, I, K) /\ Alike(t, v)
      /\ \A n \in Pointer : v.color[n] = IF n = p THEN "red" ELSE IF n = w THEN "black" ELSE t.color[n]
  <2>1. PICK A, B, r, d : A = {w} /\ B = {p} /\ r = "red" /\ d = "black"
    OBVIOUS
  <2>2. r \in {"red", "black"} /\ d \in {"red", "black"} /\ v = Painted(Painted(t, A, d), B, r)
    BY <2>1
  <2> HIDE DEF v
  <2>3. /\ SearchTree(v, I, K) /\ Alike(t, v)
        /\ \A n \in Pointer : v.color[n] = IF n \in B THEN r ELSE IF n \in A THEN d ELSE t.color[n]
    BY <1>4, <2>2, PaintedTwice
  <2> QED BY <2>1, <2>3
<1>8. i = t.child[side][w] /\ b = t.child[o][w]
  OBVIOUS
<1> HIDE DEF o, v, i, b
<1>9. v.child = t.child /\ v.root = t.root /\ v.parent = t.parent /\ Shape(v, I)
  BY <1>7 DEF Alike, SearchTree
<1>10. \A n \in Pointer : n # p /\ n # w => (Red(v, n) <=> Red(t, n))
  BY <1>7 DEF Red
<1>11. Red(v, p) /\ ~Red(v, w) /\ Level(v, p) = 0 /\ Level(v, w) = 1 /\ ~Red(v, Nil) /\ ~Red(v, x)
  <2>1. Red(v, p) /\ ~Red(v, w)
    BY <1>1, <1>5, <1>7 DEF Red
  <2>2. ~Red(v, Nil)
    BY <1>1, <1>3, <1>5, <1>10
  <2>3. ~Red(v, x)
    BY <1>1, <1>3, <1>5, <1>10, <2>2
  <2> QED BY <2>1, <2>2, <2>3 DEF Level
<1>12. ~Red(t, p) /\ Level(t, p) = 1 /\ Level(t, w) = 0
  BY <1>1, <1>3, <1>6 DEF Level
<1>13. i \in I \cup {Nil} /\ i # w /\ i # p /\ ~Red(t, i) /\ ~Red(v, i)
  <2>1. i \in I \cup {Nil} /\ ~Red(t, i)
    BY <1>1, <1>3, <1>4, <1>6, <1>8, ShapeFacts
  <2>2. i # w /\ i # p
    BY <1>1, <1>4, <1>5, <1>6, <1>8, NoLoops
  <2> QED BY <1>5, <1>10, <2>1, <2>2
<1>14. \A n \in I \ {p, w} : EvenAt(v, h, n, p, side)
  <2>1. \A n \in I \ {p, w} : Level(v, n) = Level(t, n)
    BY <1>5, <1>10 DEF Level
  <2> QED BY <1>2, <1>9, <2>1 DEF EvenAt
<1>15. h[w] = h[i] /\ h[w] = h[b]
  <2>1. h[w] = h[i]
    BY <1>1, <1>2, <1>4, <1>6, <1>8, <1>12, EvenIs
  <2>2. h[w] = h[b]
    BY <1>1, <1>2, <1>4, <1>6, <1>8, <1>12, EvenIs
  <2> QED BY <2>1, <2>2
<1>16. TurnsEven(v, I, side, p, w, i, h, h[w], p, side)
  <2>1. /\ Lack(p, side, p, side) = 1 /\ Lack(p, o, p, side) = 0
        /\ Lack(w, side, p, side) = 0 /\ Lack(w, o, p, side) = 0
    BY <1>1, <1>6 DEF Lack
  <2>2. v.child[side][p] = x /\ v.child[o][w] = b
    BY <1>1, <1>8, <1>9
  <2>3. /\ h[w] = h[v.child[side][p]] + Level(v, p) + Lack(p, side, p, side)
        /\ h[w] = h[i] + Level(v, p) + Lack(p, o, p, side)
    BY <1>2, <1>11, <1>15, <2>1, <2>2
  <2>4. /\ h[p] = h[w] + Level(v, w) + Lack(w, side, p, side)
        /\ h[p] = h[v.child[o][w]] + Level(v, w) + Lack(w, o, p, side)
    BY <1>2, <1>11, <1>12, <1>15, <2>1, <2>2
  <2> QED BY <1>2, <1>14, <2>3, <2>4 DEF TurnsEven, o
<1>17. TurnsApart(v, I, side, p, w, i, x)
  <2>1. ASSUME NEW n \in I \ {p, w}, NEW s \in Sides, Red(v, n), Red(v, v.child[s][n])
        PROVE  v.child[s][n] = p
    <3>1. t.child[s][n] \in Pointer
      BY <1>4, <1>5, ShapeFacts
    <3> QED BY <1>3, <1>5, <1>9, <1>10, <1>11, <2>1, <3>1
  <2>2. \A m \in {v.child[side][p], i, w} : ~Red(v, m)
    BY <1>1, <1>9, <1>11, <1>13
  <2> QED BY <1>11, <2>1, <2>2 DEF TurnsApart
<1>18. v.parent[p] # Nil => ~Red(v, v.root)
  <2>1. v.parent[p] # Nil => v.root # p
    BY <1>1, <1>4, <1>9 DEF Shape
  <2>2. v.root \in Pointer /\ ~Red(t, v.root)
    BY <1>3, <1>4, <1>5, <1>9, Zenon DEF Shape
  <2> QED BY <1>10, <1>11, <2>1, <2>2
<1>19. /\ SearchTree(u, I, K) /\ Keeps(v, u, I) /\ Turned(v, u, I, side, p, w, i)
       /\ Balanced(u, I, x, p, side)
  <2>1. w = v.child[Other(side)][p] /\ w # Nil /\ i = v.child[side][w]
    BY <1>1, <1>5, <1>8, <1>9 DEF o
  <2> QED BY <1>1, <1>6, <1>7, <1>11, <1>16, <1>17, <1>18, <2>1, RotatedBalanced, Zenon
<1> HIDE DEF u
<1>20. u.color = v.color /\ u.child[side][p] = x /\ u.child[o][p] = i
  BY <1>1, <1>9, <1>19 DEF Turned, o
<1>21. Lacking(u, I, K, x, p, side)
  BY <1>1, <1>6, <1>11, <1>19, <1>20 DEF Lacking, Red
<1>22. ~Red(u, u.child[o][p])
  BY <1>13, <1>20 DEF Red
<1>23. Keeps(t, u, I)
  <2>1. \A m \in Node \ I : v.color[m] = t.color[m]
    BY <1>1, <1>7, NilIsNoNode
  <2> QED BY <1>9, <1>19, <2>1 DEF Keeps
<1> QED BY <1>21, <1>22, <1>23 DEF u, v, o

\* A sibling with a red child on the near side only is turned away.
LEMMA NearNephew ==
  ASSUME NEW t, NEW I, NEW K, NEW x, NEW p, NEW side, NEW w, LackingAt(t, I, K, x, p, side, w),
         ~Red(t, w), ~Red(t, t.child[Other(side)][w]), NEW near, near = t.child[side][w], Red(t, near),
         NEW u, u = Rotated(Other(side), Painted(Painted(t, {near}, "black"), {w}, "red"), w)
  PROVE  /\ LackingAt(u, I, K, x, p, side, near) /\ Keeps(t, u, I)
         /\ ~Red(u, near) /\ Red(u, u.child[Other(side)][near])
<1> DEFINE o == Other(side)
           v == Painted(Painted(t, {near}, "black"), {w}, "red")
           far == t.child[o][w]
           i == t.child[o][near]
           b == t.child[side][near]
<1>1. /\ p \in I /\ w \in I /\ x \in I \cup {Nil} /\ w # p /\ x # p /\ w # x
      /\ t.child[side][p] = x /\ t.child[o][p] = w /\ t.parent[w] = p
  BY LackingNodes
<1>2. PICK h : /\ Heights(h) /\ \A n \in I : EvenAt(t, h, n, p, side)
               /\ h[x] \in Nat \ {0} /\ h[w] = h[x] + 1 /\ h[p] = h[w] + Level(t, p)
               /\ h[p] \in Nat /\ h[w] \in Nat
  BY LackingNodes
<1>3. /\ ~Red(t, x) /\ ~Red(t, Nil) /\ ~Red(t, t.root)
      /\ \A n \in I, s \in Sides : ~(Red(t, n) /\ Red(t, t.child[s][n]))
  BY LackingColors
<1>4. SearchTree(t, I, K) /\ Shape(t, I) /\ Rises(t, I)
  BY LackingShape
<1>5. I \subseteq Node /\ Nil \in Pointer /\ \A n \in I : n \in Pointer /\ n # Nil /\ n \in Node
  BY LackingShape
<1>6. /\ side \in Sides /\ o \in Sides /\ o # side /\ Other(o) = side
      /\ \A s \in Sides : s = side \/ s = o
  BY LackingShape
<1>7. /\ SearchTree(v, I, K) /\ Alike(t, v)
      /\ \A n \in Pointer : v.color[n] = IF n = w THEN "red" ELSE IF n = near THEN "black" ELSE t.color[n]
  <2>1. PICK A, B, r, d : A = {near} /\ B = {w} /\ r = "red" /\ d = "black"
    OBVIOUS
  <2>2. r \in {"red", "black"} /\ d \in {"red", "black"} /\ v = Painted(Painted(t, A, d), B, r)
    BY <2>1
  <2> HIDE DEF v
  <2>3. /\ SearchTree(v, I, K) /\ Alike(t, v)
        /\ \A n \in Pointer : v.color[n] = IF n \in B THEN r ELSE IF n \in A THEN d ELSE t.color[n]
    BY <1>4, <2>2, PaintedTwice
  <2> QED BY <2>1, <2>3
<1>8. /\ i = t.child[o][near] /\ b = t.child[side][near] /\ far = t.child[o][w]
      /\ near = t.child[side][w] /\ Red(t, near) /\ ~Red(t, far) /\ ~Red(t, w)
  OBVIOUS
<1>27. u = Rotated(o, v, w)
  OBVIOUS
<1> HIDE DEF o, v, i, b, far
<1>9. v.child = t.child /\ v.root = t.root /\ v.parent = t.parent /\ Shape(v, I)
  BY <1>7 DEF Alike, SearchTree
<1>10. \A n \in Pointer : n # w /\ n # near => (Red(v, n) <=> Red(t, n))
  BY <1>7 DEF Red
<1>24. near \in I /\ near # w /\ t.parent[near] = w
  <2>1. near # Nil
    BY <1>3, <1>8
  <2> QED BY <1>1, <1>4, <1>6, <1>8, <2>1, NoLoops, ShapeFacts
<1>25. near # p /\ near # x /\ t.parent[w] # Nil /\ p # Nil
  <2>1. near # p
    BY <1>1, <1>4, <1>5, <1>6, <1>8, NoLoops
  <2>2. near # x
    BY <1>3, <1>8
  <2> QED BY <1>1, <1>5, <2>1, <2>2
<1>11. Red(v, w) /\ ~Red(v, near) /\ Level(v, w) = 0 /\ Level(v, near) = 1 /\ ~Red(v, Nil) /\ ~Red(v, x)
  <2>1. Red(v, w) /\ ~Red(v, near)
    BY <1>1, <1>5, <1>7, <1>24 DEF Red
  <2>2. ~Red(v, Nil)
    BY <1>1, <1>3, <1>5, <1>10, <1>24
  <2>3. ~Red(v, x)
    BY <1>1, <1>3, <1>5, <1>10, <1>25, <2>2
  <2> QED BY <2>1, <2>2, <2>3 DEF Level
<1>12. Level(t, near) = 0 /\ Level(t, w) = 1
  BY <1>8 DEF Level
<1>13. i \in I \cup {Nil} /\ i # near /\ i # w /\ ~Red(t, i) /\ ~Red(v, i)
  <2>1. i \in I \cup {Nil} /\ ~Red(t, i)
    BY <1>3, <1>4, <1>6, <1>8, <1>24, ShapeFacts
  <2>2. i # near /\ i # w
    BY <1>1, <1>4, <1>5, <1>6, <1>8, <1>24, NoLoops
  <2> QED BY <1>5, <1>10, <2>1, <2>2
<1>26. far \in I \cup {Nil} /\ far # near /\ far # w /\ ~Red(v, far)
  <2>1. far \in I \cup {Nil} /\ far # w
    BY <1>1, <1>4, <1>6, <1>8, NoLoops, ShapeFacts
  <2>2. far # near
    BY <1>8
  <2> QED BY <1>5, <1>8, <1>10, <2>1, <2>2
<1>14. \A n \in I \ {w, near} : EvenAt(v, h, n, p, side)
  <2>1. \A n \in I \ {w, near} : Level(v, n) = Level(t, n)
    BY <1>5, <1>10 DEF Level
  <2> QED BY <1>2, <1>9, <2>1 DEF EvenAt
<1>15. h[near] = h[i] /\ h[near] = h[b] /\ h[w] = h[near] + 1 /\ h[w] = h[far] + 1
       /\ h[near] \in Nat /\ h[far] \in Nat
  <2>1. h[near] = h[i] /\ h[near] \in Nat
    BY <1>2, <1>4, <1>6, <1>8, <1>12, <1>24, <1>25, EvenIs
  <2>2. h[near] = h[b]
    BY <1>2, <1>4, <1>6, <1>8, <1>12, <1>24, <1>25, EvenIs
  <2>3. h[w] = h[near] + 1
    BY <1>1, <1>2, <1>4, <1>6, <1>8, <1>12, EvenIs
  <2>4. h[w] = h[far] + 1 /\ h[far] \in Nat
    BY <1>1, <1>2, <1>4, <1>6, <1>8, <1>12, EvenIs
  <2> QED BY <2>1, <2>2, <2>3, <2>4
<1>16. TurnsEven(v, I, o, w, near, i, h, h[near], p, side)
  <2>1. /\ Lack(w, side, p, side) = 0 /\ Lack(w, o, p, side) = 0
        /\ Lack(near, side, p, side) = 0 /\ Lack(near, o, p, side) = 0
    BY <1>1, <1>25 DEF Lack
  <2>2. v.child[o][w] = far /\ v.child[side][near] = b
    BY <1>8, <1>9
  <2>3. /\ h[near] = h[v.child[o][w]] + Level(v, w) + Lack(w, o, p, side)
        /\ h[near] = h[i] + Level(v, w) + Lack(w, side, p, side)
    BY <1>2, <1>11, <1>15, <2>1, <2>2
  <2>4. /\ h[w] = h[near] + Level(v, near) + Lack(near, o, p, side)
        /\ h[w] = h[v.child[side][near]] + Level(v, near) + Lack(near, side, p, side)
    BY <1>2, <1>11, <1>15, <2>1, <2>2
  <2> QED BY <1>2, <1>6, <1>14, <1>15, <2>3, <2>4, Zenon DEF TurnsEven
<1>17. TurnsApart(v, I, o, w, near, i, x)
  <2>1. ASSUME NEW n \in I \ {w, near}, NEW s \in Sides, Red(v, n), Red(v, v.child[s][n])
        PROVE  v.child[s][n] = w
    <3>1. t.child[s][n] \in Pointer
      BY <1>4, <1>5, ShapeFacts
    <3> QED BY <1>3, <1>5, <1>9, <1>10, <1>11, <2>1, <3>1
  <2>2. \A m \in {v.child[o][w], i, near} : ~Red(v, m)
    BY <1>8, <1>9, <1>11, <1>13, <1>26
  <2> QED BY <1>11, <2>1, <2>2 DEF TurnsApart
<1>18. ~Red(v, v.root)
  <2>1. v.root # w
    BY <1>1, <1>4, <1>9, <1>25 DEF Shape
  <2>2. v.root \in Pointer /\ ~Red(t, v.root)
    BY <1>3, <1>4, <1>5, <1>9, Zenon DEF Shape
  <2> QED BY <1>10, <1>11, <2>1, <2>2
<1>19. /\ SearchTree(u, I, K) /\ Keeps(v, u, I) /\ Turned(v, u, I, o, w, near, i)
       /\ Balanced(u, I, x, p, side)
  <2>1. near = v.child[Other(o)][w] /\ near # Nil /\ i = v.child[o][near]
    BY <1>5, <1>6, <1>8, <1>9, <1>24
  <2>2. /\ SearchTree(Rotated(o, v, w), I, K) /\ Keeps(v, Rotated(o, v, w), I)
        /\ Turned(v, Rotated(o, v, w), I, o, w, near, i)
        /\ Balanced(Rotated(o, v, w), I, x, p, side)
    BY <1>1, <1>6, <1>7, <1>11, <1>16, <1>17, <1>18, <2>1, RotatedBalanced, Zenon
  <2> QED BY <1>27, <2>2, Zenon
<1>20. /\ u.color = v.color /\ u.child[o][near] = w
       /\ u.child[side][p] = x /\ u.child[o][p] = near
  <2>1. p \in I \ {w, near}
    BY <1>1, <1>25, Zenon
  <2>2. Turned(v, u, I, o, w, near, i)
    BY <1>19
  <2>3. u.color = v.color /\ u.child[o][near] = w
    BY <2>2, Zenon DEF Turned
  <2>4. \A m \in I \ {w, near}, s \in Sides :
          u.child[s][m] = IF v.child[s][m] = w THEN near ELSE v.child[s][m]
    BY <2>2, Zenon DEF Turned
  <2>5. v.child[side][p] = x /\ x # w /\ v.child[o][p] = w
    BY <1>1, <1>9, Zenon
  <2>6. u.child[side][p] = x /\ u.child[o][p] = near
    BY <1>6, <2>1, <2>4, <2>5, Zenon
  <2> QED BY <2>3, <2>6, Zenon
<1>21. LackingAt(u, I, K, x, p, side, near)
  BY <1>1, <1>6, <1>11, <1>19, <1>20, Zenon DEF LackingAt, Lacking, Red, o
<1>22. ~Red(u, near) /\ Red(u, u.child[o][near])
  BY <1>11, <1>20, Zenon DEF Red
<1>23. Keeps(t, u, I)
  <2>1. \A m \in Node \ I : v.color[m] = t.color[m]
    BY <1>1, <1>7, <1>24, NilIsNoNode
  <2>2. \A m \in Node \ I, s \in Sides : v.child[s][m] = t.child[s][m]
    BY <1>9
  <2>3. Keeps(v, u, I)
    BY <1>19
  <2>4. \A m \in Node \ I : u.color[m] = v.color[m]
    BY <2>3, Zenon DEF Keeps
  <2>5. \A m \in Node \ I, s \in Sides : u.child[s][m] = v.child[s][m]
    BY <2>3, Zenon DEF Keeps
  <2> SUFFICES ASSUME NEW m \in Node \ I
               PROVE  u.color[m] = t.color[m] /\ \A s \in Sides : u.child[s][m] = t.child[s][m]
    BY Zenon DEF Keeps
  <2>6. u.color[m] = t.color[m]
    BY <2>1, <2>4, Zenon
  <2>7. \A s \in Sides : u.child[s][m] = t.child[s][m]
    BY <2>2, <2>5, Zenon
  <2> QED BY <2>6, <2>7, Zenon
<1> QED BY <1>21, <1>22, <1>23, Zenon DEF o

\* A removal that goes on: a black node is missing above x, unless x is the root.
Removing(t, I, K, x) ==
  /\ SearchTree(t, I, K) /\ x \in I \cup {Nil}
  /\ x = t.root => Balanced(t, I, x, Nil, "left")
  /\ x # t.root => /\ t.parent[x] \in I /\ t.child[SideOf(t, x)][t.parent[x]] = x
                   /\ Balanced(t, I, x, t.parent[x], SideOf(t, x))

\* A sibling with black children turns red, and the missing node is above the parent.
LEMMA BlackSibling ==
  ASSUME NEW t, NEW I, NEW K, NEW x, NEW p, NEW side, NEW w, LackingAt(t, I, K, x, p, side, w),
         ~Red(t, w), \A s \in Sides : ~Red(t, t.child[s][w])
  PROVE  LET u == Painted(t, {w}, "red") IN Removing(u, I, K, p) /\ Keeps(t, u, I)
<1> DEFINE o == Other(side)
           u == Painted(t, {w}, "red")
           g == t.parent[p]
           r == SideOf(t, p)
<1>1. /\ p \in I /\ w \in I /\ x \in I \cup {Nil} /\ w # p /\ x # p /\ w # x
      /\ t.child[side][p] = x /\ t.child[o][p] = w /\ t.parent[w] = p
  BY LackingNodes
<1>2. PICK h : /\ Heights(h) /\ \A n \in I : EvenAt(t, h, n, p, side)
               /\ h[x] \in Nat \ {0} /\ h[w] = h[x] + 1 /\ h[p] = h[w] + Level(t, p)
               /\ h[p] \in Nat /\ h[w] \in Nat
  BY LackingNodes
<1>3. /\ ~Red(t, x) /\ ~Red(t, Nil) /\ ~Red(t, t.root)
      /\ \A n \in I, s \in Sides : ~(Red(t, n) /\ Red(t, t.child[s][n]))
  BY LackingColors
<1>4. SearchTree(t, I, K) /\ Shape(t, I) /\ Rises(t, I)
  BY LackingShape
<1>5. I \subseteq Node /\ Nil \in Pointer /\ \A n \in I : n \in Pointer /\ n # Nil /\ n \in Node
  BY LackingShape
<1>6. /\ side \in Sides /\ o \in Sides /\ o # side /\ Other(o) = side
      /\ \A s \in Sides : s = side \/ s = o
  BY LackingShape
<1>7. /\ SearchTree(u, I, K) /\ Alike(t, u)
      /\ \A n \in Pointer : u.color[n] = IF n \in {w} THEN "red" ELSE t.color[n]
  <2>1. PICK A, d : A = {w} /\ d = "red"
    OBVIOUS
  <2>2. d \in {"red", "black"} /\ u = Painted(t, A, d)
    BY <2>1
  <2> HIDE DEF u
  <2>3. /\ SearchTree(u, I, K) /\ Alike(t, u)
        /\ \A n \in Pointer : u.color[n] = IF n \in A THEN d ELSE t.color[n]
    BY <1>4, <2>2, PaintedTree
  <2> QED BY <2>1, <2>3
<1>8. g = t.parent[p] /\ r = SideOf(t, p)
  OBVIOUS
<1> HIDE DEF o, u, g, r
<1>9. u.child = t.child /\ u.root = t.root /\ u.parent = t.parent
  BY <1>7 DEF Alike
<1>10. \A n \in Pointer : n # w => (Red(u, n) <=> Red(t, n))
  BY <1>7 DEF Red
<1>11. Red(u, w) /\ ~Red(u, Nil) /\ Level(u, w) = 0 /\ Level(t, w) = 1
  BY <1>1, <1>3, <1>5, <1>7 DEF Red, Level
<1>12. /\ g # p /\ g # w /\ (g # Nil => g \in I /\ r \in Sides /\ t.child[r][g] = p)
       /\ \A s \in Sides : g # Nil /\ t.child[s][g] = p => s = r
  <2>1. g # p /\ (g # Nil => g \in I)
    BY <1>1, <1>4, <1>6, <1>8, NoLoops DEF Shape
  <2>2. g # w
    BY <1>1, <1>4, <1>5, <1>6, <1>8, NoLoops
  <2>3. g # Nil => r \in Sides /\ t.child[r][g] = p /\ \A s \in Sides : t.child[s][g] = p => s = r
    BY <1>1, <1>4, <1>8, SideOfIs
  <2> QED BY <2>1, <2>2, <2>3
<1> DEFINE k == [n \in Pointer |-> IF n \in {w, p} THEN h[n] - 1 ELSE h[n]]
<1>13. Heights(k) /\ \A n \in Pointer : k[n] = IF n \in {w, p} THEN h[n] - 1 ELSE h[n]
  <2>1. h \in [Pointer -> Nat] /\ h[Nil] = 1 /\ Nil \in Pointer /\ Nil \notin {w, p}
    BY <1>1, <1>2, <1>5 DEF Heights
  <2>2. h[w] - 1 \in Nat /\ h[p] - 1 \in Nat
    BY <1>2 DEF Level
  <2>3. \A n \in Pointer : (IF n \in {w, p} THEN h[n] - 1 ELSE h[n]) \in Nat
    BY <2>1, <2>2
  <2> QED BY <2>1, <2>3 DEF Heights
<1> HIDE DEF k
<1>14. ASSUME NEW n \in I, NEW s \in Sides
       PROVE  k[n] = k[u.child[s][n]] + Level(u, n) + Lack(n, s, g, r)
  <2>1. /\ t.child[s][n] \in Pointer /\ h[t.child[s][n]] \in Nat /\ h[n] \in Nat /\ n \in Pointer
        /\ Level(t, n) \in {0, 1} /\ h[n] = h[t.child[s][n]] + Level(t, n) + Lack(n, s, p, side)
    <3>1. t.child[s][n] \in Pointer
      BY <1>4, <1>5, ShapeFacts
    <3> QED BY <1>2, <1>4, <1>5, <3>1, EvenIs
  <2>2. u.child[s][n] = t.child[s][n]
    BY <1>9
  <2>3. CASE n = w
    <3>1. t.child[s][n] \notin {w, p} /\ Lack(n, s, p, side) = 0 /\ Lack(n, s, g, r) = 0
      <4>1. t.child[s][w] # w
        BY <1>1, <1>4, NoLoops
      <4>2. t.child[s][w] # p
        BY <1>1, <1>4, <1>5, <1>6, NoLoops
      <4> QED BY <1>1, <1>12, <2>3, <4>1, <4>2 DEF Lack
    <3>2. k[n] = h[n] - 1 /\ k[t.child[s][n]] = h[t.child[s][n]]
      BY <1>13, <2>1, <2>3, <3>1
    <3> QED BY <1>11, <2>1, <2>2, <2>3, <3>1, <3>2
  <2>4. CASE n = p
    <3>1. Lack(n, s, g, r) = 0 /\ Level(u, n) = Level(t, n) /\ k[n] = h[n] - 1
      BY <1>1, <1>5, <1>10, <1>12, <1>13, <2>1, <2>4 DEF Lack, Level
    <3>2. CASE s = side
      <4>1. Lack(n, s, p, side) = 1 /\ t.child[s][n] = x
        BY <1>1, <2>4, <3>2 DEF Lack
      <4>2. k[x] = h[x]
        BY <1>1, <1>13, <2>1, <4>1
      <4> QED BY <2>1, <2>2, <3>1, <4>1, <4>2
    <3>3. CASE s = o
      <4>1. Lack(n, s, p, side) = 0 /\ t.child[s][n] = w
        BY <1>1, <1>6, <2>4, <3>3 DEF Lack
      <4>2. k[w] = h[w] - 1
        BY <1>1, <1>5, <1>13
      <4> QED BY <2>1, <2>2, <3>1, <4>1, <4>2
    <3> QED BY <1>6, <3>2, <3>3
  <2>5. CASE n \notin {w, p}
    <3>1. Lack(n, s, p, side) = 0 /\ Level(u, n) = Level(t, n) /\ k[n] = h[n]
      BY <1>10, <1>13, <2>1, <2>5 DEF Lack, Level
    <3>2. t.child[s][n] # w
      <4>1. t.child[s][n] # Nil => t.parent[t.child[s][n]] = n
        BY <1>4, ShapeFacts
      <4> QED BY <1>1, <1>5, <2>5, <4>1
    <3>3. CASE t.child[s][n] = p
      <4>1. n = g
        BY <1>1, <1>4, <1>5, <1>8, <3>3, ShapeFacts
      <4>2. s = r /\ n # Nil
        BY <1>5, <1>12, <3>3, <4>1
      <4>3. Lack(n, s, g, r) = 1
        BY <4>1, <4>2 DEF Lack
      <4>4. k[p] = h[p] - 1
        BY <1>1, <1>5, <1>13
      <4> QED BY <2>1, <2>2, <3>1, <3>3, <4>3, <4>4
    <3>4. CASE t.child[s][n] # p
      <4>1. Lack(n, s, g, r) = 0
        BY <1>5, <1>12, <3>4 DEF Lack
      <4>2. k[t.child[s][n]] = h[t.child[s][n]]
        BY <1>13, <2>1, <3>2, <3>4
      <4> QED BY <2>1, <2>2, <3>1, <4>1, <4>2
    <3> QED BY <3>3, <3>4
  <2> QED BY <2>3, <2>4, <2>5
<1>15. Even(u, I, g, r)
  BY <1>13, <1>14 DEF Even, EvenAt
<1>16. Apart(u, I, p)
  <2>1. SUFFICES ASSUME NEW n \in I, NEW s \in Sides, Red(u, n), Red(u, t.child[s][n]),
                        p # n, p # t.child[s][n]
                 PROVE  FALSE
    BY <1>9 DEF Apart
  <2>2. t.child[s][n] \in Pointer /\ (t.child[s][n] # Nil => t.parent[t.child[s][n]] = n)
    BY <1>4, <1>5, ShapeFacts
  <2>3. t.child[s][n] # w
    BY <1>1, <1>5, <2>1, <2>2
  <2>4. n # w
    BY <1>10, <2>1, <2>2, <2>3
  <2> QED BY <1>3, <1>5, <1>10, <2>1, <2>2, <2>3, <2>4
<1>17. ~Red(u, u.root)
  <2>1. t.root # w /\ t.root \in Pointer
    BY <1>1, <1>4, <1>5 DEF Shape
  <2> QED BY <1>3, <1>9, <1>10, <2>1
<1>18. Balanced(u, I, p, g, r)
  BY <1>11, <1>15, <1>16, <1>17 DEF Balanced
<1>19. u.parent[p] = g /\ SideOf(u, p) = r
  BY <1>8, <1>9 DEF SideOf
<1>20. p = u.root => Balanced(u, I, p, Nil, "left")
  <2>1. p = u.root => g = Nil
    BY <1>1, <1>4, <1>8, <1>9 DEF Shape
  <2>2. Even(u, I, Nil, r) => Even(u, I, Nil, "left")
    BY <1>5 DEF Even, EvenAt, Lack
  <2> QED BY <1>18, <2>1, <2>2 DEF Balanced
<1>21. p # u.root => g # Nil
  BY <1>1, <1>4, <1>8, <1>9 DEF Shape
<1>22. Keeps(t, u, I)
  <2>1. \A m \in Node \ I : u.color[m] = t.color[m]
    BY <1>1, <1>7, NilIsNoNode
  <2> QED BY <1>9, <2>1 DEF Keeps
<1>23. Removing(u, I, K, p)
  BY <1>1, <1>7, <1>9, <1>12, <1>18, <1>19, <1>20, <1>21 DEF Removing
<1> QED BY <1>22, <1>23 DEF u

\* A sibling with a red child on the far side comes up in the colour of the parent,
\* and nothing is missing any more.
LEMMA FarNephew ==
  ASSUME NEW t, NEW I, NEW K, NEW x, NEW p, NEW side, NEW w, LackingAt(t, I, K, x, p, side, w),
         ~Red(t, w), NEW far, far = t.child[Other(side)][w], Red(t, far)
  PROVE  LET u == Rebalanced(side, t, p)
         IN  SearchTree(u, I, K) /\ Keeps(t, u, I) /\ Balanced(u, I, Nil, Nil, "left")
<1> DEFINE o == Other(side)
           d == t.color[p]
           v == Painted(Painted(t, {w}, d), {p, far}, "black")
           u == Rotated(side, v, p)
           i == t.child[side][w]
<1>0. Rebalanced(side, t, p) = u
  <2>1. w = t.child[o][p]
    BY LackingNodes
  <2> QED BY <2>1 DEF Rebalanced
<1>1. /\ p \in I /\ w \in I /\ x \in I \cup {Nil} /\ w # p /\ x # p /\ w # x
      /\ t.child[side][p] = x /\ t.child[o][p] = w /\ t.parent[w] = p
  BY LackingNodes
<1>2. PICK h : /\ Heights(h) /\ \A n \in I : EvenAt(t, h, n, p, side)
               /\ h[x] \in Nat \ {0} /\ h[w] = h[x] + 1 /\ h[p] = h[w] + Level(t, p)
               /\ h[p] \in Nat /\ h[w] \in Nat
  BY LackingNodes
<1>3. /\ ~Red(t, x) /\ ~Red(t, Nil) /\ ~Red(t, t.root)
      /\ \A n \in I, s \in Sides : ~(Red(t, n) /\ Red(t, t.child[s][n]))
  BY LackingColors
<1>4. SearchTree(t, I, K) /\ Shape(t, I) /\ Rises(t, I)
  BY LackingShape
<1>5. I \subseteq Node /\ Nil \in Pointer /\ \A n \in I : n \in Pointer /\ n # Nil /\ n \in Node
  BY LackingShape
<1>6. /\ side \in Sides /\ o \in Sides /\ o # side /\ Other(o) = side
      /\ \A s \in Sides : s = side \/ s = o
  BY LackingShape
<1>7. /\ SearchTree(v, I, K) /\ Alike(t, v)
      /\ \A n \in Pointer : v.color[n] = IF n \in {p, far} THEN "black" ELSE IF n = w THEN d ELSE t.color[n]
  <2>1. PICK A, B, b : A = {w} /\ B = {p, far} /\ b = "black"
    OBVIOUS
  <2>2. b \in {"red", "black"} /\ d \in {"red", "black"} /\ v = Painted(Painted(t, A, d), B, b)
    BY <1>1, <1>4, <1>5, <2>1 DEF Shape, Tree
  <2> HIDE DEF v, d
  <2>3. /\ SearchTree(v, I, K) /\ Alike(t, v)
        /\ \A n \in Pointer : v.color[n] = IF n \in B THEN b ELSE IF n \in A THEN d ELSE t.color[n]
    BY <1>4, <2>2, PaintedTwice
  <2> QED BY <2>1, <2>3
<1>8. i = t.child[side][w] /\ far = t.child[o][w] /\ d = t.color[p] /\ Red(t, far) /\ ~Red(t, w)
  OBVIOUS
<1> HIDE DEF o, v, i, d
<1>9. v.child = t.child /\ v.root = t.root /\ v.parent = t.parent /\ Shape(v, I)
  BY <1>7 DEF Alike, SearchTree
<1>10. \A n \in Pointer : n \notin {p, w, far} => (Red(v, n) <=> Red(t, n))
  BY <1>7 DEF Red
<1>11. far \in I /\ far # w /\ far # p /\ far # x /\ t.parent[far] = w
  <2>1. far # Nil /\ far # x
    BY <1>3, <1>8
  <2>2. far \in I /\ far # w /\ t.parent[far] = w
    BY <1>1, <1>4, <1>6, <1>8, <2>1, NoLoops, ShapeFacts
  <2>3. far # p
    BY <1>1, <1>4, <1>5, <1>6, <1>8, NoLoops
  <2> QED BY <2>1, <2>2, <2>3
<1>12. /\ ~Red(v, p) /\ ~Red(v, far) /\ (Red(v, w) <=> Red(t, p)) /\ ~Red(v, Nil)
       /\ Level(v, p) = 1 /\ Level(v, far) = 1 /\ Level(v, w) = Level(t, p)
       /\ Level(t, far) = 0 /\ Level(t, w) = 1
  <2>1. ~Red(v, p) /\ ~Red(v, far) /\ (Red(v, w) <=> Red(t, p))
    BY <1>1, <1>5, <1>7, <1>8, <1>11 DEF Red
  <2>2. ~Red(v, Nil)
    BY <1>1, <1>3, <1>5, <1>10, <1>11
  <2> QED BY <1>8, <2>1, <2>2 DEF Level
<1>13. i \in I \cup {Nil} /\ i # w /\ i # p /\ i # far
  <2>1. i \in I \cup {Nil} /\ i # w
    BY <1>1, <1>4, <1>6, <1>8, NoLoops, ShapeFacts
  <2>2. i # p
    BY <1>1, <1>4, <1>5, <1>6, <1>8, NoLoops
  <2>3. i # far
    BY <1>1, <1>4, <1>5, <1>6, <1>8, <1>11, OneParent
  <2> QED BY <2>1, <2>2, <2>3
<1>14. h[i] = h[x] /\ h[far] = h[x] /\ h[far] \in Nat
  <2>1. h[w] = h[i] + 1 /\ h[i] \in Nat
    BY <1>1, <1>2, <1>4, <1>6, <1>8, <1>12, EvenIs
  <2>2. h[w] = h[far] + 1 /\ h[far] \in Nat
    BY <1>1, <1>2, <1>4, <1>6, <1>8, <1>12, EvenIs
  <2> QED BY <1>2, <2>1, <2>2
<1> DEFINE k == [n \in Pointer |-> IF n = far THEN h[n] + 1 ELSE h[n]]
<1>15. Heights(k) /\ \A n \in Pointer : k[n] = IF n = far THEN h[n] + 1 ELSE h[n]
  <2>1. h \in [Pointer -> Nat] /\ h[Nil] = 1 /\ Nil \in Pointer /\ Nil # far
    BY <1>2, <1>5, <1>11 DEF Heights
  <2> QED BY <2>1 DEF Heights
<1> HIDE DEF k
<1>16. ASSUME NEW m \in I \ {p, w}, NEW s \in Sides
       PROVE  k[m] = k[v.child[s][m]] + Level(v, m) + Lack(m, s, Nil, "left")
  <2>1. /\ t.child[s][m] \in Pointer /\ h[t.child[s][m]] \in Nat /\ h[m] \in Nat /\ m \in Pointer
        /\ h[m] = h[t.child[s][m]] + Level(t, m) /\ Lack(m, s, Nil, "left") = 0
    <3>1. t.child[s][m] \in Pointer
      BY <1>4, <1>5, ShapeFacts
    <3>2. /\ h[t.child[s][m]] \in Nat /\ h[m] \in Nat /\ h[m] = h[t.child[s][m]] + Level(t, m)
      BY <1>2, <1>4, <1>5, EvenIs
    <3> QED BY <1>5, <3>1, <3>2, NoLack
  <2>2. t.child[s][m] # far
    BY <1>4, <1>5, <1>11, ShapeFacts
  <2>3. k[v.child[s][m]] = h[t.child[s][m]]
    BY <1>9, <1>15, <2>1, <2>2, SMTT(40)
  <2>4. CASE m = far
    BY <1>12, <1>15, <2>1, <2>3, <2>4
  <2>5. CASE m # far
    <3>1. Level(v, m) = Level(t, m)
      BY <1>10, <2>1, <2>5 DEF Level
    <3> QED BY <1>15, <2>1, <2>3, <2>5, <3>1
  <2> QED BY <2>4, <2>5
<1>17. /\ k[x] = h[x] /\ k[i] = h[x] /\ k[far] = h[x] + 1 /\ k[p] = h[x] + 1 + Level(t, p)
       /\ h[x] \in Nat
  <2>1. x \in Pointer /\ i \in Pointer /\ far \in Pointer /\ p \in Pointer
    BY <1>1, <1>5, <1>11, <1>13
  <2>2. k[x] = h[x] /\ k[i] = h[i] /\ k[far] = h[far] + 1 /\ k[p] = h[p]
    BY <1>11, <1>13, <1>15, <2>1
  <2> QED BY <1>2, <1>14, <2>2
<1>18. TurnsEven(v, I, side, p, w, i, k, h[x] + 1, Nil, "left")
  <2>1. /\ Lack(p, side, Nil, "left") = 0 /\ Lack(p, o, Nil, "left") = 0
        /\ Lack(w, side, Nil, "left") = 0 /\ Lack(w, o, Nil, "left") = 0
    BY <1>1, <1>5, NoLack
  <2>2. v.child[side][p] = x /\ v.child[o][w] = far
    BY <1>1, <1>8, <1>9
  <2>3. /\ h[x] + 1 = k[v.child[side][p]] + Level(v, p) + Lack(p, side, Nil, "left")
        /\ h[x] + 1 = k[i] + Level(v, p) + Lack(p, o, Nil, "left")
    BY <1>12, <1>17, <2>1, <2>2
  <2>4. Level(t, p) \in Nat
    BY DEF Level
  <2>5. /\ k[p] = h[x] + 1 + Level(v, w) + Lack(w, side, Nil, "left")
        /\ k[p] = k[v.child[o][w]] + Level(v, w) + Lack(w, o, Nil, "left")
    BY <1>12, <1>17, <2>1, <2>2, <2>4
  <2>6. \A m \in I \ {p, w} : EvenAt(v, k, m, Nil, "left")
    BY <1>16 DEF EvenAt
  <2>7. h[x] + 1 \in Nat
    BY <1>17
  <2> QED BY <1>15, <2>3, <2>5, <2>6, <2>7 DEF TurnsEven, o
<1>19. TurnsApart(v, I, side, p, w, i, Nil)
  <2>1. ASSUME NEW m \in I \ {p, w}, NEW s \in Sides, Red(v, m), Red(v, v.child[s][m])
        PROVE  FALSE
    <3>1. t.child[s][m] \in Pointer /\ (t.child[s][m] # Nil => t.parent[t.child[s][m]] = m)
      BY <1>4, <1>5, ShapeFacts
    <3>2. t.child[s][m] # w /\ m # far /\ t.child[s][m] \notin {p, far}
      BY <1>1, <1>5, <1>9, <1>12, <2>1, <3>1
    <3> QED BY <1>3, <1>5, <1>9, <1>10, <2>1, <3>1, <3>2
  <2>2. ASSUME NEW m \in I, NEW s \in Sides, v.child[s][m] = p, Red(v, m), Red(v, w) PROVE FALSE
    <3>1. m # p
      BY <1>4, <1>9, <2>2, NoLoops
    <3>2. m # w
      BY <1>1, <1>4, <1>5, <1>6, <1>9, <2>2, NoLoops
    <3>3. m # far
      BY <1>12, <2>2
    <3> QED BY <1>3, <1>5, <1>9, <1>10, <1>12, <2>2, <3>1, <3>2, <3>3
  <2>3. v.child[Other(side)][w] = far
    BY <1>8, <1>9 DEF o
  <2> QED BY <1>12, <2>1, <2>2, <2>3 DEF TurnsApart
<1>20. /\ v.parent[p] = Nil => ~Red(v, w)
       /\ v.parent[p] # Nil => ~Red(v, v.root)
  <2>1. v.parent[p] = Nil => t.root = p
    BY <1>1, <1>4, <1>9 DEF Shape
  <2>2. v.parent[p] # Nil => v.root # p
    BY <1>1, <1>4, <1>9 DEF Shape
  <2>3. v.root # w /\ v.root \in Pointer
    BY <1>1, <1>4, <1>5, <1>9 DEF Shape
  <2> QED BY <1>3, <1>9, <1>10, <1>12, <2>1, <2>2, <2>3
<1>21. /\ SearchTree(u, I, K) /\ Keeps(v, u, I) /\ Balanced(u, I, Nil, Nil, "left")
  <2>1. w = v.child[Other(side)][p] /\ w # Nil /\ i = v.child[side][w]
    BY <1>1, <1>5, <1>8, <1>9 DEF o
  <2> QED BY <1>1, <1>6, <1>7, <1>12, <1>18, <1>19, <1>20, <2>1, RotatedBalanced, Zenon
<1> HIDE DEF u
<1>22. Keeps(t, u, I)
  <2>1. \A m \in Node \ I : v.color[m] = t.color[m]
    BY <1>1, <1>7, <1>11, NilIsNoNode
  <2> QED BY <1>9, <1>21, <2>1 DEF Keeps
<1> QED BY <1>0, <1>21, <1>22

\* Where no red nodes meet at all, they meet only at c.
LEMMA BalancedAnyway ==
  ASSUME NEW t, NEW I, I \subseteq Node, NEW p, NEW q, Balanced(t, I, Nil, p, q), NEW c
  PROVE  Balanced(t, I, c, p, q) /\ ~Red(t, t.root)
BY NilIsNoNode DEF Balanced, Apart

\* A sibling with a red child is turned away if need be: then its far child is red.
LEMMA FarIsRed ==
  ASSUME NEW t, NEW I, NEW K, NEW x, NEW p, NEW side, NEW w, LackingAt(t, I, K, x, p, side, w),
         ~Red(t, w), ~(\A s \in Sides : ~Red(t, t.child[s][w])), NEW v, v = WithFarRed(side, t, w)
  PROVE  \E m : /\ LackingAt(v, I, K, x, p, side, m) /\ ~Red(v, m)
               /\ Red(v, v.child[Other(side)][m]) /\ Keeps(t, v, I)
<1>1. \A s \in Sides : s = side \/ s = Other(side)
  BY LackingShape
<1>2. PICK near, far : near = t.child[side][w] /\ far = t.child[Other(side)][w]
  OBVIOUS
<1>3. v = IF Red(t, far) THEN t
          ELSE Rotated(Other(side), Painted(Painted(t, {near}, "black"), {w}, "red"), w)
  BY <1>2 DEF WithFarRed
<1>4. CASE Red(t, far)
  <2>1. v = t
    BY <1>3, <1>4
  <2>2. Keeps(t, v, I)
    BY <2>1 DEF Keeps
  <2> QED BY <1>2, <1>4, <2>1, <2>2
<1>5. CASE ~Red(t, far)
  <2>1. Red(t, near)
    BY <1>1, <1>2, <1>5
  <2>2. v = Rotated(Other(side), Painted(Painted(t, {near}, "black"), {w}, "red"), w)
    BY <1>3, <1>5
  <2>3. LackingAt(v, I, K, x, p, side, near)
    BY <1>2, <1>5, <2>1, <2>2, NearNephew
  <2>4. Keeps(t, v, I)
    BY <1>2, <1>5, <2>1, <2>2, NearNephew
  <2>5. ~Red(v, near)
    BY <1>2, <1>5, <2>1, <2>2, NearNephew
  <2>6. Red(v, v.child[Other(side)][near])
    BY <1>2, <1>5, <2>1, <2>2, NearNephew
  <2> QED BY <2>3, <2>4, <2>5, <2>6
<1> QED BY <1>4, <1>5

\* What a turn of a removal does.
RemoveTurned(x, p, side, t, w, u, next) ==
  /\ p = tree.parent[x] /\ side = SideOf(tree, x)
  /\ t = WithBlackSibling(side, x) /\ w = t.child[Other(side)][p]
  /\ IF \A s \in Sides : ~Red(t, t.child[s][w])
     THEN u = Painted(t, {w}, "red") /\ next = p
     ELSE u = Rebalanced(side, WithFarRed(side, t, w), p) /\ next = u.root

\* A turn of the loop of a removal either moves the missing node up to the parent or
\* ends the loop with the tree balanced.
LEMMA RemovingTurned ==
  ASSUME NEW I, NEW K, NEW x, Removing(tree, I, K, x), x # tree.root, ~Red(tree, x),
         NEW p, NEW side, NEW t, NEW w, NEW u, NEW next, RemoveTurned(x, p, side, t, w, u, next)
  PROVE  Removing(u, I, K, next) /\ Keeps(tree, u, I)
<1>0. /\ p = tree.parent[x] /\ side = SideOf(tree, x)
      /\ t = WithBlackSibling(side, x) /\ w = t.child[Other(side)][p]
  BY DEF RemoveTurned
<1> DEFINE a == tree.child[Other(side)][p]
<1>1. SideOf(tree, x) \in Sides
  BY TwoSides DEF SideOf
<1>2. Lacking(tree, I, K, x, p, side)
  BY <1>0, <1>1 DEF Removing, Lacking
<1>3. LackingAt(tree, I, K, x, p, side, a)
  BY <1>2 DEF LackingAt
<1>4. t = IF Red(tree, a)
          THEN Rotated(side, Painted(Painted(tree, {a}, "black"), {p}, "red"), p) ELSE tree
  BY <1>0, Zenon DEF WithBlackSibling
<1> HIDE DEF a
<1>5. Lacking(t, I, K, x, p, side) /\ ~Red(t, w) /\ Keeps(tree, t, I)
  <2>1. CASE Red(tree, a)
    <3>1. t = Rotated(side, Painted(Painted(tree, {a}, "black"), {p}, "red"), p)
      BY <1>4, <2>1
    <3>2. /\ Lacking(t, I, K, x, p, side) /\ Keeps(tree, t, I)
          /\ ~Red(t, t.child[Other(side)][p])
      BY <1>3, <2>1, <3>1, RedSibling
    <3> QED BY <1>0, <3>2
  <2>2. CASE ~Red(tree, a)
    <3>1. t = tree /\ w = a
      BY <1>0, <1>3, <1>4, <2>2 DEF LackingAt
    <3> QED BY <1>2, <2>2, <3>1 DEF Keeps
  <2> QED BY <2>1, <2>2
<1>6. LackingAt(t, I, K, x, p, side, w)
  BY <1>0, <1>5 DEF LackingAt
<1>9. ~Red(t, w)
  BY <1>5
<1>7. CASE \A s \in Sides : ~Red(t, t.child[s][w])
  <2>1. u = Painted(t, {w}, "red") /\ next = p
    BY <1>7 DEF RemoveTurned
  <2>2. Removing(Painted(t, {w}, "red"), I, K, p)
    BY <1>6, <1>7, <1>9, BlackSibling
  <2>3. Keeps(t, Painted(t, {w}, "red"), I)
    BY <1>6, <1>7, <1>9, BlackSibling
  <2>4. Keeps(t, u, I)
    BY <2>1, <2>3, Zenon
  <2>5. Keeps(tree, u, I)
    BY <1>5, <2>4 DEF Keeps
  <2> QED BY <2>1, <2>2, <2>5, Zenon
<1>8. CASE ~(\A s \in Sides : ~Red(t, t.child[s][w]))
  <2>1. PICK v : v = WithFarRed(side, t, w)
    OBVIOUS
  <2>2. u = Rebalanced(side, v, p) /\ next = u.root
    BY <1>8, <2>1, Zenon DEF RemoveTurned
  <2>5. PICK m : LackingAt(v, I, K, x, p, side, m) /\ ~Red(v, m) /\ Red(v, v.child[Other(side)][m])
                 /\ Keeps(t, v, I)
    BY <1>6, <1>8, <1>9, <2>1, FarIsRed
  <2>6. SearchTree(u, I, K) /\ Keeps(v, u, I) /\ Balanced(u, I, Nil, Nil, "left")
    BY <2>2, <2>5, FarNephew
  <2>7. I \subseteq Node /\ u.root \in I \cup {Nil}
    BY <2>6 DEF SearchTree, Shape
  <2>8. Balanced(u, I, u.root, Nil, "left")
    BY <2>6, <2>7, BalancedAnyway
  <2>9. Removing(u, I, K, u.root)
    BY <2>6, <2>7, <2>8 DEF Removing
  <2>10. Keeps(tree, u, I)
    BY <1>5, <2>5, <2>6 DEF Keeps
  <2> QED BY <2>2, <2>9, <2>10
<1> QED BY <1>7, <1>8

-----------------------------------------------------------------------------
(* The ends of the calls.                                                  *)

\* Painting c black ends a call: the root, or a red node above which one is missing.
LEMMA PaintedBlack ==
  ASSUME NEW t, NEW I, NEW K, SearchTree(t, I, K), NEW c \in I \cup {Nil}, NEW p, NEW q,
         Balanced(t, I, c, p, q),
         \/ c = t.root /\ p = Nil
         \/ Red(t, c) /\ c # t.root /\ p = t.parent[c] /\ q \in Sides /\ t.child[q][p] = c
  PROVE  LET u == Painted(t, {c}, "black")
         IN  SearchTree(u, I, K) /\ Keeps(t, u, I) /\ Balanced(u, I, Nil, Nil, "left")
<1> DEFINE u == Painted(t, {c}, "black")
<1>1. Shape(t, I) /\ Rises(t, I) /\ t \in Tree
  BY DEF SearchTree, Shape
<1>2. I \subseteq Node /\ Nil \in Pointer /\ \A n \in I : n \in Pointer /\ n # Nil /\ n \in Node
  BY <1>1, NilIsNoNode DEF Shape
<1>3. /\ SearchTree(u, I, K) /\ Alike(t, u)
      /\ \A n \in Pointer : u.color[n] = IF n = c THEN "black" ELSE t.color[n]
  <2>1. PICK A, d : A = {c} /\ d = "black"
    OBVIOUS
  <2>2. d \in {"red", "black"} /\ u = Painted(t, A, d)
    BY <2>1
  <2> HIDE DEF u
  <2>3. /\ SearchTree(u, I, K) /\ Alike(t, u)
        /\ \A n \in Pointer : u.color[n] = IF n \in A THEN d ELSE t.color[n]
    BY <2>2, PaintedTree
  <2> QED BY <2>1, <2>3
<1> HIDE DEF u
<1>4. u.child = t.child /\ u.root = t.root
  BY <1>3 DEF Alike
<1>5. \A n \in Pointer : Red(u, n) <=> n # c /\ Red(t, n)
  BY <1>3 DEF Red
<1>6. /\ ~Red(t, Nil) /\ Apart(t, I, c) /\ (Red(t, t.root) => t.root = c)
  BY DEF Balanced
<1>7. PICK h : Heights(h) /\ \A n \in I : EvenAt(t, h, n, p, q)
  BY DEF Balanced, Even
<1> DEFINE k == [n \in Pointer |-> IF n = c /\ Red(t, c) THEN h[n] + 1 ELSE h[n]]
<1>8. Heights(k) /\ \A n \in Pointer : k[n] = IF n = c /\ Red(t, c) THEN h[n] + 1 ELSE h[n]
  <2>1. h \in [Pointer -> Nat] /\ h[Nil] = 1 /\ Nil \in Pointer /\ ~(Nil = c /\ Red(t, c))
    BY <1>2, <1>6, <1>7 DEF Heights
  <2> QED BY <2>1 DEF Heights
<1> HIDE DEF k
<1>9. Red(t, c) => c \in I
  BY <1>6
<1>10. ASSUME NEW n \in I, NEW s \in Sides
       PROVE  k[n] = k[u.child[s][n]] + Level(u, n) + Lack(n, s, Nil, "left")
  <2>1. /\ t.child[s][n] \in Pointer /\ h[t.child[s][n]] \in Nat /\ h[n] \in Nat /\ n \in Pointer
        /\ Level(t, n) \in {0, 1} /\ h[n] = h[t.child[s][n]] + Level(t, n) + Lack(n, s, p, q)
    <3>1. t.child[s][n] \in Pointer
      BY <1>1, <1>2, ShapeFacts
    <3> QED BY <1>1, <1>2, <1>7, <3>1, EvenIs
  <2>2. Lack(n, s, Nil, "left") = 0
    BY <1>2, NoLack
  <2>3. CASE n = c /\ Red(t, c)
    <3>1. Lack(n, s, p, q) = 0
      BY <1>1, <1>2, <2>3, NoLoops DEF Lack
    <3>2. t.child[s][n] # c
      BY <1>1, <2>3, NoLoops
    <3>3. Level(t, n) = 0 /\ Level(u, n) = 1
      BY <1>5, <2>1, <2>3 DEF Level
    <3>4. k[n] = h[n] + 1 /\ k[t.child[s][n]] = h[t.child[s][n]]
      BY <1>8, <2>1, <2>3, <3>2
    <3> QED BY <1>4, <2>1, <2>2, <3>1, <3>3, <3>4
  <2>4. CASE ~(n = c /\ Red(t, c))
    <3>1. Level(u, n) = Level(t, n) /\ k[n] = h[n]
      BY <1>5, <1>8, <2>1, <2>4 DEF Level
    <3>2. CASE t.child[s][n] = c /\ Red(t, c)
      <4>1. t.parent[c] = n /\ c \in I
        BY <1>1, <1>2, <1>9, <3>2, ShapeFacts
      <4>2. c # t.root
        BY <1>1, <1>2, <4>1 DEF Shape
      <4>3. n = p /\ s = q
        BY <1>1, <1>2, <3>2, <4>1, <4>2, OneParent
      <4>4. Lack(n, s, p, q) = 1
        BY <4>3 DEF Lack
      <4>5. k[t.child[s][n]] = h[t.child[s][n]] + 1
        BY <1>8, <2>1, <3>2
      <4> QED BY <1>4, <2>1, <2>2, <3>1, <4>4, <4>5
    <3>3. CASE ~(t.child[s][n] = c /\ Red(t, c))
      <4>1. Lack(n, s, p, q) = 0
        BY <1>2, <3>3 DEF Lack
      <4>2. k[t.child[s][n]] = h[t.child[s][n]]
        BY <1>8, <2>1, <3>3
      <4> QED BY <1>4, <2>1, <2>2, <3>1, <4>1, <4>2
    <3> QED BY <3>2, <3>3
  <2> QED BY <2>3, <2>4
<1>11. Even(u, I, Nil, "left")
  BY <1>8, <1>10 DEF Even, EvenAt
<1>12. Apart(u, I, Nil)
  <2>1. SUFFICES ASSUME NEW n \in I, NEW s \in Sides, Red(u, n), Red(u, t.child[s][n])
                 PROVE  FALSE
    BY <1>4 DEF Apart
  <2>2. t.child[s][n] \in Pointer
    BY <1>1, <1>2, ShapeFacts
  <2> QED BY <1>2, <1>5, <1>6, <2>1, <2>2 DEF Apart
<1>13. ~Red(u, u.root) /\ ~Red(u, Nil)
  <2>1. t.root \in Pointer
    BY <1>1 DEF Tree
  <2> QED BY <1>2, <1>4, <1>5, <1>6, <2>1
<1>14. Keeps(t, u, I)
  BY <1>2, <1>3, <1>4, NilIsNoNode DEF Keeps
<1> QED BY <1>3, <1>11, <1>12, <1>13, <1>14 DEF Balanced, u

\* A node that is deleted has no children, and nothing else changes.
Reset(t, u, y) ==
  /\ u \in Tree /\ u.root = t.root
  /\ \A m \in Pointer : u.parent[m] = IF m = y THEN Nil ELSE t.parent[m]
  /\ \A m \in Pointer : u.color[m] = IF m = y THEN "black" ELSE t.color[m]
  /\ \A m \in Node, s \in Sides : u.child[s][m] = IF m = y THEN Nil ELSE t.child[s][m]

\* What the end of a removal does to the node that was unlinked.
LEMMA ResetIs ==
  ASSUME NEW t \in Tree, NEW y \in Node
  PROVE  Reset(t, [t EXCEPT !.child = [s \in Sides |-> [@[s] EXCEPT ![y] = Nil]],
                            !.parent[y] = Nil, !.color[y] = "black"], y)
<1> DEFINE u == [t EXCEPT !.child = [s \in Sides |-> [@[s] EXCEPT ![y] = Nil]],
                          !.parent[y] = Nil, !.color[y] = "black"]
           c == [s \in Sides |-> [t.child[s] EXCEPT ![y] = Nil]]
<1>1. y \in Pointer /\ Nil \in Pointer /\ \A m \in Node : m \in Pointer
  BY NilIsNoNode
<1>2. /\ c \in [Sides -> [Node -> Pointer]]
      /\ \A m \in Node, s \in Sides : c[s][m] = IF m = y THEN Nil ELSE t.child[s][m]
  BY <1>1 DEF Tree
<1>3. u = [t EXCEPT !.child = c, !.parent[y] = Nil, !.color[y] = "black"]
  OBVIOUS
<1> HIDE DEF c, u
<1>4. /\ u.root = t.root /\ u.child = c /\ u.parent = [t.parent EXCEPT ![y] = Nil]
      /\ u.color = [t.color EXCEPT ![y] = "black"]
      /\ u = [root |-> u.root, child |-> u.child, parent |-> u.parent, color |-> u.color]
  BY <1>1, <1>3 DEF Tree
<1>5. /\ [t.parent EXCEPT ![y] = Nil] \in [Pointer -> Pointer]
      /\ [t.color EXCEPT ![y] = "black"] \in [Pointer -> {"red", "black"}]
      /\ t.root \in Pointer
  BY <1>1 DEF Tree
<1>6. u \in Tree
  BY <1>2, <1>4, <1>5 DEF Tree
<1>7. /\ \A m \in Pointer : u.parent[m] = IF m = y THEN Nil ELSE t.parent[m]
      /\ \A m \in Pointer : u.color[m] = IF m = y THEN "black" ELSE t.color[m]
  BY <1>1, <1>4 DEF Tree
<1>8. Reset(t, u, y)
  BY <1>2, <1>4, <1>6, <1>7 DEF Reset
<1> QED BY <1>8 DEF u

\* A node that is deleted was not in the tree.
LEMMA Forgotten ==
  ASSUME NEW t, NEW I, NEW K, SearchTree(t, I, K), Balanced(t, I, Nil, Nil, "left"),
         NEW y \in Node \ I, NEW u, Reset(t, u, y)
  PROVE  SearchTree(u, I, K) /\ Balanced(u, I, Nil, Nil, "left")
<1>1. t \in Tree /\ Shape(t, I) /\ Rises(t, I) /\ Falls(t, I)
  BY DEF SearchTree, Shape
<1>2. /\ y \in Node /\ y \in Pointer /\ Nil \in Pointer /\ Nil # y /\ I \subseteq Node
      /\ \A m \in Node : m \in Pointer
      /\ \A m \in I : m # y /\ m \in Node /\ m \in Pointer /\ m # Nil
  BY <1>1, NilIsNoNode DEF Shape
<1>3. /\ u \in Tree /\ u.root = t.root
      /\ \A m \in Pointer : u.parent[m] = IF m = y THEN Nil ELSE t.parent[m]
      /\ \A m \in Pointer : u.color[m] = IF m = y THEN "black" ELSE t.color[m]
      /\ \A m \in Node, s \in Sides : u.child[s][m] = IF m = y THEN Nil ELSE t.child[s][m]
  BY DEF Reset
<1>4. /\ \A m \in I : u.parent[m] = t.parent[m]
      /\ \A m \in I, s \in Sides : u.child[s][m] = t.child[s][m]
      /\ \A m \in I : Red(u, m) <=> Red(t, m)
      /\ Red(u, Nil) <=> Red(t, Nil)
  BY <1>2, <1>3 DEF Red
<1>5. Shape(u, I)
  <2>1. \A m \in Node : \A s \in Sides : u.child[s][m] \in I \cup {Nil}
    BY <1>1, <1>3 DEF Shape
  <2>2. /\ \A m \in I : \A s \in Sides : t.child[s][m] # Nil =>
             t.child[s][m] \in I /\ t.parent[t.child[s][m]] = m
        /\ \A m \in I : t.parent[m] # Nil =>
             t.parent[m] \in I /\ \E s \in Sides : t.child[s][t.parent[m]] = m
        /\ \A m \in I : t.parent[m] = Nil <=> t.root = m
        /\ t.root \in I \cup {Nil}
        /\ \A m \in I : t.child["left"][m] = t.child["right"][m] => t.child["left"][m] = Nil
    BY <1>1, <1>2 DEF Shape
  <2>3. \A m \in I : \A s \in Sides : u.child[s][m] # Nil => u.parent[u.child[s][m]] = m
    BY <1>4, <2>2
  <2>4. \A m \in I : u.parent[m] # Nil =>
          u.parent[m] \in I /\ \E s \in Sides : u.child[s][u.parent[m]] = m
    BY <1>4, <2>2
  <2>5. \A m \in I : u.child["left"][m] = u.child["right"][m] => u.child["left"][m] = Nil
    BY <1>4, <2>2, TwoSides
  <2>6. \A m \in I : u.parent[m] = Nil <=> u.root = m
    BY <1>3, <1>4, <2>2
  <2> QED BY <1>2, <1>3, <2>1, <2>2, <2>3, <2>4, <2>5, <2>6 DEF Shape
<1>6. Rises(u, I) /\ Falls(u, I)
  BY <1>1, <1>4 DEF Rises, Falls
<1>7. \E B : Ordered(u, I, K, B)
  <2>1. PICK B : Ordered(t, I, K, B)
    BY DEF SearchTree
  <2>2. Ordered(u, I, K, B)
    BY <1>3, <1>4, <2>1 DEF Ordered
  <2> QED BY <2>2
<1>8. Even(u, I, Nil, "left")
  <2>1. PICK h : Heights(h) /\ \A n \in I : EvenAt(t, h, n, Nil, "left")
    BY DEF Balanced, Even
  <2>2. \A n \in I : EvenAt(u, h, n, Nil, "left")
    BY <1>4, <2>1 DEF EvenAt, Level
  <2> QED BY <2>1, <2>2 DEF Even
<1>9. Apart(u, I, Nil)
  <2>1. \A n \in I, s \in Sides : t.child[s][n] \in I \cup {Nil}
    BY <1>1, ShapeFacts
  <2>2. Apart(t, I, Nil)
    BY DEF Balanced
  <2> QED BY <1>4, <2>1, <2>2 DEF Apart
<1>10. ~Red(u, Nil) /\ (Red(u, u.root) => u.root = Nil)
  <2>1. ~Red(t, Nil) /\ (Red(t, t.root) => t.root = Nil) /\ t.root \in I \cup {Nil}
    BY <1>1 DEF Balanced, Shape
  <2> QED BY <1>3, <1>4, <2>1
<1>11. SearchTree(u, I, K)
  BY <1>5, <1>6, <1>7 DEF SearchTree
<1>12. Balanced(u, I, Nil, Nil, "left")
  BY <1>8, <1>9, <1>10 DEF Balanced
<1> QED BY <1>11, <1>12

\* At the end of an insertion painting the root black leaves the tree balanced.
LEMMA InsertionEnds ==
  ASSUME NEW t, NEW I, NEW K, NEW c, Inserting(t, I, K, c), c = t.root \/ ~Red(t, t.parent[c]),
         NEW u, u = Painted(t, {t.root}, "black")
  PROVE  SearchTree(u, I, K) /\ Keeps(t, u, I) /\ Balanced(u, I, Nil, Nil, "left")
<1>1. /\ SearchTree(t, I, K) /\ Balanced(t, I, c, Nil, "left") /\ c \in I
      /\ \A s \in Sides : ~Red(t, t.child[s][c])
  BY DEF Inserting
<1>2. Shape(t, I) /\ t.root \in I \cup {Nil} /\ I \subseteq Node
  BY <1>1 DEF SearchTree, Shape
<1>3. Balanced(t, I, t.root, Nil, "left")
  <2>1. CASE c = t.root
    BY <1>1, <2>1
  <2>2. CASE c # t.root
    <3>1. ~Red(t, t.parent[c])
      BY <2>2
    <3>2. Apart(t, I, Nil)
      <4>1. SUFFICES ASSUME NEW n \in I, NEW s \in Sides, Red(t, n), Red(t, t.child[s][n]) PROVE FALSE
        BY DEF Apart
      <4>2. c \in {n, t.child[s][n]}
        BY <1>1, <4>1 DEF Balanced, Apart
      <4>3. c = t.child[s][n] /\ c # Nil
        BY <1>1, <1>2, <4>1, <4>2, NilIsNoNode
      <4>4. t.parent[c] = n
        BY <1>2, <4>1, <4>3, ShapeFacts
      <4> QED BY <3>1, <4>1, <4>4
    <3>3. Balanced(t, I, Nil, Nil, "left")
      BY <1>1, <2>2, <3>2 DEF Balanced
    <3> QED BY <1>2, <3>3, BalancedAnyway
  <2> QED BY <2>1, <2>2
<1>4. PICK r : r = t.root
  OBVIOUS
<1>5. SearchTree(u, I, K)
  BY <1>1, <1>2, <1>3, <1>4, PaintedBlack
<1>6. Keeps(t, u, I)
  BY <1>1, <1>2, <1>3, <1>4, <1>5, PaintedBlack
<1>7. Balanced(u, I, Nil, Nil, "left")
  BY <1>1, <1>2, <1>3, <1>4, <1>5, PaintedBlack
<1> QED BY <1>5, <1>6, <1>7

\* At the end of a removal painting the node black gives back what is missing.
LEMMA RemovalEnds ==
  ASSUME NEW t, NEW I, NEW K, NEW x, Removing(t, I, K, x), x = t.root \/ Red(t, x),
         NEW u, u = Painted(t, {x}, "black")
  PROVE  SearchTree(u, I, K) /\ Keeps(t, u, I) /\ Balanced(u, I, Nil, Nil, "left")
<1>1. SearchTree(t, I, K) /\ x \in I \cup {Nil}
  BY DEF Removing
<1>2. \E p, q : /\ Balanced(t, I, x, p, q)
                /\ \/ x = t.root /\ p = Nil
                   \/ Red(t, x) /\ x # t.root /\ p = t.parent[x] /\ q \in Sides /\ t.child[q][p] = x
  <2>1. CASE x = t.root
    BY <2>1 DEF Removing
  <2>2. CASE x # t.root
    <3>1. SideOf(t, x) \in Sides
      BY TwoSides DEF SideOf
    <3> QED BY <2>2, <3>1 DEF Removing
  <2> QED BY <2>1, <2>2
<1>3. PICK p, q : /\ Balanced(t, I, x, p, q)
                  /\ \/ x = t.root /\ p = Nil
                     \/ Red(t, x) /\ x # t.root /\ p = t.parent[x] /\ q \in Sides /\ t.child[q][p] = x
  BY <1>2
<1>4. SearchTree(u, I, K)
  BY <1>1, <1>3, PaintedBlack
<1>5. Keeps(t, u, I)
  BY <1>1, <1>3, <1>4, PaintedBlack
<1>6. Balanced(u, I, Nil, Nil, "left")
  BY <1>1, <1>3, <1>4, PaintedBlack
<1> QED BY <1>4, <1>5, <1>6

-----------------------------------------------------------------------------
(* The beginnings of the calls.                                            *)

\* A new node is red and has no children.
LEMMA LinkedInserting ==
  ASSUME NEW t, NEW I, NEW K, SearchTree(t, I, K), Balanced(t, I, Nil, Nil, "left"),
         NEW n \in Node \ I, NEW p \in I \cup {Nil}, NEW side \in Sides,
         p = Nil => t.root = Nil /\ I = {}, p # Nil => t.child[side][p] = Nil,
         NEW u, Joined(t, u, n, p, side),
         \A m \in Pointer : u.color[m] = IF m = n THEN "red" ELSE t.color[m],
         NEW L, SearchTree(u, I \cup {n}, L)
  PROVE  Inserting(u, I \cup {n}, L, n)
<1> DEFINE J == I \cup {n}
<1>1. Shape(t, I) /\ Shape(u, J) /\ SearchTree(u, J, L)
  BY DEF SearchTree
<1>2. /\ n \in Node /\ n \in Pointer /\ Nil \in Pointer /\ Nil # n /\ I \subseteq Node
      /\ \A m \in I : m # n /\ m \in Node /\ m \in Pointer /\ m # Nil
  BY <1>1, NilIsNoNode DEF Shape
<1>3. /\ u.root = (IF p = Nil THEN n ELSE t.root)
      /\ \A m \in Node, s \in Sides :
           u.child[s][m] = IF m = n THEN Nil ELSE IF m = p /\ s = side THEN n ELSE t.child[s][m]
  BY DEF Joined
<1>4. Red(u, n) /\ \A m \in Pointer : m # n => (Red(u, m) <=> Red(t, m))
  BY <1>2 DEF Red
<1>5. ~Red(t, Nil) /\ ~Red(t, t.root) /\ Apart(t, I, Nil)
  BY DEF Balanced
<1>6. ~Red(u, Nil)
  BY <1>2, <1>4, <1>5
<1>7. \A m \in I, s \in Sides : t.child[s][m] \in I \cup {Nil}
  BY <1>1, ShapeFacts
<1>8. PICK h : Heights(h) /\ \A m \in I : EvenAt(t, h, m, Nil, "left")
  BY DEF Balanced, Even
<1> DEFINE k == [m \in Pointer |-> IF m = n THEN 1 ELSE h[m]]
<1>9. Heights(k) /\ \A m \in Pointer : k[m] = IF m = n THEN 1 ELSE h[m]
  <2>1. h \in [Pointer -> Nat] /\ h[Nil] = 1
    BY <1>8 DEF Heights
  <2> QED BY <1>2, <2>1 DEF Heights
<1> HIDE DEF k
<1>10. ASSUME NEW m \in J, NEW s \in Sides
       PROVE  k[m] = k[u.child[s][m]] + Level(u, m) + Lack(m, s, Nil, "left")
  <2>1. Lack(m, s, Nil, "left") = 0
    BY <1>2, NoLack
  <2>2. k[Nil] = 1
    BY <1>9 DEF Heights
  <2>3. CASE m = n
    <3>1. k[m] = 1 /\ u.child[s][m] = Nil /\ Level(u, m) = 0
      BY <1>2, <1>3, <1>4, <1>9, <2>3 DEF Level
    <3> QED BY <2>1, <2>2, <3>1
  <2>4. CASE m # n
    <3>1. m \in I /\ Level(u, m) = Level(t, m) /\ k[m] = h[m]
      BY <1>2, <1>4, <1>9, <2>4 DEF Level
    <3>2. h[m] = h[t.child[s][m]] + Level(t, m) /\ h[Nil] = 1
      BY <1>1, <1>2, <1>8, <3>1, EvenIs DEF Heights
    <3>3. CASE m = p /\ s = side
      <4>1. t.child[s][m] = Nil /\ u.child[s][m] = n
        BY <1>2, <1>3, <2>4, <3>1, <3>3
      <4>2. k[n] = 1
        BY <1>2, <1>9
      <4>3. h[m] = 1 + Level(t, m) /\ Level(t, m) \in Nat
        BY <3>2, <4>1 DEF Level
      <4> QED BY <2>1, <3>1, <4>1, <4>2, <4>3
    <3>4. CASE ~(m = p /\ s = side)
      <4>1. u.child[s][m] = t.child[s][m]
        BY <1>2, <1>3, <2>4, <3>1, <3>4
      <4>2. k[t.child[s][m]] = h[t.child[s][m]]
        BY <1>2, <1>7, <1>9, <3>1
      <4>3. h[t.child[s][m]] \in Nat /\ Level(t, m) \in Nat
        BY <1>1, <1>2, <1>8, <3>1, EvenIs
      <4> QED BY <2>1, <3>1, <3>2, <4>1, <4>2, <4>3
    <3> QED BY <3>3, <3>4
  <2> QED BY <2>3, <2>4
<1>11. Even(u, J, Nil, "left")
  BY <1>9, <1>10 DEF Even, EvenAt
<1>12. Apart(u, J, n)
  <2>1. SUFFICES ASSUME NEW m \in J, NEW s \in Sides, Red(u, m), Red(u, u.child[s][m]),
                        n # m, n # u.child[s][m]
                 PROVE  FALSE
    BY DEF Apart
  <2>2. m \in I /\ u.child[s][m] = t.child[s][m] /\ t.child[s][m] \in Pointer
    BY <1>2, <1>3, <1>7, <2>1
  <2>3. Red(t, m) /\ Red(t, t.child[s][m])
    BY <1>2, <1>4, <2>1, <2>2
  <2>4. Nil \in {m, t.child[s][m]}
    BY <1>5, <2>2, <2>3 DEF Apart
  <2> QED BY <1>2, <1>5, <2>2, <2>3, <2>4
<1>13. Red(u, u.root) => u.root = n
  <2>1. t.root \in Pointer
    BY <1>1, <1>2 DEF Shape
  <2> QED BY <1>3, <1>4, <1>5, <2>1
<1>14. \A s \in Sides : ~Red(u, u.child[s][n])
  BY <1>2, <1>3, <1>6
<1>15. Balanced(u, J, n, Nil, "left")
  BY <1>6, <1>11, <1>12, <1>13 DEF Balanced
<1> QED BY <1>1, <1>4, <1>14, <1>15 DEF Inserting

\* Unlinking a red node leaves the tree balanced; above the place of a black one a
\* black node is missing.
LEMMA UnlinkedRemoving ==
  ASSUME NEW t, NEW I, NEW K, SearchTree(t, I, K), Balanced(t, I, Nil, Nil, "left"),
         NEW y \in I, NEW side \in Sides, t.child[Other(side)][y] = Nil,
         NEW x, x = t.child[side][y], NEW u, Replaced(t, u, I, y, x),
         NEW L, SearchTree(u, I \ {y}, L)
  PROVE  /\ Red(t, y) => Balanced(u, I \ {y}, Nil, Nil, "left")
         /\ ~Red(t, y) => Removing(u, I \ {y}, L, x)
<1> DEFINE J == I \ {y}
           q == t.parent[y]
           r == SideOf(t, y)
<1>1. Shape(t, I) /\ Rises(t, I) /\ Shape(u, J) /\ SearchTree(u, J, L)
  BY DEF SearchTree
<1>2. I \subseteq Node /\ Nil \in Pointer /\ \A m \in I : m # Nil /\ m \in Node /\ m \in Pointer
  BY <1>1, NilIsNoNode DEF Shape
<1>3. /\ u.color = t.color
      /\ u.root = (IF q = Nil THEN x ELSE t.root)
      /\ \A m \in Pointer : u.parent[m] = IF m = x THEN q ELSE t.parent[m]
      /\ \A m \in I, s \in Sides : u.child[s][m] = IF t.child[s][m] = y THEN x ELSE t.child[s][m]
  BY DEF Replaced
<1>4. \A m : Red(u, m) <=> Red(t, m)
  BY <1>3 DEF Red
<1>5. ~Red(t, Nil) /\ ~Red(t, t.root) /\ Apart(t, I, Nil)
  BY DEF Balanced
<1>6. \A m \in I, s \in Sides : ~(Red(t, m) /\ Red(t, t.child[s][m]))
  BY <1>2, <1>5 DEF Apart
<1>7. /\ x \in J \cup {Nil} /\ x # y /\ q # y /\ q \in I \cup {Nil}
      /\ (x # Nil => t.parent[x] = y)
  BY <1>1, NoLoops, ShapeFacts
<1>8. q # Nil => r \in Sides /\ t.child[r][q] = y
  BY <1>1, SideOfIs
<1>9. PICK h : Heights(h) /\ \A m \in I : EvenAt(t, h, m, Nil, "left")
  BY DEF Balanced, Even
<1>10. h[y] = h[x] + Level(t, y) /\ h[x] \in Nat /\ Level(t, y) \in Nat
  BY <1>1, <1>2, <1>9, EvenIs
<1>11. ASSUME NEW m \in J, NEW s \in Sides
       PROVE  /\ h[m] = h[t.child[s][m]] + Level(t, m) /\ h[t.child[s][m]] \in Nat
              /\ Level(t, m) \in Nat /\ Level(u, m) = Level(t, m) /\ Lack(m, s, Nil, "left") = 0
              /\ t.child[s][m] = y => m = q /\ s = r
  <2>1. /\ h[m] = h[t.child[s][m]] + Level(t, m) /\ h[t.child[s][m]] \in Nat
        /\ Level(t, m) \in Nat
    BY <1>1, <1>2, <1>9, EvenIs
  <2>2. Level(u, m) = Level(t, m)
    BY <1>4 DEF Level
  <2>3. t.child[s][m] = y => m = q /\ s = r
    <3>1. t.child[s][m] = y => m = q
      BY <1>1, <1>2, ShapeFacts
    <3> QED BY <1>1, <1>2, <3>1, SideOfIs
  <2> QED BY <1>2, <2>1, <2>2, <2>3, NoLack
<1> HIDE DEF J, q, r
<1>20. J \subseteq I /\ y \notin J /\ q = t.parent[y] /\ r = SideOf(t, y)
  BY DEF J, q, r
<1>12. ASSUME Red(t, y) PROVE Balanced(u, J, Nil, Nil, "left")
  <2>1. h[y] = h[x]
    BY <1>10, <1>12 DEF Level
  <2>2. ASSUME NEW m \in J, NEW s \in Sides
        PROVE  h[m] = h[u.child[s][m]] + Level(u, m) + Lack(m, s, Nil, "left")
    <3>1. h[u.child[s][m]] = h[t.child[s][m]]
      BY <1>3, <1>20, <2>1
    <3> QED BY <1>11, <3>1
  <2>3. Even(u, J, Nil, "left")
    BY <1>9, <2>2 DEF Even, EvenAt
  <2>4. ASSUME NEW m \in J, NEW s \in Sides, Red(u, m), Red(u, u.child[s][m]) PROVE FALSE
    <3>1. Red(t, m) /\ t.child[s][m] # y
      BY <1>4, <1>6, <1>12, <1>20, <2>4
    <3> QED BY <1>3, <1>4, <1>6, <1>20, <2>4, <3>1
  <2>5. y # t.root
    BY <1>5, <1>12
  <2>6. u.root = t.root
    BY <1>1, <1>3, <1>20, <2>5 DEF Shape
  <2> QED BY <1>4, <1>5, <2>3, <2>4, <2>6 DEF Balanced, Apart
<1>13. ASSUME ~Red(t, y) PROVE Removing(u, J, L, x)
  <2>1. h[y] = h[x] + 1
    BY <1>10, <1>13 DEF Level
  <2>2. ASSUME NEW m \in J, NEW s \in Sides
        PROVE  h[m] = h[u.child[s][m]] + Level(u, m) + Lack(m, s, q, r)
    <3>1. CASE t.child[s][m] = y
      <4>1. u.child[s][m] = x /\ Lack(m, s, q, r) = 1
        BY <1>3, <1>11, <1>20, <3>1 DEF Lack
      <4>2. h[m] = h[y] + Level(t, m) /\ Level(t, m) \in Nat /\ Level(u, m) = Level(t, m)
        BY <1>11, <3>1
      <4> QED BY <1>10, <2>1, <4>1, <4>2
    <3>2. CASE t.child[s][m] # y
      <4>1. u.child[s][m] = t.child[s][m]
        BY <1>3, <1>20, <3>2
      <4>2. Lack(m, s, q, r) = 0
        BY <1>2, <1>8, <1>20, <3>2 DEF Lack
      <4> QED BY <1>11, <4>1, <4>2
    <3> QED BY <3>1, <3>2
  <2>3. Even(u, J, q, r)
    BY <1>9, <2>2 DEF Even, EvenAt
  <2>4. Apart(u, J, x)
    <3>1. SUFFICES ASSUME NEW m \in J, NEW s \in Sides, Red(u, m), Red(u, u.child[s][m]),
                          x # u.child[s][m]
                   PROVE  FALSE
      BY DEF Apart
    <3> QED BY <1>3, <1>4, <1>6, <1>20, <3>1
  <2>5. CASE q = Nil
    <3>1. u.root = x
      BY <1>3, <2>5
    <3>2. Balanced(u, J, x, q, r)
      BY <1>4, <1>5, <2>3, <2>4, <3>1 DEF Balanced
    <3>3. Even(u, J, Nil, r) => Even(u, J, Nil, "left")
      BY <1>2, <1>20 DEF Even, EvenAt, Lack
    <3>4. Balanced(u, J, x, Nil, "left")
      BY <2>5, <3>2, <3>3 DEF Balanced
    <3> QED BY <1>1, <1>7, <3>1, <3>4 DEF Removing
  <2>6. CASE q # Nil
    <3>1. q \in J /\ q \in I /\ u.root = t.root /\ r \in Sides /\ t.child[r][q] = y
      BY <1>3, <1>7, <1>8, <2>6 DEF J
    <3>2. u.child[r][q] = x /\ u.parent[x] = q
      BY <1>2, <1>3, <1>7, <1>20, <3>1
    <3>3. x # u.root
      <4>1. CASE x = Nil
        <5>1. t.root # Nil
          BY <1>1, <3>1, RootIs
        <5> QED BY <3>1, <4>1, <5>1
      <4>2. CASE x # Nil
        <5>1. t.parent[x] # Nil /\ x \in I
          BY <1>2, <1>7, <1>20, <4>2
        <5> QED BY <1>1, <3>1, <5>1 DEF Shape
      <4> QED BY <4>1, <4>2
    <3>4. SideOf(u, x) = r
      <4>1. CASE r = "left"
        BY <3>2, <4>1 DEF SideOf
      <4>2. CASE r = "right"
        <5> DEFINE z == t.child["left"][q]
        <5>1. z # y /\ u.child["left"][q] = z
          <6>1. z # y
            BY <1>1, <1>2, <3>1, <4>2, TwoSides, ShapeFacts
          <6> QED BY <1>3, <3>1, <6>1, TwoSides
        <5>2. z # x
          <6>1. CASE x = Nil
            <7>1. h[q] = h[z] + Level(t, q) /\ h[z] \in Nat
              BY <1>11, <3>1, TwoSides
            <7>2. h[q] = h[y] + Level(t, q) /\ Level(t, q) \in Nat
              BY <1>11, <3>1
            <7> HIDE DEF z
            <7>3. h[z] = h[x] + 1
              BY <1>10, <2>1, <7>1, <7>2
            <7> QED BY <1>10, <7>3
          <6>2. CASE x # Nil
            BY <1>1, <1>7, <3>1, <6>2, TwoSides, ShapeFacts
          <6> QED BY <6>1, <6>2
        <5> QED BY <3>2, <4>2, <5>1, <5>2 DEF SideOf
      <4> QED BY <3>1, <4>1, <4>2, TwoSides
    <3>5. Balanced(u, J, x, q, r)
      BY <1>4, <1>5, <2>3, <2>4, <3>1 DEF Balanced
    <3> QED BY <1>1, <1>7, <3>1, <3>2, <3>3, <3>4, <3>5 DEF Removing
  <2> QED BY <2>5, <2>6
<1> QED BY <1>12, <1>13 DEF J

\* What a turn of an insertion does.
InsertTurned(t, c, p, g, side, uncle, straight, low, u, next) ==
  /\ straight = IF c = t.child[Other(side)][p] THEN Rotated(side, t, p) ELSE t
  /\ low = IF c = t.child[Other(side)][p] THEN p ELSE c
  /\ u = IF Red(t, uncle) THEN Painted(Painted(t, {p, uncle}, "black"), {g}, "red")
         ELSE Rotated(Other(side), Painted(Painted(straight, {straight.parent[low]}, "black"),
                                           {g}, "red"), g)
  /\ next = IF Red(t, uncle) THEN g ELSE low

\* A turn of the loop of an insertion: a red uncle hands the trouble to the
\* grandparent, and otherwise the grandparent goes down.
LEMMA InsertingTurned ==
  ASSUME NEW t, NEW I, NEW K, NEW c, NEW p, NEW g, NEW side, NEW uncle,
         InsertingAt(t, I, K, c, p, g, side, uncle), NEW straight, NEW low, NEW u, NEW next,
         InsertTurned(t, c, p, g, side, uncle, straight, low, u, next)
  PROVE  Inserting(u, I, K, next) /\ Keeps(t, u, I)
<1>3. /\ straight = IF c = t.child[Other(side)][p] THEN Rotated(side, t, p) ELSE t
      /\ low = IF c = t.child[Other(side)][p] THEN p ELSE c
  BY DEF InsertTurned
<1>4. u = IF Red(t, uncle) THEN Painted(Painted(t, {p, uncle}, "black"), {g}, "red")
          ELSE Rotated(Other(side), Painted(Painted(straight, {straight.parent[low]}, "black"),
                                            {g}, "red"), g)
  BY DEF InsertTurned
<1>5. next = IF Red(t, uncle) THEN g ELSE low
  BY DEF InsertTurned
<1>1. CASE Red(t, uncle)
  <2>1. u = Painted(Painted(t, {p, uncle}, "black"), {g}, "red")
    BY <1>1, <1>4
  <2>2. Inserting(u, I, K, g)
    BY <1>1, <2>1, RedUncle
  <2>3. Keeps(t, u, I)
    BY <1>1, <2>1, RedUncle
  <2> QED BY <1>1, <1>5, <2>2, <2>3
<1>2. CASE ~Red(t, uncle)
  <2>1. PICK mid : mid = straight.parent[low]
    OBVIOUS
  <2>2. u = Rotated(Other(side), Painted(Painted(straight, {mid}, "black"), {g}, "red"), g)
    BY <1>2, <1>4, <2>1
  <2>3. Outside(straight, I, K, low, mid, g, side) /\ Keeps(t, straight, I)
    <3>1. CASE c = t.child[Other(side)][p]
      <4>1. straight = Rotated(side, t, p) /\ low = p
        BY <1>3, <3>1
      <4>2. Outside(straight, I, K, p, c, g, side)
        BY <1>2, <3>1, <4>1, InsideTurn
      <4>3. Keeps(t, straight, I)
        BY <1>2, <3>1, <4>1, InsideTurn
      <4>4. straight.parent[p] = c
        BY <1>2, <3>1, <4>1, InsideTurn
      <4> QED BY <2>1, <4>1, <4>2, <4>3, <4>4
    <3>2. CASE c # t.child[Other(side)][p]
      <4>1. straight = t /\ low = c
        BY <1>3, <3>2
      <4>2. Inserting(t, I, K, c) /\ p = t.parent[c] /\ Red(t, p)
        BY DEF InsertingAt
      <4>3. /\ p \in I /\ g \in I /\ side \in Sides /\ ~Red(t, g)
            /\ t.child[side][g] = p /\ t.child[Other(side)][g] = uncle
            /\ \A s \in Sides : s = side \/ s = Other(side)
            /\ \E s \in Sides : t.child[s][p] = c
        BY InsertNodes
      <4>4. t.child[side][p] = c
        BY <3>2, <4>3
      <4>5. Outside(t, I, K, c, p, g, side)
        BY <1>2, <4>2, <4>3, <4>4 DEF Outside
      <4>6. Keeps(t, t, I)
        BY DEF Keeps
      <4>7. mid = p
        BY <2>1, <4>1, <4>2
      <4> QED BY <4>1, <4>5, <4>6, <4>7
    <3> QED BY <3>1, <3>2
  <2>4. Inserting(u, I, K, low)
    BY <2>2, <2>3, OutsideTurn
  <2>5. Keeps(straight, u, I)
    BY <2>2, <2>3, OutsideTurn
  <2>6. Keeps(t, u, I)
    <3>1. Keeps(t, straight, I)
      BY <2>3
    <3>2. \A a, b, d : Keeps(a, b, I) /\ Keeps(b, d, I) => Keeps(a, d, I)
      BY DEF Keeps
    <3> QED BY <2>5, <3>1, <3>2, Zenon
  <2> QED BY <1>2, <1>5, <2>4, <2>6
<1> QED BY <1>1, <1>2

(***************************************************************************)
(* The invariant of the calls.                                             *)
(***************************************************************************)

Keys == [n \in Node |-> NodeKey(n)]

\* No call is running.
AtRest == call = Idle /\ Balanced(tree, InTree, Nil, Nil, "left")

\* An insertion is: at its node two red nodes may meet.
AtInsertion ==
  /\ call = [op |-> "insert", node |-> call.node, gone |-> Nil]
  /\ Inserting(tree, InTree, Keys, call.node)

\* A removal is: above its node a black node is missing if a black one went.
AtRemoval ==
  /\ call = [op |-> "remove", node |-> call.node, gone |-> call.gone]
  /\ call.gone \in Allocated /\ call.node \in InTree \cup {Nil}
  /\ Red(tree, call.gone) => Balanced(tree, InTree, Nil, Nil, "left")
  /\ ~Red(tree, call.gone) => Removing(tree, InTree, Keys, call.node)

IInv ==
  /\ entry \in [Node -> Entries \cup {None}] /\ count = Cardinality(Allocated)
  /\ \A n \in Node \ Allocated, s \in Sides : tree.child[s][n] = Nil
  /\ SearchTree(tree, InTree, Keys)
  /\ AtRest \/ AtInsertion \/ AtRemoval

\* A tree without nodes.
LEMMA EmptyTree ==
  ASSUME NEW t \in Tree, t.root = Nil, \A n \in Node, s \in Sides : t.child[s][n] = Nil,
         ~Red(t, Nil), NEW K
  PROVE  SearchTree(t, {}, K) /\ Balanced(t, {}, Nil, Nil, "left")
<1>1. Shape(t, {}) /\ Rises(t, {}) /\ Falls(t, {})
  BY DEF Shape, Rises, Falls
<1>2. \E B : Ordered(t, {}, K, B)
  <2>1. PICK B : B = [s \in Sides |-> [n \in Node |-> {}]]
    OBVIOUS
  <2>2. B \in Bounds
    BY <2>1 DEF Bounds
  <2> QED BY <2>2 DEF Ordered
<1>3. Even(t, {}, Nil, "left")
  <2>1. PICK h : h = [n \in Pointer |-> 1]
    OBVIOUS
  <2>2. Heights(h)
    BY <2>1, NilIsNoNode DEF Heights
  <2> QED BY <2>2 DEF Even
<1>4. Apart(t, {}, Nil)
  BY DEF Apart
<1> QED BY <1>1, <1>2, <1>3, <1>4 DEF SearchTree, Balanced

\* Initially there is nothing.
LEMMA InitIInv == Init => IInv
<1> SUFFICES ASSUME Init PROVE IInv
  OBVIOUS
<1>1. tree = Empty /\ entry = [n \in Node |-> None] /\ count = 0 /\ call = Idle
  BY DEF Init
<1>2. Allocated = {} /\ InTree = {}
  BY <1>1 DEF Allocated, InTree
<1>3. /\ tree \in Tree /\ tree.root = Nil /\ ~Red(tree, Nil)
      /\ \A n \in Node, s \in Sides : tree.child[s][n] = Nil
  BY <1>1, NilIsNoNode DEF Empty, Tree, Red
<1>4. SearchTree(tree, {}, Keys) /\ Balanced(tree, {}, Nil, Nil, "left")
  BY <1>3, EmptyTree
<1>5. count = Cardinality(Allocated)
  BY <1>1, <1>2, FS_EmptySet
<1> QED BY <1>1, <1>2, <1>3, <1>4, <1>5 DEF IInv, AtRest

\* What the entries say: a node that is allocated has one, and with it a key.
LEMMA InvFacts ==
  ASSUME IInv
  PROVE  /\ Allocated \subseteq Node /\ IsFiniteSet(Allocated) /\ InTree \subseteq Allocated
         /\ \A n \in Allocated : entry[n] \in Entries /\ NodeKey(n) \in Key /\ NodeKey(n) \in Int
         /\ \A n \in InTree : Keys[n] = NodeKey(n)
         /\ IsIdle => AtRest /\ InTree = Allocated /\ call.gone = Nil
<1>1. Allocated \subseteq Node /\ InTree \subseteq Allocated
  BY DEF Allocated, InTree
<1>2. IsFiniteSet(Allocated)
  BY <1>1, TreeAssumption, FS_Subset
<1>3. \A n \in Allocated : entry[n] \in Entries
  BY DEF IInv, Allocated
<1>4. \A n \in Allocated : NodeKey(n) \in Key /\ NodeKey(n) \in Int
  BY <1>3, TreeAssumption DEF NodeKey
<1>5. \A n \in InTree : Keys[n] = NodeKey(n)
  BY <1>1 DEF Keys
<1>6. IsIdle => AtRest
  BY DEF IInv, AtInsertion, AtRemoval, IsIdle
<1>7. AtRest => InTree = Allocated /\ call.gone = Nil
  BY <1>1, NilIsNoNode DEF AtRest, Idle, InTree
<1> QED BY <1>1, <1>2, <1>3, <1>4, <1>5, <1>6, <1>7

\* There is memory for every key.
LEMMA RoomIs ==
  ASSUME IInv, IsIdle, NEW k \in Key, \A n \in Allocated : NodeKey(n) # k
  PROVE  \E n \in Node : n \notin Allocated
<1>1. SUFFICES ASSUME Allocated = Node PROVE FALSE
  BY InvFacts
<1>2. IsFiniteSet(Key \ {k}) /\ Cardinality(Key \ {k}) = Cardinality(Key) - 1
  BY TreeAssumption, FS_RemoveElement
<1>3. IsFiniteSet(Node) /\ Cardinality(Key) \in Nat /\ Cardinality(Node) \in Nat
      /\ Cardinality(Node) >= Cardinality(Key)
  BY TreeAssumption, FS_CardinalityType
<1>4. Cardinality(Key \ {k}) < Cardinality(Node)
  BY <1>2, <1>3
<1>5. Keys \in [Node -> Key \ {k}]
  BY <1>1, InvFacts DEF Keys
<1>6. PICK m \in Node, n \in Node : m # n /\ Keys[m] = Keys[n]
  BY <1>2, <1>3, <1>4, <1>5, FS_PigeonHole
<1>7. InTree = Node /\ SearchTree(tree, InTree, Keys)
  BY <1>1, InvFacts DEF IInv
<1>8. PICK B : Shape(tree, InTree) /\ Rises(tree, InTree) /\ Ordered(tree, InTree, Keys, B)
  BY <1>7 DEF SearchTree
<1> QED BY <1>6, <1>7, <1>8, KeysDiffer

\* What a search finds in a state.
LEMMA FoundIs ==
  ASSUME IInv, NEW k \in Int
  PROVE  /\ Find(k) \in InTree \cup {Nil}
         /\ Find(k) # Nil => NodeKey(Find(k)) = k
         /\ \A n \in InTree : NodeKey(n) = k => Find(k) = n
<1>1. PICK I, K : I = InTree /\ K = Keys
  OBVIOUS
<1>2. SearchTree(tree, I, K) /\ \A n \in I : K[n] = NodeKey(n)
  BY <1>1, InvFacts DEF IInv
<1>3. /\ Find(k) \in I \cup {Nil} /\ (Find(k) # Nil => K[Find(k)] = k)
      /\ \A m \in I : K[m] = k => Find(k) = m
  BY <1>2, FindFinds
<1> QED BY <1>1, <1>2, <1>3

\* An insertion puts the entry of a new key at a node that was free.
LEMMA InsertChanges ==
  ASSUME IInv, NEW e \in Entries, Insert(e), Find(e[1]) = Nil
  PROVE  \E n \in Node \ Allocated :
           /\ tree' = Linked(tree, n, e[1]) /\ count' = count + 1
           /\ call' = [op |-> "insert", node |-> n, gone |-> Nil]
           /\ entry' \in [Node -> Entries \cup {None}]
           /\ \A m \in Node : entry'[m] = IF m = n THEN e ELSE entry[m]
           /\ Allocated' = Allocated \cup {n} /\ InTree' = Allocated \cup {n}
           /\ \A m \in Allocated : NodeKey(m) # e[1]
<1>1. IsIdle /\ InTree = Allocated /\ Allocated \subseteq Node
  BY InvFacts DEF Insert
<1>2. PICK k, n : k = e[1] /\ n = CHOOSE m \in Node : m \notin Allocated
  OBVIOUS
<1>3. k \in Key /\ k \in Int /\ e # None
  BY <1>2, TreeAssumption
<1>4. \A m \in Allocated : NodeKey(m) # k
  <2>1. \A m \in InTree : NodeKey(m) = k => Find(k) = m
    BY <1>3, FoundIs
  <2> QED BY <1>1, <1>2, <2>1, NilIsNoNode
<1>5. n \in Node /\ n \notin Allocated /\ n # Nil
  <2>1. \E m \in Node : m \notin Allocated
    BY <1>1, <1>3, <1>4, RoomIs
  <2> QED BY <1>2, <2>1, NilIsNoNode
<1>6. /\ tree' = Linked(tree, n, k) /\ entry' = [entry EXCEPT ![n] = e] /\ count' = count + 1
      /\ call' = [op |-> "insert", node |-> n, gone |-> Nil]
  BY <1>2 DEF Insert
<1>7. entry' \in [Node -> Entries \cup {None}]
      /\ \A m \in Node : entry'[m] = IF m = n THEN e ELSE entry[m]
  BY <1>5, <1>6 DEF IInv
<1>8. Allocated' = Allocated \cup {n} /\ InTree' = Allocated \cup {n}
  <2>1. Allocated' = Allocated \cup {n}
    BY <1>3, <1>5, <1>7 DEF Allocated
  <2>2. InTree' = Allocated' \ {Nil}
    BY <1>6 DEF InTree
  <2> QED BY <1>1, <1>5, <2>1, <2>2, NilIsNoNode
<1> QED BY <1>2, <1>4, <1>5, <1>6, <1>7, <1>8

\* Inserting.
LEMMA InsertIInv == ASSUME IInv, NEW e \in Entries, Insert(e) PROVE IInv'
<1>1. IsIdle /\ AtRest /\ InTree = Allocated /\ Allocated \subseteq Node /\ IsFiniteSet(Allocated)
  BY InvFacts DEF Insert
<1>2. CASE Find(e[1]) # Nil
  <2>1. UNCHANGED <<tree, entry, count, call>>
    BY <1>2 DEF Insert
  <2> QED BY <2>1 DEF IInv, Allocated, InTree, Keys, NodeKey, AtRest, AtInsertion, AtRemoval
<1>3. CASE Find(e[1]) = Nil
  <2>1. PICK n \in Node \ Allocated :
          /\ tree' = Linked(tree, n, e[1]) /\ count' = count + 1
          /\ call' = [op |-> "insert", node |-> n, gone |-> Nil]
          /\ entry' \in [Node -> Entries \cup {None}]
          /\ \A m \in Node : entry'[m] = IF m = n THEN e ELSE entry[m]
          /\ Allocated' = Allocated \cup {n} /\ InTree' = Allocated \cup {n}
          /\ \A m \in Allocated : NodeKey(m) # e[1]
    BY <1>3, InsertChanges
  <2>2. PICK k, I, K, L, u : k = e[1] /\ I = Allocated /\ K = Keys /\ L = Keys' /\ u = tree'
    OBVIOUS
  <2>3. k \in Int
    BY <2>2, TreeAssumption
  <2>9. /\ SearchTree(tree, I, K) /\ Balanced(tree, I, Nil, Nil, "left") /\ n \in Node \ I
        /\ \A m \in I : K[m] = NodeKey(m) /\ K[m] # k
        /\ \A m \in Node \ I, s \in Sides : tree.child[s][m] = Nil
    BY <1>1, <2>1, <2>2, InvFacts DEF IInv, AtRest
  <2>10. L[n] = k /\ \A m \in I : L[m] = K[m]
    <3>1. /\ \A m \in Node : L[m] = entry'[m][1]
          /\ \A m \in Node : K[m] = entry[m][1]
      BY <2>2 DEF Keys, NodeKey
    <3> QED BY <1>1, <2>1, <2>2, <3>1
  <2>11. /\ SearchTree(u, I \cup {n}, L)
         /\ Grown(tree, u, I, n)
         /\ \A m \in Pointer : u.color[m] = IF m = n THEN "red" ELSE tree.color[m]
    <3>1. u = Linked(tree, n, k)
      BY <2>1, <2>2
    <3>2. SearchTree(tree, I, K) /\ n \in Node \ I /\ k \in Int /\ L[n] = k
      BY <2>3, <2>9, <2>10
    <3>3. \A m \in I : K[m] = NodeKey(m)
      BY <2>9
    <3>4. \A m \in I : K[m] # k
      BY <2>9
    <3>5. \A m \in I : L[m] = K[m]
      BY <2>10
    <3>6. SearchTree(u, I \cup {n}, L)
      BY <3>1, <3>2, <3>3, <3>4, <3>5, LinkedTree
    <3>7. Grown(tree, u, I, n)
      BY <3>1, <3>6, <3>2, <3>3, <3>4, <3>5, LinkedTree
    <3>8. \A m \in Pointer : u.color[m] = IF m = n THEN "red" ELSE tree.color[m]
      BY <3>1, <3>6, <3>2, <3>3, <3>4, <3>5, LinkedTree
    <3> QED BY <3>6, <3>7, <3>8
  <2>12. PICK p \in I \cup {Nil}, side \in Sides :
           /\ Joined(tree, u, n, p, side)
           /\ p = Nil => tree.root = Nil /\ I = {}
           /\ p # Nil => tree.child[side][p] = Nil
    BY <2>11 DEF Grown
  <2>13. Inserting(u, I \cup {n}, L, n)
    BY <2>9, <2>11, <2>12, LinkedInserting
  <2>14. \A m \in Node \ (I \cup {n}), s \in Sides : u.child[s][m] = Nil
    BY <2>9, <2>12, NilIsNoNode DEF Joined
  <2>15. count' = Cardinality(I \cup {n})
    <3>1. Cardinality(I \cup {n}) = Cardinality(I) + 1
      BY <1>1, <2>1, <2>2, FS_AddElement
    <3> QED BY <2>1, <2>2, <3>1 DEF IInv
  <2>16. AtInsertion'
    BY <2>1, <2>2, <2>13 DEF AtInsertion
  <2> QED BY <2>1, <2>2, <2>11, <2>14, <2>15, <2>16 DEF IInv
<1> QED BY <1>2, <1>3

\* A turn of an insertion.
LEMMA InsertTurnIInv == ASSUME IInv, InsertTurn PROVE IInv'
<1> DEFINE c == call.node
           p == tree.parent[c]
           g == tree.parent[p]
           side == SideOf(tree, p)
           uncle == tree.child[Other(side)][g]
           straight == IF c = tree.child[Other(side)][p] THEN Rotated(side, tree, p) ELSE tree
           low == IF c = tree.child[Other(side)][p] THEN p ELSE c
           next == IF Red(tree, uncle) THEN g ELSE low
<1>1. InsertGoesOn /\ AtInsertion
  <2>1. InsertGoesOn
    BY Zenon DEF InsertTurn
  <2>2. call.op = "insert"
    BY <2>1 DEF InsertGoesOn
  <2>3. AtRest \/ AtInsertion \/ AtRemoval
    BY DEF IInv
  <2> QED BY <2>1, <2>2, <2>3 DEF AtRest, AtRemoval, Idle
<1>2. /\ tree' = IF Red(tree, uncle) THEN Painted(Painted(tree, {p, uncle}, "black"), {g}, "red")
                 ELSE Rotated(Other(side), Painted(Painted(straight, {straight.parent[low]}, "black"),
                                                   {g}, "red"), g)
      /\ call' = [call EXCEPT !.node = next]
      /\ UNCHANGED <<entry, count>>
  BY Zenon DEF InsertTurn
<1>3. PICK I, K, u : I = InTree /\ K = Keys /\ u = tree'
  OBVIOUS
<1>4. InsertingAt(tree, I, K, c, p, g, side, uncle)
  BY <1>1, <1>3 DEF AtInsertion, InsertGoesOn, InsertingAt
<1>5. Inserting(u, I, K, next) /\ Keeps(tree, u, I)
  <2>1. InsertTurned(tree, c, p, g, side, uncle, straight, low, u, next)
    BY <1>2, <1>3, Zenon DEF InsertTurned
  <2> HIDE DEF c, p, g, side, uncle, straight, low, next
  <2> QED BY <1>4, <2>1, InsertingTurned
<1> HIDE DEF p, g, side, uncle, straight, low, next
<1>6. call' = [op |-> "insert", node |-> next, gone |-> Nil]
  BY <1>1, <1>2 DEF AtInsertion
<1>7. Allocated' = Allocated /\ InTree' = I /\ Keys' = K
  BY <1>1, <1>2, <1>3, <1>6 DEF Allocated, InTree, Keys, NodeKey, AtInsertion
<1>8. SearchTree(u, I, K)
  BY <1>5 DEF Inserting
<1>9. \A n \in Node \ Allocated, s \in Sides : u.child[s][n] = Nil
  BY <1>3, <1>5 DEF Keeps, IInv, InTree
<1>10. AtInsertion'
  BY <1>3, <1>5, <1>6, <1>7 DEF AtInsertion
<1> QED BY <1>2, <1>3, <1>7, <1>8, <1>9, <1>10 DEF IInv

\* The end of an insertion.
LEMMA InsertReturnIInv == ASSUME IInv, InsertReturn PROVE IInv'
<1>1. call.op = "insert" /\ ~InsertGoesOn /\ tree' = Painted(tree, {tree.root}, "black")
      /\ call' = Idle /\ UNCHANGED <<entry, count>>
  BY DEF InsertReturn
<1>2. AtInsertion
  BY <1>1 DEF IInv, AtRest, AtRemoval, Idle
<1>3. PICK I, K, u, c : I = InTree /\ K = Keys /\ u = tree' /\ c = call.node
  OBVIOUS
<1>4. Inserting(tree, I, K, c) /\ (c = tree.root \/ ~Red(tree, tree.parent[c])) /\ call.gone = Nil
  BY <1>1, <1>2, <1>3 DEF AtInsertion, InsertGoesOn
<1>5. SearchTree(u, I, K) /\ Keeps(tree, u, I) /\ Balanced(u, I, Nil, Nil, "left")
  BY <1>1, <1>3, <1>4, InsertionEnds
<1>6. Allocated' = Allocated /\ InTree' = I /\ Keys' = K
  BY <1>1, <1>3, <1>4 DEF Allocated, InTree, Keys, NodeKey, Idle
<1>7. \A n \in Node \ Allocated, s \in Sides : u.child[s][n] = Nil
  BY <1>3, <1>5 DEF Keeps, IInv, InTree
<1>8. AtRest'
  BY <1>1, <1>3, <1>5, <1>6 DEF AtRest
<1> QED BY <1>1, <1>3, <1>5, <1>6, <1>7, <1>8 DEF IInv

\* A removal gives the entry of the node that is unlinked to the one it is unlinked
\* for.
LEMMA RemoveChanges ==
  ASSUME IInv, NEW k \in Key, Remove(k), Find(k) # Nil, NEW z, z = Find(k), NEW y, y = Victim(z)
  PROVE  /\ z \in Allocated /\ y \in Allocated /\ NodeKey(z) = k
         /\ entry' \in [Node -> Entries \cup {None}]
         /\ \A m \in Node : entry'[m] = IF m = z THEN entry[y] ELSE entry[m]
         /\ Allocated' = Allocated /\ InTree' = Allocated \ {y}
<1>1. IsIdle /\ InTree = Allocated /\ Allocated \subseteq Node
  BY InvFacts DEF Remove
<1>2. entry' = Moved(y, z) /\ call'.gone = y
  BY DEF Remove
<1>3. k \in Int
  BY TreeAssumption
<1>4. z \in Allocated /\ NodeKey(z) = k
  BY <1>1, <1>3, FoundIs
<1>5. y \in Allocated
  <2>1. PICK I, K : I = InTree /\ K = Keys
    OBVIOUS
  <2>2. SearchTree(tree, I, K)
    BY <2>1 DEF IInv
  <2>3. PICK B : Ordered(tree, I, K, B)
    BY <2>2 DEF SearchTree
  <2> QED BY <1>1, <1>4, <2>1, <2>2, <2>3, VictimIs
<1>6. entry' \in [Node -> Entries \cup {None}]
      /\ \A m \in Node : entry'[m] = IF m = z THEN entry[y] ELSE entry[m]
  BY <1>1, <1>2, <1>4, <1>5 DEF IInv, Moved
<1>7. Allocated' = Allocated
  BY <1>1, <1>4, <1>5, <1>6 DEF Allocated
<1>8. InTree' = Allocated \ {y}
  BY <1>2, <1>7 DEF InTree
<1> QED BY <1>4, <1>5, <1>6, <1>7, <1>8

\* Removing.
LEMMA RemoveIInv == ASSUME IInv, NEW k \in Key, Remove(k) PROVE IInv'
<1>1. IsIdle /\ AtRest /\ InTree = Allocated /\ Allocated \subseteq Node /\ call.gone = Nil
  BY InvFacts DEF Remove
<1>2. CASE Find(k) = Nil
  <2>1. UNCHANGED <<tree, entry, count, call>>
    BY <1>2 DEF Remove
  <2> QED BY <2>1 DEF IInv, Allocated, InTree, Keys, NodeKey, AtRest, AtInsertion, AtRemoval
<1>3. CASE Find(k) # Nil
  <2>1. PICK z, y, x : z = Find(k) /\ y = Victim(z) /\ x = OnlyChild(y)
    OBVIOUS
  <2>2. /\ tree' = Substituted(tree, y, x) /\ entry' = Moved(y, z) /\ count' = count
        /\ call' = [op |-> "remove", node |-> x, gone |-> y]
    BY <1>3, <2>1 DEF Remove
  <2>4. /\ z \in Allocated /\ y \in Allocated
        /\ entry' \in [Node -> Entries \cup {None}]
        /\ \A m \in Node : entry'[m] = IF m = z THEN entry[y] ELSE entry[m]
        /\ Allocated' = Allocated /\ InTree' = Allocated \ {y}
    BY <1>3, <2>1, RemoveChanges
  <2>5. PICK I, K, L, u : I = Allocated /\ K = Keys /\ L = Keys' /\ u = tree'
    OBVIOUS
  <2>6. /\ SearchTree(tree, I, K) /\ Balanced(tree, I, Nil, Nil, "left")
        /\ \A m \in Node \ I, s \in Sides : tree.child[s][m] = Nil
    BY <1>1, <2>5 DEF IInv, AtRest
  <2>9. L[z] = K[y] /\ \A m \in I \ {z} : L[m] = K[m]
    <3>1. /\ \A m \in Node : L[m] = entry'[m][1]
          /\ \A m \in Node : K[m] = entry[m][1]
      BY <2>5 DEF Keys, NodeKey
    <3> QED BY <1>1, <2>4, <2>5, <3>1
  <2>10. u = Substituted(tree, y, x)
    BY <2>2, <2>5
  <2>11. SearchTree(u, I \ {y}, L)
    BY <2>1, <2>4, <2>5, <2>6, <2>9, <2>10, UnlinkedTree
  <2>12. Replaced(tree, u, I, y, x) /\ x \in (I \ {y}) \cup {Nil}
    BY <2>1, <2>4, <2>5, <2>6, <2>9, <2>10, <2>11, UnlinkedTree
  <2>13. \E side \in Sides : tree.child[Other(side)][y] = Nil /\ x = tree.child[side][y]
    BY <2>1, <2>4, <2>5, <2>6, <2>9, <2>10, <2>11, UnlinkedTree
  <2>14. PICK side \in Sides : tree.child[Other(side)][y] = Nil /\ x = tree.child[side][y]
    BY <2>13
  <2>15. /\ Red(tree, y) => Balanced(u, I \ {y}, Nil, Nil, "left")
         /\ ~Red(tree, y) => Removing(u, I \ {y}, L, x)
    BY <2>4, <2>5, <2>6, <2>11, <2>12, <2>14, UnlinkedRemoving
  <2>16. Red(u, y) <=> Red(tree, y)
    BY <2>12 DEF Replaced, Red
  <2>18. \A m \in Node \ I, s \in Sides : u.child[s][m] = Nil
    BY <2>6, <2>12 DEF Replaced
  <2>19. AtRemoval'
    BY <2>2, <2>4, <2>5, <2>12, <2>15, <2>16 DEF AtRemoval
  <2> QED BY <2>2, <2>4, <2>5, <2>11, <2>18, <2>19 DEF IInv
<1> QED BY <1>2, <1>3

\* A turn of a removal.
LEMMA RemoveTurnIInv == ASSUME IInv, RemoveTurn PROVE IInv'
<1>1. RemoveGoesOn /\ call.op = "remove"
  BY Zenon DEF RemoveTurn, RemoveGoesOn
<1>2. AtRemoval
  BY <1>1 DEF IInv, AtRest, AtInsertion, Idle
<1>3. PICK I, K, u, x, p, side, t, w :
        /\ I = InTree /\ K = Keys /\ u = tree' /\ x = call.node /\ p = tree.parent[x]
        /\ side = SideOf(tree, x) /\ t = WithBlackSibling(side, x) /\ w = t.child[Other(side)][p]
  OBVIOUS
<1>4. Removing(tree, I, K, x) /\ x # tree.root /\ ~Red(tree, x) /\ ~Red(tree, call.gone)
  BY <1>1, <1>2, <1>3 DEF AtRemoval, RemoveGoesOn
<1>5. /\ IF \A s \in Sides : ~Red(t, t.child[s][w])
         THEN u = Painted(t, {w}, "red") /\ call' = [call EXCEPT !.node = p]
         ELSE u = Rebalanced(side, WithFarRed(side, t, w), p) /\ call' = [call EXCEPT !.node = u.root]
      /\ UNCHANGED <<entry, count>>
  BY <1>3, Zenon DEF RemoveTurn
<1>6. PICK y : y = IF \A s \in Sides : ~Red(t, t.child[s][w]) THEN p ELSE u.root
  OBVIOUS
<1>7. call' = [op |-> "remove", node |-> y, gone |-> call.gone]
  BY <1>2, <1>5, <1>6 DEF AtRemoval
<1>8. Removing(u, I, K, y) /\ Keeps(tree, u, I)
  <2>1. RemoveTurned(x, p, side, t, w, u, y)
    BY <1>3, <1>5, <1>6, Zenon DEF RemoveTurned
  <2> QED BY <1>4, <2>1, RemovingTurned
<1>9. Allocated' = Allocated /\ InTree' = I /\ Keys' = K
  BY <1>3, <1>5, <1>7, Zenon DEF Allocated, InTree, Keys, NodeKey
<1>10. call.gone \in Allocated /\ call.gone \in Node \ I
  BY <1>2, <1>3 DEF AtRemoval, InTree, Allocated
<1>11. ~Red(u, call.gone)
  BY <1>4, <1>8, <1>10 DEF Keeps, Red
<1>12. \A n \in Node \ Allocated, s \in Sides : u.child[s][n] = Nil
  BY <1>3, <1>8 DEF Keeps, IInv, InTree
<1>13. SearchTree(u, I, K) /\ y \in I \cup {Nil}
  BY <1>8 DEF Removing
<1>14. AtRemoval'
  BY <1>3, <1>7, <1>8, <1>9, <1>10, <1>11, <1>13 DEF AtRemoval
<1> QED BY <1>3, <1>5, <1>9, <1>12, <1>13, <1>14, Zenon DEF IInv

\* The end of a removal, where the node that was unlinked is deleted.
LEMMA RemoveReturnIInv == ASSUME IInv, RemoveReturn PROVE IInv'
<1>1. call.op = "remove" /\ ~RemoveGoesOn
  BY DEF RemoveReturn
<1>2. AtRemoval
  BY <1>1 DEF IInv, AtRest, AtInsertion, Idle
<1>3. PICK I, K, L, u, x, y, t :
        /\ I = InTree /\ K = Keys /\ L = Keys' /\ u = tree' /\ x = call.node /\ y = call.gone
        /\ t = IF Red(tree, y) THEN tree ELSE Painted(tree, {x}, "black")
  OBVIOUS
<1>4. /\ u = [t EXCEPT !.child = [s \in Sides |-> [@[s] EXCEPT ![y] = Nil]],
                       !.parent[y] = Nil, !.color[y] = "black"]
      /\ entry' = [entry EXCEPT ![y] = None] /\ count' = count - 1 /\ call' = Idle
  BY <1>3 DEF RemoveReturn
<1>5. y \in Allocated /\ y \in Node \ I /\ y \in Node /\ I = Allocated \ {y}
  BY <1>2, <1>3 DEF AtRemoval, InTree, Allocated
<1>6. SearchTree(tree, I, K)
  BY <1>3 DEF IInv
<1>7. SearchTree(t, I, K) /\ Keeps(tree, t, I) /\ Balanced(t, I, Nil, Nil, "left")
  <2>1. CASE Red(tree, y)
    <3>1. t = tree
      BY <1>3, <2>1
    <3> QED BY <1>2, <1>3, <1>6, <2>1, <3>1 DEF AtRemoval, Keeps
  <2>2. CASE ~Red(tree, y)
    <3>1. t = Painted(tree, {x}, "black")
      BY <1>3, <2>2
    <3>2. Removing(tree, I, K, x) /\ (x = tree.root \/ Red(tree, x))
      BY <1>1, <1>2, <1>3, <2>2 DEF AtRemoval, RemoveGoesOn
    <3> QED BY <3>1, <3>2, RemovalEnds
  <2> QED BY <2>1, <2>2
<1>8. Reset(t, u, y)
  <2>1. t \in Tree
    BY <1>7 DEF SearchTree, Shape
  <2> QED BY <1>4, <1>5, <2>1, ResetIs
<1>9. SearchTree(u, I, K) /\ Balanced(u, I, Nil, Nil, "left")
  BY <1>5, <1>7, <1>8, Forgotten
<1>10. /\ entry' \in [Node -> Entries \cup {None}]
       /\ \A n \in Node : entry'[n] = IF n = y THEN None ELSE entry[n]
  BY <1>4, <1>5 DEF IInv
<1>11. Allocated' = Allocated \ {y} /\ InTree' = I
  <2>1. Allocated' = Allocated \ {y}
    BY <1>5, <1>10 DEF Allocated
  <2>2. InTree' = Allocated' \ {Nil} /\ Allocated \subseteq Node
    BY <1>4 DEF InTree, Idle, Allocated
  <2> QED BY <1>5, <2>1, <2>2, NilIsNoNode
<1>12. SearchTree(u, I, L)
  <2>1. \A n \in I : L[n] = K[n]
    <3>1. /\ \A n \in Node : L[n] = entry'[n][1]
          /\ \A n \in Node : K[n] = entry[n][1]
      BY <1>3 DEF Keys, NodeKey
    <3> QED BY <1>5, <1>10, <3>1 DEF Allocated
  <2> QED BY <1>9, <2>1, SameKeys
<1>13. count' = Cardinality(Allocated')
  <2>1. Cardinality(Allocated \ {y}) = Cardinality(Allocated) - 1
    BY <1>5, InvFacts, FS_RemoveElement
  <2> QED BY <1>4, <1>11, <2>1 DEF IInv
<1>14. \A n \in Node \ I, s \in Sides : u.child[s][n] = Nil
  <2>1. SUFFICES ASSUME NEW n \in Node \ I, n # y, NEW s \in Sides PROVE u.child[s][n] = Nil
    BY <1>5, <1>8 DEF Reset
  <2>2. tree.child[s][n] = Nil
    BY <1>5, <2>1 DEF IInv
  <2>3. t.child[s][n] = Nil
    BY <1>7, <2>1, <2>2 DEF Keeps
  <2> QED BY <1>8, <2>1, <2>3 DEF Reset
<1>15. AtRest'
  BY <1>3, <1>4, <1>9, <1>11 DEF AtRest
<1> QED BY <1>3, <1>5, <1>10, <1>11, <1>12, <1>13, <1>14, <1>15 DEF IInv

\* Clearing.
LEMMA ClearIInv == ASSUME IInv, Clear PROVE IInv'
<1>1. /\ tree' = [Empty EXCEPT !.parent[Nil] = tree.parent[Nil]]
      /\ entry' = [n \in Node |-> None] /\ UNCHANGED call
      /\ count' = count - Cardinality({n \in Allocated : Find(NodeKey(n)) = n})
      /\ IsIdle
  BY DEF Clear
<1>2. AtRest /\ InTree = Allocated
  BY <1>1, InvFacts
<1>3. \A n \in Allocated : Find(NodeKey(n)) = n
  BY <1>2, InvFacts, FoundIs
<1>4. {n \in Allocated : Find(NodeKey(n)) = n} = Allocated
  BY <1>3
<1>5. Allocated' = {} /\ InTree' = {}
  BY <1>1 DEF Allocated, InTree
<1>6. count' = Cardinality(Allocated')
  <2>1. Cardinality(Allocated) \in Nat
    BY InvFacts, FS_CardinalityType
  <2>2. count' = 0
    BY <1>1, <1>4, <2>1 DEF IInv
  <2> QED BY <1>5, <2>2, FS_EmptySet
<1>7. PICK u, L : u = tree' /\ L = Keys'
  OBVIOUS
<1>8. /\ u \in Tree /\ u.root = Nil /\ ~Red(u, Nil)
      /\ \A n \in Node, s \in Sides : u.child[s][n] = Nil
  <2>1. tree.parent[Nil] \in Pointer
    BY NilIsNoNode DEF IInv, SearchTree, Shape, Tree
  <2> QED BY <1>1, <1>7, <2>1, NilIsNoNode DEF Empty, Tree, Red
<1>9. SearchTree(u, {}, L) /\ Balanced(u, {}, Nil, Nil, "left")
  BY <1>8, EmptyTree
<1>10. AtRest'
  BY <1>1, <1>2, <1>5, <1>7, <1>9 DEF AtRest
<1> QED BY <1>1, <1>5, <1>6, <1>7, <1>8, <1>9, <1>10 DEF IInv

\* The other steps leave alone what the invariant is about.
LEMMA SameIInv == ASSUME IInv, UNCHANGED <<tree, entry, count, call>> PROVE IInv'
BY DEF IInv, Allocated, InTree, Keys, NodeKey, AtRest, AtInsertion, AtRemoval

\* Every step keeps the invariant.
LEMMA NextIInv == ASSUME IInv, [Next]_vars PROVE IInv'
<1>1. CASE UNCHANGED vars
  BY <1>1, SameIInv DEF vars
<1>2. ASSUME NEW e \in Entries, Insert(e) PROVE IInv'
  BY <1>2, InsertIInv
<1>3. ASSUME NEW k \in Key, Remove(k) PROVE IInv'
  BY <1>3, RemoveIInv
<1>4. ASSUME NEW k \in Key, FindValue(k) PROVE IInv'
  BY <1>4, SameIInv DEF FindValue
<1>5. CASE Turn
  BY <1>5, InsertTurnIInv, InsertReturnIInv, RemoveTurnIInv, RemoveReturnIInv DEF Turn
<1>6. CASE Clear
  BY <1>6, ClearIInv
<1>7. CASE Count
  BY <1>7, SameIInv DEF Count
<1>8. CASE Iterate
  BY <1>8, SameIInv DEF Iterate
<1> QED BY <1>1, <1>2, <1>3, <1>4, <1>5, <1>6, <1>7, <1>8 DEF Next

\* Whatever calls are made, and after every turn of their loops, the links are those
\* of a search tree, which is balanced but for what the running call has to repair.
THEOREM TreeIsSound == Spec => []IInv
<1>1. Init => IInv
  BY InitIInv
<1>2. IInv /\ [Next]_vars => IInv'
  BY NextIInv
<1> QED BY <1>1, <1>2, PTL DEF Spec

-----------------------------------------------------------------------------
(* What the invariant says of the tree.                                    *)

\* The types hold, and the links of the nodes name each other: in every state, also
\* between two turns of a loop.
THEOREM TypesCorrect == Spec => []TypeOK
<1>1. IInv => TypeOK
  <2> SUFFICES ASSUME IInv PROVE TypeOK
    OBVIOUS
  <2>1. Shape(tree, InTree) /\ tree \in Tree
    BY DEF IInv, SearchTree, Shape
  <2>2. entry \in [Node -> Entries \cup {None}] /\ count = Cardinality(Allocated)
    BY DEF IInv
  <2>3. call \in [op : {"none", "insert", "remove"}, node : Pointer, gone : Pointer]
    <3>1. InTree \subseteq Node /\ Allocated \subseteq Node /\ Nil \in Pointer
      BY InvFacts, NilIsNoNode
    <3>2. CASE AtRest
      BY <3>1, <3>2 DEF AtRest, Idle
    <3>3. CASE AtInsertion
      <4>1. call.node \in Pointer
        BY <3>1, <3>3, NilIsNoNode DEF AtInsertion, Inserting
      <4> QED BY <3>1, <3>3, <4>1 DEF AtInsertion
    <3>4. CASE AtRemoval
      <4>1. call.node \in Pointer /\ call.gone \in Pointer
        BY <3>1, <3>4, NilIsNoNode DEF AtRemoval
      <4> QED BY <3>4, <4>1 DEF AtRemoval
    <3> QED BY <3>2, <3>3, <3>4 DEF IInv
  <2>4. ASSUME NEW n \in InTree, NEW side \in Sides, tree.child[side][n] # Nil
        PROVE  tree.child[side][n] \in InTree /\ tree.parent[tree.child[side][n]] = n
    BY <2>1, <2>4, ShapeFacts
  <2>5. ASSUME NEW n \in InTree
        PROVE  IF tree.parent[n] = Nil THEN tree.root = n
               ELSE tree.parent[n] \in InTree /\ \E side \in Sides : tree.child[side][tree.parent[n]] = n
    BY <2>1 DEF Shape
  <2> QED BY <2>1, <2>2, <2>3, <2>4, <2>5 DEF TypeOK, Tree
<1> QED BY <1>1, TreeIsSound, PTL

\* What blackHeight counts is the height of which the balance speaks.
LEMMA BlackHeightIs ==
  ASSUME NEW I, Shape(tree, I), Falls(tree, I), \A m \in Node \ I : tree.child["left"][m] = Nil,
         NEW h, Heights(h), \A m \in I : EvenAt(tree, h, m, Nil, "left")
  PROVE  \A n \in I \cup {Nil} : BlackHeight(n) = h[n]
<1> DEFINE Is(f) == f = [m \in Pointer |->
                           IF m = Nil THEN 1
                           ELSE f[tree.child["left"][m]] + IF Red(tree, m) THEN 0 ELSE 1]
           height == CHOOSE f : Is(f)
           top == [m \in Pointer |-> IF m \in I \cup {Nil} THEN h[m] ELSE 1 + Level(tree, m)]
<1>1. \A n : BlackHeight(n) = height[n]
  BY DEF BlackHeight
<1>2. /\ "left" \in Sides /\ I \subseteq Node /\ Nil \notin Node /\ Pointer = Node \cup {Nil}
      /\ h[Nil] = 1
      /\ \A m \in Node : tree.child["left"][m] \in I \cup {Nil}
  BY TwoSides, NilIsNoNode DEF Shape, Heights
<1>3. \A m \in I : h[m] = h[tree.child["left"][m]] + Level(tree, m)
  BY <1>2, EvenIs
<1>4. Is(top)
  <2>1. ASSUME NEW m \in Pointer
        PROVE  top[m] = IF m = Nil THEN 1
                        ELSE top[tree.child["left"][m]] + IF Red(tree, m) THEN 0 ELSE 1
    <3>1. CASE m = Nil
      BY <1>2, <3>1
    <3>2. CASE m \in I
      BY <1>2, <1>3, <3>2 DEF Level
    <3>3. CASE m \in Node \ I
      BY <1>2, <3>3 DEF Level
    <3> QED BY <1>2, <3>1, <3>2, <3>3
  <2> QED BY <2>1
<1> HIDE DEF top
<1>5. Is(height)
  BY <1>4, Zenon
<1> HIDE DEF height
<1>6. /\ height[Nil] = 1
      /\ \A m \in Node : height[m] = height[tree.child["left"][m]] + Level(tree, m)
  BY <1>2, <1>5 DEF Level
<1> DEFINE D == {m \in I : height[m] # h[m]}
<1>7. \A m \in D : tree.child["left"][m] \in D
  BY <1>2, <1>3, <1>6
<1>8. D = {}
  BY <1>2, <1>7 DEF Falls
<1> QED BY <1>1, <1>2, <1>6, <1>8

\* Whenever no call is running the tree is red-black, so that a search takes a
\* logarithmic number of steps.
THEOREM TreeIsRedBlack == Spec => []IsRedBlack
<1>1. IInv => IsRedBlack
  <2> SUFFICES ASSUME IInv, IsIdle PROVE IsRedBlack
    BY DEF IsRedBlack
  <2>1. AtRest /\ InTree = Allocated /\ Allocated \subseteq Node
    BY InvFacts
  <2>2. /\ Shape(tree, Allocated) /\ Falls(tree, Allocated)
        /\ \A m \in Node \ Allocated : tree.child["left"][m] = Nil
    BY <2>1, TwoSides DEF IInv, SearchTree
  <2>3. Balanced(tree, Allocated, Nil, Nil, "left")
    BY <2>1 DEF AtRest
  <2>4. ~Red(tree, tree.root)
    BY <2>3 DEF Balanced
  <2>5. ASSUME NEW n \in Allocated, Red(tree, n), NEW s \in Sides PROVE ~Red(tree, tree.child[s][n])
    <3>1. SUFFICES ASSUME Red(tree, tree.child[s][n]) PROVE FALSE
      OBVIOUS
    <3>2. Nil \in {n, tree.child[s][n]}
      BY <2>3, <2>5, <3>1 DEF Balanced, Apart
    <3> QED BY <2>1, <2>3, <3>1, <3>2, NilIsNoNode DEF Balanced
  <2>6. PICK h : Heights(h) /\ \A m \in Allocated : EvenAt(tree, h, m, Nil, "left")
    BY <2>3 DEF Balanced, Even
  <2>7. \A n \in Allocated \cup {Nil} : BlackHeight(n) = h[n]
    BY <2>2, <2>6, BlackHeightIs
  <2>8. ASSUME NEW n \in Allocated
        PROVE  BlackHeight(tree.child["left"][n]) = BlackHeight(tree.child["right"][n])
    <3> DEFINE l == tree.child["left"][n]
               r == tree.child["right"][n]
    <3>1. l \in Allocated \cup {Nil} /\ r \in Allocated \cup {Nil}
      BY <2>2, TwoSides, ShapeFacts
    <3>2. /\ h[l] \in Nat /\ h[r] \in Nat /\ Level(tree, n) \in {0, 1} /\ n # Nil
          /\ h[n] = h[l] + Level(tree, n) /\ h[n] = h[r] + Level(tree, n)
      BY <2>1, <2>2, <2>6, TwoSides, EvenIs, NilIsNoNode
    <3> HIDE DEF l, r
    <3>3. h[l] = h[r]
      BY <3>2
    <3>4. BlackHeight(l) = BlackHeight(r)
      BY <2>7, <3>1, <3>3
    <3> QED BY <3>4 DEF l, r
  <2> QED BY <2>4, <2>5, <2>8 DEF IsRedBlack
<1> QED BY <1>1, TreeIsSound, PTL

(***************************************************************************)
(* The nodes in the order of their keys.                                   *)
(***************************************************************************)

\* Where a node has no child, a key on that side of it is not between it and its bound.
LEMMA BoundBetween ==
  ASSUME NEW t, NEW I, Shape(t, I), Rises(t, I), NEW K, NEW B, Ordered(t, I, K, B),
         NEW n \in I, NEW s \in Sides, t.child[s][n] = Nil, NEW m \in I, Beyond(s, K[m], K[n])
  PROVE  \E b \in B[s][n] : ~Beyond(s, b, K[m])
<1>1. SUFFICES ASSUME \A b \in B[s][n] : Beyond(s, b, K[m]) PROVE FALSE
  OBVIOUS
<1>2. PICK o : o = Other(s)
  OBVIOUS
<1>3. o \in Sides /\ \A r \in Sides : r = s \/ r = o
  BY <1>2, TwoSides
<1>4. K[m] \in Int /\ K[n] \in Int /\ Spans(B, n, K[n]) /\ I \subseteq Node
  BY DEF Ordered, Shape
<1>5. Beyond(o, K[n], K[m])
  BY <1>2, <1>4, BeyondOrder
<1>6. ASSUME NEW b \in B[o][n] PROVE Beyond(o, b, K[m])
  <2>1. b \in Int
    BY <1>3, <1>4 DEF Ordered, Bounds
  <2>2. Beyond(o, b, K[n])
    BY <1>3, <1>4 DEF Spans
  <2> QED BY <1>3, <1>4, <1>5, <2>1, <2>2, BeyondOrder
<1>7. Spans(B, n, K[m])
  BY <1>1, <1>3, <1>6 DEF Spans
<1> QED BY <1>7, NoKeyBetween

\* The end of the tree on a side: there is no key beyond its.
LEMMA LastIs ==
  ASSUME NEW I, NEW K, SearchTree(tree, I, K), NEW s \in Sides, tree.root # Nil,
         NEW e, e = Outermost(s, tree.root)
  PROVE  e \in I /\ \A m \in I : ~Beyond(s, K[m], K[e])
<1> DEFINE f == [m \in Node |-> tree.child[s][m]]
<1>1. Shape(tree, I) /\ Rises(tree, I) /\ Falls(tree, I)
  BY DEF SearchTree
<1>2. PICK B : Ordered(tree, I, K, B)
  BY DEF SearchTree
<1>3. Chain(f) /\ SideDescent(s, f) /\ tree.root \in I /\ I \subseteq Node
  <2>1. Chain(f)
    BY <1>1, SideIsChain
  <2>2. tree.root \in I /\ I \subseteq Node
    BY <1>1 DEF Shape
  <2> QED BY <2>1, <2>2 DEF SideDescent
<1> HIDE DEF f
<1>4. PICK g : EndsAt(f, g)
  BY <1>3, ChainEnds
<1>5. e = g[tree.root]
  BY <1>3, <1>4, OutermostIs
<1>6. PICK S : S = {m \in I : B[s][m] = {}}
  OBVIOUS
<1>7. S \in SUBSET Node /\ tree.root \in S
  BY <1>2, <1>3, <1>6 DEF Ordered
<1>8. ASSUME NEW m \in S, f[m] # Nil PROVE f[m] \in S
  <2>1. m \in I /\ m \in Node /\ B[s][m] = {}
    BY <1>3, <1>6
  <2>2. f[m] = tree.child[s][m]
    BY <1>3, <2>1 DEF SideDescent
  <2>3. f[m] \in I /\ B[s][f[m]] = B[s][m]
    BY <1>1, <1>2, <1>8, <2>1, <2>2, ShapeFacts DEF Ordered
  <2> QED BY <1>6, <2>1, <2>3
<1>9. e \in S /\ f[e] = Nil
  <2>1. \A m \in S : f[m] # Nil => f[m] \in S
    BY <1>8
  <2> QED BY <1>3, <1>4, <1>5, <1>7, <2>1, ChainStays
<1>10. e \in I /\ e \in Node /\ B[s][e] = {} /\ tree.child[s][e] = Nil
  BY <1>3, <1>6, <1>9 DEF SideDescent
<1>11. ASSUME NEW m \in I, Beyond(s, K[m], K[e]) PROVE FALSE
  BY <1>1, <1>2, <1>10, <1>11, BoundBetween
<1> QED BY <1>10, <1>11

\* The node that the climb stops under has its key for a bound on that side.
LEMMA AboveBounds ==
  ASSUME NEW I, NEW K, SearchTree(tree, I, K), NEW B, Ordered(tree, I, K, B),
         NEW s \in Sides, NEW n \in I, NEW e, e = Above(s, n)
  PROVE  /\ e \in I \cup {Nil}
         /\ e = Nil => B[s][n] = {}
         /\ e # Nil => B[s][n] = {K[e]}
<1> DEFINE f == [m \in Node |-> IF tree.parent[m] # Nil /\ m = tree.child[s][tree.parent[m]]
                                THEN tree.parent[m] ELSE Nil]
<1>1. Shape(tree, I) /\ Rises(tree, I)
  BY DEF SearchTree
<1>2. /\ I \subseteq Node /\ n \in Node /\ Nil \notin I
      /\ \A m \in Node : tree.parent[m] \in Pointer
      /\ \A m \in Node : \A r \in Sides : tree.child[r][m] \in I \cup {Nil}
  BY <1>1, NilIsNoNode DEF Shape, Tree
<1>3. f \in [Node -> Pointer] /\ SideClimb(s, f)
  BY <1>2, NilIsNoNode DEF SideClimb
<1> HIDE DEF f
<1>4. \A m \in Node : f[m] = Nil \/ (m \in I /\ f[m] = tree.parent[m])
  <2>1. SUFFICES ASSUME NEW m \in Node, f[m] # Nil PROVE m \in I /\ f[m] = tree.parent[m]
    OBVIOUS
  <2>2. /\ tree.parent[m] # Nil /\ m = tree.child[s][tree.parent[m]] /\ f[m] = tree.parent[m]
    BY <1>3, <2>1 DEF SideClimb
  <2> QED BY <1>2, <2>2, NilIsNoNode
<1>5. Chain(f)
  BY <1>1, <1>3, <1>4, ClimbIsChain
<1>6. PICK g : EndsAt(f, g)
  BY <1>5, ChainEnds
<1>7. e = tree.parent[g[n]]
  BY <1>2, <1>3, <1>5, <1>6, AboveIs
<1>8. PICK S : S = {m \in I : B[s][m] = B[s][n]}
  OBVIOUS
<1>9. ASSUME NEW m \in S, f[m] # Nil PROVE f[m] \in S
  <2>1. m \in I /\ m \in Node /\ B[s][m] = B[s][n] /\ m # Nil
    BY <1>2, <1>8
  <2>2. f[m] = tree.parent[m] /\ m = tree.child[s][f[m]]
    BY <1>3, <1>9, <2>1 DEF SideClimb
  <2>3. f[m] \in I
    BY <1>1, <1>9, <2>1, <2>2, ShapeFacts
  <2>4. B[s][m] = B[s][f[m]]
    BY <2>1, <2>2, <2>3 DEF Ordered
  <2> QED BY <1>8, <2>1, <2>3, <2>4
<1>10. PICK a : a = g[n]
  OBVIOUS
<1>11. a \in S /\ f[a] = Nil
  <2>1. \A m \in S : f[m] # Nil => f[m] \in S
    BY <1>9
  <2>2. S \in SUBSET Node /\ n \in S
    BY <1>2, <1>8
  <2> QED BY <1>5, <1>6, <1>10, <2>1, <2>2, ChainStays
<1>12. a \in I /\ a \in Node /\ a # Nil /\ B[s][a] = B[s][n] /\ e = tree.parent[a]
  BY <1>2, <1>7, <1>8, <1>10, <1>11
<1>13. e \in I \cup {Nil}
  BY <1>1, <1>12, ShapeFacts
<1>14. CASE e = Nil
  <2>1. tree.root = a
    BY <1>1, <1>12, <1>14 DEF Shape
  <2>2. B[s][a] = {}
    BY <1>12, <2>1 DEF Ordered
  <2> QED BY <1>12, <1>13, <1>14, <2>2
<1>15. CASE e # Nil
  <2>1. PICK r \in Sides : tree.child[r][e] = a
    BY <1>1, <1>12, <1>15 DEF Shape
  <2>2. r # s
    BY <1>3, <1>11, <1>12, <1>15, <2>1 DEF SideClimb
  <2>3. s = Other(r)
    BY <2>2, TwoSides
  <2>4. B[s][a] = {K[e]}
    BY <1>12, <1>13, <1>15, <2>1, <2>3 DEF Ordered
  <2> QED BY <1>12, <1>13, <1>15, <2>4
<1> QED BY <1>14, <1>15

\* The neighbour of a node on a side has the nearest key beyond its own on that side,
\* and there is no such key if there is no neighbour.
LEMMA NeighbourIs ==
  ASSUME NEW I, NEW K, SearchTree(tree, I, K), NEW s \in Sides, NEW n \in I,
         NEW e, e = Neighbour(s, n)
  PROVE  /\ e \in I \cup {Nil}
         /\ e = Nil => \A m \in I : ~Beyond(s, K[m], K[n])
         /\ e # Nil => /\ Beyond(s, K[e], K[n])
                       /\ \A m \in I \ {e} : Beyond(s, K[m], K[n]) => Beyond(s, K[m], K[e])
<1>1. Shape(tree, I) /\ Rises(tree, I) /\ Falls(tree, I)
  BY DEF SearchTree
<1>2. PICK B : Ordered(tree, I, K, B)
  BY DEF SearchTree
<1>3. \A m \in I : K[m] \in Int /\ m # Nil
  BY <1>1, <1>2, ShapeFacts DEF Ordered
<1>4. PICK o : o = Other(s)
  OBVIOUS
<1>5. o \in Sides /\ \A x, y \in Int : Beyond(s, x, y) <=> Beyond(o, y, x)
  BY <1>4, TwoSides, BeyondOrder
<1>6. CASE tree.child[s][n] # Nil
  <2> DEFINE f == [m \in Node |-> tree.child[o][m]]
  <2>1. Chain(f) /\ SideDescent(o, f)
    BY <1>1, <1>5, SideIsChain DEF SideDescent
  <2>2. PICK g : EndsAt(f, g)
    BY <2>1, ChainEnds
  <2>3. tree.child[s][n] \in Node
    BY <1>1, <1>6, ShapeFacts
  <2>4. e = g[tree.child[s][n]]
    BY <1>4, <1>6, <2>1, <2>2, <2>3, OutermostIs DEF Neighbour
  <2>5. EndsAt([m \in Node |-> tree.child[Other(s)][m]], g)
    BY <1>4, <2>2
  <2> HIDE DEF f
  <2>6. /\ e \in I /\ e # n /\ Beyond(s, K[e], K[n])
        /\ \A m \in I \ {n, e}, r \in Sides : Beyond(r, K[n], K[m]) => Beyond(r, K[e], K[m])
    BY <1>1, <1>2, <1>6, <2>4, <2>5, InnermostIs
  <2>7. ASSUME NEW m \in I \ {e}, Beyond(s, K[m], K[n]) PROVE Beyond(s, K[m], K[e])
    <3>1. m # n
      BY <1>3, <2>7, BeyondOrder
    <3>2. Beyond(o, K[n], K[m])
      BY <1>3, <1>5, <2>7
    <3>3. Beyond(o, K[e], K[m])
      BY <1>5, <2>6, <3>1, <3>2
    <3> QED BY <1>3, <1>5, <2>6, <3>3
  <2> QED BY <1>3, <2>6, <2>7
<1>7. CASE tree.child[s][n] = Nil
  <2>1. e = Above(s, n)
    BY <1>7 DEF Neighbour
  <2>2. e \in I \cup {Nil} /\ (e = Nil => B[s][n] = {}) /\ (e # Nil => B[s][n] = {K[e]})
    BY <1>2, <2>1, AboveBounds
  <2>3. \A m \in I : Beyond(s, K[m], K[n]) => \E b \in B[s][n] : ~Beyond(s, b, K[m])
    BY <1>1, <1>2, <1>7, BoundBetween
  <2>4. CASE e = Nil
    BY <2>2, <2>3, <2>4
  <2>5. CASE e # Nil
    <3>1. e \in I /\ B[s][n] = {K[e]}
      BY <2>2, <2>5
    <3>2. Beyond(s, K[e], K[n])
      BY <1>2, <3>1 DEF Ordered, Spans
    <3>3. ASSUME NEW m \in I \ {e}, Beyond(s, K[m], K[n]) PROVE Beyond(s, K[m], K[e])
      <4>1. ~Beyond(s, K[e], K[m])
        BY <2>3, <3>1, <3>3
      <4>2. K[m] # K[e]
        BY <1>1, <1>2, <3>1, KeysDiffer
      <4> QED BY <1>3, <3>1, <4>1, <4>2, BeyondOrder
    <3> QED BY <2>5, <3>1, <3>2, <3>3
  <2> QED BY <2>4, <2>5
<1> QED BY <1>6, <1>7

(***************************************************************************)
(* What the tree holds, as the promise sees it.                            *)
(***************************************************************************)

\* The contents that RedBlackTree shows to KeyedSet.
Contents == [k \in {j \in Key : Find(j) # Nil} |-> entry[Find(k)][2]]

\* c gives the values of the keys of the nodes I.
Holds(c, E, I) ==
  /\ c = [k \in {E[n][1] : n \in I} |-> c[k]]
  /\ \A n \in I : c[E[n][1]] = E[n][2]

\* There is one such function.
LEMMA HoldsOnce ==
  ASSUME NEW c, NEW E, NEW I, Holds(c, E, I), NEW d, NEW F, NEW J, Holds(d, F, J),
         {E[n][1] : n \in I} = {F[n][1] : n \in J},
         \A n \in I : \E m \in J : E[n][1] = F[m][1] /\ E[n][2] = F[m][2]
  PROVE  c = d
<1>1. PICK D : D = {E[n][1] : n \in I}
  OBVIOUS
<1>2. c = [k \in D |-> c[k]] /\ d = [k \in D |-> d[k]]
  BY <1>1 DEF Holds
<1>3. ASSUME NEW k \in D PROVE c[k] = d[k]
  <2>1. PICK n \in I : k = E[n][1]
    BY <1>1
  <2>2. PICK m \in J : E[n][1] = F[m][1] /\ E[n][2] = F[m][2]
    OBVIOUS
  <2> QED BY <2>1, <2>2 DEF Holds
<1> QED BY <1>2, <1>3

\* The contents are those of the nodes in the tree.
LEMMA ContentsHold == IInv => Holds(Contents, entry, InTree)
<1> SUFFICES ASSUME IInv PROVE Holds(Contents, entry, InTree)
  OBVIOUS
<1>1. PICK c, D : c = Contents /\ D = {j \in Key : Find(j) # Nil}
  OBVIOUS
<1>2. c = [k \in D |-> entry[Find(k)][2]]
  BY <1>1 DEF Contents
<1>3. \A n \in InTree : entry[n][1] \in Key /\ entry[n][1] \in Int /\ Find(entry[n][1]) = n /\ n # Nil
  <2>1. SUFFICES ASSUME NEW n \in InTree
                 PROVE  entry[n][1] \in Key /\ entry[n][1] \in Int /\ Find(entry[n][1]) = n /\ n # Nil
    OBVIOUS
  <2>2. NodeKey(n) \in Key /\ NodeKey(n) \in Int /\ n # Nil
    BY InvFacts, NilIsNoNode
  <2>3. Find(NodeKey(n)) = n
    BY <2>2, FoundIs
  <2> QED BY <2>2, <2>3 DEF NodeKey
<1>4. D = {entry[n][1] : n \in InTree}
  <2>1. ASSUME NEW k \in D PROVE \E n \in InTree : k = entry[n][1]
    <3>1. k \in Int /\ Find(k) # Nil
      BY <1>1, TreeAssumption
    <3>2. Find(k) \in InTree /\ NodeKey(Find(k)) = k
      BY <3>1, FoundIs
    <3> QED BY <3>2 DEF NodeKey
  <2>2. ASSUME NEW n \in InTree PROVE entry[n][1] \in D
    BY <1>1, <1>3
  <2> QED BY <2>1, <2>2
<1>5. \A n \in InTree : c[entry[n][1]] = entry[n][2]
  BY <1>2, <1>3, <1>4
<1>6. c = [k \in D |-> c[k]]
  BY <1>2
<1> QED BY <1>1, <1>4, <1>5, <1>6 DEF Holds

\* Also after a step.
LEMMA ContentsHoldNext == (IInv => Holds(Contents, entry, InTree))'
BY ContentsHold, PTL

\* What is held when no call is running.
LEMMA HeldAtRest ==
  ASSUME IInv, IsIdle
  PROVE  /\ DOMAIN Contents = {NodeKey(n) : n \in Allocated}
         /\ \A n \in Allocated : NodeKey(n) \in DOMAIN Contents /\ Contents[NodeKey(n)] = entry[n][2]
         /\ DOMAIN Contents \subseteq Key
         /\ \A k \in Key : k \in DOMAIN Contents <=> Find(k) # Nil
<1>1. InTree = Allocated
  BY InvFacts
<1>2. Holds(Contents, entry, Allocated)
  BY <1>1, ContentsHold
<1>3. DOMAIN Contents = {NodeKey(n) : n \in Allocated}
  BY <1>2 DEF Holds, NodeKey
<1>4. \A n \in Allocated : Contents[NodeKey(n)] = entry[n][2]
  BY <1>2 DEF Holds, NodeKey
<1>5. DOMAIN Contents = {j \in Key : Find(j) # Nil}
  BY DEF Contents
<1> QED BY <1>3, <1>4, <1>5

\* The contents stay when the nodes in the tree and their entries do.
LEMMA SameContents ==
  ASSUME IInv, IInv', InTree' = InTree, \A n \in InTree : entry'[n] = entry[n]
  PROVE  Contents' = Contents
<1>1. Holds(Contents, entry, InTree) /\ Holds(Contents', entry', InTree')
  BY ContentsHold, ContentsHoldNext
<1>2. PICK c, d, E, F, I : c = Contents /\ d = Contents' /\ E = entry /\ F = entry' /\ I = InTree
  OBVIOUS
<1>3. Holds(c, E, I) /\ Holds(d, F, I) /\ \A n \in I : F[n] = E[n]
  BY <1>1, <1>2
<1>4. {E[n][1] : n \in I} = {F[n][1] : n \in I}
  BY <1>3
<1>5. \A n \in I : \E m \in I : E[n][1] = F[m][1] /\ E[n][2] = F[m][2]
  BY <1>3
<1>6. c = d
  BY <1>3, <1>4, <1>5, HoldsOnce
<1> QED BY <1>2, <1>6

\* No contents, to begin with and after a clear.
LEMMA NoContents == ASSUME NEW c, c = [k \in {} |-> c[k]] PROVE c = <<>>
OBVIOUS

\* A call that inserts adds the key with its value, unless the key is present.
LEMMA InsertRefines == ASSUME IInv, IInv', NEW e \in Entries, Insert(e) PROVE Promise!Insert(e)
<1>1. IsIdle /\ InTree = Allocated /\ e[1] \in Key
  BY InvFacts, TreeAssumption DEF Insert
<1>2. Promise!Insert(e) <=>
        /\ asked' = <<"insert">> /\ answer' = {1 : k \in {e[1]} \ DOMAIN Contents}
        /\ Contents' = [k \in DOMAIN Contents \cup {e[1]} |->
                          IF k \in DOMAIN Contents THEN Contents[k] ELSE e[2]]
  BY DEF Promise!Insert, Promise!Present, Contents
<1>3. PICK c, d, D, k : c = Contents /\ d = Contents' /\ D = DOMAIN Contents /\ k = e[1]
  OBVIOUS
<1>4. Holds(c, entry, InTree) /\ Holds(d, entry', InTree')
  BY <1>3, ContentsHold, ContentsHoldNext
<1>5. k \in D <=> Find(k) # Nil
  BY <1>1, <1>3, HeldAtRest
<1>6. asked' = <<"insert">> /\ answer' = IF Find(k) = Nil THEN {1} ELSE {}
  BY <1>3 DEF Insert
<1>7. answer' = {1 : j \in {k} \ D}
  BY <1>5, <1>6
<1>8. d = [j \in D \cup {k} |-> IF j \in D THEN c[j] ELSE e[2]]
  <2>1. CASE Find(k) # Nil
    <3>1. UNCHANGED <<tree, entry, count, call>>
      BY <1>3, <2>1 DEF Insert
    <3>2. InTree' = InTree
      BY <3>1 DEF InTree, Allocated
    <3>3. d = c
      BY <1>3, <3>1, <3>2, SameContents
    <3>4. c = [j \in D |-> c[j]] /\ D \cup {k} = D
      BY <1>3, <1>4, <1>5, <2>1 DEF Holds
    <3> QED BY <3>3, <3>4
  <2>2. CASE Find(k) = Nil
    <3>1. PICK n \in Node \ Allocated :
            /\ \A m \in Node : entry'[m] = IF m = n THEN e ELSE entry[m]
            /\ InTree' = Allocated \cup {n}
      BY <1>3, <2>2, InsertChanges
    <3>2. PICK E, F, I : E = entry /\ F = entry' /\ I = Allocated
      OBVIOUS
    <3>3. /\ F[n] = e /\ n \notin I /\ \A m \in I : F[m] = E[m]
      BY <3>1, <3>2 DEF Allocated
    <3>4. Holds(c, E, I) /\ Holds(d, F, I \cup {n}) /\ D = {E[m][1] : m \in I} /\ k \notin D
      BY <1>1, <1>3, <1>4, <1>5, <2>2, <3>1, <3>2 DEF Holds
    <3>5. {F[m][1] : m \in I \cup {n}} = D \cup {k}
      BY <1>3, <3>3, <3>4
    <3>6. d = [j \in D \cup {k} |-> d[j]]
      BY <3>4, <3>5 DEF Holds
    <3>7. ASSUME NEW j \in D PROVE d[j] = c[j]
      <4>1. PICK m \in I : j = E[m][1]
        BY <3>4
      <4> QED BY <3>3, <3>4, <4>1 DEF Holds
    <3>8. d[k] = e[2]
      BY <1>3, <3>3, <3>4 DEF Holds
    <3> QED BY <3>4, <3>6, <3>7, <3>8
  <2> QED BY <2>1, <2>2
<1> QED BY <1>2, <1>3, <1>6, <1>7, <1>8

\* A call that removes takes the key away, if it is present.
LEMMA RemoveRefines == ASSUME IInv, IInv', NEW k \in Key, Remove(k) PROVE Promise!Remove(k)
<1>1. IsIdle /\ InTree = Allocated
  BY InvFacts DEF Remove
<1>2. Promise!Remove(k) <=>
        /\ asked' = <<"remove">> /\ answer' = {1 : j \in {k} \cap DOMAIN Contents}
        /\ Contents' = [j \in DOMAIN Contents \ {k} |-> Contents[j]]
  BY DEF Promise!Remove, Promise!Present, Contents
<1>3. PICK c, d, D : c = Contents /\ d = Contents' /\ D = DOMAIN Contents
  OBVIOUS
<1>4. Holds(c, entry, InTree) /\ Holds(d, entry', InTree')
  BY <1>3, ContentsHold, ContentsHoldNext
<1>5. k \in D <=> Find(k) # Nil
  BY <1>1, <1>3, HeldAtRest
<1>6. asked' = <<"remove">> /\ answer' = IF Find(k) = Nil THEN {} ELSE {1}
  BY DEF Remove
<1>7. answer' = {1 : j \in {k} \cap D}
  BY <1>5, <1>6
<1>8. d = [j \in D \ {k} |-> c[j]]
  <2>1. CASE Find(k) = Nil
    <3>1. UNCHANGED <<tree, entry, count, call>>
      BY <2>1 DEF Remove
    <3>2. InTree' = InTree
      BY <3>1 DEF InTree, Allocated
    <3>3. d = c
      BY <1>3, <3>1, <3>2, SameContents
    <3>4. c = [j \in D |-> c[j]] /\ D \ {k} = D
      BY <1>3, <1>4, <1>5, <2>1 DEF Holds
    <3> QED BY <3>3, <3>4
  <2>2. CASE Find(k) # Nil
    <3>1. PICK z, y, I : z = Find(k) /\ y = Victim(z) /\ I = Allocated
      OBVIOUS
    <3>2. /\ z \in I /\ y \in I /\ NodeKey(z) = k /\ I \subseteq Node
          /\ \A m \in Node : entry'[m] = IF m = z THEN entry[y] ELSE entry[m]
          /\ InTree' = I \ {y}
      BY <2>2, <3>1, RemoveChanges, InvFacts
    <3>3. \A m \in I : entry[m][1] = k => m = z
      <4>1. \A m \in InTree : NodeKey(m) = k => Find(k) = m
        BY TreeAssumption, FoundIs
      <4> QED BY <1>1, <3>1, <4>1 DEF NodeKey
    <3>4. \A m, q \in I : entry[m][1] = entry[q][1] => m = q
      <4>1. SUFFICES ASSUME NEW m \in I, NEW q \in I, entry[m][1] = entry[q][1] PROVE m = q
        OBVIOUS
      <4>2. NodeKey(m) = NodeKey(q) /\ NodeKey(m) \in Int
        BY <3>1, <4>1, InvFacts DEF NodeKey
      <4>3. Find(NodeKey(m)) = m /\ Find(NodeKey(m)) = q
        BY <1>1, <3>1, <4>2, FoundIs
      <4> QED BY <4>3
    <3>5. PICK E, F, J : E = entry /\ F = entry' /\ J = I \ {y}
      OBVIOUS
    <3>6. /\ Holds(c, E, I) /\ Holds(d, F, J) /\ D = {E[m][1] : m \in I} /\ E[z][1] = k
          /\ \A m \in J : F[m] = IF m = z THEN E[y] ELSE E[m]
      BY <1>1, <1>3, <1>4, <3>1, <3>2, <3>5 DEF Holds, NodeKey
    <3>7. ASSUME NEW m \in J PROVE F[m][1] \in D \ {k} /\ d[F[m][1]] = c[F[m][1]]
      <4>1. PICK q \in I : F[m] = E[q] /\ q = IF m = z THEN y ELSE m
        BY <3>2, <3>5, <3>6
      <4>2. q # z
        BY <3>5, <4>1
      <4>3. E[q][1] # k
        BY <3>3, <3>5, <4>2
      <4>4. d[F[m][1]] = F[m][2] /\ c[E[q][1]] = E[q][2]
        BY <3>6 DEF Holds
      <4> QED BY <3>6, <4>1, <4>3, <4>4
    <3>8. ASSUME NEW j \in D \ {k} PROVE \E m \in J : j = F[m][1]
      <4>1. PICK q \in I : j = E[q][1]
        BY <3>6
      <4>2. q # z
        BY <3>6, <3>8, <4>1
      <4>3. CASE q = y
        <5>1. z \in J /\ F[z] = E[y]
          BY <3>2, <3>5, <3>6, <4>2, <4>3
        <5> QED BY <4>1, <4>3, <5>1
      <4>4. CASE q # y
        BY <3>5, <3>6, <4>1, <4>2, <4>4
      <4> QED BY <4>3, <4>4
    <3>9. {F[m][1] : m \in J} = D \ {k}
      BY <3>7, <3>8
    <3>10. d = [j \in D \ {k} |-> d[j]]
      BY <3>6, <3>9 DEF Holds
    <3>11. ASSUME NEW j \in D \ {k} PROVE d[j] = c[j]
      BY <3>7, <3>8
    <3> QED BY <3>10, <3>11
  <2> QED BY <2>1, <2>2
<1> QED BY <1>2, <1>3, <1>6, <1>7, <1>8

\* A clear leaves nothing.
LEMMA ClearRefines == ASSUME IInv, IInv', Clear PROVE Promise!Clear
<1>1. asked' = <<"clear">> /\ answer' = {} /\ entry' = [n \in Node |-> None]
  BY DEF Clear
<1>2. InTree' = {}
  BY <1>1 DEF InTree, Allocated
<1>3. PICK d, F : d = Contents' /\ F = entry'
  OBVIOUS
<1>4. Holds(d, F, {})
  BY <1>2, <1>3, ContentsHoldNext
<1>5. d = [k \in {} |-> d[k]]
  <2>1. {F[n][1] : n \in {}} = {}
    OBVIOUS
  <2> QED BY <1>4, <2>1 DEF Holds
<1>6. Contents' = <<>>
  BY <1>3, <1>5, NoContents
<1> QED BY <1>1, <1>6 DEF Promise!Clear, Contents

\* The nodes in the tree and what they hold stay in a call that only looks.
LEMMA LookingKeeps ==
  ASSUME UNCHANGED <<tree, entry, count, call>>
  PROVE  Contents' = Contents
BY DEF Contents, Find, Toward, NodeKey

\* A search finds the value of a key that is present.
LEMMA FindRefines == ASSUME IInv, IInv', NEW k \in Key, FindValue(k) PROVE Promise!Find(k)
<1>1. IsIdle /\ UNCHANGED <<tree, entry, count, call>>
      /\ asked' = <<"find", k>> /\ answer' = {entry[n][2] : n \in {Find(k)} \ {Nil}}
  BY DEF FindValue
<1>2. Promise!Find(k) <=>
        /\ asked' = <<"find", k>> /\ answer' = {Contents[j] : j \in DOMAIN Contents \cap {k}}
        /\ Contents' = Contents
  BY DEF Promise!Find, Promise!Present, Contents
<1>3. PICK c, D : c = Contents /\ D = DOMAIN Contents
  OBVIOUS
<1>4. k \in D <=> Find(k) # Nil
  BY <1>1, <1>3, HeldAtRest
<1>5. Find(k) # Nil => c[k] = entry[Find(k)][2]
  <2>1. SUFFICES ASSUME Find(k) # Nil PROVE c[k] = entry[Find(k)][2]
    OBVIOUS
  <2>2. Find(k) \in Allocated /\ NodeKey(Find(k)) = k
    BY <1>1, <2>1, FoundIs, InvFacts, TreeAssumption
  <2> QED BY <1>1, <1>3, <2>2, HeldAtRest
<1>6. answer' = {c[j] : j \in D \cap {k}}
  BY <1>1, <1>4, <1>5
<1>7. Contents' = Contents
  BY <1>1, LookingKeeps
<1> QED BY <1>1, <1>2, <1>3, <1>6, <1>7

\* The count is that of the keys.
LEMMA CountRefines == ASSUME IInv, IInv', Count PROVE Promise!Count
<1>1. IsIdle /\ UNCHANGED <<tree, entry, count, call>> /\ asked' = <<"count">> /\ answer' = {count}
  BY DEF Count
<1>0. \A S : Promise!Cardinality(S) = Cardinality(S)
  BY DEF Promise!Cardinality, Cardinality
<1>2. Promise!Count <=>
        /\ asked' = <<"count">> /\ answer' = {Cardinality(DOMAIN Contents)} /\ Contents' = Contents
  BY <1>0 DEF Promise!Count, Promise!Present, Contents
<1>3. PICK D, f : D = DOMAIN Contents /\ f = [n \in Allocated |-> NodeKey(n)]
  OBVIOUS
<1>4. D = {NodeKey(n) : n \in Allocated}
  BY <1>1, <1>3, HeldAtRest
<1>5. \A m, n \in Allocated : NodeKey(m) = NodeKey(n) => m = n
  <2>1. SUFFICES ASSUME NEW m \in Allocated, NEW n \in Allocated, NodeKey(m) = NodeKey(n)
                 PROVE  m = n
    OBVIOUS
  <2>2. Find(NodeKey(m)) = m /\ Find(NodeKey(m)) = n
    BY <1>1, <2>1, FoundIs, InvFacts
  <2> QED BY <2>2
<1>6. f \in Bijection(Allocated, D)
  BY <1>3, <1>4, <1>5 DEF Bijection, Injection, IsInjective, Surjection
<1>7. IsFiniteSet(Allocated)
  BY InvFacts
<1>8. Cardinality(D) = Cardinality(Allocated)
  <2>1. ExistsBijection(Allocated, D)
    BY <1>6 DEF ExistsBijection
  <2> QED BY <1>7, <2>1, FS_Bijection
<1>9. count = Cardinality(D)
  BY <1>8 DEF IInv
<1>10. Contents' = Contents
  BY <1>1, LookingKeeps
<1> QED BY <1>1, <1>2, <1>3, <1>9, <1>10

\* The keys of P nearest to F on a side.
Nearest(side, P, F) ==
  {k \in P : /\ \A f \in F : Beyond(side, k, f)
             /\ \A j \in P : (\A f \in F : Beyond(side, j, f)) => j = k \/ Beyond(side, j, k)}

\* A step of an iterator goes to the nearest key.
LEMMA PromisedStep ==
  ASSUME NEW P, P = DOMAIN Contents, P \subseteq Int, NEW F, F \subseteq Int, NEW side \in Sides
  PROVE  Promise!Step(side, F) <=>
           asked' = <<side, F>> /\ answer' = Nearest(side, P, F) /\ Contents' = Contents
<1>1. Promise!Step(side, F) <=>
        /\ asked' = <<side, F>> /\ Contents' = Contents
        /\ answer' = IF side = "right" THEN Promise!Next(F) ELSE Promise!Previous(F)
  BY DEF Promise!Step, Contents
<1>2. Promise!Next(F) = {k \in {j \in P : \A f \in F : f < j} :
                           \A i \in {j \in P : \A f \in F : f < j} : k <= i}
  BY DEF Promise!Next, Promise!Present, Contents
<1>3. Promise!Previous(F) = {k \in {j \in P : \A f \in F : j < f} :
                               \A i \in {j \in P : \A f \in F : j < f} : i <= k}
  BY DEF Promise!Previous, Promise!Present, Contents
<1>4. CASE side = "right"
  <2>1. Nearest(side, P, F) = Promise!Next(F)
    <3>1. \A a, b \in Int : Beyond(side, a, b) <=> b < a
      BY <1>4, TwoSides DEF Beyond
    <3>2. \A k \in P : (\A f \in F : Beyond(side, k, f)) <=> (\A f \in F : f < k)
      BY <3>1
    <3>3. \A i, k \in P : i = k \/ Beyond(side, i, k) <=> k <= i
      BY <3>1
    <3> QED BY <1>2, <3>2, <3>3 DEF Nearest
  <2> QED BY <1>1, <1>4, <2>1
<1>5. CASE side = "left"
  <2>1. Nearest(side, P, F) = Promise!Previous(F)
    <3>1. \A a, b \in Int : Beyond(side, a, b) <=> a < b
      BY <1>5 DEF Beyond
    <3>2. \A k \in P : (\A f \in F : Beyond(side, k, f)) <=> (\A f \in F : k < f)
      BY <3>1
    <3>3. \A i, k \in P : i = k \/ Beyond(side, i, k) <=> i <= k
      BY <3>1
    <3> QED BY <1>3, <3>2, <3>3 DEF Nearest
  <2> QED BY <1>1, <1>5, <2>1, TwoSides
<1> QED BY <1>4, <1>5, TwoSides

\* What an iterator reaches is the nearest key, if there is one.
LEMMA NearestIs ==
  ASSUME NEW P, P \subseteq Int, NEW F, NEW side \in Sides,
         NEW k \in P, \A f \in F : Beyond(side, k, f),
         \A j \in P : (\A f \in F : Beyond(side, j, f)) => j = k \/ Beyond(side, j, k)
  PROVE  Nearest(side, P, F) = {k}
<1>1. k \in Nearest(side, P, F)
  BY DEF Nearest
<1>2. ASSUME NEW j \in Nearest(side, P, F) PROVE j = k
  <2>1. j \in P /\ (\A f \in F : Beyond(side, j, f)) /\ (k = j \/ Beyond(side, k, j))
    BY <1>2 DEF Nearest
  <2>2. j = k \/ Beyond(side, j, k)
    BY <2>1
  <2>3. j \in Int /\ k \in Int
    BY <2>1
  <2> QED BY <2>1, <2>2, <2>3, BeyondOrder
<1> QED BY <1>1, <1>2

\* A step of an iterator from an item.
LEMMA NeighbourNearest ==
  ASSUME IInv, IsIdle, NEW side \in Sides, NEW n \in Allocated, NEW P, P = DOMAIN Contents
  PROVE  Nearest(side, P, {NodeKey(n)}) = {NodeKey(m) : m \in {Neighbour(side, n)} \ {Nil}}
<1>1. PICK I, K, e, k : I = InTree /\ K = Keys /\ e = Neighbour(side, n) /\ k = NodeKey(n)
  OBVIOUS
<1>2. /\ SearchTree(tree, I, K) /\ n \in I /\ K[n] = k
      /\ \A m \in I : K[m] = NodeKey(m) /\ NodeKey(m) \in Int
  BY <1>1, InvFacts DEF IInv
<1>3. P = {NodeKey(m) : m \in I} /\ P \subseteq Int
  BY <1>1, <1>2, InvFacts, HeldAtRest
<1>4. /\ e \in I \cup {Nil}
      /\ e = Nil => \A m \in I : ~Beyond(side, K[m], K[n])
      /\ e # Nil => /\ Beyond(side, K[e], K[n])
                    /\ \A m \in I \ {e} : Beyond(side, K[m], K[n]) => Beyond(side, K[m], K[e])
  BY <1>1, <1>2, NeighbourIs
<1>5. CASE e = Nil
  <2>1. Nearest(side, P, {k}) = {}
    BY <1>2, <1>3, <1>4, <1>5 DEF Nearest
  <2> QED BY <1>1, <1>5, <2>1
<1>6. CASE e # Nil
  <2>1. e \in I /\ NodeKey(e) \in P /\ Beyond(side, NodeKey(e), k)
    BY <1>2, <1>3, <1>4, <1>6
  <2>2. ASSUME NEW j \in P, Beyond(side, j, k) PROVE j = NodeKey(e) \/ Beyond(side, j, NodeKey(e))
    <3>1. PICK m \in I : j = NodeKey(m)
      BY <1>3
    <3> QED BY <1>2, <1>4, <1>6, <2>1, <2>2, <3>1
  <2>3. PICK F, q : F = {k} /\ q = NodeKey(e)
    OBVIOUS
  <2>4. /\ q \in P /\ \A f \in F : Beyond(side, q, f)
        /\ \A j \in P : (\A f \in F : Beyond(side, j, f)) => j = q \/ Beyond(side, j, q)
    BY <2>1, <2>2, <2>3
  <2>5. Nearest(side, P, F) = {q}
    BY <1>3, <2>4, NearestIs
  <2> QED BY <1>1, <1>6, <2>3, <2>5
<1> QED BY <1>5, <1>6

\* A step of an iterator that was reset, to the first item or to the last.
LEMMA FirstNearest ==
  ASSUME IInv, IsIdle, NEW side \in Sides, NEW P, P = DOMAIN Contents
  PROVE  Nearest(side, P, {}) =
           {NodeKey(m) : m \in {IF tree.root = Nil THEN Nil
                                ELSE Outermost(Other(side), tree.root)} \ {Nil}}
<1>1. PICK I, K, e : I = InTree /\ K = Keys
                     /\ e = IF tree.root = Nil THEN Nil ELSE Outermost(Other(side), tree.root)
  OBVIOUS
<1>2. /\ SearchTree(tree, I, K) /\ \A m \in I : K[m] = NodeKey(m) /\ NodeKey(m) \in Int /\ m # Nil
  BY <1>1, InvFacts, NilIsNoNode DEF IInv
<1>3. P = {NodeKey(m) : m \in I} /\ P \subseteq Int
  BY <1>1, <1>2, InvFacts, HeldAtRest
<1>4. CASE tree.root = Nil
  <2>1. I = {}
    BY <1>2, <1>4, RootIs DEF SearchTree
  <2>2. Nearest(side, P, {}) = {}
    BY <1>3, <2>1 DEF Nearest
  <2> QED BY <1>1, <1>4, <2>2
<1>5. CASE tree.root # Nil
  <2>1. e = Outermost(Other(side), tree.root) /\ Other(side) \in Sides
    BY <1>1, <1>5, TwoSides
  <2>2. e \in I /\ \A m \in I : ~Beyond(Other(side), K[m], K[e])
    BY <1>2, <1>5, <2>1, LastIs
  <2>3. ASSUME NEW j \in P PROVE j = NodeKey(e) \/ Beyond(side, j, NodeKey(e))
    <3>1. PICK m \in I : j = NodeKey(m)
      BY <1>3
    <3>2. ~Beyond(Other(side), j, NodeKey(e)) /\ j \in Int /\ NodeKey(e) \in Int
      BY <1>2, <2>2, <3>1
    <3> QED BY <3>2, BeyondOrder
  <2>4. Nearest(side, P, {}) = {NodeKey(e)}
    BY <1>2, <1>3, <2>2, <2>3, NearestIs
  <2>5. e # Nil
    BY <1>2, <2>2
  <2> QED BY <1>1, <2>4, <2>5
<1> QED BY <1>4, <1>5

\* An iterator visits the keys in their order, as long as no client steps back from the
\* end of an empty set.
LEMMA IterateRefines ==
  ASSUME IInv, IInv', ~MayStepBackEmpty, Iterate
  PROVE  \E side \in {"left", "right"}, F \in {{}} \cup {{k} : k \in Promise!Present} :
           Promise!Step(side, F)
<1>1. IsIdle /\ UNCHANGED <<tree, entry, count, call>>
  BY DEF Iterate
<1>2. PICK side \in Sides, at \in {{}} \cup {{n} : n \in Allocated} : Step(side, at)
  BY DEF Iterate
<1>3. PICK next : next = IF at # {} THEN Neighbour(side, CHOOSE n \in at : TRUE)
                         ELSE IF tree.root = Nil THEN Nil ELSE Outermost(Other(side), tree.root)
  OBVIOUS
<1>4. /\ asked' = <<side, {NodeKey(n) : n \in at}>>
      /\ answer' = {NodeKey(n) : n \in {next} \ {Nil}}
  BY <1>2, <1>3 DEF Step
<1>5. PICK P : P = DOMAIN Contents
  OBVIOUS
<1>6. P \subseteq Int /\ P = Promise!Present /\ P = {NodeKey(n) : n \in Allocated}
  <2>1. P = Promise!Present
    BY <1>5 DEF Promise!Present, Contents
  <2> QED BY <1>1, <1>5, <2>1, HeldAtRest, TreeAssumption
<1>7. Contents' = Contents
  BY <1>1, LookingKeeps
<1>8. \E F \in {{}} \cup {{k} : k \in P} :
        F \subseteq Int /\ asked' = <<side, F>> /\ answer' = Nearest(side, P, F)
  <2>1. CASE at = {}
    <3>1. Nearest(side, P, {}) = {NodeKey(n) : n \in {next} \ {Nil}}
      BY <1>1, <1>3, <1>5, <2>1, FirstNearest
    <3> QED BY <1>4, <2>1, <3>1
  <2>2. CASE at # {}
    <3>1. PICK n \in Allocated : at = {n}
      BY <2>2
    <3>2. next = Neighbour(side, n)
      BY <1>3, <3>1
    <3>3. Nearest(side, P, {NodeKey(n)}) = {NodeKey(m) : m \in {next} \ {Nil}}
      BY <1>1, <1>5, <3>2, NeighbourNearest
    <3>4. NodeKey(n) \in P
      BY <1>6
    <3> QED BY <1>4, <1>6, <3>1, <3>3, <3>4
  <2> QED BY <2>1, <2>2
<1>9. PICK F \in {{}} \cup {{k} : k \in P} :
        F \subseteq Int /\ asked' = <<side, F>> /\ answer' = Nearest(side, P, F)
  BY <1>8
<1>10. Promise!Step(side, F)
  BY <1>5, <1>6, <1>7, <1>9, PromisedStep
<1> QED BY <1>6, <1>9, <1>10, TwoSides

\* No turn of a loop changes what the set holds, nor what its caller was told.
LEMMA TurnRefines ==
  ASSUME IInv, IInv', Turn
  PROVE  Contents' = Contents /\ UNCHANGED <<asked, answer>>
<1>1. UNCHANGED <<asked, answer>>
  BY Zenon DEF Turn, InsertTurn, InsertReturn, RemoveTurn, RemoveReturn
<1>2. CASE InsertTurn \/ RemoveTurn
  <2>1. entry' = entry /\ call'.gone = call.gone
    <3>1. call.op = "insert" \/ call.op = "remove"
      BY <1>2, Zenon DEF InsertTurn, RemoveTurn, InsertGoesOn, RemoveGoesOn
    <3>2. \E op, n, y : call = [op |-> op, node |-> n, gone |-> y]
      BY DEF IInv, AtRest, AtInsertion, AtRemoval, Idle
    <3>3. \E n : call' = [call EXCEPT !.node = n]
      BY <1>2, Zenon DEF InsertTurn, RemoveTurn
    <3>4. entry' = entry
      BY <1>2, Zenon DEF InsertTurn, RemoveTurn
    <3> QED BY <3>2, <3>3, <3>4
  <2>2. InTree' = InTree
    BY <2>1 DEF InTree, Allocated
  <2> QED BY <1>1, <2>1, <2>2, SameContents
<1>3. CASE InsertReturn
  <2>1. entry' = entry /\ call' = Idle /\ call.op = "insert"
    BY <1>3 DEF InsertReturn
  <2>2. call.gone = Nil
    BY <2>1 DEF IInv, AtRest, AtInsertion, AtRemoval, Idle
  <2>3. InTree' = InTree
    BY <2>1, <2>2 DEF InTree, Allocated, Idle
  <2> QED BY <1>1, <2>1, <2>3, SameContents
<1>4. CASE RemoveReturn
  <2>1. entry' = [entry EXCEPT ![call.gone] = None] /\ call' = Idle
    BY <1>4 DEF RemoveReturn
  <2>2. /\ entry \in [Node -> Entries \cup {None}]
    BY DEF IInv
  <2>3. \A n \in Node : entry'[n] = IF n = call.gone THEN None ELSE entry[n]
    BY <2>1, <2>2
  <2>4. InTree' = InTree
    BY <2>1, <2>3, NilIsNoNode DEF InTree, Allocated, Idle
  <2>5. \A n \in InTree : entry'[n] = entry[n]
    BY <2>3 DEF InTree, Allocated
  <2> QED BY <1>1, <2>4, <2>5, SameContents
<1> QED BY <1>1, <1>2, <1>3, <1>4 DEF Turn

\* Every step does what the promise says, or nothing that it sees.
LEMMA StepRefines ==
  ASSUME IInv, IInv', ~MayStepBackEmpty, [Next]_vars
  PROVE  [Promise!Call]_(Promise!vars)
<1>1. Promise!vars' = Promise!vars <=> Contents' = Contents /\ UNCHANGED <<asked, answer>>
  BY DEF Promise!vars, Contents
<1>2. CASE UNCHANGED vars
  <2>1. Contents' = Contents
    BY <1>2, LookingKeeps DEF vars
  <2> QED BY <1>1, <1>2, <2>1 DEF vars
<1>3. CASE \E e \in Entries : Insert(e)
  BY <1>3, InsertRefines DEF Promise!Call
<1>4. CASE \E k \in Key : Remove(k)
  BY <1>4, RemoveRefines DEF Promise!Call
<1>5. CASE \E k \in Key : FindValue(k)
  BY <1>5, FindRefines DEF Promise!Call
<1>6. CASE Turn
  BY <1>1, <1>6, TurnRefines
<1>7. CASE Clear
  BY <1>7, ClearRefines DEF Promise!Call
<1>8. CASE Count
  BY <1>8, CountRefines DEF Promise!Call
<1>9. CASE Iterate
  BY <1>9, IterateRefines DEF Promise!Call
<1> QED BY <1>2, <1>3, <1>4, <1>5, <1>6, <1>7, <1>8, <1>9 DEF Next

\* The tree is a keyed set: whatever was inserted and removed, a search finds what is
\* there, with its value, an iterator visits it in order, and count counts it.  No turn
\* of the loops changes what a search would find.
THEOREM SetImplemented == ASSUME ~MayStepBackEmpty PROVE Spec => ImplementsSet
<1>1. Init => Promise!Init
  <2> SUFFICES ASSUME Init PROVE Promise!Init
    OBVIOUS
  <2>1. IInv /\ entry = [n \in Node |-> None] /\ asked = <<>> /\ answer = {}
    BY InitIInv DEF Init
  <2>2. InTree = {}
    BY <2>1 DEF InTree, Allocated
  <2>3. PICK c, E : c = Contents /\ E = entry
    OBVIOUS
  <2>4. Holds(c, E, {})
    BY <2>1, <2>2, <2>3, ContentsHold
  <2>5. c = [k \in {} |-> c[k]]
    <3>1. {E[n][1] : n \in {}} = {}
      OBVIOUS
    <3> QED BY <2>4, <3>1 DEF Holds
  <2>6. Contents = <<>>
    BY <2>3, <2>5, NoContents
  <2> QED BY <2>1, <2>6 DEF Promise!Init, Contents
<1>2. IInv /\ IInv' /\ [Next]_vars => [Promise!Call]_(Promise!vars)
  BY StepRefines
<1> QED BY <1>1, <1>2, TreeIsSound, PTL DEF Spec, ImplementsSet, Promise!Spec

=============================================================================
