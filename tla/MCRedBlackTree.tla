--------------------------- MODULE MCRedBlackTree ---------------------------
(* Small instances of RedBlackTree for TLC.                                 *)
EXTENDS RedBlackTree

CONSTANTS even, odd

\* Neighbouring keys have different values.
MCEntries == {<<k, IF k % 2 = 0 THEN even ELSE odd>> : k \in Key}

\* Which of its addresses a node has makes no difference: the states are told
\* apart by the keys in the nodes.  Of a node that is about to be deleted only
\* the colour is looked at, and the parent of _nil only while a removal starts
\* from there.  SetReturns.cfg does without this view, on fewer keys.
KeyAt(n) == IF n \in InTree THEN NodeKey(n) ELSE None

ByKey ==
  <<{<<entry[n], tree.color[n], KeyAt(tree.parent[n]),
       [s \in Sides |-> KeyAt(tree.child[s][n])]>> : n \in InTree},
    KeyAt(tree.root), IF IsIdle \/ call.node # Nil THEN None ELSE KeyAt(tree.parent[Nil]),
    call.op, KeyAt(call.node), Red(tree, call.gone), Cardinality(Allocated), count, asked, answer>>
=============================================================================
