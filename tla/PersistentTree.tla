-------------------------- MODULE PersistentTree ---------------------------
(* What the object manager promises about the content of a document: there   *)
(* is one tree of mobs and slots that the program sees, and one that the     *)
(* file holds.  An edit changes the first, Save copies it over the second,   *)
(* and reopening the file brings the second back.  Nothing else changes      *)
(* either: when objects are loaded, and which of their storages are open,    *)
(* cannot be seen.                                                           *)

CONSTANTS Mobs, MobIds, Slots

VARIABLES live,    \* the tree in memory: a set of [mob, id, slots]
          saved    \* the tree in the file

Node == [mob : Mobs, id : MobIds, slots : SUBSET Slots]

Tree == SUBSET Node

TypeOK == live \in Tree /\ saved \in Tree

Init == live = {} /\ saved = {}

AddMob(n) ==
    /\ \A x \in live : x.mob # n.mob /\ x.id # n.id
    /\ live' = live \cup {n}
    /\ UNCHANGED saved

RemoveMob(n) ==
    /\ live' = live \ {n}
    /\ UNCHANGED saved

\* Every edit below replaces one node of the tree.
Edit(n, new) ==
    /\ live' = (live \ {n}) \cup {new}
    /\ UNCHANGED saved

SetMobID(n, id) ==
    /\ \A x \in live : x.id # id
    /\ Edit(n, [n EXCEPT !.id = id])

AppendSlot(n, s) ==
    /\ \A x \in live : s \notin x.slots
    /\ Edit(n, [n EXCEPT !.slots = @ \cup {s}])

RemoveSlot(n, s) ==
    Edit(n, [n EXCEPT !.slots = @ \ {s}])

ReplaceSlot(n, s, t) ==
    /\ \A x \in live : t \notin x.slots
    /\ Edit(n, [n EXCEPT !.slots = (@ \ {s}) \cup {t}])

Save == saved' = live /\ UNCHANGED live

Reopen == live' = saved /\ UNCHANGED saved

Next ==
    \/ \E n \in Node : AddMob(n)
    \/ \E n \in live :
          \/ RemoveMob(n)
          \/ \E id \in MobIds : SetMobID(n, id)
          \/ \E t \in Slots :
                \/ AppendSlot(n, t)
                \/ \E s \in n.slots : ReplaceSlot(n, s, t)
          \/ \E s \in n.slots : RemoveSlot(n, s)
    \/ Save
    \/ Reopen

Spec == Init /\ [][Next]_<<live, saved>>
=============================================================================
