-------------------------- MODULE ObjectTreeProofs --------------------------
(***************************************************************************)
(* What is proved of ObjectTree, for any number of mobs and slots and any  *)
(* bound on the local keys: for a client that does not attach again an     *)
(* object that was stored, and opens no unsaved object that replaced a     *)
(* stored one, what is not loaded is where its reference leads to, every   *)
(* object has one owner, local keys are never used twice, no operation     *)
(* fails, and the whole is a tree in memory and a tree in the file.        *)
(***************************************************************************)
EXTENDS ObjectTree, TLAPS

(***************************************************************************)
(* The inductive invariant                                                 *)
(***************************************************************************)

\* A mob with a storage has it where its name leads to; one that is attached
\* and was never saved has a key that the file does not use.
MobIsFound(m) ==
  /\ Stored(mob[m]) =>
       /\ mob[m].at # Nowhere
       /\ mob[m].at[1] \in DOMAIN disk.sub
       /\ disk.sub[mob[m].at[1]].mob = m
  /\ mob[m].at # Nowhere /\ ~mob[m].exists => mob[m].at[1] >= disk.key
  /\ \A j \in DOMAIN mob[m].slots : mob[m].slots[j] # Void

\* A slot with a storage has it in that of its mob.
SlotIsFound(s) ==
  Stored(slot[s]) =>
    /\ slot[s].at # Nowhere
    /\ Stored(mob[slot[s].at[1]])
    /\ slot[s].exists => mob[slot[s].at[1]].exists
    /\ slot[s].at[2] \in DOMAIN disk.sub[mob[slot[s].at[1]].at[1]].sub

StoresAreFound ==
  /\ \A m \in DOMAIN mob : MobIsFound(m)
  /\ \A s \in DOMAIN slot : SlotIsFound(s)
  /\ disk.key <= mobsKey

\* Element j of the mob at k is in the file only: the mob is not loaded, or it
\* is and the element is not.
IsHidden(k, j) ==
  /\ k \in DOMAIN mobs
  /\ \/ /\ mobs[k].ref = Unloaded
        /\ j \in disk.sub[k].index
     \/ /\ mobs[k].ref # Unloaded
        /\ j \in DOMAIN mob[mobs[k].ref].slots
        /\ mob[mobs[k].ref].slots[j] = Unloaded

\* What is in the file only is not in memory too, and is there once.
HiddenApart ==
  /\ \A k \in DOMAIN mobs : mobs[k].ref = Unloaded => disk.sub[k].mob \notin DOMAIN mob
  /\ \A k, l \in DOMAIN mobs :
       mobs[k].ref = Unloaded /\ mobs[l].ref = Unloaded /\ disk.sub[k].mob = disk.sub[l].mob
         => k = l
  /\ \A k \in Key, j \in SlotKey : IsHidden(k, j) =>
       disk.sub[k].sub[j] \in Slots \ DOMAIN slot
  /\ \A k, l \in Key : \A i, j \in SlotKey :
       IsHidden(k, j) /\ IsHidden(l, i) /\ disk.sub[k].sub[j] = disk.sub[l].sub[i]
         => k = l /\ j = i

\* The tree in the file has every object once, under its identity.
SavedApart ==
  /\ \A k \in DOMAIN disk.index : disk.sub[k].id = disk.index[k]
  /\ \A k, l \in DOMAIN disk.index : disk.sub[k].mob = disk.sub[l].mob => k = l
  /\ \A k \in DOMAIN disk.index : \A j \in disk.sub[k].index : disk.sub[k].sub[j] \in Slots
  /\ \A k, l \in DOMAIN disk.index : \A j \in disk.sub[k].index : \A i \in disk.sub[l].index :
       disk.sub[k].sub[j] = disk.sub[l].sub[i] => k = l /\ j = i

IInv ==
  /\ TypeOK
  /\ OneOwner
  /\ KeysAreFresh
  /\ UnloadedIsStored
  /\ StoresAreFound
  /\ HiddenApart
  /\ SavedApart

(***************************************************************************)
(* Partial functions and records                                           *)
(***************************************************************************)

\* Setting one argument of a partial function keeps its types.
LEMMA WithMap ==
  ASSUME NEW S, NEW T, NEW f, NEW k \in S, NEW v \in T, IsMap(f, S, T)
  PROVE  IsMap(With(f, k, v), S, T)
BY DEF With, IsMap

\* So does leaving one out,
LEMMA RestrictMap ==
  ASSUME NEW S, NEW T, NEW f, NEW k, IsMap(f, S, T)
  PROVE  IsMap(Restrict(f, k), S, T)
BY DEF Restrict, IsMap

\* and putting one function over another.
LEMMA OverMap ==
  ASSUME NEW S, NEW T, NEW f, NEW g, IsMap(f, S, T), IsMap(g, S, T)
  PROVE  IsMap(Over(f, g), S, T)
BY DEF Over, IsMap

\* The empty function has every type.
LEMMA EmptyMap == ASSUME NEW S, NEW T PROVE IsMap(<<>>, S, T) /\ DOMAIN <<>> = {}
BY DEF IsMap

\* A place in the tree is not the one of an object that is nowhere.
LEMMA Somewhere == (\A k : <<k>> # Nowhere) /\ (\A k, l : <<k, l>> # Nowhere)
BY DEF Nowhere

\* The storage of an attached mob.
LEMMA StorageType ==
  ASSUME IInv, NEW m \in DOMAIN mob, mob[m].at # Nowhere
  PROVE  /\ IsStorage(StorageOf(m)) /\ StorageOf(m).mob = m
         /\ Stored(mob[m]) => StorageOf(m) = disk.sub[mob[m].at[1]]
         /\ ~Stored(mob[m]) => StorageOf(m).index = {} /\ DOMAIN StorageOf(m).sub = {}
                               /\ StorageOf(m).key = 0 /\ StorageOf(m).id = mob[m].id
<1> USE DEF IInv
<1>1. IsMob(mob[m]) /\ m \in Mobs
  BY DEF TypeOK
<1>2. CASE Stored(mob[m])
  BY <1>2 DEF StorageOf, StoresAreFound, MobIsFound, TypeOK
<1>3. CASE ~Stored(mob[m])
  <2>1. StorageOf(m) = NewStorage(m)
    BY <1>3 DEF StorageOf
  <2>2. 0 \in SlotKey
    BY TreeAssumption DEF SlotKey
  <2> QED
    BY <1>1, <1>3, <2>1, <2>2, EmptyMap DEF NewStorage, IsStorage, IsMob
<1> QED
  BY <1>2, <1>3

\* A mob that is at an element is the one the element refers to.
LEMMA Attached ==
  ASSUME IInv, NEW m \in DOMAIN mob, mob[m].at # Nowhere
  PROVE  \E k \in DOMAIN mobs : /\ mob[m].at = <<k>> /\ mob[m].at[1] = k /\ k \in Key
                                /\ mobs[k] = [id |-> mob[m].id, ref |-> m]
                                /\ mobs[k].id = mob[m].id /\ mobs[k].ref = m /\ m # Unloaded
<1> USE DEF IInv
<1>1. IsMob(mob[m]) /\ m \in Mobs /\ m # Unloaded
  BY TreeAssumption DEF TypeOK
<1>2. PICK k \in Key : mob[m].at = <<k>>
  BY <1>1 DEF IsMob
<1>3. mob[m].at[1] = k
  BY <1>2
<1>4. k \in DOMAIN mobs /\ mobs[k] = [id |-> mob[m].id, ref |-> m]
  BY <1>3 DEF OneOwner
<1> QED
  BY <1>1, <1>2, <1>3, <1>4

(***************************************************************************)
(* The steps                                                               *)
(***************************************************************************)

\* A new mob is in no tree.
LEMMA CreateMobStep ==
  ASSUME IInv, NEW m \in Mobs, NEW id \in MobIds, CreateMob(m, id)
  PROVE  IInv' /\ UNCHANGED failed
<1> USE TreeAssumption DEF IInv
<1> DEFINE r == [at |-> Nowhere, id |-> id, open |-> FALSE, exists |-> FALSE,
                 slots |-> <<>>, key |-> 0]
<1>1. m \notin DOMAIN mob /\ ~InTree(m) /\ mob' = With(mob, m, r)
      /\ UNCHANGED <<mobs, mobsKey, slot, disk, failed>>
  BY DEF CreateMob
<1>2. DOMAIN r.slots = {} /\ r.at = Nowhere /\ ~Stored(r) /\ IsMob(r)
  BY EmptyMap DEF IsMob, Stored, Key, SlotKey
<1> HIDE DEF r
<1>3. /\ DOMAIN mob' = DOMAIN mob \cup {m} /\ mob'[m] = r
      /\ \A n \in DOMAIN mob : n # m /\ mob'[n] = mob[n]
  <2>1. mob' = With(mob, m, r) /\ m \notin DOMAIN mob
    BY <1>1
  <2> QED
    BY <2>1 DEF With
<1>4. TypeOK'
  BY <1>1, <1>2, <1>3 DEF TypeOK
<1>5. OneOwner'
  BY <1>1, <1>2, <1>3 DEF OneOwner
<1>6. KeysAreFresh'
  BY <1>1, <1>2, <1>3 DEF KeysAreFresh
<1>7. UnloadedIsStored'
  BY <1>1, <1>2, <1>3 DEF UnloadedIsStored, StoreFails, StorageOf, Stored
<1>8. StoresAreFound'
  <2>1. \A s \in DOMAIN slot : Stored(slot[s]) => slot[s].at[1] \in DOMAIN mob
    BY DEF StoresAreFound, SlotIsFound, OneOwner
  <2> QED
    BY <1>1, <1>2, <1>3, <2>1 DEF StoresAreFound, MobIsFound, SlotIsFound
<1>9. ASSUME NEW k \in DOMAIN mobs, mobs[k].ref = Unloaded PROVE disk.sub[k].mob # m
  <2> DEFINE n == [mob |-> disk.sub[k].mob, id |-> mobs[k].id, slots |-> StoredSlots(k)]
  <2>1. n \in LiveTree
    BY <1>9 DEF LiveTree
  <2>2. n.mob = disk.sub[k].mob
    OBVIOUS
  <2> QED
    BY <1>1, <2>1, <2>2 DEF InTree
<1>10. \A k, j : IsHidden(k, j)' = IsHidden(k, j)
  BY <1>1, <1>3 DEF IsHidden, OneOwner
<1>11. HiddenApart'
  BY <1>1, <1>3, <1>9, <1>10 DEF HiddenApart
<1>12. SavedApart'
  BY <1>1 DEF SavedApart
<1> QED
  BY <1>1, <1>4, <1>5, <1>6, <1>7, <1>8, <1>11, <1>12

\* Following a hidden reference leads to an object of the live tree.
LEMMA HiddenInTree ==
  ASSUME IInv, NEW k \in Key, NEW j \in SlotKey, IsHidden(k, j)
  PROVE  InTree(disk.sub[k].sub[j])
<1> USE TreeAssumption DEF IInv
<1> DEFINE s == disk.sub[k].sub[j]
<1>1. CASE mobs[k].ref = Unloaded
  <2> DEFINE n == [mob |-> disk.sub[k].mob, id |-> mobs[k].id, slots |-> StoredSlots(k)]
  <2>1. k \in DOMAIN mobs /\ j \in disk.sub[k].index
    BY <1>1 DEF IsHidden
  <2>2. n \in LiveTree
    BY <1>1, <2>1 DEF LiveTree
  <2>3. j \in DOMAIN disk.sub[k].sub
    BY <1>1, <2>1 DEF UnloadedIsStored, KeysAreFresh
  <2>4. s \in n.slots
    BY <2>1, <2>3 DEF StoredSlots
  <2> QED
    BY <2>2, <2>4 DEF InTree
<1>2. CASE mobs[k].ref # Unloaded
  <2> DEFINE m == mobs[k].ref
             n == [mob |-> m, id |-> mobs[k].id, slots |-> LiveSlots(m)]
  <2>1. k \in DOMAIN mobs /\ j \in DOMAIN mob[m].slots /\ mob[m].slots[j] = Unloaded
    BY <1>2 DEF IsHidden
  <2>2. n \in LiveTree
    BY <1>2, <2>1 DEF LiveTree
  <2>3. mob[m].at[1] = k
    BY <1>2, <2>1 DEF OneOwner
  <2>4. SlotAt(m, j) = s
    BY <2>1, <2>3 DEF SlotAt
  <2>5. s \in n.slots
    BY <2>1, <2>4 DEF LiveSlots
  <2> QED
    BY <2>2, <2>5 DEF InTree
<1> QED
  BY <1>1, <1>2

\* A new slot is in no tree.
LEMMA CreateSlotStep ==
  ASSUME IInv, NEW s \in Slots, CreateSlot(s)
  PROVE  IInv' /\ UNCHANGED failed
<1> USE TreeAssumption DEF IInv
<1> DEFINE r == [at |-> Nowhere, open |-> FALSE, exists |-> FALSE]
<1>1. s \notin DOMAIN slot /\ ~InTree(s) /\ slot' = With(slot, s, r)
      /\ UNCHANGED <<mobs, mobsKey, mob, disk, failed>>
  BY DEF CreateSlot
<1>2. r \in SlotObject /\ r.at = Nowhere /\ ~Stored(r)
  BY DEF SlotObject, Stored
<1> HIDE DEF r
<1>3. /\ DOMAIN slot' = DOMAIN slot \cup {s} /\ slot'[s] = r
      /\ \A t \in DOMAIN slot : t # s /\ slot'[t] = slot[t]
  BY <1>1 DEF With
<1>4. TypeOK'
  <2>1. IsMap(slot', Slots, SlotObject)
    BY <1>1, <1>2, WithMap DEF TypeOK
  <2> QED
    BY <1>1, <2>1 DEF TypeOK
<1>5. OneOwner'
  BY <1>1, <1>2, <1>3 DEF OneOwner
<1>6. KeysAreFresh' /\ SavedApart'
  BY <1>1 DEF KeysAreFresh, SavedApart
<1>7. UnloadedIsStored'
  BY <1>1 DEF UnloadedIsStored, StoreFails, StorageOf, NewStorage
<1>8. StoresAreFound'
  <2>1. \A t \in DOMAIN slot' : Stored(slot'[t]) => t \in DOMAIN slot /\ slot'[t] = slot[t]
    BY <1>2, <1>3
  <2> QED
    BY <1>1, <2>1 DEF StoresAreFound, MobIsFound, SlotIsFound
<1>9. \A k \in Key, j \in SlotKey : IsHidden(k, j) => disk.sub[k].sub[j] # s
  BY <1>1, HiddenInTree
<1>10. \A k, j : IsHidden(k, j)' = IsHidden(k, j)
  BY <1>1 DEF IsHidden
<1>11. HiddenApart'
  BY <1>1, <1>3, <1>9, <1>10 DEF HiddenApart
<1> QED
  BY <1>1, <1>4, <1>5, <1>6, <1>7, <1>8, <1>11

\* A mob that is not attached was never stored, and has nothing hidden.
LEMMA DetachedMob ==
  ASSUME IInv, NEW m \in DOMAIN mob, mob[m].at = Nowhere \/ ~Stored(mob[m])
  PROVE  /\ ~Stored(mob[m]) /\ mob[m].open = FALSE /\ mob[m].exists = FALSE
         /\ \A j \in DOMAIN mob[m].slots : mob[m].slots[j] \in Slots
<1> USE DEF IInv
<1>1. ~Stored(mob[m])
  BY DEF StoresAreFound, MobIsFound
<1>2. IsMob(mob[m])
  BY DEF TypeOK
<1>3. \A j \in DOMAIN mob[m].slots : mob[m].slots[j] \in Slots \cup {Unloaded, Void}
  BY <1>2 DEF IsMob, IsMap
<1>4. \A j \in DOMAIN mob[m].slots : mob[m].slots[j] # Unloaded /\ mob[m].slots[j] # Void
  BY <1>1 DEF UnloadedIsStored, StoresAreFound, MobIsFound, Stored
<1> QED
  BY <1>1, <1>2, <1>3, <1>4 DEF Stored, IsMob

\* An unstored mob is attached under a fresh key.
LEMMA AddMobStep ==
  ASSUME IInv, NEW m \in DOMAIN mob, AddMob(m)
  PROVE  IInv' /\ UNCHANGED failed
<1> USE TreeAssumption DEF IInv
<1> DEFINE r == [id |-> mob[m].id, ref |-> m]
<1>1. /\ mobsKey < MaxKey /\ ~ContainsId(mob[m].id) /\ mob[m].at = Nowhere
      /\ mobs' = With(mobs, mobsKey, r) /\ mobsKey' = mobsKey + 1
      /\ mob' = [mob EXCEPT ![m].at = <<mobsKey>>]
      /\ UNCHANGED <<slot, disk, failed>>
  BY DEF AddMob
<1>2. /\ ~Stored(mob[m]) /\ mob[m].open = FALSE /\ mob[m].exists = FALSE
      /\ \A j \in DOMAIN mob[m].slots : mob[m].slots[j] \in Slots
  BY <1>1, DetachedMob
<1>3. /\ IsMob(mob[m]) /\ m \in Mobs /\ mobsKey \in Key /\ mobsKey' \in Key
      /\ m # Unloaded /\ mobsKey \in Int /\ <<mobsKey>> # Nowhere
  BY <1>1 DEF TypeOK, Key, Nowhere
<1>4. /\ DOMAIN mob' = DOMAIN mob
      /\ \A n \in DOMAIN mob : n # m => mob'[n] = mob[n]
      /\ mob'[m].at = <<mobsKey>> /\ mob'[m].id = mob[m].id
      /\ mob'[m].open = FALSE /\ mob'[m].exists = FALSE
      /\ mob'[m].slots = mob[m].slots /\ mob'[m].key = mob[m].key
      /\ IsMob(mob'[m])
  BY <1>1, <1>2, <1>3 DEF IsMob
<1>5. /\ DOMAIN mobs' = DOMAIN mobs \cup {mobsKey} /\ mobs'[mobsKey] = r
      /\ r.id = mob[m].id /\ r.ref = m
      /\ \A k \in DOMAIN mobs : k # mobsKey /\ mobs'[k] = mobs[k]
  BY <1>1, <1>3 DEF With, KeysAreFresh
<1>6. ASSUME NEW k \in DOMAIN mobs, mobs[k].ref = m PROVE FALSE
  <2>1. mob[m].at = <<k>>
    BY <1>3, <1>6 DEF OneOwner
  <2> QED
    BY <1>1, <2>1, Somewhere
<1>7. TypeOK'
  <2>1. IsMap(mobs', Key, MobElement)
    <3>1. r \in MobElement
      BY <1>3 DEF MobElement, IsMob
    <3> QED
      BY <1>1, <1>3, <3>1, WithMap DEF TypeOK
  <2> QED
    BY <1>1, <1>3, <1>4, <2>1 DEF TypeOK
<1>8. OneOwner'
  <2>1. \A n \in DOMAIN mob : mob[n].at # Nowhere => n # m
    BY <1>1
  <2>2. <<mobsKey>>[1] = mobsKey
    OBVIOUS
  <2>3. \A n \in DOMAIN mob : mob'[n].slots = mob[n].slots
    BY <1>4
  <2> HIDE DEF r
  <2>4. \A n \in DOMAIN mob' : mob'[n].at # Nowhere =>
          /\ mob'[n].at[1] \in DOMAIN mobs'
          /\ mobs'[mob'[n].at[1]] = [id |-> mob'[n].id, ref |-> n]
    <3> SUFFICES ASSUME NEW n \in DOMAIN mob', mob'[n].at # Nowhere
                 PROVE  /\ mob'[n].at[1] \in DOMAIN mobs'
                        /\ mobs'[mob'[n].at[1]] = [id |-> mob'[n].id, ref |-> n]
      OBVIOUS
    <3>1. CASE n = m
      BY <3>1, <2>2, <1>4, <1>5 DEF r
    <3>2. CASE n # m
      BY <3>2, <1>4, <1>5 DEF OneOwner
    <3> QED
      BY <3>1, <3>2
  <2>5. \A k \in DOMAIN mobs' : mobs'[k].ref # Unloaded =>
          mobs'[k].ref \in DOMAIN mob' /\ mob'[mobs'[k].ref].at = <<k>>
    BY <1>4, <1>5, <1>6 DEF OneOwner
  <2>6. UNCHANGED slot
    BY <1>1
  <2> QED
    BY <1>4, <2>3, <2>4, <2>5, <2>6 DEF OneOwner
<1>9. KeysAreFresh' /\ SavedApart'
  BY <1>1, <1>3, <1>4, <1>5 DEF KeysAreFresh, SavedApart, TypeOK, IsMap, Key
<1>10. UnloadedIsStored'
  BY <1>1, <1>2, <1>3, <1>4, <1>5 DEF UnloadedIsStored, StoreFails, StorageOf, Stored
<1>11. StoresAreFound'
  <2>1. \A n \in DOMAIN mob : Stored(mob[n]) => n # m
    BY <1>2
  <2>2. \A n \in DOMAIN mob' : Stored(mob'[n]) = Stored(mob[n])
    BY <1>2, <1>4 DEF Stored
  <2>3. \A s \in DOMAIN slot : Stored(slot[s]) =>
          slot[s].at[1] \in DOMAIN mob /\ slot[s].at[1] # m
    BY <2>1 DEF StoresAreFound, SlotIsFound, OneOwner
  <2>4. <<mobsKey>>[1] = mobsKey
    OBVIOUS
  <2>5. disk.key <= mobsKey /\ disk.key <= mobsKey' /\ disk' = disk /\ slot' = slot
    BY <1>1, <1>3 DEF StoresAreFound, TypeOK, Key
  <2>6. ASSUME NEW n \in DOMAIN mob PROVE MobIsFound(n)'
    <3>1. CASE n = m
      BY <3>1, <1>2, <1>4, <2>2, <2>4, <2>5 DEF StoresAreFound, MobIsFound
    <3>2. CASE n # m
      BY <3>2, <1>1, <1>4 DEF StoresAreFound, MobIsFound
    <3> QED
      BY <3>1, <3>2
  <2>7. ASSUME NEW s \in DOMAIN slot PROVE SlotIsFound(s)'
    <3>1. Stored(slot[s]) => mob'[slot[s].at[1]] = mob[slot[s].at[1]]
      BY <1>4, <2>3
    <3> QED
      BY <1>1, <3>1 DEF StoresAreFound, SlotIsFound
  <2> QED
    BY <1>4, <2>5, <2>6, <2>7 DEF StoresAreFound
<1>12. \A k, j : IsHidden(k, j)' = IsHidden(k, j)
  <2>1. \A n \in DOMAIN mob : mob'[n].slots = mob[n].slots
    BY <1>4
  <2>2. \A k \in DOMAIN mobs : mobs[k].ref # Unloaded => mobs[k].ref \in DOMAIN mob
    BY DEF OneOwner
  <2>3. \A j \in DOMAIN mob'[m].slots : mob'[m].slots[j] # Unloaded
    BY <1>2, <1>4
  <2> SUFFICES ASSUME NEW k, NEW j PROVE IsHidden(k, j)' <=> IsHidden(k, j)
    BY DEF IsHidden
  <2>4. CASE k = mobsKey
    BY <2>4, <1>3, <1>5, <2>3 DEF IsHidden
  <2>5. CASE k # mobsKey
    BY <2>5, <1>1, <1>5, <2>1, <2>2 DEF IsHidden
  <2> QED
    BY <2>4, <2>5
<1>13. HiddenApart'
  BY <1>1, <1>3, <1>4, <1>5, <1>12 DEF HiddenApart
<1> QED
  BY <1>1, <1>7, <1>8, <1>9, <1>10, <1>11, <1>13

\* An attached mob is removed that was never stored: it stays in memory, and
\* nothing of it was hidden.  SetMobID removes it and adds it again.
LEMMA DetachEffect ==
  ASSUME IInv, NEW m \in DOMAIN mob, ~Stored(mob[m])
  PROVE  /\ SlotsAfterDetach(m) = mob[m].slots
         /\ SlotObjectsAfterDetach(m) = slot
<1> USE DEF IInv
<1>1. mob[m].open = FALSE
  BY DetachedMob
<1>2. SlotsAfterDetach(m) = mob[m].slots
  BY <1>1 DEF SlotsAfterDetach
<1>3. slot = [s \in DOMAIN slot |-> slot[s]]
  BY DEF TypeOK, IsMap
<1> QED
  BY <1>1, <1>2, <1>3 DEF SlotObjectsAfterDetach

\* A mob that was stored is removed, with its slots.
LEMMA RemoveStoredMob ==
  ASSUME IInv, NEW m \in DOMAIN mob, mob[m].at # Nowhere,
         mobs' = Restrict(mobs, mob[m].at[1]), mob' = Restrict(mob, m),
         slot' = [s \in {x \in DOMAIN slot : x \notin {mob[m].slots[j] : j \in DOMAIN mob[m].slots}}
                    |-> slot[s]],
         UNCHANGED <<mobsKey, disk, failed>>
  PROVE  IInv'
<1> USE TreeAssumption DEF IInv
<1>1. PICK k \in DOMAIN mobs : /\ mob[m].at = <<k>> /\ mob[m].at[1] = k /\ k \in Key
                               /\ mobs[k].ref = m /\ m # Unloaded
  BY Attached
<1>2. /\ DOMAIN mobs' = DOMAIN mobs \ {k}
      /\ \A l \in DOMAIN mobs : l # k => mobs'[l] = mobs[l]
  BY <1>1 DEF Restrict
<1>3. /\ DOMAIN mob' = DOMAIN mob \ {m}
      /\ \A n \in DOMAIN mob : n # m => mob'[n] = mob[n]
  BY DEF Restrict
<1>4. /\ \A s : s \in DOMAIN slot' <=>
           s \in DOMAIN slot /\ \A j \in DOMAIN mob[m].slots : mob[m].slots[j] # s
      /\ \A s \in DOMAIN slot' : slot'[s] = slot[s]
  OBVIOUS
<1>5. \A l \in DOMAIN mobs : mobs[l].ref = m => l = k
  BY <1>1 DEF OneOwner
<1>6. ASSUME NEW s \in DOMAIN slot', slot[s].at # Nowhere
      PROVE  slot[s].at[1] \in DOMAIN mob /\ slot[s].at[1] # m
  BY <1>4, <1>6 DEF OneOwner
<1>7. ASSUME NEW n \in DOMAIN mob, n # m, NEW j \in DOMAIN mob[n].slots,
             mob[n].slots[j] # Unloaded
      PROVE  mob[n].slots[j] \in DOMAIN slot'
  <2>1. mob[n].slots[j] \in DOMAIN slot /\ slot[mob[n].slots[j]].at = <<n, j>>
    BY <1>7 DEF OneOwner
  <2>2. ASSUME NEW i \in DOMAIN mob[m].slots, mob[m].slots[i] = mob[n].slots[j] PROVE FALSE
    <3>1. slot[mob[m].slots[i]].at = <<m, i>>
      BY <1>7, <2>2 DEF OneOwner
    <3>2. <<m, i>> = <<n, j>>
      BY <2>1, <2>2, <3>1
    <3> QED
      BY <1>7, <3>2
  <2> QED
    BY <1>4, <2>1, <2>2
<1>8. TypeOK'
  <2>1. IsMap(mobs', Key, MobElement)
    BY RestrictMap DEF TypeOK
  <2>2. IsMap(slot', Slots, SlotObject)
    BY <1>4 DEF TypeOK, IsMap
  <2> QED
    BY <1>3, <2>1, <2>2 DEF TypeOK
<1>9. OneOwner'
  <2>1. \A n \in DOMAIN mob' : mob'[n].at # Nowhere =>
          /\ mob'[n].at[1] \in DOMAIN mobs'
          /\ mobs'[mob'[n].at[1]] = [id |-> mob'[n].id, ref |-> n]
    BY <1>1, <1>2, <1>3 DEF OneOwner
  <2>2. \A l \in DOMAIN mobs' : mobs'[l].ref # Unloaded =>
          mobs'[l].ref \in DOMAIN mob' /\ mob'[mobs'[l].ref].at = <<l>>
    BY <1>2, <1>3, <1>5 DEF OneOwner
  <2>3. \A s \in DOMAIN slot' : slot'[s].at # Nowhere =>
          /\ slot'[s].at[1] \in DOMAIN mob'
          /\ slot'[s].at[2] \in DOMAIN mob'[slot'[s].at[1]].slots
          /\ mob'[slot'[s].at[1]].slots[slot'[s].at[2]] = s
    BY <1>3, <1>4, <1>6 DEF OneOwner
  <2>4. \A n \in DOMAIN mob' : \A j \in DOMAIN mob'[n].slots : mob'[n].slots[j] # Unloaded =>
          mob'[n].slots[j] \in DOMAIN slot' /\ slot'[mob'[n].slots[j]].at = <<n, j>>
    BY <1>3, <1>4, <1>7 DEF OneOwner
  <2> QED
    BY <2>1, <2>2, <2>3, <2>4 DEF OneOwner
<1>10. KeysAreFresh' /\ SavedApart'
  BY <1>2, <1>3 DEF KeysAreFresh, SavedApart
<1>11. UnloadedIsStored'
  BY <1>2, <1>3 DEF UnloadedIsStored, StoreFails, StorageOf, Stored
<1>12. StoresAreFound'
  <2>1. ASSUME NEW n \in DOMAIN mob' PROVE MobIsFound(n)'
    BY <1>3 DEF StoresAreFound, MobIsFound
  <2>2. ASSUME NEW s \in DOMAIN slot' PROVE SlotIsFound(s)'
    <3>1. s \in DOMAIN slot /\ slot'[s] = slot[s]
      BY <1>4
    <3>2. Stored(slot[s]) => slot[s].at # Nowhere
      BY <3>1 DEF StoresAreFound, SlotIsFound
    <3>3. Stored(slot[s]) => mob'[slot[s].at[1]] = mob[slot[s].at[1]]
      BY <1>3, <1>6, <3>2
    <3> QED
      BY <3>1, <3>3 DEF StoresAreFound, SlotIsFound
  <2> QED
    BY <2>1, <2>2 DEF StoresAreFound
<1>13. ASSUME NEW l, NEW j, IsHidden(l, j)' PROVE IsHidden(l, j)
  <2>1. l \in DOMAIN mobs /\ l # k /\ mobs'[l] = mobs[l] /\ mobs[l].ref # m /\ disk' = disk
    BY <1>2, <1>5, <1>13 DEF IsHidden
  <2>2. mobs[l].ref # Unloaded => mob'[mobs[l].ref] = mob[mobs[l].ref]
    BY <1>3, <2>1 DEF OneOwner
  <2> QED
    BY <1>13, <2>1, <2>2 DEF IsHidden
<1>14. HiddenApart'
  BY <1>2, <1>3, <1>4, <1>13 DEF HiddenApart
<1> QED
  BY <1>8, <1>9, <1>10, <1>11, <1>12, <1>14

\* An unstored mob changes its place: to none, to another key, under the same
\* or another identity.  Its slots, all in memory, stay with it.
Moves(m, at, id) ==
  /\ DOMAIN mob' = DOMAIN mob
  /\ \A n \in DOMAIN mob : n # m => mob'[n] = mob[n]
  /\ IsMob(mob'[m])
  /\ mob'[m].at = at /\ mob'[m].id = id
  /\ mob'[m].open = FALSE /\ mob'[m].exists = FALSE
  /\ mob'[m].slots = mob[m].slots /\ mob'[m].key = mob[m].key
  /\ UNCHANGED <<slot, disk, failed>>

\* What a move of an unstored mob cannot disturb.
LEMMA MoveStep ==
  ASSUME IInv, NEW m \in DOMAIN mob, ~Stored(mob[m]), NEW at, NEW id, Moves(m, at, id),
         mobsKey' \in Key, mobsKey <= mobsKey', IsMap(mobs', Key, MobElement),
         \A k \in DOMAIN mobs' : k < mobsKey',
         \A k \in DOMAIN mobs' : mobs'[k].ref # m => k \in DOMAIN mobs /\ mobs'[k] = mobs[k],
         \A k \in DOMAIN mobs : mobs[k].ref # m => k \in DOMAIN mobs' /\ mobs'[k] = mobs[k],
         \A k \in DOMAIN mobs' : mobs'[k].ref = m => at = <<k>>,
         at # Nowhere => \E k \in DOMAIN mobs' : /\ at = <<k>> /\ mobs'[k] = [id |-> id, ref |-> m]
                                                 /\ k >= disk.key
  PROVE  IInv'
<1> USE TreeAssumption DEF IInv
<1>0. m # Unloaded /\ m \in Mobs
  BY DEF TypeOK
<1>1. /\ DOMAIN mob' = DOMAIN mob
      /\ \A n \in DOMAIN mob : n # m => mob'[n] = mob[n]
      /\ \A n \in DOMAIN mob : mob'[n].slots = mob[n].slots /\ mob'[n].key = mob[n].key
      /\ mob'[m].at = at /\ mob'[m].id = id /\ IsMob(mob'[m])
      /\ mob'[m].open = FALSE /\ mob'[m].exists = FALSE
      /\ slot' = slot /\ disk' = disk /\ failed' = failed
  BY DEF Moves
<1>2. \A n \in DOMAIN mob : Stored(mob'[n]) <=> Stored(mob[n])
  BY <1>1 DEF Stored
<1>3. \A j \in DOMAIN mob[m].slots : mob[m].slots[j] \in Slots
  BY DetachedMob
<1>4. \A k \in DOMAIN mobs : mobs[k].ref = m => mob[m].at = <<k>>
  BY <1>0 DEF OneOwner
<1>5. TypeOK'
  BY <1>1 DEF TypeOK
<1>6. OneOwner'
  <2>1. ASSUME NEW n \in DOMAIN mob', mob'[n].at # Nowhere
        PROVE  /\ mob'[n].at[1] \in DOMAIN mobs'
               /\ mobs'[mob'[n].at[1]] = [id |-> mob'[n].id, ref |-> n]
    <3>1. CASE n = m
      <4>1. PICK k \in DOMAIN mobs' : at = <<k>> /\ mobs'[k] = [id |-> id, ref |-> m]
        BY <1>1, <2>1, <3>1
      <4>2. at[1] = k
        BY <4>1
      <4> QED
        BY <1>1, <3>1, <4>1, <4>2
    <3>2. CASE n # m
      <4>1. mob'[n] = mob[n] /\ n \in DOMAIN mob /\ mob[n].at # Nowhere
        BY <1>1, <2>1, <3>2
      <4>2. mob[n].at[1] \in DOMAIN mobs /\ mobs[mob[n].at[1]] = [id |-> mob[n].id, ref |-> n]
        BY <4>1 DEF OneOwner
      <4>3. mobs[mob[n].at[1]].ref # m
        BY <3>2, <4>2
      <4> QED
        BY <4>1, <4>2, <4>3
    <3> QED
      BY <3>1, <3>2
  <2>2. ASSUME NEW k \in DOMAIN mobs', mobs'[k].ref # Unloaded
        PROVE  mobs'[k].ref \in DOMAIN mob' /\ mob'[mobs'[k].ref].at = <<k>>
    <3>1. CASE mobs'[k].ref = m
      BY <1>1, <3>1
    <3>2. CASE mobs'[k].ref # m
      BY <1>1, <2>2, <3>2 DEF OneOwner
    <3> QED
      BY <3>1, <3>2
  <2>3. /\ \A s \in DOMAIN slot' : slot'[s].at # Nowhere =>
            /\ slot'[s].at[1] \in DOMAIN mob'
            /\ slot'[s].at[2] \in DOMAIN mob'[slot'[s].at[1]].slots
            /\ mob'[slot'[s].at[1]].slots[slot'[s].at[2]] = s
        /\ \A n \in DOMAIN mob' : \A j \in DOMAIN mob'[n].slots : mob'[n].slots[j] # Unloaded =>
            mob'[n].slots[j] \in DOMAIN slot' /\ slot'[mob'[n].slots[j]].at = <<n, j>>
    BY <1>1 DEF OneOwner
  <2> QED
    BY <2>1, <2>2, <2>3 DEF OneOwner
<1>7. KeysAreFresh' /\ SavedApart'
  BY <1>1 DEF KeysAreFresh, SavedApart
<1>8. UnloadedIsStored'
  <2>1. ASSUME NEW k \in DOMAIN mobs', mobs'[k].ref = Unloaded
        PROVE  k \in DOMAIN mobs /\ mobs'[k] = mobs[k]
    BY <1>0, <2>1
  <2>2. ASSUME NEW n \in DOMAIN mob, NEW j \in DOMAIN mob[n].slots, mob[n].slots[j] = Unloaded
        PROVE  mob'[n] = mob[n] /\ Stored(mob[n])
    <3>1. n # m
      BY <1>3, <2>2
    <3> QED
      BY <1>1, <2>2, <3>1 DEF UnloadedIsStored, Stored
  <2> QED
    BY <1>1, <2>1, <2>2 DEF UnloadedIsStored, StoreFails, StorageOf
<1>9. StoresAreFound'
  <2>1. ASSUME NEW n \in DOMAIN mob PROVE MobIsFound(n)'
    <3>1. CASE n = m
      <4>1. ~Stored(mob'[m])
        BY <1>2
      <4>2. at # Nowhere => at[1] >= disk.key
        OBVIOUS
      <4> QED
        BY <1>1, <3>1, <4>1, <4>2 DEF StoresAreFound, MobIsFound
    <3>2. CASE n # m
      BY <3>2, <1>1 DEF StoresAreFound, MobIsFound
    <3> QED
      BY <3>1, <3>2
  <2>2. ASSUME NEW s \in DOMAIN slot PROVE SlotIsFound(s)'
    <3>1. Stored(slot[s]) => slot[s].at[1] \in DOMAIN mob /\ slot[s].at[1] # m
      BY DEF StoresAreFound, SlotIsFound, OneOwner
    <3>2. Stored(slot[s]) => mob'[slot[s].at[1]] = mob[slot[s].at[1]]
      BY <1>1, <3>1
    <3> QED
      BY <1>1, <3>2 DEF StoresAreFound, SlotIsFound
  <2>3. disk.key <= mobsKey'
    <3>1. disk.key \in Int /\ mobsKey \in Int /\ mobsKey' \in Int /\ disk.key <= mobsKey
      BY DEF TypeOK, Key, StoresAreFound
    <3> QED
      BY <3>1
  <2> QED
    BY <1>1, <2>1, <2>2, <2>3 DEF StoresAreFound
<1>10. ASSUME NEW k, NEW j PROVE IsHidden(k, j)' <=> IsHidden(k, j)
  <2>1. \A l \in DOMAIN mobs : mobs[l].ref # Unloaded => mobs[l].ref \in DOMAIN mob
    BY DEF OneOwner
  <2>2. CASE k \in DOMAIN mobs /\ mobs[k].ref # m
    BY <2>1, <2>2, <1>1 DEF IsHidden
  <2>3. CASE ~ (k \in DOMAIN mobs /\ mobs[k].ref # m)
    <3>1. ~IsHidden(k, j)
      BY <1>0, <1>3, <2>3 DEF IsHidden
    <3>2. ~IsHidden(k, j)'
      BY <1>0, <1>1, <1>3, <2>3 DEF IsHidden
    <3> QED
      BY <3>1, <3>2
  <2> QED
    BY <2>2, <2>3
<1>11. HiddenApart'
  <2>1. ASSUME NEW k \in DOMAIN mobs', mobs'[k].ref = Unloaded
        PROVE  k \in DOMAIN mobs /\ mobs'[k] = mobs[k]
    BY <1>0, <2>1
  <2> QED
    BY <1>1, <1>10, <2>1 DEF HiddenApart
<1> QED
  BY <1>5, <1>6, <1>7, <1>8, <1>9, <1>11

\* A mob that was stored goes with its slots; another one stays in memory.
LEMMA RemoveMobStep ==
  ASSUME IInv, ~MayReattach, NEW m \in DOMAIN mob, RemoveMob(m)
  PROVE  IInv' /\ UNCHANGED failed
<1> USE TreeAssumption DEF IInv
<1>1. mob[m].at # Nowhere /\ UNCHANGED <<mobsKey, disk, failed>>
      /\ mobs' = Restrict(mobs, mob[m].at[1])
  BY DEF RemoveMob
<1>2. CASE Stored(mob[m])
  <2>1. /\ mob' = Restrict(mob, m)
        /\ slot' = [s \in {x \in DOMAIN slot : x \notin {mob[m].slots[j] : j \in DOMAIN mob[m].slots}}
                      |-> slot[s]]
    BY <1>2 DEF RemoveMob, Forgets
  <2>2. IInv'
    BY <1>1, <2>1, RemoveStoredMob
  <2> QED
    BY <1>1, <2>2
<1>3. CASE ~Stored(mob[m])
  <2>1. PICK k \in DOMAIN mobs : mob[m].at = <<k>> /\ mob[m].at[1] = k /\ mobs[k].ref = m
    BY <1>1, Attached
  <2>2. /\ DOMAIN mobs' = DOMAIN mobs \ {k}
        /\ \A l \in DOMAIN mobs : l # k => mobs'[l] = mobs[l]
    BY <1>1, <2>1 DEF Restrict
  <2>3. \A l \in DOMAIN mobs : mobs[l].ref = m => l = k
    <3>1. m # Unloaded
      BY DEF TypeOK
    <3> QED
      BY <2>1, <3>1 DEF OneOwner
  <2>4. Moves(m, Nowhere, mob[m].id)
    <3>1. mob' = [mob EXCEPT ![m] = [Detached(mob[m]) EXCEPT !.slots = mob[m].slots]]
          /\ slot' = slot
      BY <1>3, DetachEffect DEF RemoveMob, Forgets
    <3>2. IsMob(mob[m])
      BY DEF TypeOK
    <3> QED
      BY <1>1, <3>1, <3>2 DEF Moves, Detached, IsMob
  <2>5. IsMap(mobs', Key, MobElement)
    BY <1>1, RestrictMap DEF TypeOK
  <2>6. mobsKey' = mobsKey /\ mobsKey \in Key /\ mobsKey <= mobsKey
    BY <1>1 DEF TypeOK, Key
  <2>7. \A l \in DOMAIN mobs' : l < mobsKey'
    BY <2>2, <2>6 DEF KeysAreFresh
  <2>8. /\ \A l \in DOMAIN mobs' : mobs'[l].ref # m => l \in DOMAIN mobs /\ mobs'[l] = mobs[l]
        /\ \A l \in DOMAIN mobs : mobs[l].ref # m => l \in DOMAIN mobs' /\ mobs'[l] = mobs[l]
        /\ \A l \in DOMAIN mobs' : mobs'[l].ref = m => Nowhere = <<l>>
    BY <2>1, <2>2, <2>3
  <2>9. IInv'
    BY <1>3, <2>4, <2>5, <2>6, <2>7, <2>8, MoveStep
  <2> QED
    BY <1>1, <2>9
<1> QED
  BY <1>2, <1>3

\* The identity of an attached mob is set by removing it and adding it again.
LEMMA SetMobIDStep ==
  ASSUME IInv, ~MayReattach, NEW m \in DOMAIN mob, NEW id \in MobIds, SetMobID(m, id)
  PROVE  IInv' /\ UNCHANGED failed
<1> USE TreeAssumption DEF IInv
<1>1. IsMob(mob[m]) /\ m # Unloaded /\ m \in Mobs /\ mobsKey \in Key
  BY DEF TypeOK
<1>2. \A l \in DOMAIN mobs : mobs[l].ref = m => mob[m].at = <<l>>
  BY <1>1 DEF OneOwner
<1>3. CASE mob[m].at = Nowhere
  <2>1. ~Stored(mob[m]) /\ mob[m].open = FALSE /\ mob[m].exists = FALSE
    BY <1>3, DetachedMob
  <2>2. /\ mob' = [mob EXCEPT ![m].id = id]
        /\ UNCHANGED <<mobs, mobsKey, slot, disk, failed>>
    BY <1>3 DEF SetMobID
  <2>3. Moves(m, Nowhere, id)
    BY <1>1, <1>3, <2>1, <2>2 DEF Moves, IsMob
  <2>4. \A l \in DOMAIN mobs' : mobs'[l].ref # m
    BY <1>2, <1>3, <2>2, Somewhere
  <2>5. mobsKey' = mobsKey /\ mobsKey <= mobsKey /\ IsMap(mobs', Key, MobElement)
    BY <1>1, <2>2 DEF TypeOK, Key
  <2>6. \A l \in DOMAIN mobs' : l < mobsKey'
    BY <2>2 DEF KeysAreFresh
  <2>7. IInv'
    BY <1>1, <2>1, <2>2, <2>3, <2>4, <2>5, <2>6, MoveStep
  <2> QED
    BY <2>2, <2>7
<1>4. CASE mob[m].at # Nowhere
  <2> DEFINE r == [id |-> id, ref |-> m]
  <2>1. /\ ~Stored(mob[m]) /\ mobsKey < MaxKey
        /\ mobs' = With(Restrict(mobs, mob[m].at[1]), mobsKey, r)
        /\ mobsKey' = mobsKey + 1
        /\ UNCHANGED <<disk, failed>>
    BY <1>4 DEF SetMobID, Forgets
  <2>2. PICK k \in DOMAIN mobs : mob[m].at = <<k>> /\ mob[m].at[1] = k /\ mobs[k].ref = m
    BY <1>4, Attached
  <2>3. Moves(m, <<mobsKey>>, id)
    <3>1. mob' = [mob EXCEPT ![m] =
            [Detached(mob[m]) EXCEPT !.id = id, !.at = <<mobsKey>>, !.slots = mob[m].slots]]
          /\ slot' = slot
      BY <1>4, <2>1, DetachEffect DEF SetMobID
    <3> QED
      BY <1>1, <2>1, <3>1 DEF Moves, Detached, IsMob
  <2>4. k # mobsKey /\ \A l \in DOMAIN mobs : l # mobsKey
    <3>1. mobsKey \in Int
      BY <1>1 DEF Key
    <3> QED
      BY <3>1 DEF KeysAreFresh
  <2>5. r.ref = m /\ r \in MobElement
    BY <1>1 DEF MobElement
  <2>6. IsMap(mobs', Key, MobElement)
    <3>1. IsMap(Restrict(mobs, mob[m].at[1]), Key, MobElement)
      BY RestrictMap DEF TypeOK
    <3> QED
      BY <1>1, <2>1, <2>5, <3>1, WithMap
  <2> HIDE DEF r
  <2>7. /\ DOMAIN mobs' = (DOMAIN mobs \ {k}) \cup {mobsKey}
        /\ mobs'[mobsKey] = r
        /\ \A l \in DOMAIN mobs \ {k} : mobs'[l] = mobs[l]
    BY <2>1, <2>2, <2>4 DEF Restrict, With
  <2>8. /\ \A l \in DOMAIN mobs' : l < mobsKey'
        /\ mobsKey' \in Key /\ mobsKey <= mobsKey' /\ mobsKey >= disk.key
    <3>1. mobsKey \in Int /\ mobsKey + 1 \in Key /\ disk.key \in Int
      BY <1>1, <2>1 DEF Key, TypeOK
    <3>2. \A l \in DOMAIN mobs : l \in Int
      BY DEF TypeOK, IsMap, Key
    <3>3. \A l \in DOMAIN mobs : l < mobsKey + 1
      BY <3>1, <3>2 DEF KeysAreFresh
    <3>4. mobsKey >= disk.key
      BY <3>1 DEF StoresAreFound
    <3>5. mobsKey < mobsKey + 1 /\ mobsKey <= mobsKey + 1
      BY <3>1
    <3> QED
      BY <2>1, <2>7, <3>1, <3>3, <3>4, <3>5
  <2>9. \A l \in DOMAIN mobs : mobs[l].ref = m => l = k
    BY <1>2, <2>2
  <2>10. /\ \A l \in DOMAIN mobs' : mobs'[l].ref # m => l \in DOMAIN mobs /\ mobs'[l] = mobs[l]
         /\ \A l \in DOMAIN mobs : mobs[l].ref # m => l \in DOMAIN mobs' /\ mobs'[l] = mobs[l]
         /\ \A l \in DOMAIN mobs' : mobs'[l].ref = m => <<mobsKey>> = <<l>>
    BY <2>2, <2>4, <2>5, <2>7, <2>9
  <2>11. <<mobsKey>> # Nowhere => \E l \in DOMAIN mobs' :
           <<mobsKey>> = <<l>> /\ mobs'[l] = [id |-> id, ref |-> m] /\ l >= disk.key
    BY <2>7, <2>8 DEF r
  <2>12. IInv'
    BY <2>1, <2>3, <2>6, <2>8, <2>10, <2>11, MoveStep
  <2> QED
    BY <2>1, <2>12
<1> QED
  BY <1>3, <1>4

\* Element j of mob m is edited: what it referred to is let go of, and it is
\* given a slot that was not attached, or it is removed.
Edits(m, j) ==
  /\ DOMAIN mob' = DOMAIN mob
  /\ \A n \in DOMAIN mob : n # m => mob'[n] = mob[n]
  /\ IsMob(mob'[m])
  /\ mob'[m].at = mob[m].at /\ mob'[m].id = mob[m].id
  /\ mob'[m].open = mob[m].open /\ mob'[m].exists = mob[m].exists
  /\ \A i \in DOMAIN mob'[m].slots : i < mob'[m].key
  /\ \A i \in DOMAIN mob'[m].slots : i # j =>
       i \in DOMAIN mob[m].slots /\ mob'[m].slots[i] = mob[m].slots[i]
  /\ \A i \in DOMAIN mob[m].slots : i # j =>
       i \in DOMAIN mob'[m].slots /\ mob'[m].slots[i] = mob[m].slots[i]
  /\ j \in DOMAIN mob'[m].slots =>
       /\ mob'[m].slots[j] \in Slots /\ mob'[m].slots[j] \in DOMAIN slot'
       /\ slot'[mob'[m].slots[j]].at = <<m, j>>
  /\ IsMap(slot', Slots, SlotObject)
  /\ \A s \in DOMAIN slot : slot[s].at # Nowhere /\ slot[s].at # <<m, j>> =>
       s \in DOMAIN slot' /\ slot'[s] = slot[s]
  /\ \A s \in DOMAIN slot' :
       /\ s \in DOMAIN slot
       /\ \/ slot'[s] = slot[s] /\ slot[s].at # <<m, j>>
          \/ ~Stored(slot'[s]) /\ slot'[s].at = Nowhere
          \/ /\ ~Stored(slot'[s]) /\ slot'[s].at = <<m, j>>
             /\ j \in DOMAIN mob'[m].slots /\ mob'[m].slots[j] = s
  /\ UNCHANGED <<mobs, mobsKey, disk, failed>>

\* An edit of one element leaves every other where it was, and hides nothing.
LEMMA EditStep ==
  ASSUME IInv, NEW m \in DOMAIN mob, NEW j, Edits(m, j)
  PROVE  IInv'
<1> USE TreeAssumption DEF IInv
<1>1. /\ DOMAIN mob' = DOMAIN mob
      /\ \A n \in DOMAIN mob : n # m => mob'[n] = mob[n]
      /\ \A n \in DOMAIN mob : mob'[n].at = mob[n].at /\ mob'[n].id = mob[n].id
      /\ \A n \in DOMAIN mob : mob'[n].open = mob[n].open /\ mob'[n].exists = mob[n].exists
      /\ mobs' = mobs /\ mobsKey' = mobsKey /\ disk' = disk
  BY DEF Edits
<1>2. \A n \in DOMAIN mob : Stored(mob'[n]) <=> Stored(mob[n])
  BY <1>1 DEF Stored
<1>3. ASSUME NEW n \in DOMAIN mob', NEW i \in DOMAIN mob'[n].slots
      PROVE  \/ i \in DOMAIN mob[n].slots /\ mob'[n].slots[i] = mob[n].slots[i] /\ <<n, i>> # <<m, j>>
             \/ /\ n = m /\ i = j /\ mob'[m].slots[j] \in Slots
                /\ mob'[m].slots[j] \in DOMAIN slot' /\ slot'[mob'[m].slots[j]].at = <<m, j>>
  <2>1. CASE n = m /\ i = j
    BY <2>1 DEF Edits
  <2>2. CASE n = m /\ i # j
    BY <2>2 DEF Edits
  <2>3. CASE n # m
    BY <2>3 DEF Edits
  <2> QED
    BY <2>1, <2>2, <2>3
<1>4. ASSUME NEW s \in DOMAIN slot'
      PROVE  /\ s \in DOMAIN slot
             /\ \/ slot'[s] = slot[s] /\ slot[s].at # <<m, j>>
                \/ ~Stored(slot'[s]) /\ slot'[s].at = Nowhere
                \/ /\ ~Stored(slot'[s]) /\ slot'[s].at = <<m, j>>
                   /\ j \in DOMAIN mob'[m].slots /\ mob'[m].slots[j] = s
  BY DEF Edits
<1>5. TypeOK'
  <2>1. \A n \in DOMAIN mob' : IsMob(mob'[n])
    BY DEF Edits, TypeOK
  <2>2. IsMap(slot', Slots, SlotObject) /\ failed' = failed
    BY DEF Edits
  <2> QED
    BY <1>1, <2>1, <2>2 DEF TypeOK
<1>6. OneOwner'
  <2>1. /\ \A n \in DOMAIN mob' : mob'[n].at # Nowhere =>
            /\ mob'[n].at[1] \in DOMAIN mobs'
            /\ mobs'[mob'[n].at[1]] = [id |-> mob'[n].id, ref |-> n]
        /\ \A k \in DOMAIN mobs' : mobs'[k].ref # Unloaded =>
            mobs'[k].ref \in DOMAIN mob' /\ mob'[mobs'[k].ref].at = <<k>>
    BY <1>1 DEF OneOwner
  <2>2. ASSUME NEW s \in DOMAIN slot', slot'[s].at # Nowhere
        PROVE  /\ slot'[s].at[1] \in DOMAIN mob'
               /\ slot'[s].at[2] \in DOMAIN mob'[slot'[s].at[1]].slots
               /\ mob'[slot'[s].at[1]].slots[slot'[s].at[2]] = s
    <3>1. CASE slot'[s] = slot[s] /\ slot[s].at # <<m, j>>
      <4> DEFINE n == slot[s].at[1]
                 i == slot[s].at[2]
      <4>1. s \in DOMAIN slot /\ n \in DOMAIN mob /\ i \in DOMAIN mob[n].slots /\ mob[n].slots[i] = s
        BY <1>4, <2>2, <3>1 DEF OneOwner
      <4>2. slot[s].at = <<n, i>>
        <5>1. slot[s] \in SlotObject
          BY <4>1 DEF TypeOK, IsMap
        <5> QED
          BY <2>2, <3>1, <5>1 DEF SlotObject
      <4>3. ~(n = m /\ i = j)
        BY <3>1, <4>2
      <4>4. i \in DOMAIN mob'[n].slots /\ mob'[n].slots[i] = mob[n].slots[i]
        BY <4>1, <4>3 DEF Edits
      <4> QED
        BY <1>1, <3>1, <4>1, <4>4
    <3>2. CASE slot'[s].at = <<m, j>> /\ j \in DOMAIN mob'[m].slots /\ mob'[m].slots[j] = s
      <4>1. slot'[s].at[1] = m /\ slot'[s].at[2] = j
        BY <3>2
      <4> QED
        BY <1>1, <3>2, <4>1
    <3> QED
      BY <1>4, <2>2, <3>1, <3>2
  <2>3. ASSUME NEW n \in DOMAIN mob', NEW i \in DOMAIN mob'[n].slots, mob'[n].slots[i] # Unloaded
        PROVE  mob'[n].slots[i] \in DOMAIN slot' /\ slot'[mob'[n].slots[i]].at = <<n, i>>
    <3>1. CASE i \in DOMAIN mob[n].slots /\ mob'[n].slots[i] = mob[n].slots[i] /\ <<n, i>> # <<m, j>>
      <4> DEFINE s == mob[n].slots[i]
      <4>1. s \in DOMAIN slot /\ slot[s].at = <<n, i>>
        BY <1>1, <2>3, <3>1 DEF OneOwner
      <4>2. s \in DOMAIN slot' /\ slot'[s] = slot[s]
        <5>1. slot[s].at # Nowhere /\ slot[s].at # <<m, j>>
          BY <3>1, <4>1, Somewhere
        <5> QED
          BY <4>1, <5>1 DEF Edits
      <4> QED
        BY <3>1, <4>1, <4>2
    <3> QED
      BY <1>3, <3>1
  <2> QED
    BY <2>1, <2>2, <2>3 DEF OneOwner
<1>7. KeysAreFresh' /\ SavedApart'
  <2>1. \A n \in DOMAIN mob' : \A i \in DOMAIN mob'[n].slots : i < mob'[n].key
    BY DEF KeysAreFresh, Edits
  <2> QED
    BY <1>1, <2>1 DEF KeysAreFresh, SavedApart
<1>8. UnloadedIsStored'
  <2>1. ASSUME NEW n \in DOMAIN mob', NEW i \in DOMAIN mob'[n].slots, mob'[n].slots[i] = Unloaded
        PROVE  /\ n \in DOMAIN mob /\ i \in DOMAIN mob[n].slots
               /\ mob[n].slots[i] = Unloaded /\ Stored(mob[n])
    BY <1>1, <1>3, <2>1 DEF UnloadedIsStored, Stored
  <2> QED
    BY <1>1, <1>2, <2>1 DEF UnloadedIsStored, StoreFails, StorageOf
<1>9. StoresAreFound'
  <2>1. ASSUME NEW n \in DOMAIN mob PROVE MobIsFound(n)'
    <3>1. \A i \in DOMAIN mob'[n].slots : mob'[n].slots[i] # Void
      BY <1>1, <1>3 DEF StoresAreFound, MobIsFound
    <3> QED
      BY <1>1, <1>2, <3>1 DEF StoresAreFound, MobIsFound
  <2>2. ASSUME NEW s \in DOMAIN slot' PROVE SlotIsFound(s)'
    <3>1. CASE ~Stored(slot'[s])
      BY <3>1 DEF SlotIsFound
    <3>2. CASE slot'[s] = slot[s] /\ Stored(slot[s])
      <4>1. s \in DOMAIN slot /\ SlotIsFound(s)
        BY <1>4 DEF StoresAreFound
      <4>2. slot[s].at[1] \in DOMAIN mob
        BY <3>2, <4>1 DEF SlotIsFound, OneOwner
      <4> QED
        BY <1>1, <1>2, <3>2, <4>1, <4>2 DEF SlotIsFound
    <3> QED
      BY <1>4, <3>1, <3>2
  <2> QED
    BY <1>1, <2>1, <2>2 DEF StoresAreFound
<1>10. ASSUME NEW k, NEW i, IsHidden(k, i)' PROVE IsHidden(k, i)
  <2>1. k \in DOMAIN mobs /\ (mobs[k].ref # Unloaded => mobs[k].ref \in DOMAIN mob')
    BY <1>1, <1>10 DEF IsHidden, OneOwner
  <2>2. CASE mobs[k].ref = Unloaded
    BY <1>1, <1>10, <2>1, <2>2 DEF IsHidden
  <2>3. CASE mobs[k].ref # Unloaded
    <3>1. i \in DOMAIN mob'[mobs[k].ref].slots /\ mob'[mobs[k].ref].slots[i] = Unloaded
      BY <1>1, <1>10, <2>3 DEF IsHidden
    <3>2. i \in DOMAIN mob[mobs[k].ref].slots /\ mob[mobs[k].ref].slots[i] = Unloaded
      BY <1>3, <2>1, <2>3, <3>1
    <3> QED
      BY <2>1, <2>3, <3>2 DEF IsHidden
  <2> QED
    BY <2>2, <2>3
<1>11. HiddenApart'
  <2>1. \A s : s \in DOMAIN slot' => s \in DOMAIN slot
    BY <1>4
  <2> QED
    BY <1>1, <1>10, <2>1 DEF HiddenApart
<1> QED
  BY <1>5, <1>6, <1>7, <1>8, <1>9, <1>11

\* A slot that is not attached is given the next key of its mob.
LEMMA AppendSlotEdits ==
  ASSUME IInv, NEW m \in DOMAIN mob, NEW s \in DOMAIN slot, AppendSlot(m, s)
  PROVE  Edits(m, mob[m].key)
<1> USE TreeAssumption DEF IInv
<1> DEFINE j == mob[m].key
<1>1. /\ slot[s].at = Nowhere /\ j < MaxSlotKey
      /\ mob' = [mob EXCEPT ![m].slots = With(@, j, s), ![m].key = @ + 1]
      /\ slot' = [slot EXCEPT ![s].at = <<m, j>>]
      /\ UNCHANGED <<mobs, mobsKey, disk, failed>>
  BY DEF AppendSlot
<1>2. IsMob(mob[m]) /\ m \in Mobs /\ s \in Slots /\ s # Unloaded /\ s # Void
  BY DEF TypeOK, IsMap
<1>3. j \in SlotKey /\ j + 1 \in SlotKey /\ j \in Int
  BY <1>1, <1>2 DEF IsMob, SlotKey
<1>4. \A i \in DOMAIN mob[m].slots : i < j /\ i \in Int
  BY <1>2 DEF KeysAreFresh, IsMob, IsMap, SlotKey
<1>5. IsMap(With(mob[m].slots, j, s), SlotKey, Slots \cup {Unloaded, Void})
  BY <1>2, <1>3, WithMap DEF IsMob
<1>6. /\ DOMAIN With(mob[m].slots, j, s) = DOMAIN mob[m].slots \cup {j}
      /\ With(mob[m].slots, j, s)[j] = s
      /\ \A i \in DOMAIN mob[m].slots : i # j /\ With(mob[m].slots, j, s)[i] = mob[m].slots[i]
  BY <1>3, <1>4 DEF With
<1>7. slot[s] \in SlotObject /\ ~Stored(slot[s])
  BY <1>1 DEF TypeOK, IsMap, StoresAreFound, SlotIsFound
<1>8. /\ DOMAIN mob' = DOMAIN mob
      /\ \A n \in DOMAIN mob : n # m => mob'[n] = mob[n]
      /\ IsMob(mob'[m])
      /\ mob'[m].at = mob[m].at /\ mob'[m].id = mob[m].id
      /\ mob'[m].open = mob[m].open /\ mob'[m].exists = mob[m].exists
      /\ mob'[m].slots = With(mob[m].slots, j, s) /\ mob'[m].key = j + 1
  BY <1>1, <1>2, <1>3, <1>5 DEF IsMob
<1>9. \A i \in DOMAIN mob'[m].slots : i < mob'[m].key
  BY <1>3, <1>4, <1>6, <1>8
<1>10. /\ DOMAIN slot' = DOMAIN slot
       /\ \A t \in DOMAIN slot : t # s => slot'[t] = slot[t]
       /\ slot'[s].at = <<m, j>> /\ ~Stored(slot'[s]) /\ slot'[s] \in SlotObject
  BY <1>1, <1>2, <1>3, <1>7 DEF Stored, SlotObject
<1>11. IsMap(slot', Slots, SlotObject)
  BY <1>1, <1>10 DEF TypeOK, IsMap
<1>12. \A t \in DOMAIN slot : slot[t].at # <<m, j>>
  <2>1. <<m, j>>[1] = m /\ <<m, j>>[2] = j /\ <<m, j>> # Nowhere
    BY Somewhere
  <2>2. ASSUME NEW t \in DOMAIN slot, slot[t].at = <<m, j>> PROVE FALSE
    <3>1. slot[t].at[1] = m /\ slot[t].at[2] = j /\ slot[t].at # Nowhere
      BY <2>1, <2>2
    <3>2. j \in DOMAIN mob[m].slots
      BY <3>1 DEF OneOwner
    <3> QED
      BY <1>3, <1>4, <3>2
  <2> QED
    BY <2>2
<1> HIDE DEF j
<1>13. /\ \A i \in DOMAIN mob'[m].slots : i # j =>
            i \in DOMAIN mob[m].slots /\ mob'[m].slots[i] = mob[m].slots[i]
       /\ \A i \in DOMAIN mob[m].slots : i # j =>
            i \in DOMAIN mob'[m].slots /\ mob'[m].slots[i] = mob[m].slots[i]
       /\ mob'[m].slots[j] = s /\ s \in DOMAIN slot'
  BY <1>6, <1>8, <1>10
<1>14. \A t \in DOMAIN slot' :
         /\ t \in DOMAIN slot
         /\ \/ slot'[t] = slot[t] /\ slot[t].at # <<m, j>>
            \/ ~Stored(slot'[t]) /\ slot'[t].at = <<m, j>> /\ t = s
  BY <1>10, <1>12
<1>15. \A t \in DOMAIN slot : slot[t].at # Nowhere => t \in DOMAIN slot' /\ slot'[t] = slot[t]
  BY <1>1, <1>10
<1>16. j \in DOMAIN mob'[m].slots
  BY <1>6, <1>8
<1>17. Edits(m, j)
  BY <1>1, <1>2, <1>8, <1>9, <1>10, <1>11, <1>13, <1>14, <1>15, <1>16 DEF Edits
<1> QED
  BY <1>17 DEF j

\* What setValue does to the slots: the one it detaches has no storage any
\* more, or the client forgets it.
LEMMA ReleasedEffect ==
  ASSUME IInv, ~MayReattach, NEW m \in DOMAIN mob, NEW j \in DOMAIN mob[m].slots
  PROVE  /\ IsMap(Released(mob[m].slots[j]), Slots, SlotObject)
         /\ \A s \in DOMAIN slot : slot[s].at # <<m, j>> =>
              s \in DOMAIN Released(mob[m].slots[j]) /\ Released(mob[m].slots[j])[s] = slot[s]
         /\ \A s \in DOMAIN Released(mob[m].slots[j]) :
              /\ s \in DOMAIN slot
              /\ \/ Released(mob[m].slots[j])[s] = slot[s] /\ slot[s].at # <<m, j>>
                 \/ /\ ~Stored(Released(mob[m].slots[j])[s])
                    /\ Released(mob[m].slots[j])[s].at = Nowhere
<1> USE TreeAssumption DEF IInv
<1> DEFINE ref == mob[m].slots[j]
<1>1. IsMap(slot, Slots, SlotObject)
  BY DEF TypeOK
<1>2. \A s \in DOMAIN slot : slot[s].at = <<m, j>> => s = ref
  <2>1. <<m, j>>[1] = m /\ <<m, j>>[2] = j
    OBVIOUS
  <2> QED
    BY <2>1, Somewhere DEF OneOwner
<1>3. ref \in DOMAIN slot => slot[ref].at = <<m, j>>
  BY <1>1 DEF OneOwner, IsMap
<1> HIDE DEF ref
<1>4. CASE ref \notin DOMAIN slot
  <2>1. Released(ref) = slot
    BY <1>4 DEF Released
  <2> QED
    BY <1>1, <1>2, <1>4, <2>1 DEF ref
<1>5. CASE ref \in DOMAIN slot /\ Stored(slot[ref])
  <2>1. Released(ref) = Restrict(slot, ref)
    BY <1>5 DEF Released, Forgets
  <2>2. IsMap(Released(ref), Slots, SlotObject)
    BY <1>1, <2>1, RestrictMap
  <2>3. /\ DOMAIN Released(ref) = DOMAIN slot \ {ref}
        /\ \A s \in DOMAIN slot \ {ref} : Released(ref)[s] = slot[s]
    BY <2>1 DEF Restrict
  <2> QED
    BY <1>2, <1>3, <2>2, <2>3 DEF ref
<1>6. CASE ref \in DOMAIN slot /\ ~Stored(slot[ref])
  <2>1. Released(ref) = [slot EXCEPT ![ref] = Detached(slot[ref])]
    BY <1>6 DEF Released, Forgets
  <2>2. /\ Detached(slot[ref]) \in SlotObject
        /\ Detached(slot[ref]).at = Nowhere /\ ~Stored(Detached(slot[ref]))
    BY <1>1, <1>6 DEF IsMap, Detached, SlotObject, Stored
  <2>3. IsMap(Released(ref), Slots, SlotObject)
    BY <1>1, <2>1, <2>2 DEF IsMap
  <2>4. /\ DOMAIN Released(ref) = DOMAIN slot
        /\ \A s \in DOMAIN slot : s # ref => Released(ref)[s] = slot[s]
        /\ Released(ref)[ref] = Detached(slot[ref])
    BY <1>6, <2>1
  <2> QED
    BY <1>2, <1>3, <1>6, <2>2, <2>3, <2>4 DEF ref
<1> QED
  BY <1>4, <1>5, <1>6

\* The element goes, and with it what it referred to.
LEMMA RemoveSlotAtEdits ==
  ASSUME IInv, ~MayReattach, NEW m \in DOMAIN mob, NEW j \in DOMAIN mob[m].slots,
         RemoveSlotAt(m, j)
  PROVE  Edits(m, j)
<1> USE TreeAssumption DEF IInv
<1>1. /\ mob' = [mob EXCEPT ![m].slots = Restrict(@, j)]
      /\ slot' = Released(mob[m].slots[j])
      /\ UNCHANGED <<mobs, mobsKey, disk, failed>>
  BY DEF RemoveSlotAt
<1>2. IsMob(mob[m])
  BY DEF TypeOK
<1>3. IsMap(Restrict(mob[m].slots, j), SlotKey, Slots \cup {Unloaded, Void})
  BY <1>2, RestrictMap DEF IsMob
<1>4. /\ DOMAIN Restrict(mob[m].slots, j) = DOMAIN mob[m].slots \ {j}
      /\ \A i \in DOMAIN mob[m].slots : i # j => Restrict(mob[m].slots, j)[i] = mob[m].slots[i]
  BY DEF Restrict
<1>5. /\ DOMAIN mob' = DOMAIN mob
      /\ \A n \in DOMAIN mob : n # m => mob'[n] = mob[n]
      /\ IsMob(mob'[m])
      /\ mob'[m].at = mob[m].at /\ mob'[m].id = mob[m].id
      /\ mob'[m].open = mob[m].open /\ mob'[m].exists = mob[m].exists
      /\ mob'[m].slots = Restrict(mob[m].slots, j) /\ mob'[m].key = mob[m].key
  BY <1>1, <1>2, <1>3 DEF IsMob
<1>6. \A i \in DOMAIN mob[m].slots : i < mob[m].key
  BY DEF KeysAreFresh
<1> QED
  BY <1>1, <1>4, <1>5, <1>6, ReleasedEffect DEF Edits

\* The new slot takes the name of the one it replaces.
LEMMA SetValueAtEdits ==
  ASSUME IInv, ~MayReattach, NEW m \in DOMAIN mob, NEW j \in DOMAIN mob[m].slots,
         NEW s \in DOMAIN slot, SetValueAt(m, j, s)
  PROVE  Edits(m, j)
<1> USE TreeAssumption DEF IInv
<1> DEFINE released == Released(mob[m].slots[j])
<1>1. /\ slot[s].at = Nowhere
      /\ mob' = [mob EXCEPT ![m].slots[j] = s]
      /\ slot' = [released EXCEPT ![s].at = <<m, j>>]
      /\ UNCHANGED <<mobs, mobsKey, disk, failed>>
  BY DEF SetValueAt
<1>2. IsMob(mob[m]) /\ m \in Mobs /\ s \in Slots /\ j \in SlotKey
  BY DEF TypeOK, IsMap, IsMob
<1>3. /\ DOMAIN mob' = DOMAIN mob
      /\ \A n \in DOMAIN mob : n # m => mob'[n] = mob[n]
      /\ IsMob(mob'[m])
      /\ mob'[m].at = mob[m].at /\ mob'[m].id = mob[m].id
      /\ mob'[m].open = mob[m].open /\ mob'[m].exists = mob[m].exists
      /\ mob'[m].slots = [mob[m].slots EXCEPT ![j] = s] /\ mob'[m].key = mob[m].key
  <2>1. IsMap([mob[m].slots EXCEPT ![j] = s], SlotKey, Slots \cup {Unloaded, Void})
    BY <1>2 DEF IsMob, IsMap
  <2> QED
    BY <1>1, <1>2, <2>1 DEF IsMob
<1>4. /\ DOMAIN mob'[m].slots = DOMAIN mob[m].slots /\ mob'[m].slots[j] = s
      /\ \A i \in DOMAIN mob[m].slots : i # j => mob'[m].slots[i] = mob[m].slots[i]
  BY <1>3
<1>5. \A i \in DOMAIN mob[m].slots : i < mob[m].key
  BY DEF KeysAreFresh
<1>6. /\ IsMap(released, Slots, SlotObject)
      /\ \A t \in DOMAIN slot : slot[t].at # <<m, j>> =>
           t \in DOMAIN released /\ released[t] = slot[t]
      /\ \A t \in DOMAIN released :
           /\ t \in DOMAIN slot
           /\ \/ released[t] = slot[t] /\ slot[t].at # <<m, j>>
              \/ ~Stored(released[t]) /\ released[t].at = Nowhere
  BY ReleasedEffect
<1> HIDE DEF released
<1>7. s \in DOMAIN released /\ released[s] = slot[s] /\ ~Stored(slot[s])
  BY <1>1, <1>6, Somewhere DEF StoresAreFound, SlotIsFound
<1>8. /\ DOMAIN slot' = DOMAIN released
      /\ \A t \in DOMAIN released : t # s => slot'[t] = released[t]
      /\ slot'[s].at = <<m, j>> /\ ~Stored(slot'[s]) /\ slot'[s] \in SlotObject
  <2>1. released[s] \in SlotObject
    BY <1>6, <1>7 DEF IsMap
  <2> QED
    BY <1>1, <1>2, <1>7, <2>1 DEF Stored, SlotObject
<1>9. IsMap(slot', Slots, SlotObject)
  BY <1>1, <1>6, <1>8 DEF IsMap
<1>10. ASSUME NEW t \in DOMAIN slot, slot[t].at # Nowhere, slot[t].at # <<m, j>>
       PROVE  t \in DOMAIN slot' /\ slot'[t] = slot[t]
  BY <1>1, <1>6, <1>8, <1>10
<1>11. ASSUME NEW t \in DOMAIN slot'
       PROVE  /\ t \in DOMAIN slot
              /\ \/ slot'[t] = slot[t] /\ slot[t].at # <<m, j>>
                 \/ ~Stored(slot'[t]) /\ slot'[t].at = Nowhere
                 \/ ~Stored(slot'[t]) /\ slot'[t].at = <<m, j>> /\ t = s
  BY <1>6, <1>8
<1> QED
  BY <1>1, <1>2, <1>3, <1>4, <1>5, <1>7, <1>8, <1>9, <1>10, <1>11 DEF Edits

\* A mob is restored where its reference is, with nothing of it loaded.
LEMMA LoadMobStep ==
  ASSUME IInv, NEW k \in DOMAIN mobs, LoadMob(k)
  PROVE  IInv' /\ UNCHANGED failed
<1> USE TreeAssumption DEF IInv
<1> DEFINE r == Restored(k)
<1>1. mobs[k].ref = Unloaded /\ k \in DOMAIN disk.sub /\ disk.sub[k].id = mobs[k].id
  BY DEF LoadMob, UnloadedIsStored
<1>0. PICK m : m = disk.sub[k].mob
  OBVIOUS
<1>2. /\ mobs' = [mobs EXCEPT ![k].ref = m] /\ mob' = With(mob, m, r)
      /\ UNCHANGED <<mobsKey, slot, disk, failed>>
  BY <1>0, <1>1 DEF LoadMob
<1>3. IsStorage(disk.sub[k]) /\ k \in Key /\ mobs[k] \in MobElement
  BY <1>1 DEF TypeOK, IsMap
<1>4. m \in Mobs /\ m # Unloaded /\ m \notin DOMAIN mob
  BY <1>0, <1>1, <1>3 DEF IsStorage, HiddenApart
<1>5. /\ r.at = <<k>> /\ r.at[1] = k /\ <<k>> # Nowhere
      /\ r.id = mobs[k].id /\ r.open = FALSE /\ r.exists = TRUE
      /\ DOMAIN r.slots = disk.sub[k].index /\ r.key = disk.sub[k].key
      /\ \A j \in disk.sub[k].index : r.slots[j] = Unloaded
      /\ Stored(r)
  BY <1>1, Somewhere DEF Restored, Stored
<1>6. IsMob(r)
  <2>1. IsMap([j \in disk.sub[k].index |-> Unloaded], SlotKey, Slots \cup {Unloaded, Void})
    BY <1>3 DEF IsStorage, IsMap
  <2> QED
    BY <1>1, <1>3, <2>1 DEF Restored, IsMob, IsStorage
<1> HIDE DEF r
<1>7. /\ DOMAIN mob' = DOMAIN mob \cup {m} /\ mob'[m] = r
      /\ \A n \in DOMAIN mob : n # m /\ mob'[n] = mob[n]
  BY <1>2, <1>4 DEF With
<1>8. /\ DOMAIN mobs' = DOMAIN mobs
      /\ \A l \in DOMAIN mobs : l # k => mobs'[l] = mobs[l]
      /\ mobs'[k] = [id |-> mobs[k].id, ref |-> m]
      /\ mobs'[k].id = mobs[k].id /\ mobs'[k].ref = m
  BY <1>2, <1>3 DEF MobElement
<1>9. \A l \in DOMAIN mobs : mobs[l].ref # m
  BY <1>4 DEF OneOwner
<1>10. TypeOK'
  <2>1. IsMap(mobs', Key, MobElement)
    BY <1>3, <1>4, <1>8, <1>2 DEF TypeOK, IsMap, MobElement
  <2> QED
    BY <1>2, <1>4, <1>6, <1>7, <2>1 DEF TypeOK
<1>11. OneOwner'
  <2>1. ASSUME NEW n \in DOMAIN mob', mob'[n].at # Nowhere
        PROVE  /\ mob'[n].at[1] \in DOMAIN mobs'
               /\ mobs'[mob'[n].at[1]] = [id |-> mob'[n].id, ref |-> n]
    <3>1. CASE n = m
      BY <3>1, <1>5, <1>7, <1>8
    <3>2. CASE n # m
      <4>1. mob[n].at[1] \in DOMAIN mobs /\ mobs[mob[n].at[1]] = [id |-> mob[n].id, ref |-> n]
            /\ mob'[n] = mob[n] /\ n \in DOMAIN mob
        BY <3>2, <2>1, <1>7 DEF OneOwner
      <4>2. mobs[mob[n].at[1]].ref = n
        BY <4>1
      <4>3. n # Unloaded
        BY <4>1 DEF TypeOK
      <4> QED
        BY <1>1, <1>8, <4>1, <4>2, <4>3
    <3> QED
      BY <3>1, <3>2
  <2>2. \A l \in DOMAIN mobs' : mobs'[l].ref # Unloaded =>
          mobs'[l].ref \in DOMAIN mob' /\ mob'[mobs'[l].ref].at = <<l>>
    BY <1>5, <1>7, <1>8 DEF OneOwner
  <2>3. \A s \in DOMAIN slot' : slot'[s].at # Nowhere =>
          /\ slot'[s].at[1] \in DOMAIN mob'
          /\ slot'[s].at[2] \in DOMAIN mob'[slot'[s].at[1]].slots
          /\ mob'[slot'[s].at[1]].slots[slot'[s].at[2]] = s
    BY <1>2, <1>7 DEF OneOwner
  <2>4. \A n \in DOMAIN mob' : \A j \in DOMAIN mob'[n].slots : mob'[n].slots[j] # Unloaded =>
          mob'[n].slots[j] \in DOMAIN slot' /\ slot'[mob'[n].slots[j]].at = <<n, j>>
    BY <1>2, <1>5, <1>7 DEF OneOwner
  <2> QED
    BY <2>1, <2>2, <2>3, <2>4 DEF OneOwner
<1>12. KeysAreFresh' /\ SavedApart'
  BY <1>1, <1>2, <1>5, <1>7, <1>8 DEF KeysAreFresh, SavedApart
<1>13. UnloadedIsStored'
  <2>1. \A l \in DOMAIN mobs' : mobs'[l].ref = Unloaded =>
          l \in DOMAIN disk'.sub /\ disk'.sub[l].id = mobs'[l].id
    BY <1>2, <1>4, <1>8 DEF UnloadedIsStored
  <2>2. ASSUME NEW n \in DOMAIN mob', NEW j \in DOMAIN mob'[n].slots, mob'[n].slots[j] = Unloaded
        PROVE  /\ mob'[n].exists /\ ~StoreFails(n)'
               /\ j \in DOMAIN StorageOf(n)'.sub /\ StorageOf(n)'.sub[j] \in Slots
    <3>1. CASE n = m
      <4>1. StorageOf(m)' = disk.sub[k]
        BY <1>2, <1>5, <1>7 DEF StorageOf
      <4>2. ~StoreFails(m)'
        BY <1>1, <1>2, <1>5, <1>7 DEF StoreFails
      <4>3. j \in disk.sub[k].index /\ j \in SlotKey
        BY <3>1, <2>2, <1>3, <1>5, <1>7 DEF IsStorage
      <4>4. IsHidden(k, j)
        BY <1>1, <4>3 DEF IsHidden
      <4>5. disk.sub[k].sub[j] \in Slots
        BY <1>3, <4>3, <4>4 DEF HiddenApart
      <4>6. j \in DOMAIN disk.sub[k].sub
        BY <1>1, <4>3 DEF KeysAreFresh
      <4> QED
        BY <1>5, <1>7, <3>1, <4>1, <4>2, <4>5, <4>6
    <3>2. CASE n # m
      BY <3>2, <2>2, <1>2, <1>7 DEF UnloadedIsStored, StoreFails, StorageOf, Stored
    <3> QED
      BY <3>1, <3>2
  <2> QED
    BY <2>1, <2>2 DEF UnloadedIsStored
<1>14. StoresAreFound'
  <2>1. ASSUME NEW n \in DOMAIN mob' PROVE MobIsFound(n)'
    <3>1. CASE n = m
      <4>1. mob'[n] = r /\ disk' = disk /\ disk.sub[k].mob = n
        BY <1>0, <1>2, <1>7, <3>1
      <4>2. \A j \in DOMAIN r.slots : r.slots[j] # Void
        <5>1. Unloaded # Void
          OBVIOUS
        <5> QED
          BY <1>5, <5>1
      <4> QED
        BY <1>1, <1>5, <4>1, <4>2 DEF MobIsFound
    <3>2. CASE n # m
      BY <3>2, <1>2, <1>7 DEF StoresAreFound, MobIsFound
    <3> QED
      BY <3>1, <3>2
  <2>2. ASSUME NEW s \in DOMAIN slot PROVE SlotIsFound(s)'
    <3>1. Stored(slot[s]) => slot[s].at[1] \in DOMAIN mob
      BY DEF StoresAreFound, SlotIsFound, OneOwner
    <3>2. Stored(slot[s]) => mob'[slot[s].at[1]] = mob[slot[s].at[1]]
      BY <1>7, <3>1
    <3> QED
      BY <1>2, <3>2 DEF StoresAreFound, SlotIsFound
  <2> QED
    BY <1>2, <2>1, <2>2 DEF StoresAreFound
<1>15. ASSUME NEW l, NEW j PROVE IsHidden(l, j)' <=> IsHidden(l, j)
  <2>1. CASE l = k
    BY <2>1, <1>1, <1>2, <1>4, <1>5, <1>7, <1>8 DEF IsHidden
  <2>2. CASE l # k
    BY <2>2, <1>2, <1>7, <1>8 DEF IsHidden, OneOwner
  <2> QED
    BY <2>1, <2>2
<1>16. HiddenApart'
  <2>1. ASSUME NEW l \in DOMAIN mobs', mobs'[l].ref = Unloaded
        PROVE  l \in DOMAIN mobs /\ l # k /\ mobs[l].ref = Unloaded
    BY <2>1, <1>4, <1>8
  <2>2. ASSUME NEW l \in DOMAIN mobs', mobs'[l].ref = Unloaded
        PROVE  disk.sub[l].mob \notin DOMAIN mob'
    BY <1>0, <1>1, <1>7, <2>1, <2>2 DEF HiddenApart
  <2> QED
    BY <1>2, <1>15, <2>1, <2>2 DEF HiddenApart
<1> QED
  BY <1>2, <1>10, <1>11, <1>12, <1>13, <1>14, <1>16

\* What is hidden at an element of an attached mob.
LEMMA HiddenSlot ==
  ASSUME IInv, NEW m \in DOMAIN mob, NEW j \in DOMAIN mob[m].slots, mob[m].slots[j] = Unloaded
  PROVE  /\ mob[m].exists = TRUE /\ Stored(mob[m]) /\ mob[m].at # Nowhere
         /\ StorageOf(m) = disk.sub[mob[m].at[1]]
         /\ mob[m].at[1] \in DOMAIN mobs /\ mob[m].at[1] \in DOMAIN disk.sub
         /\ mobs[mob[m].at[1]].ref = m
         /\ mob[m].at[1] \in Key /\ j \in SlotKey
         /\ IsHidden(mob[m].at[1], j)
         /\ j \in DOMAIN disk.sub[mob[m].at[1]].sub
<1> USE TreeAssumption DEF IInv
<1>1. IsMob(mob[m])
  BY DEF TypeOK
<1>2. mob[m].exists = TRUE /\ Stored(mob[m]) /\ mob[m].at # Nowhere
  BY <1>1 DEF UnloadedIsStored, Stored, StoreFails, IsMob
<1>3. PICK k \in DOMAIN mobs : mob[m].at[1] = k /\ k \in Key /\ mobs[k].ref = m /\ m # Unloaded
  BY <1>2, Attached
<1>4. StorageOf(m) = disk.sub[k] /\ k \in DOMAIN disk.sub
  BY <1>2, <1>3 DEF StorageOf, StoresAreFound, MobIsFound
<1>5. j \in DOMAIN disk.sub[k].sub
  BY <1>4 DEF UnloadedIsStored
<1>6. j \in SlotKey
  BY <1>1 DEF IsMob, IsMap
<1>7. IsHidden(k, j)
  BY <1>3 DEF IsHidden
<1> QED
  BY <1>2, <1>3, <1>4, <1>5, <1>6, <1>7

\* A slot is restored where its reference is; it was in the file only.
LEMMA LoadSlotStep ==
  ASSUME IInv, NEW m \in DOMAIN mob, NEW j \in DOMAIN mob[m].slots, LoadSlot(m, j)
  PROVE  IInv' /\ UNCHANGED failed
<1> USE TreeAssumption DEF IInv
<1> DEFINE k == mob[m].at[1]
           s == disk.sub[k].sub[j]
           r == [at |-> <<m, j>>, open |-> FALSE, exists |-> TRUE]
<1>1. mob[m].slots[j] = Unloaded /\ IsMob(mob[m]) /\ m \in Mobs /\ m # Unloaded
  BY DEF LoadSlot, TypeOK
<1>2. /\ mob[m].exists = TRUE /\ Stored(mob[m]) /\ mob[m].at # Nowhere
      /\ StorageOf(m) = disk.sub[k] /\ k \in DOMAIN mobs /\ k \in DOMAIN disk.sub
      /\ mobs[k].ref = m /\ k \in Key /\ j \in SlotKey
      /\ IsHidden(k, j) /\ j \in DOMAIN disk.sub[k].sub
  BY <1>1, HiddenSlot
<1>3. s \in Slots /\ s \notin DOMAIN slot /\ s # Unloaded /\ s # Void
  BY <1>2 DEF HiddenApart
<1>4. ~StoreFails(m)
  BY <1>1 DEF UnloadedIsStored
<1>5. /\ mob' = [mob EXCEPT ![m].slots[j] = s, ![m].open = TRUE]
      /\ slot' = With(slot, s, r)
      /\ UNCHANGED <<mobs, mobsKey, disk, failed>>
  BY <1>2, <1>3, <1>4 DEF LoadSlot
<1>6. r.at = <<m, j>> /\ r.at[1] = m /\ r.at[2] = j /\ r.exists = TRUE /\ r \in SlotObject
  BY <1>1, <1>2 DEF SlotObject
<1> HIDE DEF r, s, k
<1>7. /\ DOMAIN slot' = DOMAIN slot \cup {s} /\ slot'[s] = r
      /\ \A t \in DOMAIN slot : t # s /\ slot'[t] = slot[t]
  BY <1>3, <1>5 DEF With
<1>8. /\ DOMAIN mob' = DOMAIN mob
      /\ \A n \in DOMAIN mob : n # m => mob'[n] = mob[n]
      /\ mob'[m].at = mob[m].at /\ mob'[m].id = mob[m].id /\ mob'[m].key = mob[m].key
      /\ mob'[m].exists = TRUE /\ Stored(mob'[m])
      /\ DOMAIN mob'[m].slots = DOMAIN mob[m].slots /\ mob'[m].slots[j] = s
      /\ \A i \in DOMAIN mob[m].slots : i # j => mob'[m].slots[i] = mob[m].slots[i]
      /\ IsMob(mob'[m])
  <2>1. mob'[m] = [mob[m] EXCEPT !.slots = [mob[m].slots EXCEPT ![j] = s], !.open = TRUE]
    BY <1>1, <1>5 DEF IsMob
  <2>2. IsMap([mob[m].slots EXCEPT ![j] = s], SlotKey, Slots \cup {Unloaded, Void})
    BY <1>1, <1>3 DEF IsMob, IsMap
  <2>3. IsMob(mob'[m])
    BY <1>1, <2>1, <2>2 DEF IsMob
  <2> QED
    BY <1>1, <1>2, <1>5, <2>1, <2>3 DEF Stored, IsMob
<1>9. \A n \in DOMAIN mob : /\ mob'[n].at = mob[n].at /\ mob'[n].id = mob[n].id
                            /\ mob'[n].key = mob[n].key
                            /\ mob'[n].exists = mob[n].exists
                            /\ Stored(mob'[n]) = Stored(mob[n])
                            /\ DOMAIN mob'[n].slots = DOMAIN mob[n].slots
  <2> TAKE n \in DOMAIN mob
  <2>1. CASE n = m
    <3>1. Stored(mob'[m]) = Stored(mob[m])
      BY <1>2, <1>8 DEF Stored
    <3> QED
      BY <1>2, <1>8, <2>1, <3>1
  <2>2. CASE n # m
    BY <1>8, <2>2
  <2> QED
    BY <2>1, <2>2
<1>10. ASSUME NEW n \in DOMAIN mob, NEW i \in DOMAIN mob[n].slots
       PROVE  \/ mob'[n].slots[i] = mob[n].slots[i] /\ <<n, i>> # <<m, j>>
              \/ n = m /\ i = j /\ mob'[n].slots[i] = s
  <2>1. CASE n = m /\ i = j
    BY <1>8, <2>1
  <2>2. CASE n = m /\ i # j
    BY <1>8, <2>2
  <2>3. CASE n # m
    BY <1>8, <2>3
  <2> QED
    BY <2>1, <2>2, <2>3
<1>11. TypeOK'
  <2>1. IsMap(slot', Slots, SlotObject)
    BY <1>3, <1>5, <1>6, WithMap DEF TypeOK
  <2> QED
    BY <1>5, <1>8, <2>1 DEF TypeOK
<1>12. OneOwner'
  <2>1. /\ \A n \in DOMAIN mob' : mob'[n].at # Nowhere =>
            /\ mob'[n].at[1] \in DOMAIN mobs'
            /\ mobs'[mob'[n].at[1]] = [id |-> mob'[n].id, ref |-> n]
        /\ \A l \in DOMAIN mobs' : mobs'[l].ref # Unloaded =>
            mobs'[l].ref \in DOMAIN mob' /\ mob'[mobs'[l].ref].at = <<l>>
    BY <1>5, <1>8, <1>9 DEF OneOwner
  <2>2. ASSUME NEW t \in DOMAIN slot', slot'[t].at # Nowhere
        PROVE  /\ slot'[t].at[1] \in DOMAIN mob'
               /\ slot'[t].at[2] \in DOMAIN mob'[slot'[t].at[1]].slots
               /\ mob'[slot'[t].at[1]].slots[slot'[t].at[2]] = t
    <3>1. CASE t = s
      BY <1>6, <1>7, <1>8, <3>1
    <3>2. CASE t # s
      <4> DEFINE n == slot[t].at[1]
                 i == slot[t].at[2]
      <4>1. /\ t \in DOMAIN slot /\ slot'[t] = slot[t] /\ n \in DOMAIN mob
            /\ i \in DOMAIN mob[n].slots /\ mob[n].slots[i] = t
        BY <1>7, <2>2, <3>2 DEF OneOwner
      <4>2. t # Unloaded
        BY <4>1 DEF TypeOK, IsMap
      <4>3. mob'[n].slots[i] = t
        BY <1>1, <1>10, <4>1, <4>2
      <4> QED
        BY <1>8, <1>9, <4>1, <4>3
    <3> QED
      BY <3>1, <3>2
  <2>3. ASSUME NEW n \in DOMAIN mob', NEW i \in DOMAIN mob'[n].slots, mob'[n].slots[i] # Unloaded
        PROVE  mob'[n].slots[i] \in DOMAIN slot' /\ slot'[mob'[n].slots[i]].at = <<n, i>>
    <3>1. n \in DOMAIN mob /\ i \in DOMAIN mob[n].slots
      BY <1>8, <1>9
    <3>2. CASE mob'[n].slots[i] = mob[n].slots[i]
      BY <1>7, <2>3, <3>1, <3>2 DEF OneOwner
    <3>3. CASE n = m /\ i = j /\ mob'[n].slots[i] = s
      BY <1>6, <1>7, <3>3
    <3> QED
      BY <1>10, <3>1, <3>2, <3>3
  <2> QED
    BY <2>1, <2>2, <2>3 DEF OneOwner
<1>13. KeysAreFresh' /\ SavedApart'
  BY <1>5, <1>8, <1>9 DEF KeysAreFresh, SavedApart
<1>14. UnloadedIsStored'
  <2>1. ASSUME NEW n \in DOMAIN mob', NEW i \in DOMAIN mob'[n].slots, mob'[n].slots[i] = Unloaded
        PROVE  /\ n \in DOMAIN mob /\ i \in DOMAIN mob[n].slots
               /\ mob[n].slots[i] = Unloaded /\ Stored(mob[n])
    BY <1>3, <1>8, <1>9, <1>10, <2>1 DEF UnloadedIsStored, Stored
  <2> QED
    BY <1>5, <1>9, <2>1 DEF UnloadedIsStored, StoreFails, StorageOf, Stored
<1>15. StoresAreFound'
  <2>1. ASSUME NEW n \in DOMAIN mob PROVE MobIsFound(n)'
    <3>1. \A i \in DOMAIN mob'[n].slots : mob'[n].slots[i] # Void
      BY <1>3, <1>9, <1>10 DEF StoresAreFound, MobIsFound
    <3> QED
      BY <1>5, <1>9, <3>1 DEF StoresAreFound, MobIsFound
  <2>2. ASSUME NEW t \in DOMAIN slot' PROVE SlotIsFound(t)'
    <3>1. CASE t = s
      <4>1. slot'[t].at # Nowhere /\ slot'[t].at[1] = m /\ slot'[t].at[2] = j
        BY <1>6, <1>7, <3>1, Somewhere
      <4>2. mob'[m].at[1] = k /\ disk' = disk
        BY <1>5, <1>8 DEF k
      <4> QED
        BY <1>2, <1>8, <4>1, <4>2 DEF SlotIsFound
    <3>2. CASE t # s
      <4> DEFINE n == slot[t].at[1]
      <4>1. t \in DOMAIN slot /\ slot'[t] = slot[t] /\ SlotIsFound(t)
        BY <1>7, <3>2 DEF StoresAreFound
      <4>2. Stored(slot[t]) => n \in DOMAIN mob
        BY <4>1 DEF SlotIsFound, OneOwner
      <4>3. Stored(slot[t]) => /\ mob'[n].at = mob[n].at /\ mob'[n].exists = mob[n].exists
                              /\ Stored(mob'[n]) = Stored(mob[n])
        BY <1>9, <4>2
      <4> QED
        BY <1>5, <4>1, <4>3 DEF SlotIsFound
    <3> QED
      BY <3>1, <3>2
  <2> QED
    BY <1>5, <1>8, <2>1, <2>2 DEF StoresAreFound
<1>16. ASSUME NEW l, NEW i, IsHidden(l, i)'
       PROVE  IsHidden(l, i) /\ <<l, i>> # <<k, j>>
  <2>1. l \in DOMAIN mobs
    BY <1>5, <1>16 DEF IsHidden
  <2>2. CASE mobs[l].ref = Unloaded
    BY <1>1, <1>2, <1>5, <1>16, <2>1, <2>2 DEF IsHidden
  <2>3. CASE mobs[l].ref # Unloaded
    <3> DEFINE n == mobs[l].ref
    <3>1. n \in DOMAIN mob /\ mob[n].at = <<l>>
      BY <2>1, <2>3 DEF OneOwner
    <3>2. i \in DOMAIN mob[n].slots /\ mob'[n].slots[i] = Unloaded
      BY <1>5, <1>9, <1>16, <2>3, <3>1 DEF IsHidden
    <3>3. mob[n].slots[i] = Unloaded /\ <<n, i>> # <<m, j>>
      BY <1>3, <1>10, <3>1, <3>2
    <3> QED
      BY <1>2, <2>1, <2>3, <3>2, <3>3 DEF IsHidden
  <2> QED
    BY <2>2, <2>3
<1>17. HiddenApart'
  <2>1. ASSUME NEW l \in Key, NEW i \in SlotKey, IsHidden(l, i)'
        PROVE  disk.sub[l].sub[i] \in Slots \ DOMAIN slot'
    <3>1. IsHidden(l, i) /\ <<l, i>> # <<k, j>>
      BY <1>16, <2>1
    <3>2. disk.sub[l].sub[i] # s
      BY <1>2, <3>1 DEF HiddenApart, s
    <3> QED
      BY <1>7, <3>1, <3>2 DEF HiddenApart
  <2> QED
    BY <1>5, <1>8, <1>16, <2>1 DEF HiddenApart
<1> QED
  BY <1>5, <1>11, <1>12, <1>13, <1>14, <1>15, <1>17

\* Slot s is opened, at element j of the mob m, which is at k: the storages of
\* both are there afterwards.
Opens(s, m, j, k) ==
  /\ slot[s].at # Nowhere /\ slot[s].at[1] = m /\ slot[s].at[2] = j
  /\ j \in DOMAIN mob[m].slots /\ mob[m].slots[j] = s
  /\ mob[m].at # Nowhere /\ mob[m].at[1] = k /\ k \in Key /\ mobs[k].ref = m
  /\ m # Unloaded
  /\ DOMAIN disk' = {"key", "index", "sub"}
  /\ disk'.key = disk.key /\ disk'.index = disk.index
  /\ DOMAIN disk'.sub = DOMAIN disk.sub \cup {k}
  /\ \A l \in DOMAIN disk.sub : l # k => disk'.sub[l] = disk.sub[l]
  /\ IsStorage(disk'.sub[k]) /\ disk'.sub[k].mob = m
  /\ disk'.sub[k].index = StorageOf(m).index /\ disk'.sub[k].key = StorageOf(m).key
  /\ disk'.sub[k].id = StorageOf(m).id
  /\ DOMAIN disk'.sub[k].sub = DOMAIN StorageOf(m).sub \cup {j}
  /\ \A i \in DOMAIN StorageOf(m).sub : disk'.sub[k].sub[i] = StorageOf(m).sub[i]
  /\ mob' = [mob EXCEPT ![m].open = TRUE]
  /\ slot' = [slot EXCEPT ![s].open = TRUE]
  /\ UNCHANGED <<mobs, mobsKey, failed>>

\* Opening the stores on the way to a slot creates what is not there, and
\* takes the place of nothing that is.
LEMMA OpenedStorage ==
  ASSUME IInv, ~MayStreamReplaced, NEW s \in DOMAIN slot, OpenSlot(s)
  PROVE  \E m \in DOMAIN mob, j \in SlotKey, k \in DOMAIN mobs : Opens(s, m, j, k)
<1> USE TreeAssumption DEF IInv
<1>1. slot[s].at # Nowhere /\ slot[s] \in SlotObject
  BY DEF OpenSlot, TypeOK, IsMap
<1>2. PICK m \in DOMAIN mob, j \in SlotKey :
        /\ slot[s].at = <<m, j>> /\ slot[s].at[1] = m /\ slot[s].at[2] = j
        /\ j \in DOMAIN mob[m].slots /\ mob[m].slots[j] = s
  BY <1>1 DEF SlotObject, OneOwner
<1>3. mob[m].at # Nowhere
  BY <1>2 DEF OpenSlot
<1>4. PICK k \in DOMAIN mobs : mob[m].at[1] = k /\ k \in Key /\ mobs[k].ref = m /\ m # Unloaded
  BY <1>3, Attached
<1>5. IsStorage(StorageOf(m)) /\ StorageOf(m).mob = m
      /\ (~Stored(mob[m]) => DOMAIN StorageOf(m).sub = {})
  BY <1>3, StorageType
<1>6. slot[s].exists => /\ Stored(mob[m]) /\ j \in DOMAIN StorageOf(m).sub
  <2>1. slot[s].exists => Stored(mob[m]) /\ j \in DOMAIN disk.sub[k].sub
    BY <1>2, <1>4 DEF StoresAreFound, SlotIsFound, Stored
  <2> QED
    BY <1>4, <2>1 DEF StorageOf
<1>7. ~slot[s].exists => j \notin DOMAIN StorageOf(m).sub
  BY <1>2, <1>5 DEF OpenSlot
<1>8. ~StoreFails(m)
  <2>1. mob[m].exists => k \in DOMAIN disk.sub
    BY <1>4 DEF StoresAreFound, MobIsFound, Stored
  <2> QED
    BY <1>3, <1>4, <2>1 DEF StoreFails
<1>9. ~SlotStoreFails(s, StorageOf(m))
  BY <1>1, <1>2, <1>6 DEF SlotStoreFails
<1> DEFINE st == IF slot[s].exists THEN StorageOf(m)
                 ELSE [StorageOf(m) EXCEPT !.sub = With(@, j, Void)]
<1>10. /\ disk' = [disk EXCEPT !.sub = With(@, k, st)]
       /\ mob' = [mob EXCEPT ![m].open = TRUE]
       /\ slot' = [slot EXCEPT ![s].open = TRUE]
       /\ UNCHANGED <<mobs, mobsKey, failed>>
  BY <1>2, <1>4, <1>8, <1>9 DEF OpenSlot
<1>11. /\ IsStorage(st) /\ st.mob = m
       /\ st.index = StorageOf(m).index /\ st.key = StorageOf(m).key
       /\ st.id = StorageOf(m).id
       /\ DOMAIN st.sub = DOMAIN StorageOf(m).sub \cup {j}
       /\ \A i \in DOMAIN StorageOf(m).sub : st.sub[i] = StorageOf(m).sub[i]
  <2>1. CASE slot[s].exists
    BY <2>1, <1>5, <1>6
  <2>2. CASE ~slot[s].exists
    <3> DEFINE o == StorageOf(m)
    <3>1. st = [o EXCEPT !.sub = With(o.sub, j, Void)]
      BY <2>2
    <3>2. IsStorage(o) /\ o.mob = m /\ j \notin DOMAIN o.sub
      BY <1>5, <1>7, <2>2
    <3> HIDE DEF o, st
    <3>3. IsMap(With(o.sub, j, Void), SlotKey, Slots \cup {Void})
      BY <3>2, WithMap DEF IsStorage
    <3>4. /\ DOMAIN With(o.sub, j, Void) = DOMAIN o.sub \cup {j}
          /\ \A i \in DOMAIN o.sub : With(o.sub, j, Void)[i] = o.sub[i]
      BY <3>2 DEF With
    <3>5. /\ IsStorage(st) /\ st.mob = m /\ st.index = o.index /\ st.key = o.key
          /\ st.id = o.id /\ st.sub = With(o.sub, j, Void)
      BY <3>1, <3>2, <3>3 DEF IsStorage
    <3> QED
      BY <3>4, <3>5 DEF o
  <2> QED
    BY <2>1, <2>2
<1> HIDE DEF st
<1>12. /\ DOMAIN disk' = {"key", "index", "sub"}
       /\ disk'.key = disk.key /\ disk'.index = disk.index
       /\ disk'.sub = With(disk.sub, k, st)
  BY <1>10 DEF TypeOK
<1>13. /\ DOMAIN disk'.sub = DOMAIN disk.sub \cup {k} /\ disk'.sub[k] = st
       /\ \A l \in DOMAIN disk.sub : l # k => disk'.sub[l] = disk.sub[l]
  BY <1>12 DEF With
<1>14. /\ slot[s].at # Nowhere /\ slot[s].at[1] = m /\ slot[s].at[2] = j
       /\ j \in DOMAIN mob[m].slots /\ mob[m].slots[j] = s
       /\ mob[m].at # Nowhere /\ mob[m].at[1] = k /\ k \in Key /\ mobs[k].ref = m
       /\ m # Unloaded
  BY <1>1, <1>2, <1>3, <1>4
<1>15. /\ IsStorage(disk'.sub[k]) /\ disk'.sub[k].mob = m
       /\ disk'.sub[k].index = StorageOf(m).index /\ disk'.sub[k].key = StorageOf(m).key
       /\ disk'.sub[k].id = StorageOf(m).id
       /\ DOMAIN disk'.sub[k].sub = DOMAIN StorageOf(m).sub \cup {j}
       /\ \A i \in DOMAIN StorageOf(m).sub : disk'.sub[k].sub[i] = StorageOf(m).sub[i]
  BY <1>11, <1>13
<1> QED
  BY <1>10, <1>12, <1>13, <1>14, <1>15 DEF Opens

\* The storages on the way to a slot are opened or created.
LEMMA OpenSlotStep ==
  ASSUME IInv, ~MayStreamReplaced, NEW s \in DOMAIN slot, OpenSlot(s)
  PROVE  IInv' /\ UNCHANGED failed
<1> USE TreeAssumption DEF IInv
<1>0. PICK m \in DOMAIN mob, j \in SlotKey, k \in DOMAIN mobs : Opens(s, m, j, k)
  BY OpenedStorage
<1>1. /\ slot[s].at # Nowhere /\ slot[s].at[1] = m /\ slot[s].at[2] = j
      /\ j \in DOMAIN mob[m].slots /\ mob[m].slots[j] = s
      /\ mob[m].at # Nowhere /\ mob[m].at[1] = k /\ k \in Key /\ mobs[k].ref = m
      /\ m # Unloaded
      /\ DOMAIN disk' = {"key", "index", "sub"}
      /\ disk'.key = disk.key /\ disk'.index = disk.index
      /\ DOMAIN disk'.sub = DOMAIN disk.sub \cup {k}
      /\ \A l \in DOMAIN disk.sub : l # k => disk'.sub[l] = disk.sub[l]
      /\ IsStorage(disk'.sub[k]) /\ disk'.sub[k].mob = m
      /\ disk'.sub[k].index = StorageOf(m).index /\ disk'.sub[k].key = StorageOf(m).key
      /\ disk'.sub[k].id = StorageOf(m).id
      /\ DOMAIN disk'.sub[k].sub = DOMAIN StorageOf(m).sub \cup {j}
      /\ \A i \in DOMAIN StorageOf(m).sub : disk'.sub[k].sub[i] = StorageOf(m).sub[i]
      /\ mob' = [mob EXCEPT ![m].open = TRUE]
      /\ slot' = [slot EXCEPT ![s].open = TRUE]
      /\ UNCHANGED <<mobs, mobsKey, failed>>
  BY <1>0 DEF Opens
<1>2. /\ DOMAIN mob' = DOMAIN mob
      /\ \A n \in DOMAIN mob : /\ mob'[n].at = mob[n].at /\ mob'[n].id = mob[n].id
                               /\ mob'[n].key = mob[n].key /\ mob'[n].slots = mob[n].slots
                               /\ mob'[n].exists = mob[n].exists
                               /\ n # m => mob'[n] = mob[n]
                               /\ IsMob(mob'[n])
      /\ Stored(mob'[m])
  <2>1. \A n \in DOMAIN mob : IsMob(mob[n])
    BY DEF TypeOK
  <2>2. /\ IsMob(mob'[m]) /\ mob'[m].open = TRUE
        /\ mob'[m].at = mob[m].at /\ mob'[m].id = mob[m].id
        /\ mob'[m].key = mob[m].key /\ mob'[m].slots = mob[m].slots
        /\ mob'[m].exists = mob[m].exists
    <3>1. mob'[m] = [mob[m] EXCEPT !.open = TRUE]
      BY <1>1
    <3> QED
      BY <2>1, <3>1 DEF IsMob
  <2>3. DOMAIN mob' = DOMAIN mob /\ \A n \in DOMAIN mob : n # m => mob'[n] = mob[n]
    BY <1>1
  <2>4. Stored(mob'[m])
    BY <2>2 DEF Stored
  <2> QED
    BY <2>1, <2>2, <2>3, <2>4
<1>3. /\ DOMAIN slot' = DOMAIN slot
      /\ \A t \in DOMAIN slot : /\ slot'[t].at = slot[t].at /\ slot'[t].exists = slot[t].exists
                                /\ t # s => slot'[t] = slot[t]
                                /\ slot'[t] \in SlotObject
  <2>1. \A t \in DOMAIN slot : slot[t] \in SlotObject
    BY DEF TypeOK, IsMap
  <2>2. slot'[s] = [slot[s] EXCEPT !.open = TRUE] /\ DOMAIN slot' = DOMAIN slot
        /\ \A t \in DOMAIN slot : t # s => slot'[t] = slot[t]
    BY <1>1
  <2>3. /\ slot'[s] \in SlotObject /\ slot'[s].at = slot[s].at
        /\ slot'[s].exists = slot[s].exists
    BY <2>1, <2>2 DEF SlotObject
  <2> QED
    BY <2>1, <2>2, <2>3
<1>4. \A n \in DOMAIN mob : Stored(mob[n]) => Stored(mob'[n])
  BY <1>2
<1>5. Stored(mob[m]) => k \in DOMAIN disk.sub /\ StorageOf(m) = disk.sub[k]
  BY <1>1 DEF StoresAreFound, MobIsFound, StorageOf
<1>6. ASSUME ~Stored(mob[m]) PROVE k >= disk.key /\ k \notin DOMAIN disk.index
  <2>1. k \in Int /\ disk.key \in Int
    BY <1>1 DEF Key, TypeOK
  <2>2. k >= disk.key
    BY <1>1, <1>6 DEF StoresAreFound, MobIsFound, Stored
  <2> QED
    BY <2>1, <2>2 DEF KeysAreFresh
<1>7. \A n \in DOMAIN mob : mob[n].at # Nowhere /\ n # m => mob[n].at[1] # k
  BY <1>1, Attached
<1>8. ASSUME NEW l \in DOMAIN mobs, mobs[l].ref = Unloaded
      PROVE  l \in DOMAIN disk.sub /\ l \in DOMAIN disk'.sub /\ disk'.sub[l] = disk.sub[l]
  BY <1>1, <1>8 DEF UnloadedIsStored
<1>9. TypeOK'
  <2>1. IsMap(slot', Slots, SlotObject)
    BY <1>1, <1>3 DEF TypeOK, IsMap
  <2>2. DOMAIN disk'.sub \subseteq Key /\ \A l \in DOMAIN disk'.sub : IsStorage(disk'.sub[l])
    BY <1>1 DEF TypeOK
  <2>3. disk'.key \in Key /\ IsMap(disk'.index, Key, MobIds)
    BY <1>1 DEF TypeOK
  <2> QED
    BY <1>1, <1>2, <2>1, <2>2, <2>3 DEF TypeOK
<1>10. OneOwner'
  BY <1>1, <1>2, <1>3 DEF OneOwner
<1>11. KeysAreFresh'
  <2>1. \A i \in disk'.sub[k].index : i < disk'.sub[k].key /\ i \in DOMAIN disk'.sub[k].sub
    <3>1. CASE Stored(mob[m])
      BY <1>1, <1>5, <3>1 DEF KeysAreFresh
    <3>2. CASE ~Stored(mob[m])
      BY <1>1, <3>2, StorageType
    <3> QED
      BY <3>1, <3>2
  <2> QED
    BY <1>1, <1>2, <2>1 DEF KeysAreFresh
<1>12. UnloadedIsStored'
  <2>1. ASSUME NEW n \in DOMAIN mob, NEW i \in DOMAIN mob[n].slots, mob[n].slots[i] = Unloaded
        PROVE  /\ mob'[n].exists /\ ~StoreFails(n)'
               /\ i \in DOMAIN StorageOf(n)'.sub /\ StorageOf(n)'.sub[i] \in Slots
    <3> DEFINE l == mob[n].at[1]
    <3>1. /\ mob[n].exists = TRUE /\ Stored(mob[n]) /\ mob[n].at # Nowhere
          /\ l \in DOMAIN disk.sub /\ StorageOf(n) = disk.sub[l]
          /\ i \in DOMAIN disk.sub[l].sub /\ disk.sub[l].sub[i] \in Slots
      BY <2>1, HiddenSlot DEF UnloadedIsStored
    <3>2. StorageOf(n)' = disk'.sub[l]
      BY <1>2, <1>4, <3>1 DEF StorageOf
    <3>3. ~StoreFails(n)'
      BY <1>1, <1>2, <3>1 DEF StoreFails
    <3>4. i \in DOMAIN disk'.sub[l].sub /\ disk'.sub[l].sub[i] = disk.sub[l].sub[i]
      <4>1. CASE n = m
        BY <1>1, <3>1, <4>1
      <4>2. CASE n # m
        BY <1>1, <1>7, <3>1, <4>2
      <4> QED
        BY <4>1, <4>2
    <3> QED
      BY <1>2, <3>1, <3>2, <3>3, <3>4
  <2>2. ASSUME NEW l \in DOMAIN mobs', mobs'[l].ref = Unloaded
        PROVE  l \in DOMAIN disk'.sub /\ disk'.sub[l].id = mobs'[l].id
    BY <1>1, <1>8, <2>2 DEF UnloadedIsStored
  <2> QED
    BY <1>2, <2>1, <2>2 DEF UnloadedIsStored
<1>13. StoresAreFound'
  <2>1. ASSUME NEW n \in DOMAIN mob PROVE MobIsFound(n)'
    <3>1. mob[n].at # Nowhere /\ ~mob[n].exists => mob[n].at[1] >= disk.key
      BY DEF StoresAreFound, MobIsFound
    <3>2. \A i \in DOMAIN mob[n].slots : mob[n].slots[i] # Void
      BY DEF StoresAreFound, MobIsFound
    <3>3. CASE n = m
      <4>1. mob'[n].at = mob[n].at /\ mob[n].at # Nowhere /\ mob[n].at[1] = k
            /\ mob'[n].exists = mob[n].exists /\ mob'[n].slots = mob[n].slots
            /\ k \in DOMAIN disk'.sub /\ disk'.sub[k].mob = n /\ disk'.key = disk.key
        BY <1>1, <1>2, <3>3
      <4> QED
        BY <3>1, <3>2, <4>1 DEF MobIsFound
    <3>4. CASE n # m
      BY <1>1, <1>2, <1>7, <3>4 DEF StoresAreFound, MobIsFound
    <3> QED
      BY <3>3, <3>4
  <2>2. ASSUME NEW t \in DOMAIN slot PROVE SlotIsFound(t)'
    <3>1. CASE t = s
      <4>1. slot[s].exists => mob[m].exists
        BY <1>1 DEF StoresAreFound, SlotIsFound, Stored
      <4> QED
        <5>1. /\ slot'[t].at = slot[s].at /\ slot'[t].exists = slot[s].exists
              /\ slot[s].at # Nowhere /\ slot[s].at[1] = m /\ slot[s].at[2] = j
              /\ mob'[m].at[1] = k /\ j \in DOMAIN disk'.sub[k].sub
              /\ mob'[m].exists = mob[m].exists /\ Stored(mob'[m])
          BY <1>1, <1>2, <1>3, <3>1
        <5> QED
          BY <4>1, <5>1 DEF SlotIsFound
    <3>2. CASE t # s /\ Stored(slot[t])
      <4> DEFINE n == slot[t].at[1]
                 l == mob[n].at[1]
      <4>1. /\ slot[t].at # Nowhere /\ Stored(mob[n])
            /\ slot[t].exists => mob[n].exists
            /\ slot[t].at[2] \in DOMAIN disk.sub[l].sub
        BY <3>2 DEF StoresAreFound, SlotIsFound
      <4>2. n \in DOMAIN mob
        BY <4>1 DEF OneOwner
      <4>3. mob[n].at # Nowhere /\ l \in DOMAIN disk.sub
        BY <4>1, <4>2 DEF StoresAreFound, MobIsFound
      <4>4. slot[t].at[2] \in DOMAIN disk'.sub[l].sub
        <5>1. CASE n = m
          BY <1>1, <1>5, <4>1, <5>1
        <5>2. CASE n # m
          BY <1>1, <1>7, <4>1, <4>2, <4>3, <5>2
        <5> QED
          BY <5>1, <5>2
      <4> QED
        <5>1. /\ slot'[t] = slot[t] /\ mob'[n].at = mob[n].at
              /\ mob'[n].exists = mob[n].exists /\ Stored(mob'[n])
          BY <1>2, <1>3, <1>4, <3>2, <4>1, <4>2
        <5> QED
          BY <4>1, <4>4, <5>1 DEF SlotIsFound
    <3>3. CASE t # s /\ ~Stored(slot[t])
      BY <1>3, <3>3 DEF SlotIsFound
    <3> QED
      BY <3>1, <3>2, <3>3
  <2> QED
    BY <1>1, <1>2, <1>3, <2>1, <2>2 DEF StoresAreFound
<1>14. ASSUME NEW l, NEW i PROVE IsHidden(l, i)' <=> IsHidden(l, i)
  <2>1. l \in DOMAIN mobs /\ mobs[l].ref # Unloaded => mobs[l].ref \in DOMAIN mob
    BY DEF OneOwner
  <2> QED
    BY <1>1, <1>2, <1>8, <2>1 DEF IsHidden
<1>15. ASSUME NEW l, NEW i, IsHidden(l, i) PROVE disk'.sub[l].sub[i] = disk.sub[l].sub[i]
  <2>1. CASE mobs[l].ref = Unloaded
    BY <1>8, <1>15, <2>1 DEF IsHidden
  <2>2. CASE mobs[l].ref # Unloaded
    <3> DEFINE n == mobs[l].ref
    <3>1. l \in DOMAIN mobs /\ i \in DOMAIN mob[n].slots /\ mob[n].slots[i] = Unloaded
      BY <1>15, <2>2 DEF IsHidden
    <3>2. n \in DOMAIN mob /\ mob[n].at[1] = l
      BY <2>2, <3>1 DEF OneOwner
    <3> HIDE DEF n
    <3>3. Stored(mob[n]) /\ l \in DOMAIN disk.sub /\ i \in DOMAIN disk.sub[l].sub
      BY <3>1, <3>2, HiddenSlot
    <3> USE DEF n
    <3>4. CASE l = k
      BY <1>1, <1>5, <3>3, <3>4
    <3>5. CASE l # k
      BY <1>1, <3>3, <3>5
    <3> QED
      BY <3>4, <3>5
  <2> QED
    BY <2>1, <2>2
<1>16. HiddenApart'
  BY <1>1, <1>2, <1>3, <1>8, <1>14, <1>15 DEF HiddenApart
<1>17. SavedApart'
  <2>1. ASSUME NEW l \in DOMAIN disk.index
        PROVE  /\ disk'.sub[l].id = disk.sub[l].id /\ disk'.sub[l].mob = disk.sub[l].mob
               /\ disk'.sub[l].index = disk.sub[l].index
               /\ \A i \in disk.sub[l].index : disk'.sub[l].sub[i] = disk.sub[l].sub[i]
    <3>1. l \in DOMAIN disk.sub /\ \A i \in disk.sub[l].index : i \in DOMAIN disk.sub[l].sub
      BY DEF KeysAreFresh
    <3>2. CASE l = k
      <4>1. Stored(mob[m])
        BY <1>6, <3>2
      <4>2. StorageOf(m) = disk.sub[l] /\ disk.sub[l].mob = m
        BY <1>1, <1>5, <3>2, <4>1, StorageType
      <4> QED
        BY <1>1, <3>1, <3>2, <4>2
    <3>3. CASE l # k
      BY <1>1, <3>1, <3>3
    <3> QED
      BY <3>2, <3>3
  <2> QED
    BY <1>1, <2>1 DEF SavedApart
<1> QED
  BY <1>1, <1>9, <1>10, <1>11, <1>12, <1>13, <1>16, <1>17

\* No element that is saved is without its storage.
LEMMA SaveSucceeds ==
  ASSUME IInv, Save
  PROVE  \A m \in MobsOf(mobs) : ~SaveMobFails(m)
<1> USE TreeAssumption DEF IInv
<1> SUFFICES ASSUME NEW m \in MobsOf(mobs) PROVE ~SaveMobFails(m)
  OBVIOUS
<1>1. PICK k \in DOMAIN mobs : mobs[k].ref = m /\ m \in Mobs /\ m # Unloaded
  BY DEF MobsOf
<1>2. m \in DOMAIN mob /\ mob[m].at = <<k>> /\ mob[m].at[1] = k /\ mob[m].at # Nowhere
  <2>1. m \in DOMAIN mob /\ mob[m].at = <<k>>
    BY <1>1 DEF OneOwner
  <2> QED
    BY <2>1, Somewhere
<1>3. ~StoreFails(m)
  <2>1. mob[m].exists => k \in DOMAIN disk.sub
    BY <1>2 DEF StoresAreFound, MobIsFound, Stored
  <2> QED
    BY <1>2, <2>1 DEF StoreFails
<1>4. ASSUME NEW j \in Loaded(m)
      PROVE  mob[m].slots[j] # Void /\ ~SlotStoreFails(mob[m].slots[j], StorageOf(m))
  <2> DEFINE s == mob[m].slots[j]
  <2>1. j \in DOMAIN mob[m].slots /\ s # Unloaded
    BY DEF Loaded
  <2>2. s \in DOMAIN slot /\ slot[s].at = <<m, j>>
    BY <1>2, <2>1 DEF OneOwner
  <2>3. slot[s].at # Nowhere /\ slot[s].at[1] = m /\ slot[s].at[2] = j
    BY <2>2, Somewhere
  <2>4. slot[s].exists => j \in DOMAIN StorageOf(m).sub
    BY <1>2, <2>2, <2>3 DEF StoresAreFound, SlotIsFound, Stored, StorageOf
  <2>5. s # Void
    BY <1>2, <2>1 DEF StoresAreFound, MobIsFound
  <2> QED
    BY <2>3, <2>4, <2>5 DEF SlotStoreFails
<1> QED
  BY <1>3, <1>4 DEF SaveMobFails

\* What Save writes for the mob at a loaded element.
LEMMA SavedMob ==
  ASSUME IInv, NEW k \in DOMAIN mobs, NEW m, mobs[k].ref = m, m # Unloaded
  PROVE  /\ m \in DOMAIN mob /\ mob[m].at # Nowhere /\ mob[m].at[1] = k
         /\ IsStorage(SavedStorage(m)) /\ SavedStorage(m).mob = m
         /\ SavedStorage(m).id = mobs[k].id /\ SavedStorage(m).key = mob[m].key
         /\ SavedStorage(m).index = DOMAIN mob[m].slots
         /\ \A j \in Loaded(m) :
              j \in DOMAIN SavedStorage(m).sub /\ SavedStorage(m).sub[j] = mob[m].slots[j]
         /\ \A j \in DOMAIN StorageOf(m).sub : j \in DOMAIN SavedStorage(m).sub
         /\ \A j \in DOMAIN mob[m].slots : mob[m].slots[j] = Unloaded =>
              /\ Stored(mob[m]) /\ k \in DOMAIN disk.sub
              /\ j \in DOMAIN SavedStorage(m).sub
              /\ SavedStorage(m).sub[j] = disk.sub[k].sub[j]
<1> USE TreeAssumption DEF IInv
<1>1. m \in DOMAIN mob /\ mob[m].at = <<k>> /\ mob[m].at[1] = k /\ mob[m].at # Nowhere
  <2>1. m \in DOMAIN mob /\ mob[m].at = <<k>>
    BY DEF OneOwner
  <2> QED
    BY <2>1, Somewhere
<1>2. IsMob(mob[m]) /\ m \in Mobs
  BY <1>1 DEF TypeOK
<1>3. IsStorage(StorageOf(m)) /\ StorageOf(m).mob = m
  BY <1>1, StorageType
<1> DEFINE o == StorageOf(m)
           f == [j \in Loaded(m) |-> mob[m].slots[j]]
<1>4. Loaded(m) \subseteq DOMAIN mob[m].slots /\ DOMAIN f = Loaded(m)
      /\ \A j \in Loaded(m) : f[j] = mob[m].slots[j]
  BY DEF Loaded
<1>5. IsMap(f, SlotKey, Slots \cup {Void})
  <2>1. \A j \in DOMAIN mob[m].slots : j \in SlotKey /\ mob[m].slots[j] \in Slots \cup {Unloaded, Void}
    BY <1>2 DEF IsMob, IsMap
  <2> QED
    BY <2>1 DEF IsMap, Loaded
<1>6. IsMap(o.sub, SlotKey, Slots \cup {Void})
  BY <1>3 DEF IsStorage
<1>7. SavedStorage(m) = [mob |-> m, id |-> mob[m].id, key |-> mob[m].key,
                         index |-> DOMAIN mob[m].slots, sub |-> Over(f, o.sub)]
  BY DEF SavedStorage
<1> HIDE DEF f, o
<1>8. IsMap(Over(f, o.sub), SlotKey, Slots \cup {Void})
  BY <1>5, <1>6, OverMap
<1>9. /\ DOMAIN Over(f, o.sub) = DOMAIN f \cup DOMAIN o.sub
      /\ \A j \in DOMAIN f : Over(f, o.sub)[j] = f[j]
      /\ \A j \in DOMAIN o.sub : j \notin DOMAIN f => Over(f, o.sub)[j] = o.sub[j]
  BY DEF Over
<1>10. IsStorage(SavedStorage(m))
  BY <1>2, <1>7, <1>8 DEF IsStorage, IsMob, IsMap
<1>11. mob[m].id = mobs[k].id
  <2>1. mobs[k] = [id |-> mob[m].id, ref |-> m]
    BY <1>1 DEF OneOwner
  <2> QED
    BY <2>1
<1>12. /\ SavedStorage(m).mob = m /\ SavedStorage(m).id = mobs[k].id
       /\ SavedStorage(m).key = mob[m].key /\ SavedStorage(m).index = DOMAIN mob[m].slots
       /\ SavedStorage(m).sub = Over(f, o.sub)
  BY <1>7, <1>11
<1>13. ASSUME NEW j \in DOMAIN mob[m].slots, mob[m].slots[j] = Unloaded
       PROVE  /\ Stored(mob[m]) /\ k \in DOMAIN disk.sub
              /\ j \in DOMAIN SavedStorage(m).sub
              /\ SavedStorage(m).sub[j] = disk.sub[k].sub[j]
  <2>1. Stored(mob[m]) /\ k \in DOMAIN disk.sub /\ o = disk.sub[k] /\ j \in DOMAIN o.sub
    <3>1. /\ Stored(mob[m]) /\ StorageOf(m) = disk.sub[mob[m].at[1]]
          /\ mob[m].at[1] \in DOMAIN disk.sub /\ j \in DOMAIN disk.sub[mob[m].at[1]].sub
      BY <1>1, <1>13, HiddenSlot
    <3> QED
      BY <1>1, <3>1 DEF o
  <2>2. j \notin Loaded(m)
    BY <1>13 DEF Loaded
  <2> QED
    BY <1>4, <1>9, <1>12, <2>1, <2>2
<1>14. \A j \in DOMAIN StorageOf(m).sub : j \in DOMAIN SavedStorage(m).sub
  BY <1>9, <1>12 DEF o
<1> QED
  BY <1>1, <1>4, <1>9, <1>10, <1>12, <1>13, <1>14

\* What Save leaves: the storage of every mob in the set, the others as they
\* were, and every object in the tree marked as being in the file.
LEMMA SaveEffect ==
  ASSUME IInv, Save
  PROVE  /\ UNCHANGED <<mobs, mobsKey, failed>>
         /\ DOMAIN disk' = {"key", "index", "sub"} /\ disk'.key = mobsKey
         /\ DOMAIN disk'.index = DOMAIN mobs
         /\ \A k \in DOMAIN mobs : disk'.index[k] = mobs[k].id
         /\ DOMAIN disk'.sub = DOMAIN disk.sub \cup {k \in DOMAIN mobs : mobs[k].ref # Unloaded}
         /\ \A k \in DOMAIN mobs : mobs[k].ref # Unloaded =>
              disk'.sub[k] = SavedStorage(mobs[k].ref)
         /\ \A k \in DOMAIN disk.sub : (k \in DOMAIN mobs => mobs[k].ref = Unloaded) =>
              disk'.sub[k] = disk.sub[k]
         /\ DOMAIN mob' = DOMAIN mob
         /\ \A m \in DOMAIN mob :
              /\ IsMob(mob'[m])
              /\ mob'[m].at = mob[m].at /\ mob'[m].id = mob[m].id
              /\ mob'[m].open = mob[m].open /\ mob'[m].slots = mob[m].slots
              /\ mob'[m].key = mob[m].key
              /\ mob[m].at # Nowhere => mob'[m].exists = TRUE
              /\ mob[m].at = Nowhere => mob'[m] = mob[m]
         /\ DOMAIN slot' = DOMAIN slot
         /\ \A s \in DOMAIN slot :
              /\ slot'[s] \in SlotObject
              /\ slot'[s].at = slot[s].at
              /\ \/ slot'[s] = slot[s]
                 \/ \E m \in DOMAIN mob : \E j \in DOMAIN mob[m].slots :
                      mob[m].at # Nowhere /\ mob[m].slots[j] = s
<1> USE TreeAssumption DEF IInv
<1> DEFINE saved == MobsOf(mobs)
           inTree(s) == \E m \in saved : \E j \in Loaded(m) : mob[m].slots[j] = s
           loaded == {k \in DOMAIN mobs : mobs[k].ref # Unloaded}
           f == [k \in loaded |-> SavedStorage(mobs[k].ref)]
<1>1. /\ disk' = SavedDisk
      /\ mob' = [m \in DOMAIN mob |->
                   IF m \in saved THEN [mob[m] EXCEPT !.exists = TRUE] ELSE mob[m]]
      /\ slot' = [s \in DOMAIN slot |->
                   IF inTree(s) THEN [slot[s] EXCEPT !.exists = TRUE] ELSE slot[s]]
      /\ UNCHANGED <<mobs, mobsKey, failed>>
  <2>1. ~ \E m \in MobsOf(mobs) : SaveMobFails(m)
    BY SaveSucceeds
  <2> QED
    BY <2>1 DEF Save
<1>2. disk' = [key |-> mobsKey, index |-> [k \in DOMAIN mobs |-> mobs[k].id],
               sub |-> Over(f, disk.sub)]
  BY <1>1 DEF SavedDisk
<1>3. DOMAIN f = loaded /\ \A k \in loaded : f[k] = SavedStorage(mobs[k].ref)
  OBVIOUS
<1> HIDE DEF f
<1>4. /\ DOMAIN disk' = {"key", "index", "sub"} /\ disk'.key = mobsKey
      /\ DOMAIN disk'.index = DOMAIN mobs
      /\ \A k \in DOMAIN mobs : disk'.index[k] = mobs[k].id
      /\ disk'.sub = Over(f, disk.sub)
  BY <1>2
<1>5. /\ DOMAIN disk'.sub = DOMAIN disk.sub \cup loaded
      /\ \A k \in loaded : disk'.sub[k] = SavedStorage(mobs[k].ref)
      /\ \A k \in DOMAIN disk.sub : k \notin loaded => disk'.sub[k] = disk.sub[k]
  BY <1>3, <1>4 DEF Over
<1>6. \A m \in DOMAIN mob : m \in saved <=> mob[m].at # Nowhere
  <2>1. ASSUME NEW m \in DOMAIN mob, mob[m].at # Nowhere PROVE m \in saved
    <3>1. m \in Mobs
      BY DEF TypeOK
    <3> QED
      BY <2>1, <3>1, Attached DEF MobsOf
  <2>2. ASSUME NEW m \in DOMAIN mob, m \in saved PROVE mob[m].at # Nowhere
    <3>1. PICK k \in DOMAIN mobs : mobs[k].ref = m /\ m \in Mobs
      BY <2>2 DEF MobsOf
    <3>2. mob[m].at = <<k>>
      BY <3>1 DEF OneOwner
    <3> QED
      BY <3>2, Somewhere
  <2> QED
    BY <2>1, <2>2
<1>7. ASSUME NEW m \in DOMAIN mob
      PROVE  /\ IsMob(mob'[m])
             /\ mob'[m].at = mob[m].at /\ mob'[m].id = mob[m].id
             /\ mob'[m].open = mob[m].open /\ mob'[m].slots = mob[m].slots
             /\ mob'[m].key = mob[m].key
             /\ mob[m].at # Nowhere => mob'[m].exists = TRUE
             /\ mob[m].at = Nowhere => mob'[m] = mob[m]
  <2>1. IsMob(mob[m])
    BY DEF TypeOK
  <2>2. CASE m \in saved
    <3>1. mob'[m] = [mob[m] EXCEPT !.exists = TRUE]
      BY <1>1, <2>2
    <3> QED
      BY <1>6, <2>1, <2>2, <3>1 DEF IsMob
  <2>3. CASE m \notin saved
    <3>1. mob'[m] = mob[m]
      BY <1>1, <2>3
    <3> QED
      BY <1>6, <2>1, <2>3, <3>1
  <2> QED
    BY <2>2, <2>3
<1>8. ASSUME NEW s \in DOMAIN slot
      PROVE  /\ slot'[s] \in SlotObject
             /\ slot'[s].at = slot[s].at
             /\ \/ slot'[s] = slot[s]
                \/ \E m \in DOMAIN mob : \E j \in DOMAIN mob[m].slots :
                     mob[m].at # Nowhere /\ mob[m].slots[j] = s
  <2>1. slot[s] \in SlotObject
    BY DEF TypeOK, IsMap
  <2>2. CASE inTree(s)
    <3>1. slot'[s] = [slot[s] EXCEPT !.exists = TRUE]
      BY <1>1, <2>2
    <3>2. PICK m \in saved : \E j \in Loaded(m) : mob[m].slots[j] = s
      BY <2>2
    <3>3. m \in DOMAIN mob /\ \E j \in DOMAIN mob[m].slots : mob[m].slots[j] = s
      BY <3>2 DEF MobsOf, OneOwner, Loaded
    <3> QED
      BY <1>6, <2>1, <3>1, <3>2, <3>3 DEF SlotObject
  <2>3. CASE ~inTree(s)
    <3>1. slot'[s] = slot[s]
      BY <1>1, <2>3
    <3> QED
      BY <2>1, <3>1
  <2> QED
    BY <2>2, <2>3
<1>9. DOMAIN mob' = DOMAIN mob /\ DOMAIN slot' = DOMAIN slot
  BY <1>1
<1> QED
  BY <1>1, <1>4, <1>5, <1>7, <1>8, <1>9

\* After a save the file has the tree of the program, and every reference that
\* was not followed still leads to the object it did.
LEMMA SaveStep ==
  ASSUME IInv, Save
  PROVE  IInv' /\ UNCHANGED failed
<1> USE TreeAssumption DEF IInv
<1>1. /\ mobs' = mobs /\ mobsKey' = mobsKey /\ failed' = failed
      /\ DOMAIN disk' = {"key", "index", "sub"} /\ disk'.key = mobsKey
      /\ DOMAIN disk'.index = DOMAIN mobs
      /\ \A k \in DOMAIN mobs : disk'.index[k] = mobs[k].id
      /\ DOMAIN disk'.sub = DOMAIN disk.sub \cup {k \in DOMAIN mobs : mobs[k].ref # Unloaded}
      /\ \A k \in DOMAIN mobs : mobs[k].ref # Unloaded =>
           disk'.sub[k] = SavedStorage(mobs[k].ref)
      /\ \A k \in DOMAIN disk.sub : (k \in DOMAIN mobs => mobs[k].ref = Unloaded) =>
           disk'.sub[k] = disk.sub[k]
  BY SaveEffect
<1>2. /\ DOMAIN mob' = DOMAIN mob
      /\ \A m \in DOMAIN mob :
           /\ IsMob(mob'[m])
           /\ mob'[m].at = mob[m].at /\ mob'[m].id = mob[m].id
           /\ mob'[m].open = mob[m].open /\ mob'[m].slots = mob[m].slots
           /\ mob'[m].key = mob[m].key
           /\ mob[m].at # Nowhere => mob'[m].exists = TRUE
           /\ mob[m].at = Nowhere => mob'[m] = mob[m]
  BY SaveEffect
<1>3. /\ DOMAIN slot' = DOMAIN slot
      /\ \A s \in DOMAIN slot :
           /\ slot'[s] \in SlotObject
           /\ slot'[s].at = slot[s].at
           /\ \/ slot'[s] = slot[s]
              \/ \E m \in DOMAIN mob : \E j \in DOMAIN mob[m].slots :
                   mob[m].at # Nowhere /\ mob[m].slots[j] = s
  BY SaveEffect
<1>4. ASSUME NEW k \in DOMAIN mobs, mobs[k].ref = Unloaded
      PROVE  /\ k \in DOMAIN disk.sub /\ k \in DOMAIN disk'.sub /\ disk'.sub[k] = disk.sub[k]
             /\ disk.sub[k].id = mobs[k].id /\ IsStorage(disk.sub[k]) /\ k \in Key
  <2>1. k \in DOMAIN disk.sub /\ disk.sub[k].id = mobs[k].id
    BY <1>4 DEF UnloadedIsStored
  <2> QED
    BY <1>1, <1>4, <2>1 DEF TypeOK
<1>5. ASSUME NEW k \in DOMAIN mobs, NEW m, mobs[k].ref = m, m # Unloaded
      PROVE  /\ m \in DOMAIN mob /\ mob[m].at # Nowhere /\ mob[m].at[1] = k
             /\ k \in DOMAIN disk'.sub /\ disk'.sub[k] = SavedStorage(m)
             /\ IsStorage(disk'.sub[k]) /\ disk'.sub[k].mob = m
             /\ disk'.sub[k].id = mobs[k].id /\ disk'.sub[k].key = mob[m].key
             /\ disk'.sub[k].index = DOMAIN mob[m].slots
             /\ \A j \in DOMAIN mob[m].slots : mob[m].slots[j] # Unloaded =>
                  j \in DOMAIN disk'.sub[k].sub /\ disk'.sub[k].sub[j] = mob[m].slots[j]
             /\ \A j \in DOMAIN StorageOf(m).sub : j \in DOMAIN disk'.sub[k].sub
             /\ \A j \in DOMAIN mob[m].slots : mob[m].slots[j] = Unloaded =>
                  /\ Stored(mob[m]) /\ k \in DOMAIN disk.sub
                  /\ j \in DOMAIN disk'.sub[k].sub
                  /\ disk'.sub[k].sub[j] = disk.sub[k].sub[j]
  <2>1. k \in DOMAIN disk'.sub /\ disk'.sub[k] = SavedStorage(m)
    BY <1>1, <1>5
  <2>2. /\ m \in DOMAIN mob /\ mob[m].at # Nowhere /\ mob[m].at[1] = k
        /\ IsStorage(SavedStorage(m)) /\ SavedStorage(m).mob = m
        /\ SavedStorage(m).id = mobs[k].id /\ SavedStorage(m).key = mob[m].key
        /\ SavedStorage(m).index = DOMAIN mob[m].slots
        /\ \A j \in Loaded(m) :
             j \in DOMAIN SavedStorage(m).sub /\ SavedStorage(m).sub[j] = mob[m].slots[j]
        /\ \A j \in DOMAIN StorageOf(m).sub : j \in DOMAIN SavedStorage(m).sub
        /\ \A j \in DOMAIN mob[m].slots : mob[m].slots[j] = Unloaded =>
             /\ Stored(mob[m]) /\ k \in DOMAIN disk.sub
             /\ j \in DOMAIN SavedStorage(m).sub
             /\ SavedStorage(m).sub[j] = disk.sub[k].sub[j]
    BY <1>5, SavedMob
  <2>3. \A j \in DOMAIN mob[m].slots : mob[m].slots[j] # Unloaded => j \in Loaded(m)
    BY DEF Loaded
  <2> QED
    BY <2>1, <2>2, <2>3
<1>6. ASSUME NEW m \in DOMAIN mob, mob[m].at # Nowhere
      PROVE  /\ mob[m].at[1] \in DOMAIN mobs /\ mobs[mob[m].at[1]].ref = m /\ m # Unloaded
             /\ mob[m].at[1] \in DOMAIN disk'.sub /\ Stored(mob'[m])
             /\ StorageOf(m)' = disk'.sub[mob[m].at[1]] /\ ~StoreFails(m)'
  <2>1. /\ mob[m].at[1] \in DOMAIN mobs /\ mobs[mob[m].at[1]].ref = m /\ m # Unloaded
    BY <1>6, Attached
  <2>2. mob[m].at[1] \in DOMAIN disk'.sub
    BY <1>1, <2>1
  <2>3. mob'[m].exists = TRUE /\ mob'[m].at = mob[m].at
    BY <1>2, <1>6
  <2>4. Stored(mob'[m])
    BY <2>3 DEF Stored
  <2>5. StorageOf(m)' = disk'.sub[mob[m].at[1]]
    BY <2>3, <2>4 DEF StorageOf
  <2>6. ~StoreFails(m)'
    BY <1>6, <2>2, <2>3 DEF StoreFails
  <2> QED
    BY <2>1, <2>2, <2>4, <2>5, <2>6
<1>7. ASSUME NEW k, NEW j PROVE IsHidden(k, j)' <=> IsHidden(k, j)
  <2>1. k \in DOMAIN mobs /\ mobs[k].ref # Unloaded => mobs[k].ref \in DOMAIN mob
    BY DEF OneOwner
  <2> QED
    BY <1>1, <1>2, <1>4, <2>1 DEF IsHidden
<1>8. ASSUME NEW k, NEW j, IsHidden(k, j) PROVE disk'.sub[k].sub[j] = disk.sub[k].sub[j]
  <2>1. CASE mobs[k].ref = Unloaded
    BY <1>4, <1>8, <2>1 DEF IsHidden
  <2>2. CASE mobs[k].ref # Unloaded
    BY <1>5, <1>8, <2>2 DEF IsHidden
  <2> QED
    BY <2>1, <2>2
<1>9. TypeOK'
  <2>1. ASSUME NEW k \in DOMAIN disk'.sub PROVE k \in Key /\ IsStorage(disk'.sub[k])
    <3>1. DOMAIN mobs \subseteq Key /\ DOMAIN disk.sub \subseteq Key
          /\ \A l \in DOMAIN disk.sub : IsStorage(disk.sub[l])
      BY DEF TypeOK, IsMap
    <3>2. CASE k \in DOMAIN mobs /\ mobs[k].ref # Unloaded
      BY <1>5, <3>1, <3>2
    <3>3. CASE ~ (k \in DOMAIN mobs /\ mobs[k].ref # Unloaded)
      BY <1>1, <3>1, <3>3
    <3> QED
      BY <3>2, <3>3
  <2>2. IsMap(disk'.index, Key, MobIds)
    <3>1. disk'.index = [k \in DOMAIN mobs |-> mobs[k].id]
      BY SaveSucceeds DEF Save, SavedDisk
    <3> QED
      BY <3>1 DEF TypeOK, IsMap, MobElement
  <2>3. IsMap(slot', Slots, SlotObject)
    <3>1. slot' = [s \in DOMAIN slot' |-> slot'[s]]
      BY SaveSucceeds DEF Save
    <3> QED
      BY <1>3, <3>1 DEF TypeOK, IsMap
  <2>4. \A m \in DOMAIN mob' : m \in Mobs /\ IsMob(mob'[m])
    BY <1>2 DEF TypeOK
  <2> QED
    BY <1>1, <2>1, <2>2, <2>3, <2>4 DEF TypeOK
<1>10. OneOwner'
  BY <1>1, <1>2, <1>3 DEF OneOwner
<1>11. KeysAreFresh'
  <2>1. ASSUME NEW k \in DOMAIN mobs PROVE k < mobsKey /\ k \in DOMAIN disk'.sub
    BY <1>4, <1>5 DEF KeysAreFresh
  <2>2. ASSUME NEW k \in DOMAIN disk'.sub, NEW j \in disk'.sub[k].index
        PROVE  j < disk'.sub[k].key /\ j \in DOMAIN disk'.sub[k].sub
    <3>1. CASE k \in DOMAIN mobs /\ mobs[k].ref # Unloaded
      <4> DEFINE m == mobs[k].ref
      <4>1. /\ m \in DOMAIN mob /\ j \in DOMAIN mob[m].slots /\ disk'.sub[k].key = mob[m].key
            /\ j \in DOMAIN disk'.sub[k].sub
        BY <1>5, <2>2, <3>1
      <4> QED
        BY <4>1 DEF KeysAreFresh
    <3>2. CASE ~ (k \in DOMAIN mobs /\ mobs[k].ref # Unloaded)
      <4>1. k \in DOMAIN disk.sub /\ disk'.sub[k] = disk.sub[k]
        BY <1>1, <3>2
      <4> QED
        BY <2>2, <4>1 DEF KeysAreFresh
    <3> QED
      BY <3>1, <3>2
  <2> QED
    BY <1>1, <1>2, <2>1, <2>2 DEF KeysAreFresh
<1>12. UnloadedIsStored'
  <2>1. ASSUME NEW m \in DOMAIN mob, NEW j \in DOMAIN mob[m].slots, mob[m].slots[j] = Unloaded
        PROVE  /\ mob'[m].exists /\ ~StoreFails(m)'
               /\ j \in DOMAIN StorageOf(m)'.sub /\ StorageOf(m)'.sub[j] \in Slots
    <3> DEFINE k == mob[m].at[1]
    <3>1. mob[m].at # Nowhere /\ IsHidden(k, j) /\ k \in Key /\ j \in SlotKey
      BY <2>1, HiddenSlot
    <3>2. disk.sub[k].sub[j] \in Slots
      BY <3>1 DEF HiddenApart
    <3>3. k \in DOMAIN mobs /\ mobs[k].ref = m /\ m # Unloaded
          /\ StorageOf(m)' = disk'.sub[k] /\ ~StoreFails(m)'
      BY <1>6, <3>1
    <3>4. j \in DOMAIN disk'.sub[k].sub /\ disk'.sub[k].sub[j] = disk.sub[k].sub[j]
      BY <1>5, <2>1, <3>3
    <3> QED
      BY <1>2, <3>1, <3>2, <3>3, <3>4
  <2>2. \A k \in DOMAIN mobs' : mobs'[k].ref = Unloaded =>
          k \in DOMAIN disk'.sub /\ disk'.sub[k].id = mobs'[k].id
    BY <1>1, <1>4
  <2> QED
    BY <1>2, <2>1, <2>2 DEF UnloadedIsStored
<1>13. StoresAreFound'
  <2>1. ASSUME NEW m \in DOMAIN mob PROVE MobIsFound(m)'
    <3>1. \A j \in DOMAIN mob[m].slots : mob[m].slots[j] # Void
      BY DEF StoresAreFound, MobIsFound
    <3>2. CASE mob[m].at = Nowhere
      <4>1. mob'[m] = mob[m] /\ ~Stored(mob[m])
        BY <1>2, <3>2, DetachedMob
      <4> QED
        BY <3>1, <3>2, <4>1 DEF MobIsFound
    <3>3. CASE mob[m].at # Nowhere
      <4> DEFINE k == mob[m].at[1]
      <4>1. mob'[m].at = mob[m].at /\ mob'[m].exists = TRUE /\ mob'[m].slots = mob[m].slots
        BY <1>2, <3>3
      <4>2. k \in DOMAIN disk'.sub /\ disk'.sub[k].mob = m
        BY <1>5, <1>6, <3>3
      <4> QED
        BY <3>1, <3>3, <4>1, <4>2 DEF MobIsFound
    <3> QED
      BY <3>2, <3>3
  <2>2. ASSUME NEW s \in DOMAIN slot, Stored(slot'[s])
        PROVE  SlotIsFound(s)'
    <3> DEFINE m == slot[s].at[1]
               j == slot[s].at[2]
    <3>1. /\ slot[s].at # Nowhere /\ m \in DOMAIN mob /\ mob[m].at # Nowhere
          /\ j \in DOMAIN mob[m].slots /\ mob[m].slots[j] = s
      <4>1. CASE slot'[s] = slot[s]
        <5>1. slot[s].at # Nowhere /\ Stored(mob[m])
          BY <2>2, <4>1 DEF StoresAreFound, SlotIsFound
        <5>2. m \in DOMAIN mob /\ j \in DOMAIN mob[m].slots /\ mob[m].slots[j] = s
          BY <5>1 DEF OneOwner
        <5> QED
          BY <5>1, <5>2 DEF StoresAreFound, MobIsFound
      <4>2. CASE slot'[s] # slot[s]
        <5>1. PICK n \in DOMAIN mob : \E i \in DOMAIN mob[n].slots :
                     mob[n].at # Nowhere /\ mob[n].slots[i] = s
          BY <1>3, <4>2
        <5>2. PICK i \in DOMAIN mob[n].slots : mob[n].at # Nowhere /\ mob[n].slots[i] = s
          BY <5>1
        <5>3. s # Unloaded
          BY DEF TypeOK, IsMap
        <5>4. slot[s].at = <<n, i>>
          BY <5>2, <5>3 DEF OneOwner
        <5>5. slot[s].at # Nowhere /\ m = n /\ j = i
          BY <5>4, Somewhere
        <5> QED
          BY <5>2, <5>5
      <4> QED
        BY <4>1, <4>2
    <3> DEFINE k == mob[m].at[1]
    <3>2. k \in DOMAIN mobs /\ mobs[k].ref = m /\ m # Unloaded /\ Stored(mob'[m])
      BY <1>6, <3>1
    <3>3. s # Unloaded
      BY DEF TypeOK, IsMap
    <3>4. j \in DOMAIN disk'.sub[k].sub
      BY <1>5, <3>1, <3>2, <3>3
    <3>5. mob'[m].at = mob[m].at /\ mob'[m].exists = TRUE /\ slot'[s].at = slot[s].at
      BY <1>2, <1>3, <3>1
    <3> QED
      BY <3>1, <3>2, <3>4, <3>5 DEF SlotIsFound
  <2>3. \A s \in DOMAIN slot : ~Stored(slot'[s]) => SlotIsFound(s)'
    BY DEF SlotIsFound
  <2>4. disk'.key <= mobsKey'
    BY <1>1 DEF TypeOK, Key
  <2> QED
    BY <1>2, <1>3, <2>1, <2>2, <2>3, <2>4 DEF StoresAreFound
<1>14. HiddenApart'
  BY <1>1, <1>2, <1>3, <1>4, <1>7, <1>8 DEF HiddenApart
<1>15. SavedApart'
  <2>1. \A k \in DOMAIN mobs : disk'.sub[k].id = mobs[k].id
    BY <1>4, <1>5
  <2>2. ASSUME NEW k \in DOMAIN mobs, NEW l \in DOMAIN mobs, disk'.sub[k].mob = disk'.sub[l].mob
        PROVE  k = l
    <3>1. \A i \in DOMAIN mobs : mobs[i].ref # Unloaded =>
            /\ disk'.sub[i].mob \in DOMAIN mob /\ mob[disk'.sub[i].mob].at[1] = i
      BY <1>5
    <3>2. \A i \in DOMAIN mobs : mobs[i].ref = Unloaded =>
            disk'.sub[i].mob = disk.sub[i].mob /\ disk.sub[i].mob \notin DOMAIN mob
      BY <1>4 DEF HiddenApart
    <3> QED
      BY <2>2, <3>1, <3>2 DEF HiddenApart
  <2>3. ASSUME NEW k \in DOMAIN mobs, NEW j \in disk'.sub[k].index
        PROVE  /\ k \in Key /\ j \in SlotKey /\ disk'.sub[k].sub[j] \in Slots
               /\ \/ IsHidden(k, j) /\ disk'.sub[k].sub[j] = disk.sub[k].sub[j]
                     /\ disk'.sub[k].sub[j] \notin DOMAIN slot
                  \/ /\ disk'.sub[k].sub[j] \in DOMAIN slot
                     /\ mobs[k].ref # Unloaded
                     /\ slot[disk'.sub[k].sub[j]].at = <<mobs[k].ref, j>>
    <3>0. k \in Key /\ j \in SlotKey
      BY <1>4, <1>5 DEF TypeOK, IsMap, IsStorage
    <3>1. CASE IsHidden(k, j)
      <4>1. disk'.sub[k].sub[j] = disk.sub[k].sub[j] /\ disk.sub[k].sub[j] \in Slots \ DOMAIN slot
        BY <1>8, <3>0, <3>1 DEF HiddenApart
      <4> QED
        BY <3>0, <3>1, <4>1
    <3>2. CASE ~IsHidden(k, j)
      <4>1. mobs[k].ref # Unloaded
        BY <1>4, <2>3, <3>2 DEF IsHidden
      <4>2. PICK m : m = mobs[k].ref
        OBVIOUS
      <4>3. m \in DOMAIN mob /\ j \in DOMAIN mob[m].slots
        BY <1>5, <2>3, <4>1, <4>2
      <4>4. mob[m].slots[j] # Unloaded
        BY <3>2, <4>1, <4>2, <4>3 DEF IsHidden
      <4>5. disk'.sub[k].sub[j] = mob[m].slots[j]
        BY <1>5, <4>1, <4>2, <4>3, <4>4
      <4>6. mob[m].slots[j] \in DOMAIN slot /\ slot[mob[m].slots[j]].at = <<m, j>>
        BY <4>3, <4>4 DEF OneOwner
      <4>7. mob[m].slots[j] \in Slots
        BY <4>6 DEF TypeOK, IsMap
      <4> QED
        BY <3>0, <4>1, <4>2, <4>5, <4>6, <4>7
    <3> QED
      BY <3>1, <3>2
  <2>4. ASSUME NEW k \in DOMAIN mobs, NEW l \in DOMAIN mobs,
               NEW j \in disk'.sub[k].index, NEW i \in disk'.sub[l].index,
               disk'.sub[k].sub[j] = disk'.sub[l].sub[i]
        PROVE  k = l /\ j = i
    <3> DEFINE s == disk'.sub[k].sub[j]
    <3>1. CASE s \in DOMAIN slot
      <4>1. /\ slot[s].at = <<mobs[k].ref, j>> /\ mobs[k].ref # Unloaded
            /\ slot[s].at = <<mobs[l].ref, i>> /\ mobs[l].ref # Unloaded
        BY <2>3, <2>4, <3>1
      <4>2. mobs[k].ref = mobs[l].ref /\ j = i
        BY <4>1
      <4>3. mob[mobs[k].ref].at[1] = k /\ mob[mobs[l].ref].at[1] = l
        BY <1>5, <4>1
      <4> QED
        BY <4>2, <4>3
    <3>2. CASE s \notin DOMAIN slot
      <4>1. /\ IsHidden(k, j) /\ IsHidden(l, i) /\ disk.sub[k].sub[j] = disk.sub[l].sub[i]
            /\ k \in Key /\ l \in Key /\ j \in SlotKey /\ i \in SlotKey
        BY <2>3, <2>4, <3>2
      <4> QED
        BY <4>1 DEF HiddenApart
    <3> QED
      BY <3>1, <3>2
  <2> QED
    BY <1>1, <2>1, <2>2, <2>3, <2>4 DEF SavedApart
<1> QED
  BY <1>1, <1>9, <1>10, <1>11, <1>12, <1>13, <1>14, <1>15

\* What is saved is what is found again.
LEMMA ReopenStep ==
  ASSUME IInv, Reopen
  PROVE  IInv' /\ UNCHANGED failed
<1> USE TreeAssumption DEF IInv
<1>1. /\ mobs' = [k \in DOMAIN disk.index |-> [id |-> disk.index[k], ref |-> Unloaded]]
      /\ mobsKey' = disk.key /\ mob' = <<>> /\ slot' = <<>>
      /\ UNCHANGED <<disk, failed>>
  BY DEF Reopen, FirstFreeKey
<1>2. DOMAIN mob' = {} /\ DOMAIN slot' = {}
  BY <1>1, EmptyMap
<1>3. /\ DOMAIN mobs' = DOMAIN disk.index
      /\ \A k \in DOMAIN disk.index : mobs'[k].id = disk.index[k] /\ mobs'[k].ref = Unloaded
  BY <1>1
<1>4. TypeOK'
  <2>1. IsMap(mobs', Key, MobElement)
    BY <1>1 DEF TypeOK, IsMap, MobElement
  <2>2. IsMap(slot', Slots, SlotObject)
    BY <1>1, EmptyMap
  <2> QED
    BY <1>1, <1>2, <2>1, <2>2 DEF TypeOK
<1>5. OneOwner'
  BY <1>2, <1>3 DEF OneOwner
<1>6. KeysAreFresh'
  BY <1>1, <1>2, <1>3 DEF KeysAreFresh
<1>7. UnloadedIsStored'
  BY <1>1, <1>2, <1>3 DEF UnloadedIsStored, KeysAreFresh, SavedApart
<1>8. StoresAreFound'
  <2>1. disk.key <= disk.key
    BY DEF TypeOK, Key
  <2> QED
    BY <1>1, <1>2, <2>1 DEF StoresAreFound
<1>9. \A k, j : IsHidden(k, j)' <=> k \in DOMAIN disk.index /\ j \in disk.sub[k].index
  BY <1>1, <1>3 DEF IsHidden
<1>10. HiddenApart'
  BY <1>1, <1>2, <1>3, <1>9 DEF HiddenApart, SavedApart
<1>11. SavedApart'
  BY <1>1 DEF SavedApart
<1> QED
  BY <1>1, <1>4, <1>5, <1>6, <1>7, <1>8, <1>10, <1>11

(***************************************************************************)
(* The invariant                                                           *)
(***************************************************************************)

\* The invariant holds of the tree a file is created with.
LEMMA InvInit == Init => IInv /\ failed = FALSE
<1> SUFFICES ASSUME Init PROVE IInv /\ failed = FALSE
  OBVIOUS
<1> USE TreeAssumption
<1>1. /\ mobs = <<>> /\ mobsKey = 0 /\ mob = <<>> /\ slot = <<>>
      /\ disk = [key |-> 0, index |-> <<>>, sub |-> <<>>] /\ failed = FALSE
  BY DEF Init
<1>2. /\ DOMAIN mobs = {} /\ DOMAIN mob = {} /\ DOMAIN slot = {}
      /\ DOMAIN disk = {"key", "index", "sub"} /\ disk.key = 0
      /\ DOMAIN disk.index = {} /\ DOMAIN disk.sub = {}
  BY <1>1, EmptyMap
<1>3. TypeOK
  <2>1. 0 \in Key
    BY DEF Key
  <2>2. IsMap(mobs, Key, MobElement) /\ IsMap(slot, Slots, SlotObject)
        /\ IsMap(disk.index, Key, MobIds)
    BY <1>1, EmptyMap
  <2> QED
    BY <1>1, <1>2, <2>1, <2>2 DEF TypeOK
<1>4. OneOwner /\ KeysAreFresh /\ UnloadedIsStored
  BY <1>2 DEF OneOwner, KeysAreFresh, UnloadedIsStored
<1>5. StoresAreFound /\ HiddenApart /\ SavedApart
  BY <1>1, <1>2 DEF StoresAreFound, HiddenApart, SavedApart, IsHidden
<1> QED
  BY <1>1, <1>3, <1>4, <1>5 DEF IInv

\* The steps, one by one, and none of them fails.
LEMMA InvStep ==
  ASSUME ~MayReattach, ~MayStreamReplaced, IInv, ~failed, [Next]_vars
  PROVE  IInv' /\ UNCHANGED failed
<1>1. CASE UNCHANGED vars
  <2>1. /\ mobs' = mobs /\ mobsKey' = mobsKey /\ mob' = mob /\ slot' = slot
        /\ disk' = disk /\ failed' = failed
    BY <1>1 DEF vars
  <2>2. TypeOK' /\ OneOwner' /\ KeysAreFresh' /\ UnloadedIsStored'
    BY <2>1 DEF IInv, TypeOK, OneOwner, KeysAreFresh, UnloadedIsStored, StoreFails, StorageOf,
                NewStorage
  <2>3. StoresAreFound' /\ HiddenApart' /\ SavedApart'
    BY <2>1 DEF IInv, StoresAreFound, MobIsFound, SlotIsFound, HiddenApart, IsHidden, SavedApart
  <2> QED
    BY <2>1, <2>2, <2>3 DEF IInv
<1>2. ASSUME NEW m \in Mobs, NEW id \in MobIds, CreateMob(m, id)
      PROVE  IInv' /\ UNCHANGED failed
  BY <1>2, CreateMobStep
<1>3. ASSUME NEW s \in Slots, CreateSlot(s) PROVE IInv' /\ UNCHANGED failed
  BY <1>3, CreateSlotStep
<1>4. ASSUME NEW m \in DOMAIN mob, AddMob(m) PROVE IInv' /\ UNCHANGED failed
  BY <1>4, AddMobStep
<1>5. ASSUME NEW m \in DOMAIN mob, RemoveMob(m) PROVE IInv' /\ UNCHANGED failed
  BY <1>5, RemoveMobStep
<1>6. ASSUME NEW m \in DOMAIN mob, NEW id \in MobIds, SetMobID(m, id)
      PROVE  IInv' /\ UNCHANGED failed
  BY <1>6, SetMobIDStep
<1>7. ASSUME NEW m \in DOMAIN mob, NEW s \in DOMAIN slot, AppendSlot(m, s)
      PROVE  IInv' /\ UNCHANGED failed
  <2>1. Edits(m, mob[m].key)
    BY <1>7, AppendSlotEdits
  <2>2. IInv'
    BY <2>1, EditStep
  <2> QED
    BY <2>1, <2>2 DEF Edits
<1>8. ASSUME NEW m \in DOMAIN mob, NEW j \in DOMAIN mob[m].slots, RemoveSlotAt(m, j)
      PROVE  IInv' /\ UNCHANGED failed
  <2>1. Edits(m, j)
    BY <1>8, RemoveSlotAtEdits
  <2>2. IInv'
    BY <2>1, EditStep
  <2> QED
    BY <2>1, <2>2 DEF Edits
<1>9. ASSUME NEW m \in DOMAIN mob, NEW j \in DOMAIN mob[m].slots, LoadSlot(m, j)
      PROVE  IInv' /\ UNCHANGED failed
  BY <1>9, LoadSlotStep
<1>10. ASSUME NEW m \in DOMAIN mob, NEW j \in DOMAIN mob[m].slots, NEW s \in DOMAIN slot,
              SetValueAt(m, j, s)
       PROVE  IInv' /\ UNCHANGED failed
  <2>1. Edits(m, j)
    BY <1>10, SetValueAtEdits
  <2>2. IInv'
    BY <2>1, EditStep
  <2> QED
    BY <2>1, <2>2 DEF Edits
<1>11. ASSUME NEW k \in DOMAIN mobs, LoadMob(k) PROVE IInv' /\ UNCHANGED failed
  BY <1>11, LoadMobStep
<1>12. ASSUME NEW s \in DOMAIN slot, OpenSlot(s) PROVE IInv' /\ UNCHANGED failed
  BY <1>12, OpenSlotStep
<1>13. CASE Save
  BY <1>13, SaveStep
<1>14. CASE Reopen
  BY <1>14, ReopenStep
<1> QED
  BY <1>1, <1>2, <1>3, <1>4, <1>5, <1>6, <1>7, <1>8, <1>9, <1>10, <1>11, <1>12, <1>13, <1>14
     DEF Next

\* The invariant holds, and no step has failed, in every reachable state.
THEOREM Invariance == ASSUME ~MayReattach, ~MayStreamReplaced
                      PROVE  Spec => [](IInv /\ failed = FALSE)
<1>1. Init => IInv /\ failed = FALSE
  BY InvInit
<1>2. IInv /\ failed = FALSE /\ [Next]_vars => (IInv /\ failed = FALSE)'
  BY InvStep
<1> QED
  BY <1>1, <1>2, PTL DEF Spec

\* Type correctness.
THEOREM TypesCorrect == ASSUME ~MayReattach, ~MayStreamReplaced PROVE Spec => []TypeOK
<1>1. IInv => TypeOK
  BY DEF IInv
<1> QED
  BY <1>1, Invariance, PTL

\* No operation of such a client ends in an exception or an assertion.
THEOREM NothingFails == ASSUME ~MayReattach, ~MayStreamReplaced PROVE Spec => []NeverFails
<1>1. failed = FALSE => NeverFails
  BY DEF NeverFails
<1> QED
  BY <1>1, Invariance, PTL

\* What is not loaded is in the file, where its reference leads to.
THEOREM UnloadedIsFound == ASSUME ~MayReattach, ~MayStreamReplaced
                           PROVE  Spec => []UnloadedIsStored
<1>1. IInv => UnloadedIsStored
  BY DEF IInv
<1> QED
  BY <1>1, Invariance, PTL

\* Containers and names, and the elements that refer to objects, agree.
THEOREM OwnedOnce == ASSUME ~MayReattach, ~MayStreamReplaced PROVE Spec => []OneOwner
<1>1. IInv => OneOwner
  BY DEF IInv
<1> QED
  BY <1>1, Invariance, PTL

\* Local keys are never given twice.
THEOREM KeysNeverReused == ASSUME ~MayReattach, ~MayStreamReplaced PROVE Spec => []KeysAreFresh
<1>1. IInv => KeysAreFresh
  BY DEF IInv
<1> QED
  BY <1>1, Invariance, PTL

(***************************************************************************)
(* The refinement                                                          *)
(***************************************************************************)

\* The node of the live tree at an element of the set, loaded or not.
MobAt(k) == IF mobs[k].ref = Unloaded THEN disk.sub[k].mob ELSE mobs[k].ref

ElementsAt(k) ==
  IF mobs[k].ref = Unloaded THEN disk.sub[k].index ELSE DOMAIN mob[mobs[k].ref].slots

ValueAt(k, j) ==
  IF IsHidden(k, j) THEN disk.sub[k].sub[j] ELSE mob[mobs[k].ref].slots[j]

SlotsAt(k) == {ValueAt(k, j) : j \in ElementsAt(k)}

NodeAt(k) == [mob |-> MobAt(k), id |-> mobs[k].id, slots |-> SlotsAt(k)]

\* A node at every element.
LEMMA LiveTreeIs == IInv => LiveTree = {NodeAt(x) : x \in DOMAIN mobs}
<1> SUFFICES ASSUME IInv PROVE LiveTree = {NodeAt(x) : x \in DOMAIN mobs}
  OBVIOUS
<1> USE DEF IInv
<1>1. ASSUME NEW k \in DOMAIN mobs, mobs[k].ref # Unloaded
      PROVE  NodeAt(k) = [mob |-> mobs[k].ref, id |-> mobs[k].id, slots |-> LiveSlots(mobs[k].ref)]
  <2>1. PICK m : m = mobs[k].ref
    OBVIOUS
  <2>2. mob[m].at = <<k>>
    BY <1>1, <2>1 DEF OneOwner
  <2>3. mob[m].at[1] = k
    BY <2>2
  <2>4. \A j \in DOMAIN mob[m].slots : ValueAt(k, j) = SlotAt(m, j)
    BY <1>1, <2>1, <2>3 DEF ValueAt, SlotAt, IsHidden
  <2>5. SlotsAt(k) = LiveSlots(m)
    BY <1>1, <2>1, <2>4 DEF SlotsAt, LiveSlots, ElementsAt
  <2> QED
    BY <1>1, <2>1, <2>5 DEF NodeAt, MobAt
<1>2. ASSUME NEW k \in DOMAIN mobs, mobs[k].ref = Unloaded
      PROVE  NodeAt(k) = [mob |-> disk.sub[k].mob, id |-> mobs[k].id, slots |-> StoredSlots(k)]
  <2>1. k \in DOMAIN disk.sub
    BY <1>2 DEF UnloadedIsStored
  <2>2. disk.sub[k].index \cap DOMAIN disk.sub[k].sub = disk.sub[k].index
    BY <2>1 DEF KeysAreFresh
  <2>3. \A j \in disk.sub[k].index : ValueAt(k, j) = disk.sub[k].sub[j]
    BY <1>2 DEF ValueAt, IsHidden
  <2>4. SlotsAt(k) = StoredSlots(k)
    BY <1>2, <2>2, <2>3 DEF SlotsAt, StoredSlots, ElementsAt
  <2> QED
    BY <1>2, <2>4 DEF NodeAt, MobAt
<1> QED
  BY <1>1, <1>2 DEF LiveTree

\* What the invariant says of the live tree, of the next state.
LEMMA LiveTreeIsNext == (IInv => LiveTree = {NodeAt(x) : x \in DOMAIN mobs})'
BY LiveTreeIs, PTL

\* Every object is at one place of the live tree.
LEMMA TreeApart ==
  ASSUME IInv
  PROVE  /\ \A k \in DOMAIN mobs : k \in Key /\ MobAt(k) \in Mobs /\ mobs[k].id \in MobIds
         /\ \A k, l \in DOMAIN mobs : MobAt(k) = MobAt(l) => k = l
         /\ \A k \in DOMAIN mobs : \A j \in ElementsAt(k) : ValueAt(k, j) \in Slots
         /\ \A k \in DOMAIN mobs : \A j \in ElementsAt(k) :
              \/ IsHidden(k, j) /\ ValueAt(k, j) \notin DOMAIN slot
              \/ /\ ~IsHidden(k, j) /\ mobs[k].ref # Unloaded /\ ValueAt(k, j) \in DOMAIN slot
                 /\ slot[ValueAt(k, j)].at = <<mobs[k].ref, j>>
         /\ \A k, l \in DOMAIN mobs : \A j \in ElementsAt(k) : \A i \in ElementsAt(l) :
              ValueAt(k, j) = ValueAt(l, i) => k = l /\ j = i
<1> USE TreeAssumption DEF IInv
<1>1. ASSUME NEW k \in DOMAIN mobs
      PROVE  /\ k \in Key /\ mobs[k].id \in MobIds /\ MobAt(k) \in Mobs
             /\ \/ mobs[k].ref = Unloaded /\ MobAt(k) = disk.sub[k].mob /\ MobAt(k) \notin DOMAIN mob
                \/ /\ mobs[k].ref # Unloaded /\ MobAt(k) = mobs[k].ref /\ MobAt(k) \in DOMAIN mob
                   /\ mob[MobAt(k)].at = <<k>>
  <2>1. k \in Key /\ mobs[k] \in MobElement
    BY DEF TypeOK, IsMap
  <2>2. CASE mobs[k].ref = Unloaded
    <3>1. IsStorage(disk.sub[k])
      BY <2>2 DEF UnloadedIsStored, TypeOK
    <3> QED
      BY <2>1, <2>2, <3>1 DEF MobAt, HiddenApart, MobElement, IsStorage
  <2>3. CASE mobs[k].ref # Unloaded
    BY <2>1, <2>3 DEF MobAt, OneOwner, MobElement
  <2> QED
    BY <2>2, <2>3
<1>2. ASSUME NEW k \in DOMAIN mobs, NEW l \in DOMAIN mobs, MobAt(k) = MobAt(l) PROVE k = l
  <2>1. CASE MobAt(k) \in DOMAIN mob
    <3>1. mob[MobAt(k)].at = <<k>> /\ mob[MobAt(k)].at = <<l>>
      BY <1>1, <1>2, <2>1
    <3>2. <<k>>[1] = k /\ <<l>>[1] = l
      OBVIOUS
    <3> QED
      BY <3>1, <3>2
  <2>2. CASE MobAt(k) \notin DOMAIN mob
    BY <1>1, <1>2, <2>2 DEF HiddenApart
  <2> QED
    BY <2>1, <2>2
<1>3. ASSUME NEW k \in DOMAIN mobs, NEW j \in ElementsAt(k)
      PROVE  /\ j \in SlotKey /\ ValueAt(k, j) \in Slots
             /\ \/ /\ IsHidden(k, j) /\ ValueAt(k, j) \notin DOMAIN slot
                   /\ ValueAt(k, j) = disk.sub[k].sub[j]
                \/ /\ ~IsHidden(k, j) /\ mobs[k].ref # Unloaded /\ ValueAt(k, j) \in DOMAIN slot
                   /\ slot[ValueAt(k, j)].at = <<mobs[k].ref, j>>
  <2>1. j \in SlotKey
    <3>1. CASE mobs[k].ref = Unloaded
      BY <3>1 DEF ElementsAt, UnloadedIsStored, TypeOK, IsStorage
    <3>2. CASE mobs[k].ref # Unloaded
      <4>1. IsMob(mob[mobs[k].ref])
        BY <3>2 DEF OneOwner, TypeOK
      <4> QED
        BY <3>2, <4>1 DEF ElementsAt, IsMob, IsMap
    <3> QED
      BY <3>1, <3>2
  <2>2. CASE IsHidden(k, j)
    <3>1. ValueAt(k, j) = disk.sub[k].sub[j]
      BY <2>2 DEF ValueAt
    <3> QED
      BY <1>1, <2>1, <2>2, <3>1 DEF HiddenApart
  <2>3. CASE ~IsHidden(k, j)
    <3>1. mobs[k].ref # Unloaded
      BY <2>3 DEF IsHidden, ElementsAt
    <3>2. PICK m : m = mobs[k].ref
      OBVIOUS
    <3>3. m \in DOMAIN mob /\ j \in DOMAIN mob[m].slots /\ mob[m].slots[j] # Unloaded
      BY <2>3, <3>1, <3>2 DEF IsHidden, ElementsAt, OneOwner
    <3>4. ValueAt(k, j) = mob[m].slots[j]
      BY <2>3, <3>2 DEF ValueAt
    <3>5. mob[m].slots[j] \in DOMAIN slot /\ slot[mob[m].slots[j]].at = <<m, j>>
      BY <3>3 DEF OneOwner
    <3>6. mob[m].slots[j] \in Slots
      BY <3>5 DEF TypeOK, IsMap
    <3> QED
      BY <2>1, <2>3, <3>1, <3>2, <3>4, <3>5, <3>6
  <2> QED
    BY <2>2, <2>3
<1>4. ASSUME NEW k \in DOMAIN mobs, NEW l \in DOMAIN mobs,
             NEW j \in ElementsAt(k), NEW i \in ElementsAt(l), ValueAt(k, j) = ValueAt(l, i)
      PROVE  k = l /\ j = i
  <2>1. CASE ValueAt(k, j) \in DOMAIN slot
    <3>1. /\ slot[ValueAt(k, j)].at = <<mobs[k].ref, j>> /\ mobs[k].ref # Unloaded
          /\ slot[ValueAt(k, j)].at = <<mobs[l].ref, i>> /\ mobs[l].ref # Unloaded
      BY <1>3, <1>4, <2>1
    <3>2. mobs[k].ref = mobs[l].ref /\ j = i
      BY <3>1
    <3>3. MobAt(k) = MobAt(l)
      BY <3>1, <3>2 DEF MobAt
    <3> QED
      BY <1>2, <3>2, <3>3
  <2>2. CASE ValueAt(k, j) \notin DOMAIN slot
    <3>1. /\ IsHidden(k, j) /\ IsHidden(l, i) /\ disk.sub[k].sub[j] = disk.sub[l].sub[i]
          /\ k \in Key /\ l \in Key /\ j \in SlotKey /\ i \in SlotKey
      BY <1>1, <1>3, <1>4, <2>2
    <3> QED
      BY <3>1 DEF HiddenApart
  <2> QED
    BY <2>1, <2>2
<1> QED
  BY <1>1, <1>2, <1>3, <1>4

\* The node at an element that a step leaves alone.
LEMMA SameNode ==
  ASSUME NEW k, mobs'[k] = mobs[k],
         mobs[k].ref = Unloaded => /\ disk'.sub[k].mob = disk.sub[k].mob
                                   /\ disk'.sub[k].index = disk.sub[k].index,
         mobs[k].ref # Unloaded => mob'[mobs[k].ref].slots = mob[mobs[k].ref].slots,
         k \in DOMAIN mobs, k \in DOMAIN mobs',
         \A j : IsHidden(k, j) => disk'.sub[k].sub[j] = disk.sub[k].sub[j]
  PROVE  NodeAt(k)' = NodeAt(k)
<1>1. MobAt(k)' = MobAt(k) /\ ElementsAt(k)' = ElementsAt(k)
  BY DEF MobAt, ElementsAt
<1>2. \A j : IsHidden(k, j)' <=> IsHidden(k, j)
  BY DEF IsHidden
<1>3. \A j \in ElementsAt(k) : ValueAt(k, j)' = ValueAt(k, j)
  <2> TAKE j \in ElementsAt(k)
  <2>1. CASE IsHidden(k, j)
    BY <1>2, <2>1 DEF ValueAt
  <2>2. CASE ~IsHidden(k, j)
    <3>1. mobs[k].ref # Unloaded
      BY <2>2 DEF IsHidden, ElementsAt
    <3> QED
      BY <1>2, <2>2, <3>1 DEF ValueAt
  <2> QED
    BY <2>1, <2>2
<1>4. SlotsAt(k)' = SlotsAt(k)
  BY <1>1, <1>3 DEF SlotsAt
<1> QED
  BY <1>1, <1>4 DEF NodeAt

\* Sets of nodes.
LEMMA NodesStay ==
  ASSUME IInv, IInv', DOMAIN mobs' = DOMAIN mobs,
         \A k \in DOMAIN mobs : NodeAt(k)' = NodeAt(k)
  PROVE  LiveTree' = LiveTree
<1>1. LiveTree = {NodeAt(x) : x \in DOMAIN mobs}
  BY LiveTreeIs
<1>2. LiveTree' = {NodeAt(x)' : x \in DOMAIN mobs'}
  BY LiveTreeIsNext
<1> QED
  BY <1>1, <1>2

\* Only a step that writes to the file changes the saved tree.
LEMMA SavedTreeStays == disk' = disk => SavedTree' = SavedTree
BY DEF SavedTree, StoredSlots

\* The node of an element is one of the abstract nodes.
LEMMA NodeTypes == IInv => \A x \in DOMAIN mobs : NodeAt(x) \in Promise!Node
<1> SUFFICES ASSUME IInv, NEW k \in DOMAIN mobs PROVE NodeAt(k) \in Promise!Node
  OBVIOUS
<1>1. MobAt(k) \in Mobs /\ mobs[k].id \in MobIds
  BY TreeApart
<1>2. SlotsAt(k) \subseteq Slots
  BY TreeApart DEF SlotsAt
<1> QED
  BY <1>1, <1>2 DEF NodeAt, Promise!Node

\* The nodes of the next state have the types of the promise.
LEMMA NodeTypesNext == (IInv => \A x \in DOMAIN mobs : NodeAt(x) \in Promise!Node)'
BY NodeTypes, PTL

\* A step that changes one mob, or moves it to another key, edits one node.
LEMMA NodeEdited ==
  ASSUME IInv, IInv', NEW k \in DOMAIN mobs, NEW l \in DOMAIN mobs',
         DOMAIN mobs' = (DOMAIN mobs \ {k}) \cup {l}, l = k \/ l \notin DOMAIN mobs,
         \A i \in DOMAIN mobs \ {k} : NodeAt(i)' = NodeAt(i)
  PROVE  LiveTree' = (LiveTree \ {NodeAt(k)}) \cup {NodeAt(l)'}
<1>1. LiveTree = {NodeAt(x) : x \in DOMAIN mobs}
  BY LiveTreeIs
<1>2. LiveTree' = {NodeAt(x)' : x \in DOMAIN mobs'}
  BY LiveTreeIsNext
<1>3. \A i \in DOMAIN mobs \ {k} : NodeAt(i) # NodeAt(k)
  BY TreeApart DEF NodeAt
<1> QED
  BY <1>1, <1>2, <1>3

\* A step that takes one mob out of the set removes one node.
LEMMA NodeRemoved ==
  ASSUME IInv, IInv', NEW k \in DOMAIN mobs, DOMAIN mobs' = DOMAIN mobs \ {k},
         \A i \in DOMAIN mobs \ {k} : NodeAt(i)' = NodeAt(i)
  PROVE  LiveTree' = LiveTree \ {NodeAt(k)}
<1>1. LiveTree = {NodeAt(x) : x \in DOMAIN mobs}
  BY LiveTreeIs
<1>2. LiveTree' = {NodeAt(x)' : x \in DOMAIN mobs'}
  BY LiveTreeIsNext
<1>3. \A i \in DOMAIN mobs \ {k} : NodeAt(i) # NodeAt(k)
  BY TreeApart DEF NodeAt
<1> QED
  BY <1>1, <1>2, <1>3

\* A step that puts one mob into the set adds one node.
LEMMA NodeAdded ==
  ASSUME IInv, IInv', NEW k, DOMAIN mobs' = DOMAIN mobs \cup {k}, k \notin DOMAIN mobs,
         \A i \in DOMAIN mobs : NodeAt(i)' = NodeAt(i)
  PROVE  LiveTree' = LiveTree \cup {NodeAt(k)'}
<1>1. LiveTree = {NodeAt(x) : x \in DOMAIN mobs}
  BY LiveTreeIs
<1>2. LiveTree' = {NodeAt(x)' : x \in DOMAIN mobs'}
  BY LiveTreeIsNext
<1> QED
  BY <1>1, <1>2

\* A step that touches no element of the set and nothing in the file cannot be
\* seen, if the mobs of the set keep their slots.
LEMMA QuietStep ==
  ASSUME IInv, IInv', mobs' = mobs, disk' = disk,
         \A k \in DOMAIN mobs : mobs[k].ref # Unloaded =>
           mob'[mobs[k].ref].slots = mob[mobs[k].ref].slots
  PROVE  UNCHANGED <<LiveTree, SavedTree>>
<1>1. \A k \in DOMAIN mobs : NodeAt(k)' = NodeAt(k)
  <2> TAKE k \in DOMAIN mobs
  <2> QED
    BY SameNode
<1> QED
  BY <1>1, NodesStay, SavedTreeStays

\* A mob that is created and not yet added is in neither tree.
LEMMA CreateMobQuiet ==
  ASSUME IInv, IInv', NEW m \in Mobs, NEW id \in MobIds, CreateMob(m, id)
  PROVE  UNCHANGED <<LiveTree, SavedTree>>
<1>1. /\ m \notin DOMAIN mob /\ mobs' = mobs /\ disk' = disk
      /\ \A n \in DOMAIN mob : mob'[n] = mob[n]
  BY DEF CreateMob, With
<1>2. \A k \in DOMAIN mobs : mobs[k].ref # Unloaded => mobs[k].ref \in DOMAIN mob
  BY DEF IInv, OneOwner
<1> QED
  BY <1>1, <1>2, QuietStep

\* Nor is a slot.
LEMMA CreateSlotQuiet ==
  ASSUME IInv, IInv', NEW s \in Slots, CreateSlot(s)
  PROVE  UNCHANGED <<LiveTree, SavedTree>>
BY QuietStep DEF CreateSlot

\* The mob that is added is in no tree, nor is its identity.
LEMMA AddMobImplements ==
  ASSUME IInv, IInv', NEW m \in DOMAIN mob, AddMob(m)
  PROVE  Promise!Next
<1> USE TreeAssumption DEF IInv
<1> DEFINE k == mobsKey
           r == [id |-> mob[m].id, ref |-> m]
<1>1. /\ ~ContainsId(mob[m].id) /\ mob[m].at = Nowhere
      /\ mobs' = With(mobs, k, r)
      /\ mob' = [mob EXCEPT ![m].at = <<k>>]
      /\ disk' = disk
  BY DEF AddMob
<1>2. k \notin DOMAIN mobs /\ m \in Mobs /\ m # Unloaded /\ IsMob(mob[m])
  BY DEF KeysAreFresh, TypeOK, Key
<1>3. /\ DOMAIN mobs' = DOMAIN mobs \cup {k} /\ mobs'[k].ref = m /\ mobs'[k].id = mob[m].id
      /\ \A l \in DOMAIN mobs : mobs'[l] = mobs[l]
  BY <1>1, <1>2 DEF With
<1>4. \A n \in DOMAIN mob : mob'[n].slots = mob[n].slots
  BY <1>1, <1>2 DEF IsMob
<1> HIDE DEF r
<1>5. \A l \in DOMAIN mobs : mobs[l].ref # Unloaded => mobs[l].ref \in DOMAIN mob
  BY DEF OneOwner
<1>6. ASSUME NEW l \in DOMAIN mobs PROVE NodeAt(l)' = NodeAt(l)
  BY <1>1, <1>3, <1>4, <1>5, SameNode
<1>7. PICK l : l = k
  OBVIOUS
<1>8. LiveTree' = LiveTree \cup {NodeAt(l)'}
  BY <1>2, <1>3, <1>6, <1>7, NodeAdded
<1>9. \A x \in DOMAIN mobs' : NodeAt(x)' \in Promise!Node
  BY NodeTypesNext
<1>10. NodeAt(l)' \in Promise!Node
  BY <1>3, <1>7, <1>9
<1>11. NodeAt(l)'.mob = m /\ NodeAt(l)'.id = mob[m].id
  BY <1>2, <1>3, <1>7 DEF NodeAt, MobAt
<1>12. \A i \in DOMAIN mobs : MobAt(i) # m /\ mobs[i].id # mob[m].id
  BY <1>1, <1>2, Somewhere DEF MobAt, OneOwner, HiddenApart, ContainsId
<1>13. \A x \in LiveTree : x.mob # m /\ x.id # mob[m].id
  BY <1>12, LiveTreeIs DEF NodeAt
<1>14. SavedTree' = SavedTree
  BY <1>1, SavedTreeStays
<1>15. Promise!AddMob(NodeAt(l)')
  BY <1>8, <1>11, <1>13, <1>14 DEF Promise!AddMob
<1> QED
  BY <1>10, <1>15 DEF Promise!Next

\* RemoveMob takes the node of the mob out of the live tree.
LEMMA RemoveMobImplements ==
  ASSUME IInv, IInv', ~MayReattach, NEW m \in DOMAIN mob, RemoveMob(m)
  PROVE  Promise!Next
<1> USE TreeAssumption DEF IInv
<1>1. mob[m].at # Nowhere /\ disk' = disk /\ mobs' = Restrict(mobs, mob[m].at[1])
  BY DEF RemoveMob
<1>2. PICK k \in DOMAIN mobs : mob[m].at = <<k>> /\ mob[m].at[1] = k /\ mobs[k].ref = m
  BY <1>1, Attached
<1>3. /\ DOMAIN mobs' = DOMAIN mobs \ {k}
      /\ \A l \in DOMAIN mobs : l # k => mobs'[l] = mobs[l]
  BY <1>1, <1>2 DEF Restrict
<1>4. \A n \in DOMAIN mob : n # m => mob'[n] = mob[n]
  <2>1. CASE Forgets(mob[m])
    BY <2>1 DEF RemoveMob, Restrict
  <2>2. CASE ~Forgets(mob[m])
    BY <2>2 DEF RemoveMob
  <2> QED
    BY <2>1, <2>2
<1>5. \A l \in DOMAIN mobs : mobs[l].ref # Unloaded /\ l # k =>
        mobs[l].ref \in DOMAIN mob /\ mobs[l].ref # m
  <2>1. \A l \in DOMAIN mobs : mobs[l].ref # Unloaded =>
          mobs[l].ref \in DOMAIN mob /\ mob[mobs[l].ref].at = <<l>>
    BY DEF OneOwner
  <2>2. \A l : <<l>> = <<k>> => l = k
    OBVIOUS
  <2> QED
    BY <1>2, <2>1, <2>2
<1>6. ASSUME NEW l \in DOMAIN mobs \ {k} PROVE NodeAt(l)' = NodeAt(l)
  BY <1>1, <1>3, <1>4, <1>5, SameNode
<1>7. LiveTree' = LiveTree \ {NodeAt(k)}
  BY <1>3, <1>6, NodeRemoved
<1>8. NodeAt(k) \in LiveTree
  BY LiveTreeIs
<1>9. Promise!RemoveMob(NodeAt(k))
  BY <1>1, <1>7, SavedTreeStays DEF Promise!RemoveMob
<1> QED
  BY <1>8, <1>9 DEF Promise!Next

\* A mob that moves to a new key under a new identity is the same node.
LEMMA SetMobIDImplements ==
  ASSUME IInv, IInv', ~MayReattach, NEW m \in DOMAIN mob, NEW id \in MobIds, SetMobID(m, id)
  PROVE  Promise!Next \/ UNCHANGED <<LiveTree, SavedTree>>
<1> USE TreeAssumption DEF IInv
<1>1. IsMob(mob[m]) /\ m # Unloaded /\ m \in Mobs
  BY DEF TypeOK
<1>2. CASE mob[m].at = Nowhere
  <2>1. /\ mob' = [mob EXCEPT ![m].id = id] /\ mobs' = mobs /\ disk' = disk
    BY <1>2 DEF SetMobID
  <2>2. \A n \in DOMAIN mob : mob'[n].slots = mob[n].slots
    BY <1>1, <2>1 DEF IsMob
  <2>3. \A k \in DOMAIN mobs : mobs[k].ref # Unloaded => mobs[k].ref \in DOMAIN mob
    BY DEF OneOwner
  <2> QED
    BY <2>1, <2>2, <2>3, QuietStep
<1>3. CASE mob[m].at # Nowhere
  <2> DEFINE r == [id |-> id, ref |-> m]
  <2>1. /\ ~Stored(mob[m]) /\ ~ContainsId(id) /\ disk' = disk
        /\ mobs' = With(Restrict(mobs, mob[m].at[1]), mobsKey, r)
        /\ mob' = [mob EXCEPT ![m] =
             [Detached(mob[m]) EXCEPT !.id = id, !.at = <<mobsKey>>, !.slots = mob[m].slots]]
    BY <1>3, DetachEffect DEF SetMobID, Forgets
  <2>2. PICK k \in DOMAIN mobs : mob[m].at = <<k>> /\ mob[m].at[1] = k /\ mobs[k].ref = m
    BY <1>3, Attached
  <2>3. PICK l : l = mobsKey /\ l \notin DOMAIN mobs
    <3>1. mobsKey \notin DOMAIN mobs
      BY DEF KeysAreFresh, TypeOK, Key
    <3> QED
      BY <3>1
  <2>4. r.id = id /\ r.ref = m
    OBVIOUS
  <2> HIDE DEF r
  <2>5. /\ DOMAIN mobs' = (DOMAIN mobs \ {k}) \cup {l}
        /\ mobs'[l].ref = m /\ mobs'[l].id = id
        /\ \A i \in DOMAIN mobs \ {k} : mobs'[i] = mobs[i]
    BY <2>1, <2>2, <2>3, <2>4 DEF Restrict, With
  <2>6. mob'[m].slots = mob[m].slots /\ \A n \in DOMAIN mob : n # m => mob'[n] = mob[n]
    BY <1>1, <2>1 DEF Detached, IsMob
  <2>7. \A i \in DOMAIN mobs : mobs[i].ref # Unloaded => mobs[i].ref \in DOMAIN mob
    BY DEF OneOwner
  <2>8. ASSUME NEW i \in DOMAIN mobs \ {k} PROVE NodeAt(i)' = NodeAt(i)
    BY <2>1, <2>5, <2>6, <2>7, SameNode
  <2>9. LiveTree' = (LiveTree \ {NodeAt(k)}) \cup {NodeAt(l)'}
    BY <2>3, <2>5, <2>8, NodeEdited
  <2>10. \A j \in DOMAIN mob[m].slots : mob[m].slots[j] # Unloaded
    BY <2>1, DetachedMob
  <2>11. SlotsAt(l)' = SlotsAt(k)
    <3>1. ElementsAt(k) = DOMAIN mob[m].slots /\ ElementsAt(l)' = DOMAIN mob[m].slots
      BY <1>1, <2>2, <2>5, <2>6 DEF ElementsAt
    <3>2. \A j \in DOMAIN mob[m].slots :
            ValueAt(k, j) = mob[m].slots[j] /\ ValueAt(l, j)' = mob[m].slots[j]
      BY <1>1, <2>2, <2>5, <2>6, <2>10 DEF ValueAt, IsHidden
    <3> QED
      BY <3>1, <3>2 DEF SlotsAt
  <2>12. NodeAt(l)' = [NodeAt(k) EXCEPT !.id = id]
    <3>1. MobAt(k) = m /\ MobAt(l)' = m
      BY <1>1, <2>2, <2>5 DEF MobAt
    <3> QED
      BY <2>5, <2>11, <3>1 DEF NodeAt
  <2>13. \A x \in LiveTree : x.id # id
    <3>1. \A i \in DOMAIN mobs : mobs[i].id # id
      BY <2>1 DEF ContainsId
    <3> QED
      BY <3>1, LiveTreeIs DEF NodeAt
  <2>14. NodeAt(k) \in LiveTree
    BY LiveTreeIs
  <2>15. Promise!SetMobID(NodeAt(k), id)
    BY <2>1, <2>9, <2>12, <2>13, SavedTreeStays DEF Promise!SetMobID, Promise!Edit
  <2> QED
    BY <2>14, <2>15 DEF Promise!Next
<1> QED
  BY <1>2, <1>3

\* An edit of one element of a mob changes its node only, and the slots there
\* by that element only.
LEMMA EditSeen ==
  ASSUME IInv, IInv', NEW m \in DOMAIN mob, NEW j, Edits(m, j),
         NEW k \in DOMAIN mobs, mob[m].at = <<k>>, mobs[k].ref = m
  PROVE  /\ NodeAt(k) \in LiveTree
         /\ LiveTree' = (LiveTree \ {NodeAt(k)}) \cup {NodeAt(k)'}
         /\ SavedTree' = SavedTree
         /\ MobAt(k)' = MobAt(k) /\ mobs'[k].id = mobs[k].id
         /\ ElementsAt(k) = DOMAIN mob[m].slots /\ ElementsAt(k)' = DOMAIN mob'[m].slots
         /\ \A i \in ElementsAt(k) : i # j => i \in ElementsAt(k)' /\ ValueAt(k, i)' = ValueAt(k, i)
         /\ \A i \in ElementsAt(k)' : i # j => i \in ElementsAt(k)
         /\ j \in DOMAIN mob'[m].slots => ValueAt(k, j)' = mob'[m].slots[j]
<1> USE TreeAssumption DEF IInv
<1>1. /\ \A n \in DOMAIN mob : n # m => mob'[n] = mob[n]
      /\ \A i \in DOMAIN mob'[m].slots : i # j =>
           i \in DOMAIN mob[m].slots /\ mob'[m].slots[i] = mob[m].slots[i]
      /\ \A i \in DOMAIN mob[m].slots : i # j =>
           i \in DOMAIN mob'[m].slots /\ mob'[m].slots[i] = mob[m].slots[i]
      /\ mobs' = mobs /\ disk' = disk
  BY DEF Edits
<1>2. m # Unloaded /\ m \in Mobs
  BY DEF TypeOK
<1>3. \A l \in DOMAIN mobs : mobs[l].ref # Unloaded /\ l # k =>
        mobs[l].ref \in DOMAIN mob /\ mobs[l].ref # m
  <2>1. \A l \in DOMAIN mobs : mobs[l].ref # Unloaded =>
          mobs[l].ref \in DOMAIN mob /\ mob[mobs[l].ref].at = <<l>>
    BY DEF OneOwner
  <2>2. \A l : <<l>> = <<k>> => l = k
    OBVIOUS
  <2> QED
    BY <2>1, <2>2
<1>4. ASSUME NEW l \in DOMAIN mobs \ {k} PROVE NodeAt(l)' = NodeAt(l)
  BY <1>1, <1>3, SameNode
<1>5. LiveTree' = (LiveTree \ {NodeAt(k)}) \cup {NodeAt(k)'}
  <2>1. k \in DOMAIN mobs' /\ DOMAIN mobs' = (DOMAIN mobs \ {k}) \cup {k}
    BY <1>1
  <2> QED
    BY <1>4, <2>1, NodeEdited
<1>6. MobAt(k)' = MobAt(k) /\ mobs'[k].id = mobs[k].id
  BY <1>1, <1>2 DEF MobAt
<1>7. ElementsAt(k) = DOMAIN mob[m].slots /\ ElementsAt(k)' = DOMAIN mob'[m].slots
  BY <1>1, <1>2 DEF ElementsAt
<1>8. \A i \in DOMAIN mob[m].slots : i # j => ValueAt(k, i)' = ValueAt(k, i)
  BY <1>1, <1>2 DEF ValueAt, IsHidden
<1>9. j \in DOMAIN mob'[m].slots => ValueAt(k, j)' = mob'[m].slots[j]
  <2>1. j \in DOMAIN mob'[m].slots => mob'[m].slots[j] # Unloaded
    BY DEF Edits
  <2> QED
    BY <1>1, <1>2, <2>1 DEF ValueAt, IsHidden
<1>10. NodeAt(k) \in LiveTree
  BY LiveTreeIs
<1> QED
  BY <1>1, <1>5, <1>6, <1>7, <1>8, <1>9, <1>10, SavedTreeStays

\* An edit of a mob that is in no tree cannot be seen.
LEMMA DetachedEditQuiet ==
  ASSUME IInv, IInv', NEW m \in DOMAIN mob, NEW j, Edits(m, j), mob[m].at = Nowhere
  PROVE  UNCHANGED <<LiveTree, SavedTree>>
<1>1. mobs' = mobs /\ disk' = disk /\ \A n \in DOMAIN mob : n # m => mob'[n] = mob[n]
  BY DEF Edits
<1>2. \A l \in DOMAIN mobs : mobs[l].ref # Unloaded =>
        mobs[l].ref \in DOMAIN mob /\ mobs[l].ref # m
  <2>1. \A l \in DOMAIN mobs : mobs[l].ref # Unloaded =>
          mobs[l].ref \in DOMAIN mob /\ mob[mobs[l].ref].at = <<l>>
    BY DEF IInv, OneOwner
  <2> QED
    BY <2>1, Somewhere
<1> QED
  BY <1>1, <1>2, QuietStep

\* A slot that is not attached is in no tree.
LEMMA FreeSlot ==
  ASSUME IInv, NEW s \in DOMAIN slot, slot[s].at = Nowhere
  PROVE  s \in Slots /\ \A x \in LiveTree : s \notin x.slots
<1>1. s \in Slots
  BY DEF IInv, TypeOK, IsMap
<1>2. ASSUME NEW k \in DOMAIN mobs, NEW j \in ElementsAt(k) PROVE ValueAt(k, j) # s
  BY TreeApart, Somewhere
<1>3. \A k \in DOMAIN mobs : s \notin NodeAt(k).slots
  BY <1>2 DEF NodeAt, SlotsAt
<1> QED
  BY <1>1, <1>3, LiveTreeIs

\* AppendSlot edits the node of its mob, or the mob is in no tree.
LEMMA AppendSlotImplements ==
  ASSUME IInv, IInv', NEW m \in DOMAIN mob, NEW s \in DOMAIN slot, AppendSlot(m, s)
  PROVE  Promise!Next \/ UNCHANGED <<LiveTree, SavedTree>>
<1> USE TreeAssumption DEF IInv
<1>1. PICK j : j = mob[m].key
  OBVIOUS
<1>2. Edits(m, j)
  BY <1>1, AppendSlotEdits
<1>3. CASE mob[m].at = Nowhere
  BY <1>2, <1>3, DetachedEditQuiet
<1>4. CASE mob[m].at # Nowhere
  <2>1. PICK k \in DOMAIN mobs : mob[m].at = <<k>> /\ mobs[k].ref = m
    BY <1>4, Attached
  <2>2. s \in Slots /\ \A x \in LiveTree : s \notin x.slots
    BY FreeSlot DEF AppendSlot
  <2>3. /\ j \notin DOMAIN mob[m].slots /\ DOMAIN mob'[m].slots = DOMAIN mob[m].slots \cup {j}
        /\ mob'[m].slots[j] = s
    <3>1. IsMob(mob[m])
      BY DEF TypeOK
    <3>2. j \notin DOMAIN mob[m].slots
      BY <1>1, <3>1 DEF KeysAreFresh, IsMob, SlotKey
    <3>3. mob'[m].slots = With(mob[m].slots, j, s)
      BY <1>1, <3>1 DEF AppendSlot, IsMob
    <3> QED
      BY <3>2, <3>3 DEF With
  <2>4. NodeAt(k)' = [NodeAt(k) EXCEPT !.slots = NodeAt(k).slots \cup {s}]
    <3>1. /\ ElementsAt(k)' = ElementsAt(k) \cup {j} /\ ValueAt(k, j)' = s
          /\ \A i \in ElementsAt(k) : ValueAt(k, i)' = ValueAt(k, i)
      BY <1>2, <2>1, <2>3, EditSeen
    <3>2. SlotsAt(k)' = SlotsAt(k) \cup {s}
      BY <3>1 DEF SlotsAt
    <3>3. MobAt(k)' = MobAt(k) /\ mobs'[k].id = mobs[k].id
      BY <1>2, <2>1, EditSeen
    <3> QED
      BY <3>2, <3>3 DEF NodeAt
  <2>5. /\ NodeAt(k) \in LiveTree /\ SavedTree' = SavedTree
        /\ LiveTree' = (LiveTree \ {NodeAt(k)}) \cup {NodeAt(k)'}
    BY <1>2, <2>1, EditSeen
  <2>6. Promise!AppendSlot(NodeAt(k), s)
    BY <2>2, <2>4, <2>5 DEF Promise!AppendSlot, Promise!Edit
  <2> QED
    BY <2>2, <2>5, <2>6 DEF Promise!Next
<1> QED
  BY <1>3, <1>4

\* So does RemoveSlotAt.
LEMMA RemoveSlotAtImplements ==
  ASSUME IInv, IInv', ~MayReattach, NEW m \in DOMAIN mob, NEW j \in DOMAIN mob[m].slots,
         RemoveSlotAt(m, j)
  PROVE  Promise!Next \/ UNCHANGED <<LiveTree, SavedTree>>
<1> USE TreeAssumption DEF IInv
<1>1. Edits(m, j)
  BY RemoveSlotAtEdits
<1>2. CASE mob[m].at = Nowhere
  BY <1>1, <1>2, DetachedEditQuiet
<1>3. CASE mob[m].at # Nowhere
  <2>1. PICK k \in DOMAIN mobs : mob[m].at = <<k>> /\ mobs[k].ref = m
    BY <1>3, Attached
  <2>2. DOMAIN mob'[m].slots = DOMAIN mob[m].slots \ {j}
    <3>1. IsMob(mob[m])
      BY DEF TypeOK
    <3>2. mob'[m].slots = Restrict(mob[m].slots, j)
      BY <3>1 DEF RemoveSlotAt, IsMob
    <3> QED
      BY <3>2 DEF Restrict
  <2>3. PICK s : s = ValueAt(k, j)
    OBVIOUS
  <2>4. /\ ElementsAt(k)' = ElementsAt(k) \ {j} /\ j \in ElementsAt(k)
        /\ \A i \in ElementsAt(k)' : ValueAt(k, i)' = ValueAt(k, i)
        /\ MobAt(k)' = MobAt(k) /\ mobs'[k].id = mobs[k].id
        /\ NodeAt(k) \in LiveTree /\ SavedTree' = SavedTree
        /\ LiveTree' = (LiveTree \ {NodeAt(k)}) \cup {NodeAt(k)'}
    BY <1>1, <2>1, <2>2, EditSeen
  <2>5. NodeAt(k)' = [NodeAt(k) EXCEPT !.slots = NodeAt(k).slots \ {s}]
    <3>1. \A i \in ElementsAt(k) : i # j => ValueAt(k, i) # s
      BY <2>3, <2>4, TreeApart
    <3>2. SlotsAt(k)' = SlotsAt(k) \ {s}
      BY <2>3, <2>4, <3>1 DEF SlotsAt
    <3> QED
      BY <2>4, <3>2 DEF NodeAt
  <2>6. s \in NodeAt(k).slots
    BY <2>3, <2>4 DEF NodeAt, SlotsAt
  <2>7. Promise!RemoveSlot(NodeAt(k), s)
    BY <2>4, <2>5 DEF Promise!RemoveSlot, Promise!Edit
  <2> QED
    BY <2>4, <2>6, <2>7 DEF Promise!Next
<1> QED
  BY <1>2, <1>3

\* So does SetValueAt.
LEMMA SetValueAtImplements ==
  ASSUME IInv, IInv', ~MayReattach, NEW m \in DOMAIN mob, NEW j \in DOMAIN mob[m].slots,
         NEW t \in DOMAIN slot, SetValueAt(m, j, t)
  PROVE  Promise!Next \/ UNCHANGED <<LiveTree, SavedTree>>
<1> USE TreeAssumption DEF IInv
<1>1. Edits(m, j)
  BY SetValueAtEdits
<1>2. CASE mob[m].at = Nowhere
  BY <1>1, <1>2, DetachedEditQuiet
<1>3. CASE mob[m].at # Nowhere
  <2>1. PICK k \in DOMAIN mobs : mob[m].at = <<k>> /\ mobs[k].ref = m
    BY <1>3, Attached
  <2>2. DOMAIN mob'[m].slots = DOMAIN mob[m].slots /\ mob'[m].slots[j] = t
    <3>1. IsMob(mob[m])
      BY DEF TypeOK
    <3>2. mob'[m].slots = [mob[m].slots EXCEPT ![j] = t]
      BY <3>1 DEF SetValueAt, IsMob
    <3> QED
      BY <3>2
  <2>3. PICK s : s = ValueAt(k, j)
    OBVIOUS
  <2>4. /\ ElementsAt(k)' = ElementsAt(k) /\ j \in ElementsAt(k) /\ ValueAt(k, j)' = t
        /\ \A i \in ElementsAt(k) : i # j => ValueAt(k, i)' = ValueAt(k, i)
        /\ MobAt(k)' = MobAt(k) /\ mobs'[k].id = mobs[k].id
        /\ NodeAt(k) \in LiveTree /\ SavedTree' = SavedTree
        /\ LiveTree' = (LiveTree \ {NodeAt(k)}) \cup {NodeAt(k)'}
    BY <1>1, <2>1, <2>2, EditSeen
  <2>5. t \in Slots /\ \A x \in LiveTree : t \notin x.slots
    BY FreeSlot DEF SetValueAt
  <2>6. NodeAt(k)' = [NodeAt(k) EXCEPT !.slots = (NodeAt(k).slots \ {s}) \cup {t}]
    <3>1. \A i \in ElementsAt(k) : i # j => ValueAt(k, i) # s
      BY <2>3, <2>4, TreeApart
    <3>2. SlotsAt(k)' = (SlotsAt(k) \ {s}) \cup {t}
      BY <2>3, <2>4, <3>1 DEF SlotsAt
    <3>3. NodeAt(k) = [mob |-> MobAt(k), id |-> mobs[k].id, slots |-> SlotsAt(k)]
      BY DEF NodeAt
    <3>4. NodeAt(k)' = [mob |-> MobAt(k), id |-> mobs[k].id, slots |-> (SlotsAt(k) \ {s}) \cup {t}]
      BY <2>4, <3>2 DEF NodeAt
    <3> QED
      BY <3>3, <3>4
  <2>7. s \in NodeAt(k).slots
    BY <2>3, <2>4 DEF NodeAt, SlotsAt
  <2>8. Promise!ReplaceSlot(NodeAt(k), s, t)
    BY <2>4, <2>5, <2>6 DEF Promise!ReplaceSlot, Promise!Edit
  <2> QED
    BY <2>4, <2>5, <2>7, <2>8 DEF Promise!Next
<1> QED
  BY <1>2, <1>3

\* Loading a mob puts in memory what was there to be seen.
LEMMA LoadMobQuiet ==
  ASSUME IInv, IInv', NEW k \in DOMAIN mobs, LoadMob(k)
  PROVE  UNCHANGED <<LiveTree, SavedTree>>
<1> USE TreeAssumption DEF IInv
<1>1. mobs[k].ref = Unloaded /\ k \in DOMAIN disk.sub /\ mobs[k] \in MobElement
      /\ IsStorage(disk.sub[k])
  BY DEF LoadMob, UnloadedIsStored, TypeOK, IsMap
<1>2. PICK m : m = disk.sub[k].mob
  OBVIOUS
<1>3. m \notin DOMAIN mob /\ m # Unloaded /\ m \in Mobs
  BY <1>1, <1>2 DEF HiddenApart, IsStorage
<1>4. /\ mobs' = [mobs EXCEPT ![k].ref = m] /\ mob' = With(mob, m, Restored(k)) /\ disk' = disk
  BY <1>1, <1>2 DEF LoadMob
<1>5. /\ DOMAIN mobs' = DOMAIN mobs /\ mobs'[k].ref = m /\ mobs'[k].id = mobs[k].id
      /\ \A l \in DOMAIN mobs : l # k => mobs'[l] = mobs[l]
  BY <1>1, <1>4 DEF MobElement
<1>6. mob'[m] = Restored(k) /\ \A n \in DOMAIN mob : mob'[n] = mob[n]
  BY <1>3, <1>4 DEF With
<1>7. /\ DOMAIN Restored(k).slots = disk.sub[k].index
      /\ \A j \in disk.sub[k].index : Restored(k).slots[j] = Unloaded
  BY DEF Restored
<1>8. \A l \in DOMAIN mobs : mobs[l].ref # Unloaded => mobs[l].ref \in DOMAIN mob
  BY DEF OneOwner
<1>9. NodeAt(k)' = NodeAt(k)
  <2>1. MobAt(k)' = MobAt(k) /\ ElementsAt(k) = disk.sub[k].index /\ ElementsAt(k)' = disk.sub[k].index
    BY <1>1, <1>2, <1>3, <1>4, <1>5, <1>6, <1>7 DEF MobAt, ElementsAt
  <2>2. \A j \in disk.sub[k].index : IsHidden(k, j) /\ IsHidden(k, j)'
    BY <1>1, <1>3, <1>4, <1>5, <1>6, <1>7 DEF IsHidden
  <2>3. \A j \in disk.sub[k].index : ValueAt(k, j)' = ValueAt(k, j)
    BY <1>4, <2>2 DEF ValueAt
  <2>4. SlotsAt(k)' = SlotsAt(k)
    BY <2>1, <2>3 DEF SlotsAt
  <2> QED
    BY <1>5, <2>1, <2>4 DEF NodeAt
<1>10. \A l \in DOMAIN mobs : NodeAt(l)' = NodeAt(l)
  <2> TAKE l \in DOMAIN mobs
  <2>1. CASE l # k
    BY <1>4, <1>5, <1>6, <1>8, <2>1, SameNode
  <2> QED
    BY <1>9, <2>1
<1> QED
  BY <1>4, <1>5, <1>10, NodesStay, SavedTreeStays

\* Loading a slot too.
LEMMA LoadSlotQuiet ==
  ASSUME IInv, IInv', NEW m \in DOMAIN mob, NEW j \in DOMAIN mob[m].slots, LoadSlot(m, j)
  PROVE  UNCHANGED <<LiveTree, SavedTree>>
<1> USE TreeAssumption DEF IInv
<1>1. mob[m].slots[j] = Unloaded /\ IsMob(mob[m]) /\ m # Unloaded
  BY DEF LoadSlot, TypeOK
<1>2. PICK k \in DOMAIN mobs :
        /\ mob[m].at[1] = k /\ mobs[k].ref = m /\ StorageOf(m) = disk.sub[k]
        /\ IsHidden(k, j) /\ k \in Key /\ j \in SlotKey /\ j \in DOMAIN disk.sub[k].sub
  BY <1>1, HiddenSlot
<1>3. PICK s : s = disk.sub[k].sub[j]
  OBVIOUS
<1>4. s \in Slots /\ s # Unloaded /\ s # Void
  BY <1>2, <1>3 DEF HiddenApart
<1>5. ~StoreFails(m)
  BY <1>1 DEF UnloadedIsStored
<1>6. mob' = [mob EXCEPT ![m].slots[j] = s, ![m].open = TRUE] /\ mobs' = mobs /\ disk' = disk
  BY <1>2, <1>3, <1>4, <1>5 DEF LoadSlot
<1>7. /\ DOMAIN mob'[m].slots = DOMAIN mob[m].slots /\ mob'[m].slots[j] = s
      /\ \A i \in DOMAIN mob[m].slots : i # j => mob'[m].slots[i] = mob[m].slots[i]
      /\ \A n \in DOMAIN mob : n # m => mob'[n] = mob[n]
  <2>1. mob'[m] = [mob[m] EXCEPT !.slots = [mob[m].slots EXCEPT ![j] = s], !.open = TRUE]
    BY <1>1, <1>6 DEF IsMob
  <2> QED
    BY <1>1, <1>6, <2>1 DEF IsMob
<1>8. NodeAt(k)' = NodeAt(k)
  <2>1. /\ MobAt(k)' = MobAt(k) /\ ElementsAt(k)' = ElementsAt(k)
        /\ ElementsAt(k) = DOMAIN mob[m].slots
    BY <1>1, <1>2, <1>6, <1>7 DEF MobAt, ElementsAt
  <2>2. ValueAt(k, j)' = s /\ ValueAt(k, j) = s
    BY <1>1, <1>2, <1>3, <1>4, <1>6, <1>7 DEF ValueAt, IsHidden
  <2>3. \A i \in DOMAIN mob[m].slots : i # j => ValueAt(k, i)' = ValueAt(k, i)
    BY <1>1, <1>2, <1>6, <1>7 DEF ValueAt, IsHidden
  <2>4. SlotsAt(k)' = SlotsAt(k)
    BY <2>1, <2>2, <2>3 DEF SlotsAt
  <2> QED
    BY <1>6, <2>1, <2>4 DEF NodeAt
<1>9. \A l \in DOMAIN mobs : mobs[l].ref # Unloaded /\ l # k =>
        mobs[l].ref \in DOMAIN mob /\ mobs[l].ref # m
  <2>1. \A l \in DOMAIN mobs : mobs[l].ref # Unloaded =>
          mobs[l].ref \in DOMAIN mob /\ mob[mobs[l].ref].at = <<l>>
    BY DEF OneOwner
  <2>2. mob[m].at = <<k>>
    BY <1>1, <1>2, <2>1
  <2>3. \A l : <<l>> = <<k>> => l = k
    OBVIOUS
  <2> QED
    BY <2>1, <2>2, <2>3
<1>10. \A l \in DOMAIN mobs : NodeAt(l)' = NodeAt(l)
  <2> TAKE l \in DOMAIN mobs
  <2>1. CASE l # k
    BY <1>6, <1>7, <1>9, <2>1, SameNode
  <2> QED
    BY <1>8, <2>1
<1> QED
  BY <1>6, <1>10, NodesStay, SavedTreeStays

\* Opening stores changes no storage that a reference leads to.
LEMMA OpenSlotQuiet ==
  ASSUME IInv, IInv', ~MayStreamReplaced, NEW s \in DOMAIN slot, OpenSlot(s)
  PROVE  UNCHANGED <<LiveTree, SavedTree>>
<1> USE TreeAssumption DEF IInv
<1>0. PICK m \in DOMAIN mob, j \in SlotKey, k \in DOMAIN mobs : Opens(s, m, j, k)
  BY OpenedStorage
<1>1. /\ mob[m].at # Nowhere /\ mob[m].at[1] = k /\ mobs[k].ref = m /\ m # Unloaded /\ k \in Key
      /\ disk'.index = disk.index
      /\ DOMAIN disk'.sub = DOMAIN disk.sub \cup {k}
      /\ \A l \in DOMAIN disk.sub : l # k => disk'.sub[l] = disk.sub[l]
      /\ disk'.sub[k].mob = m /\ disk'.sub[k].index = StorageOf(m).index
      /\ DOMAIN disk'.sub[k].sub = DOMAIN StorageOf(m).sub \cup {j}
      /\ \A i \in DOMAIN StorageOf(m).sub : disk'.sub[k].sub[i] = StorageOf(m).sub[i]
      /\ mob' = [mob EXCEPT ![m].open = TRUE] /\ mobs' = mobs
  BY <1>0 DEF Opens
<1>2. \A n \in DOMAIN mob : mob'[n].slots = mob[n].slots
  <2>1. IsMob(mob[m])
    BY DEF TypeOK
  <2> QED
    BY <1>1, <2>1 DEF IsMob
<1>3. Stored(mob[m]) => k \in DOMAIN disk.sub /\ StorageOf(m) = disk.sub[k] /\ disk.sub[k].mob = m
  BY <1>1 DEF StoresAreFound, MobIsFound, StorageOf
<1>4. ~Stored(mob[m]) => k \notin DOMAIN disk.index
  <2>1. k \in Int /\ disk.key \in Int
    BY <1>1 DEF Key, TypeOK
  <2>2. ~Stored(mob[m]) => k >= disk.key
    BY <1>1 DEF StoresAreFound, MobIsFound, Stored
  <2> QED
    BY <2>1, <2>2 DEF KeysAreFresh
<1>5. ASSUME NEW l \in DOMAIN mobs PROVE NodeAt(l)' = NodeAt(l)
  <2>1. mobs[l].ref = Unloaded => disk'.sub[l] = disk.sub[l]
    BY <1>1 DEF UnloadedIsStored
  <2>2. mobs[l].ref # Unloaded => mob'[mobs[l].ref].slots = mob[mobs[l].ref].slots
    BY <1>2 DEF OneOwner
  <2>3. ASSUME NEW i, IsHidden(l, i) PROVE disk'.sub[l].sub[i] = disk.sub[l].sub[i]
    <3>1. CASE mobs[l].ref = Unloaded
      BY <2>1, <3>1
    <3>2. CASE mobs[l].ref # Unloaded
      <4>1. PICK n : n = mobs[l].ref
        OBVIOUS
      <4>2. n \in DOMAIN mob /\ i \in DOMAIN mob[n].slots /\ mob[n].slots[i] = Unloaded
        BY <2>3, <3>2, <4>1 DEF IsHidden, OneOwner
      <4>3. mob[n].at[1] = l
        <5>1. mob[n].at = <<l>>
          BY <3>2, <4>1 DEF OneOwner
        <5> QED
          BY <5>1
      <4>4. Stored(mob[n]) /\ l \in DOMAIN disk.sub /\ i \in DOMAIN disk.sub[l].sub
        BY <4>2, <4>3, HiddenSlot
      <4>5. CASE l = k
        BY <1>1, <1>3, <4>1, <4>4, <4>5
      <4>6. CASE l # k
        BY <1>1, <4>4, <4>6
      <4> QED
        BY <4>5, <4>6
    <3> QED
      BY <3>1, <3>2
  <2> QED
    BY <1>1, <2>1, <2>2, <2>3, SameNode
<1>6. LiveTree' = LiveTree
  BY <1>1, <1>5, NodesStay
<1>7. ASSUME NEW l \in DOMAIN disk.index
      PROVE  /\ l \in DOMAIN disk.sub /\ l \in DOMAIN disk'.sub
             /\ disk'.sub[l].mob = disk.sub[l].mob
             /\ StoredSlots(l)' = StoredSlots(l)
  <2>1. /\ l \in DOMAIN disk.sub
        /\ disk.sub[l].index \cap DOMAIN disk.sub[l].sub = disk.sub[l].index
        /\ \A i \in disk.sub[l].index : i \in DOMAIN disk.sub[l].sub
    BY DEF KeysAreFresh
  <2>2. CASE l = k
    <3>1. Stored(mob[m])
      BY <1>4, <2>2
    <3>2. /\ disk'.sub[l].index = disk.sub[l].index
          /\ \A i \in disk.sub[l].index : disk'.sub[l].sub[i] = disk.sub[l].sub[i]
          /\ disk'.sub[l].index \cap DOMAIN disk'.sub[l].sub = disk.sub[l].index
      BY <1>1, <1>3, <2>1, <2>2, <3>1
    <3>3. StoredSlots(l)' = StoredSlots(l)
      BY <2>1, <3>2 DEF StoredSlots
    <3> QED
      BY <1>1, <1>3, <2>1, <2>2, <3>1, <3>3
  <2>3. CASE l # k
    BY <1>1, <2>1, <2>3 DEF StoredSlots
  <2> QED
    BY <2>2, <2>3
<1>8. SavedTree' = SavedTree
  BY <1>1, <1>7 DEF SavedTree
<1> QED
  BY <1>6, <1>8

\* Save copies the live tree to the file.
LEMMA SaveImplements ==
  ASSUME IInv, IInv', Save
  PROVE  Promise!Next
<1> USE TreeAssumption DEF IInv
<1>1. /\ mobs' = mobs
      /\ DOMAIN disk'.index = DOMAIN mobs
      /\ \A k \in DOMAIN mobs : disk'.index[k] = mobs[k].id
      /\ DOMAIN disk'.sub = DOMAIN disk.sub \cup {k \in DOMAIN mobs : mobs[k].ref # Unloaded}
      /\ \A k \in DOMAIN mobs : mobs[k].ref # Unloaded =>
           disk'.sub[k] = SavedStorage(mobs[k].ref)
      /\ \A k \in DOMAIN disk.sub : (k \in DOMAIN mobs => mobs[k].ref = Unloaded) =>
           disk'.sub[k] = disk.sub[k]
      /\ \A m \in DOMAIN mob : mob'[m].slots = mob[m].slots
  BY SaveEffect
<1>2. ASSUME NEW k \in DOMAIN mobs
      PROVE  /\ k \in DOMAIN disk'.sub /\ disk'.sub[k].mob = MobAt(k)
             /\ disk'.sub[k].index = ElementsAt(k)
             /\ \A j \in ElementsAt(k) :
                  j \in DOMAIN disk'.sub[k].sub /\ disk'.sub[k].sub[j] = ValueAt(k, j)
             /\ \A j : IsHidden(k, j) => disk'.sub[k].sub[j] = disk.sub[k].sub[j]
  <2>1. CASE mobs[k].ref = Unloaded
    <3>1. k \in DOMAIN disk.sub /\ disk'.sub[k] = disk.sub[k]
      BY <1>1, <2>1 DEF UnloadedIsStored
    <3>2. \A j \in disk.sub[k].index : j \in DOMAIN disk.sub[k].sub
      BY <3>1 DEF KeysAreFresh
    <3> QED
      BY <1>1, <2>1, <3>1, <3>2 DEF MobAt, ElementsAt, ValueAt, IsHidden
  <2>2. CASE mobs[k].ref # Unloaded
    <3>1. PICK m : m = mobs[k].ref
      OBVIOUS
    <3>2. /\ SavedStorage(m).mob = m /\ SavedStorage(m).index = DOMAIN mob[m].slots
          /\ \A j \in Loaded(m) :
               j \in DOMAIN SavedStorage(m).sub /\ SavedStorage(m).sub[j] = mob[m].slots[j]
          /\ \A j \in DOMAIN mob[m].slots : mob[m].slots[j] = Unloaded =>
               /\ j \in DOMAIN SavedStorage(m).sub
               /\ SavedStorage(m).sub[j] = disk.sub[k].sub[j]
      BY <2>2, <3>1, SavedMob
    <3>3. k \in DOMAIN disk'.sub /\ disk'.sub[k] = SavedStorage(m)
      BY <1>1, <2>2, <3>1
    <3>4. MobAt(k) = m /\ ElementsAt(k) = DOMAIN mob[m].slots
      BY <2>2, <3>1 DEF MobAt, ElementsAt
    <3>5. ASSUME NEW j \in DOMAIN mob[m].slots
          PROVE  j \in DOMAIN SavedStorage(m).sub /\ SavedStorage(m).sub[j] = ValueAt(k, j)
      <4>1. CASE mob[m].slots[j] = Unloaded
        <5>1. ValueAt(k, j) = disk.sub[k].sub[j]
          BY <2>2, <3>1, <4>1 DEF ValueAt, IsHidden
        <5> QED
          BY <3>2, <4>1, <5>1
      <4>2. CASE mob[m].slots[j] # Unloaded
        <5>1. ValueAt(k, j) = mob[m].slots[j]
          BY <2>2, <3>1, <4>2 DEF ValueAt, IsHidden
        <5>2. j \in Loaded(m)
          BY <4>2 DEF Loaded
        <5> QED
          BY <3>2, <5>1, <5>2
      <4> QED
        BY <4>1, <4>2
    <3>6. ASSUME NEW j, IsHidden(k, j) PROVE disk'.sub[k].sub[j] = disk.sub[k].sub[j]
      BY <2>2, <3>1, <3>2, <3>3, <3>6 DEF IsHidden
    <3> QED
      BY <3>2, <3>3, <3>4, <3>5, <3>6
  <2> QED
    BY <2>1, <2>2
<1>3. ASSUME NEW k \in DOMAIN mobs PROVE NodeAt(k)' = NodeAt(k)
  <2>1. mobs[k].ref = Unloaded => disk'.sub[k] = disk.sub[k]
    BY <1>1 DEF UnloadedIsStored
  <2>2. mobs[k].ref # Unloaded => mob'[mobs[k].ref].slots = mob[mobs[k].ref].slots
    BY <1>1 DEF OneOwner
  <2> QED
    BY <1>1, <1>2, <2>1, <2>2, SameNode
<1>4. LiveTree' = LiveTree
  BY <1>1, <1>3, NodesStay
<1>5. ASSUME NEW k \in DOMAIN mobs
      PROVE  [mob |-> disk'.sub[k].mob, id |-> disk'.index[k], slots |-> StoredSlots(k)'] = NodeAt(k)
  <2>1. disk'.sub[k].index \cap DOMAIN disk'.sub[k].sub = ElementsAt(k)
    BY <1>2
  <2>2. StoredSlots(k)' = SlotsAt(k)
    BY <1>2, <2>1 DEF StoredSlots, SlotsAt
  <2> QED
    BY <1>1, <1>2, <2>2 DEF NodeAt
<1>6. SavedTree' = {NodeAt(k) : k \in DOMAIN mobs}
  <2>1. DOMAIN disk'.index \cap DOMAIN disk'.sub = DOMAIN mobs
    BY <1>1, <1>2
  <2> QED
    BY <1>5, <2>1 DEF SavedTree
<1>7. SavedTree' = LiveTree
  BY <1>6, LiveTreeIs
<1> QED
  BY <1>4, <1>7 DEF Promise!Next, Promise!Save

\* Reopening brings back what is in the file.
LEMMA ReopenImplements ==
  ASSUME IInv, IInv', Reopen
  PROVE  Promise!Next
<1> USE TreeAssumption DEF IInv
<1>1. /\ mobs' = [k \in DOMAIN disk.index |-> [id |-> disk.index[k], ref |-> Unloaded]]
      /\ disk' = disk
  BY DEF Reopen
<1>2. /\ DOMAIN mobs' = DOMAIN disk.index
      /\ \A k \in DOMAIN disk.index : mobs'[k].id = disk.index[k] /\ mobs'[k].ref = Unloaded
      /\ DOMAIN disk.index \cap DOMAIN disk.sub = DOMAIN disk.index
  BY <1>1 DEF KeysAreFresh
<1>3. {k \in DOMAIN mobs' : mobs'[k].ref # Unloaded} = {}
      /\ {k \in DOMAIN mobs' : mobs'[k].ref = Unloaded} = DOMAIN disk.index
  BY <1>2
<1>4. \A k : StoredSlots(k)' = StoredSlots(k)
  BY <1>1 DEF StoredSlots
<1>5. LiveTree' = SavedTree
  BY <1>1, <1>2, <1>3, <1>4 DEF LiveTree, SavedTree
<1>6. SavedTree' = SavedTree
  BY <1>1, SavedTreeStays
<1> QED
  BY <1>5, <1>6 DEF Promise!Next, Promise!Reopen

\* Every step of the object manager is one of the document, or cannot be seen.
LEMMA RefinementStep ==
  ASSUME ~MayReattach, ~MayStreamReplaced, IInv, IInv', [Next]_vars
  PROVE  [Promise!Next]_<<LiveTree, SavedTree>>
<1> DEFINE Ok == Promise!Next \/ UNCHANGED <<LiveTree, SavedTree>>
<1>1. CASE UNCHANGED vars
  <2>1. mobs' = mobs /\ mob' = mob /\ disk' = disk
    BY <1>1 DEF vars
  <2> QED
    BY <2>1, QuietStep
<1>2. ASSUME NEW m \in Mobs, NEW id \in MobIds, CreateMob(m, id) PROVE Ok
  BY <1>2, CreateMobQuiet
<1>3. ASSUME NEW s \in Slots, CreateSlot(s) PROVE Ok
  BY <1>3, CreateSlotQuiet
<1>4. ASSUME NEW m \in DOMAIN mob, AddMob(m) PROVE Ok
  BY <1>4, AddMobImplements
<1>5. ASSUME NEW m \in DOMAIN mob, RemoveMob(m) PROVE Ok
  BY <1>5, RemoveMobImplements
<1>6. ASSUME NEW m \in DOMAIN mob, NEW id \in MobIds, SetMobID(m, id) PROVE Ok
  BY <1>6, SetMobIDImplements
<1>7. ASSUME NEW m \in DOMAIN mob, NEW s \in DOMAIN slot, AppendSlot(m, s) PROVE Ok
  BY <1>7, AppendSlotImplements
<1>8. ASSUME NEW m \in DOMAIN mob, NEW j \in DOMAIN mob[m].slots, RemoveSlotAt(m, j) PROVE Ok
  BY <1>8, RemoveSlotAtImplements
<1>9. ASSUME NEW m \in DOMAIN mob, NEW j \in DOMAIN mob[m].slots, LoadSlot(m, j) PROVE Ok
  BY <1>9, LoadSlotQuiet
<1>10. ASSUME NEW m \in DOMAIN mob, NEW j \in DOMAIN mob[m].slots, NEW s \in DOMAIN slot,
              SetValueAt(m, j, s)
       PROVE  Ok
  BY <1>10, SetValueAtImplements
<1>11. ASSUME NEW k \in DOMAIN mobs, LoadMob(k) PROVE Ok
  BY <1>11, LoadMobQuiet
<1>12. ASSUME NEW s \in DOMAIN slot, OpenSlot(s) PROVE Ok
  BY <1>12, OpenSlotQuiet
<1>13. CASE Save
  BY <1>13, SaveImplements
<1>14. CASE Reopen
  BY <1>14, ReopenImplements
<1> QED
  BY <1>1, <1>2, <1>3, <1>4, <1>5, <1>6, <1>7, <1>8, <1>9, <1>10, <1>11, <1>12, <1>13, <1>14
     DEF Next

\* No load, and no opening of a storage, can be seen, in the program or in the
\* file.
THEOREM LoadsAreInvisible == ASSUME ~MayReattach, ~MayStreamReplaced
                             PROVE  Spec => LoadingIsInvisible
<1>1. IInv /\ IInv' /\ Load => LiveTree' = LiveTree /\ SavedTree' = SavedTree
  BY LoadMobQuiet, LoadSlotQuiet, OpenSlotQuiet DEF Load
<1>2. IInv /\ IInv' => [Load => LiveTree' = LiveTree /\ SavedTree' = SavedTree]_vars
  BY <1>1
<1> QED
  BY <1>2, Invariance, PTL DEF LoadingIsInvisible

\* The object manager keeps a document: edits change the tree the program
\* sees, Save copies it to the file, reopening brings back what was saved, and
\* which objects are loaded cannot be told.
THEOREM DocumentImplemented == ASSUME ~MayReattach, ~MayStreamReplaced
                               PROVE  Spec => ImplementsTree
<1>1. Init => Promise!Init
  <2> SUFFICES ASSUME Init PROVE Promise!Init
    OBVIOUS
  <2>1. /\ mobs = <<>> /\ disk = [key |-> 0, index |-> <<>>, sub |-> <<>>]
    BY DEF Init
  <2>2. DOMAIN mobs = {} /\ DOMAIN disk.index = {}
    BY <2>1, EmptyMap
  <2> QED
    BY <2>2 DEF Promise!Init, LiveTree, SavedTree
<1>2. IInv /\ IInv' /\ [Next]_vars => [Promise!Next]_<<LiveTree, SavedTree>>
  BY RefinementStep
<1> QED
  BY <1>1, <1>2, Invariance, PTL DEF Spec, ImplementsTree, Promise!Spec

=============================================================================
