---------------------------- MODULE ObjectTree -----------------------------
(***************************************************************************)
(* How the object manager keeps a tree of objects in a structured storage  *)
(* file: OMStorable, OMStrongObjectReference, the set and vector           *)
(* properties of strong references, and the OMSSStoredObject they are      *)
(* saved in, driven by the operations of the content model on the two      *)
(* levels it edits most: the set of mobs of the content storage, and the   *)
(* vector of slots of a mob.                                               *)
(*                                                                         *)
(* An object lives in a sub-storage of its container's storage, named by   *)
(* the local key of the element that refers to it.  Objects read from a    *)
(* file are loaded one by one, when a reference to them is followed, and   *)
(* their storages are opened when something inside is needed; what is not  *)
(* loaded is not saved again, and must survive where it is.                *)
(*                                                                         *)
(* The content storage stands for everything above the mobs: its store is  *)
(* open as long as the file is.  The order of a vector is left out.        *)
(***************************************************************************)
EXTENDS Integers, FiniteSets

CONSTANTS
  Mobs, Slots,       \* the objects
  MobIds,            \* the identifications of mobs
  Unloaded,          \* a reference not loaded: !_isLoaded
  Void,              \* a loaded reference with a null pointer
  MaxKey,            \* the bound on the local keys of mobs
  MaxSlotKey,        \* the bound on the local keys of slots
  MayReattach,       \* may a removed object that was stored be added again?
  MayStreamReplaced  \* may an unsaved object in a replaced element be opened?

ASSUME TreeAssumption ==
  /\ Unloaded \notin Mobs \cup Slots \cup {Void}
  /\ Void \notin Slots
  /\ MaxKey \in Nat \ {0} /\ MaxSlotKey \in Nat \ {0}
  /\ MayReattach \in BOOLEAN /\ MayStreamReplaced \in BOOLEAN

VARIABLES
  mobs,      \* ImplAAFContentStorage::_mobs: local key -> element
  mobsKey,   \* its _localKey
  mob,       \* the mobs in memory
  slot,      \* the slots in memory
  disk,      \* the storage of the content storage
  failed     \* an exception or an assertion ended the run

vars == <<mobs, mobsKey, mob, slot, disk, failed>>

Key == 0 .. MaxKey
SlotKey == 0 .. MaxSlotKey
IsMap(f, S, T) == DOMAIN f \subseteq S /\ f \in [DOMAIN f -> T]
Restrict(f, k) == [x \in DOMAIN f \ {k} |-> f[x]]
With(f, k, v) == [x \in DOMAIN f \cup {k} |-> IF x = k THEN v ELSE f[x]]
Over(f, g) == [x \in DOMAIN f \cup DOMAIN g |-> IF x \in DOMAIN f THEN f[x] ELSE g[x]]

\* _container and _name, as a path: an object that is not attached has none.
Nowhere == <<>>

MobElement == [id : MobIds, ref : Mobs \cup {Unloaded}]

\* A mob: _container and _name, _mobID, _store # 0, _exists, _slots with its
\* _localKey.
IsMob(o) ==
  /\ DOMAIN o = {"at", "id", "open", "exists", "slots", "key"}
  /\ o.at \in {Nowhere} \cup {<<k>> : k \in Key}
  /\ o.id \in MobIds /\ o.open \in BOOLEAN /\ o.exists \in BOOLEAN
  /\ IsMap(o.slots, SlotKey, Slots \cup {Unloaded, Void})
  /\ o.key \in SlotKey

SlotObject == [at : {Nowhere} \cup (Mobs \X SlotKey), open : BOOLEAN, exists : BOOLEAN]

\* The storage of a mob; a slot's storage in it holds the slot, or nothing yet.
IsStorage(o) ==
  /\ DOMAIN o = {"mob", "id", "key", "index", "sub"}
  /\ o.mob \in Mobs /\ o.id \in MobIds /\ o.key \in SlotKey /\ o.index \subseteq SlotKey
  /\ IsMap(o.sub, SlotKey, Slots \cup {Void})

\* A storage that has been created and not been saved.
NewStorage(m) == [mob |-> m, id |-> mob[m].id, key |-> 0, index |-> {}, sub |-> <<>>]

TypeOK ==
  /\ IsMap(mobs, Key, MobElement) /\ mobsKey \in Key
  /\ DOMAIN mob \subseteq Mobs /\ \A m \in DOMAIN mob : IsMob(mob[m])
  /\ IsMap(slot, Slots, SlotObject)
  /\ DOMAIN disk = {"key", "index", "sub"}
  /\ disk.key \in Key /\ IsMap(disk.index, Key, MobIds)
  /\ DOMAIN disk.sub \subseteq Key /\ \A k \in DOMAIN disk.sub : IsStorage(disk.sub[k])
  /\ failed \in BOOLEAN

Init ==
  /\ mobs = <<>> /\ mobsKey = 0
  /\ mob = <<>> /\ slot = <<>>
  /\ disk = [key |-> 0, index |-> <<>>, sub |-> <<>>]
  /\ failed = FALSE

-----------------------------------------------------------------------------
(* The two trees a document has.                                           *)

MobsOf(elements) == {elements[k].ref : k \in DOMAIN elements} \cap Mobs

\* The slots of a storage that its index lists.
StoredSlots(k) ==
  {disk.sub[k].sub[j] : j \in disk.sub[k].index \cap DOMAIN disk.sub[k].sub}

SavedTree ==
  {[mob |-> disk.sub[k].mob, id |-> disk.index[k], slots |-> StoredSlots(k)] :
      k \in DOMAIN disk.index \cap DOMAIN disk.sub}

\* The slot an element of m refers to, loaded or not.
SlotAt(m, j) ==
  IF mob[m].slots[j] # Unloaded THEN mob[m].slots[j]
  ELSE LET k == mob[m].at[1] IN disk.sub[k].sub[j]

LiveSlots(m) == {SlotAt(m, j) : j \in DOMAIN mob[m].slots}

LiveTree ==
  {[mob |-> mobs[k].ref, id |-> mobs[k].id, slots |-> LiveSlots(mobs[k].ref)] :
      k \in {x \in DOMAIN mobs : mobs[x].ref # Unloaded}}
  \cup
  {[mob |-> disk.sub[k].mob, id |-> mobs[k].id, slots |-> StoredSlots(k)] :
      k \in {x \in DOMAIN mobs : mobs[x].ref = Unloaded}}

InTree(o) == \E n \in LiveTree : o = n.mob \/ o \in n.slots

-----------------------------------------------------------------------------
(* OMStorable                                                              *)

\* An object that has, or had, a storage.
Stored(o) == o.open \/ o.exists

Detached(o) == [o EXCEPT !.at = Nowhere, !.open = FALSE, !.exists = FALSE]

\* store(): the storage of an attached mob, opened or else created.
StorageOf(m) ==
  IF Stored(mob[m]) THEN disk.sub[mob[m].at[1]] ELSE NewStorage(m)

\* store() fails: the object has no container, or its storage is not there.
StoreFails(m) ==
  \/ mob[m].at = Nowhere
  \/ /\ mob[m].exists /\ ~mob[m].open
     /\ mob[m].at[1] \notin DOMAIN disk.sub

SlotStoreFails(s, storage) ==
  \/ slot[s].at = Nowhere
  \/ /\ slot[s].exists /\ ~slot[s].open
     /\ slot[s].at[2] \notin DOMAIN storage.sub

\* detach(): the slots of m are detached too, but only if its store is open.
SlotsAfterDetach(m) ==
  IF ~mob[m].open THEN mob[m].slots
  ELSE [j \in DOMAIN mob[m].slots |->
          IF mob[m].slots[j] = Unloaded THEN Void ELSE mob[m].slots[j]]

SlotObjectsAfterDetach(m) ==
  [s \in DOMAIN slot |->
     IF mob[m].open /\ \E j \in DOMAIN mob[m].slots : mob[m].slots[j] = s
     THEN Detached(slot[s]) ELSE slot[s]]

Fail == failed' = TRUE /\ UNCHANGED <<mobs, mobsKey, mob, slot, disk>>

-----------------------------------------------------------------------------
(* The client's operations                                                 *)

CreateMob(m, id) ==
  /\ m \notin DOMAIN mob /\ ~InTree(m)
  /\ mob' = With(mob, m, [at |-> Nowhere, id |-> id, open |-> FALSE, exists |-> FALSE,
                          slots |-> <<>>, key |-> 0])
  /\ UNCHANGED <<mobs, mobsKey, slot, disk, failed>>

CreateSlot(s) ==
  /\ s \notin DOMAIN slot /\ ~InTree(s)
  /\ \A m \in DOMAIN mob : \A j \in DOMAIN mob[m].slots : mob[m].slots[j] # s
  /\ slot' = With(slot, s, [at |-> Nowhere, open |-> FALSE, exists |-> FALSE])
  /\ UNCHANGED <<mobs, mobsKey, mob, disk, failed>>

\* The set's contains: by identification, loaded or not.
ContainsId(id) == \E k \in DOMAIN mobs : mobs[k].id = id

AddMob(m) ==
  /\ mobsKey < MaxKey
  /\ ~ContainsId(mob[m].id)
  /\ mob[m].at = Nowhere
  /\ mobs' = With(mobs, mobsKey, [id |-> mob[m].id, ref |-> m])
  /\ mobsKey' = mobsKey + 1
  /\ mob' = [mob EXCEPT ![m].at = <<mobsKey>>]
  /\ UNCHANGED <<slot, disk, failed>>

\* A client that may not add a stored object again lets go of it, and of
\* what it contains, when it removes it.
Forgets(o) == Stored(o) /\ ~MayReattach

RemoveMob(m) ==
  /\ mob[m].at # Nowhere
  /\ mobs' = Restrict(mobs, mob[m].at[1])
  /\ IF Forgets(mob[m])
     THEN /\ mob' = Restrict(mob, m)
          /\ slot' = [s \in {x \in DOMAIN slot : x \notin {mob[m].slots[j] : j \in DOMAIN mob[m].slots}}
                         |-> slot[s]]
     ELSE /\ mob' = [mob EXCEPT ![m] =
                [Detached(mob[m]) EXCEPT !.slots = SlotsAfterDetach(m)]]
          /\ slot' = SlotObjectsAfterDetach(m)
  /\ UNCHANGED <<mobsKey, disk, failed>>

\* A mob in a file is removed from the set and added under its new identity.
SetMobID(m, id) ==
  \/ /\ mob[m].at = Nowhere
     /\ mob' = [mob EXCEPT ![m].id = id]
     /\ UNCHANGED <<mobs, mobsKey, slot, disk, failed>>
  \/ /\ mob[m].at # Nowhere
     /\ ~ContainsId(id)
     /\ ~Forgets(mob[m])
     /\ mobsKey < MaxKey
     /\ mobs' = With(Restrict(mobs, mob[m].at[1]), mobsKey, [id |-> id, ref |-> m])
     /\ mobsKey' = mobsKey + 1
     /\ mob' = [mob EXCEPT ![m] =
          [Detached(mob[m]) EXCEPT !.id = id, !.at = <<mobsKey>>,
                                   !.slots = SlotsAfterDetach(m)]]
     /\ slot' = SlotObjectsAfterDetach(m)
     /\ UNCHANGED <<disk, failed>>

\* Fault: a slot that is attached already is not refused.
AppendAttachedSlot(m, s) ==
  /\ mob[m].key < MaxSlotKey
  /\ mob' = [mob EXCEPT ![m].slots = With(@, mob[m].key, s), ![m].key = @ + 1]
  /\ slot' = [slot EXCEPT ![s].at = <<m, mob[m].key>>]
  /\ UNCHANGED <<mobs, mobsKey, disk, failed>>

\* insertAt of the vector; a slot that is attached is refused.
AppendSlot(m, s) ==
  /\ slot[s].at = Nowhere
  /\ mob[m].key < MaxSlotKey
  /\ mob' = [mob EXCEPT ![m].slots = With(@, mob[m].key, s), ![m].key = @ + 1]
  /\ slot' = [slot EXCEPT ![s].at = <<m, mob[m].key>>]
  /\ UNCHANGED <<mobs, mobsKey, disk, failed>>

\* setValue of a strong reference detaches the object it points to, if that
\* is loaded; afterwards the client has it, unless it forgets it.
Released(ref) ==
  IF ref \notin DOMAIN slot THEN slot
  ELSE IF Forgets(slot[ref]) THEN Restrict(slot, ref)
  ELSE [slot EXCEPT ![ref] = Detached(@)]

RemoveSlotAt(m, j) ==
  /\ mob' = [mob EXCEPT ![m].slots = Restrict(@, j)]
  /\ slot' = Released(mob[m].slots[j])
  /\ UNCHANGED <<mobs, mobsKey, disk, failed>>

\* setValueAt of the vector: the new object takes the old one's name.
SetValueAt(m, j, s) ==
  /\ slot[s].at = Nowhere
  /\ mob' = [mob EXCEPT ![m].slots[j] = s]
  /\ slot' = [Released(mob[m].slots[j]) EXCEPT ![s].at = <<m, j>>]
  /\ UNCHANGED <<mobs, mobsKey, disk, failed>>

-----------------------------------------------------------------------------
(* Loading and opening on demand                                           *)

\* A mob as restoreContents leaves it.
Restored(k) ==
  [at |-> <<k>>, id |-> disk.sub[k].id, open |-> FALSE, exists |-> TRUE,
   slots |-> [j \in disk.sub[k].index |-> Unloaded], key |-> disk.sub[k].key]

\* Fault: restoreContents does not set _exists.
LoadMobForgetful(k) ==
  /\ mobs[k].ref = Unloaded
  /\ IF k \notin DOMAIN disk.sub THEN Fail
     ELSE /\ mobs' = [mobs EXCEPT ![k].ref = disk.sub[k].mob]
          /\ mob' = With(mob, disk.sub[k].mob, [Restored(k) EXCEPT !.exists = FALSE])
          /\ UNCHANGED <<mobsKey, slot, disk, failed>>

\* Fault: the slots are restored from the storages there are, not the index.
LoadMobIgnoringIndex(k) ==
  /\ mobs[k].ref = Unloaded
  /\ IF k \notin DOMAIN disk.sub THEN Fail
     ELSE /\ mobs' = [mobs EXCEPT ![k].ref = disk.sub[k].mob]
          /\ mob' = With(mob, disk.sub[k].mob,
               [Restored(k) EXCEPT !.slots = [j \in DOMAIN disk.sub[k].sub |-> Unloaded]])
          /\ UNCHANGED <<mobsKey, slot, disk, failed>>

\* getValue of an unloaded element of the set.
LoadMob(k) ==
  /\ mobs[k].ref = Unloaded
  /\ IF k \notin DOMAIN disk.sub THEN Fail
     ELSE /\ mobs' = [mobs EXCEPT ![k].ref = disk.sub[k].mob]
          /\ mob' = With(mob, disk.sub[k].mob, Restored(k))
          /\ UNCHANGED <<mobsKey, slot, disk, failed>>

\* getValue of an unloaded element of the vector; the store of the mob is
\* opened for it, and stays open.
LoadSlot(m, j) ==
  /\ mob[m].slots[j] = Unloaded
  /\ IF \/ StoreFails(m)
        \/ j \notin DOMAIN StorageOf(m).sub
        \/ StorageOf(m).sub[j] = Void
     THEN Fail
     ELSE LET s == StorageOf(m).sub[j] IN
          /\ mob' = [mob EXCEPT ![m].slots[j] = s, ![m].open = TRUE]
          /\ slot' = With(slot, s, [at |-> <<m, j>>, open |-> FALSE, exists |-> TRUE])
          /\ UNCHANGED <<mobs, mobsKey, disk, failed>>

\* Something inside an attached slot is needed, a stream or an object not yet
\* loaded: the stores of the mob and of the slot are opened, and stay open.
OpenSlot(s) ==
  /\ slot[s].at # Nowhere /\ ~slot[s].open
  /\ LET m == slot[s].at[1]
         j == slot[s].at[2]
     IN /\ m \in DOMAIN mob /\ mob[m].at # Nowhere
        /\ \/ slot[s].exists \/ MayStreamReplaced
           \/ ~Stored(mob[m]) \/ j \notin DOMAIN StorageOf(m).sub
        /\ IF StoreFails(m) \/ SlotStoreFails(s, StorageOf(m)) THEN Fail
           ELSE /\ disk' = [disk EXCEPT !.sub = With(@, mob[m].at[1],
                     IF slot[s].exists THEN StorageOf(m)
                     ELSE [StorageOf(m) EXCEPT !.sub = With(@, j, Void)])]
                /\ mob' = [mob EXCEPT ![m].open = TRUE]
                /\ slot' = [slot EXCEPT ![s].open = TRUE]
                /\ UNCHANGED <<mobs, mobsKey, failed>>

-----------------------------------------------------------------------------
(* Save and reopen                                                         *)

\* The elements of m that are saved: those that are loaded.
Loaded(m) == {j \in DOMAIN mob[m].slots : mob[m].slots[j] # Unloaded}

SaveMobFails(m) ==
  \/ StoreFails(m)
  \/ \E j \in Loaded(m) :
       \/ mob[m].slots[j] = Void
       \/ SlotStoreFails(mob[m].slots[j], StorageOf(m))

\* Fault: the storage is written anew.
SavedStorageAnew(m) ==
  [mob |-> m, id |-> mob[m].id, key |-> mob[m].key, index |-> DOMAIN mob[m].slots,
   sub |-> [j \in Loaded(m) |-> mob[m].slots[j]]]

\* Fault: the index lists the loaded elements only.
SavedStorageLoaded(m) ==
  [mob |-> m, id |-> mob[m].id, key |-> mob[m].key, index |-> Loaded(m),
   sub |-> Over([j \in Loaded(m) |-> mob[m].slots[j]], StorageOf(m).sub)]

\* The storage of m once it is saved: its loaded slots are written over the
\* storages they have or into new ones, then the index.
SavedStorage(m) ==
  [mob   |-> m,
   id    |-> mob[m].id,
   key   |-> mob[m].key,
   index |-> DOMAIN mob[m].slots,
   sub   |-> Over([j \in Loaded(m) |-> mob[m].slots[j]], StorageOf(m).sub)]

SavedDisk ==
  LET loaded == {k \in DOMAIN mobs : mobs[k].ref # Unloaded}
  IN [key   |-> mobsKey,
      index |-> [k \in DOMAIN mobs |-> mobs[k].id],
      sub   |-> Over([k \in loaded |-> SavedStorage(mobs[k].ref)], disk.sub)]

\* The whole tree is visited, in which only what is loaded is written.
Save ==
  LET saved == MobsOf(mobs)
      inTree(s) == \E m \in saved : \E j \in Loaded(m) : mob[m].slots[j] = s
  IN IF \E m \in saved : SaveMobFails(m) THEN Fail
     ELSE /\ disk' = SavedDisk
          /\ mob' = [m \in DOMAIN mob |->
                       IF m \in saved THEN [mob[m] EXCEPT !.exists = TRUE] ELSE mob[m]]
          /\ slot' = [s \in DOMAIN slot |->
                       IF inTree(s) THEN [slot[s] EXCEPT !.exists = TRUE] ELSE slot[s]]
          /\ UNCHANGED <<mobs, mobsKey, failed>>

\* Fault: local keys start again at the number of elements.
FirstFreeKeyCounted == Cardinality(DOMAIN disk.index)

\* Fault: local keys start again at the last one used.
FirstFreeKeyUsed == disk.key - 1

\* setLocalKey of the set with the firstFreeKey of its index.
FirstFreeKey == disk.key

\* The file is closed, without a save, and opened again: the objects are gone
\* and every element of the set is restored from its index, not loaded.
Reopen ==
  /\ mobs' = [k \in DOMAIN disk.index |-> [id |-> disk.index[k], ref |-> Unloaded]]
  /\ mobsKey' = FirstFreeKey
  /\ mob' = <<>> /\ slot' = <<>>
  /\ UNCHANGED <<disk, failed>>

Next ==
  /\ ~failed
  /\ \/ \E m \in Mobs, id \in MobIds : CreateMob(m, id)
     \/ \E s \in Slots : CreateSlot(s)
     \/ \E m \in DOMAIN mob :
          \/ AddMob(m)
          \/ RemoveMob(m)
          \/ \E id \in MobIds : SetMobID(m, id)
          \/ \E s \in DOMAIN slot : AppendSlot(m, s)
          \/ \E j \in DOMAIN mob[m].slots :
               \/ RemoveSlotAt(m, j)
               \/ LoadSlot(m, j)
               \/ \E s \in DOMAIN slot : SetValueAt(m, j, s)
     \/ \E k \in DOMAIN mobs : LoadMob(k)
     \/ \E s \in DOMAIN slot : OpenSlot(s)
     \/ Save
     \/ Reopen

Spec == Init /\ [][Next]_vars

-----------------------------------------------------------------------------
(* Correctness                                                             *)

\* No operation ends in an exception or an assertion: what a reference leads
\* to can be loaded, every open object can be given a storage, and Save finds
\* the storages of the objects it has to write.
NeverFails == ~failed

\* An object that is not loaded is in the file, where its container's storage
\* and its local key lead to, so that following the reference finds it: no
\* edit, save or newly created storage has taken its place.
UnloadedIsStored ==
  /\ \A k \in DOMAIN mobs : mobs[k].ref = Unloaded =>
       k \in DOMAIN disk.sub /\ disk.sub[k].id = mobs[k].id
  /\ \A m \in DOMAIN mob : \A j \in DOMAIN mob[m].slots :
       mob[m].slots[j] = Unloaded =>
         /\ mob[m].exists /\ ~StoreFails(m)
         /\ j \in DOMAIN StorageOf(m).sub /\ StorageOf(m).sub[j] \in Slots

\* An object has one owner: its container and name say which element refers to
\* it, and that element does.  The key of an element is its mob's identity.
OneOwner ==
  /\ \A m \in DOMAIN mob : mob[m].at # Nowhere =>
       /\ mob[m].at[1] \in DOMAIN mobs
       /\ mobs[mob[m].at[1]] = [id |-> mob[m].id, ref |-> m]
  /\ \A k \in DOMAIN mobs : mobs[k].ref # Unloaded =>
       mobs[k].ref \in DOMAIN mob /\ mob[mobs[k].ref].at = <<k>>
  /\ \A s \in DOMAIN slot : slot[s].at # Nowhere =>
       /\ slot[s].at[1] \in DOMAIN mob
       /\ slot[s].at[2] \in DOMAIN mob[slot[s].at[1]].slots
       /\ mob[slot[s].at[1]].slots[slot[s].at[2]] = s
  /\ \A m \in DOMAIN mob : \A j \in DOMAIN mob[m].slots :
       mob[m].slots[j] # Unloaded =>
         mob[m].slots[j] \in DOMAIN slot /\ slot[mob[m].slots[j]].at = <<m, j>>

\* A local key names one element, in memory and in the file, across sessions:
\* the next key is above every key in use, and restoring an index restarts it
\* above every key the file uses.
KeysAreFresh ==
  /\ \A k \in DOMAIN mobs : k < mobsKey
  /\ \A k \in DOMAIN disk.index : k < disk.key /\ k \in DOMAIN disk.sub
  /\ \A m \in DOMAIN mob : \A j \in DOMAIN mob[m].slots : j < mob[m].key
  /\ \A k \in DOMAIN disk.sub : \A j \in disk.sub[k].index :
       j < disk.sub[k].key /\ j \in DOMAIN disk.sub[k].sub

\* IAAFFile::Save: "all unsaved changes made to the contents of this object are
\* saved".  A Save that met this state would not fail.
SaveWouldSucceed == \A m \in MobsOf(mobs) : ~SaveMobFails(m)

\* The comment on OMStrongObjectReference::detach: "an attempt to access an
\* unloaded object that has been detached results in a void reference".
DetachedReferencesAreVoid ==
  \A m \in DOMAIN mob : mob[m].at = Nowhere =>
    \A j \in DOMAIN mob[m].slots : mob[m].slots[j] # Unloaded

\* Loading an object, and opening the storages on the way to it, changes
\* neither the tree the program sees nor the one in the file.
Load ==
  \/ \E k \in DOMAIN mobs : LoadMob(k)
  \/ \E m \in DOMAIN mob : \E j \in DOMAIN mob[m].slots : LoadSlot(m, j)
  \/ \E s \in DOMAIN slot : OpenSlot(s)

LoadingIsInvisible ==
  [][Load => LiveTree' = LiveTree /\ SavedTree' = SavedTree]_vars

\* The document is the persistent tree: edits change the live tree, Save
\* copies it to the file, and reopening the file brings back what was saved.
Promise == INSTANCE PersistentTree WITH live <- LiveTree, saved <- SavedTree
ImplementsTree == Promise!Spec

=============================================================================
