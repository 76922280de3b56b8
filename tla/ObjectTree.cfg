SPECIFICATION Spec
CONSTANTS
  Mobs = {m1}
  Slots = {s1, s2}
  MobIds = {i1, i2}
  Unloaded = unloaded
  Void = void
  MaxKey = 2
  MaxSlotKey = 2
  MayReattach = FALSE
  MayStreamReplaced = FALSE
SYMMETRY Symmetry
INVARIANTS
  TypeOK
  NeverFails
  UnloadedIsStored
  OneOwner
  KeysAreFresh
PROPERTIES
  LoadingIsInvisible
  ImplementsTree
