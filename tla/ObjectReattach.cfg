SPECIFICATION Spec
CONSTANTS
  Mobs = {m1}
  Slots = {s1}
  MobIds = {i1, i2}
  Unloaded = unloaded
  Void = void
  MaxKey = 2
  MaxSlotKey = 2
  MayReattach = TRUE
  MayStreamReplaced = FALSE
INVARIANTS
  SaveWouldSucceed
CHECK_DEADLOCK FALSE
