SPECIFICATION FairSpec
CONSTANTS
  a = a
  b = b
  PageSize = 2
  PageCount = 2
  PageLimit = 3
  Value = {a, b}
  Original = {a}
  Zero = zero
  Junk = junk
  Undef = undef
  Payloads <- MCPayloads
  Counts = {3}
  Sizes = {6}
  Positions = {1}
  InitialSizes = {3}
  MayTruncate = FALSE
INVARIANTS
  TypeOK
  CacheConsistent
  NothingLost
PROPERTIES
  EvictionInvisible
  SynchronizeMakesDurable
  CallsReturn
  ImplementsStorage
