SPECIFICATION FairSpec
CONSTANTS
  a = a
  b = b
  PageSize = 2
  PageCount = 1
  PageLimit = 3
  Value = {a, b}
  Original = {a}
  Zero = zero
  Junk = junk
  Undef = undef
  Payloads <- MCPayloads
  Counts = {3}
  Sizes = {6}
  Positions = {0, 3}
  InitialSizes = {0}
  MayTruncate = FALSE
INVARIANTS
  IInv
  ValidWriteSize
PROPERTIES
  CallsReturn
  ImplementsStorage
