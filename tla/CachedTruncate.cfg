SPECIFICATION Spec
CONSTANTS
  a = a
  b = b
  PageSize = 2
  PageCount = 2
  PageLimit = 3
  Value = {a, b}
  Original = {a}
  Zero = zero
  Junk = junk
  Undef = undef
  Payloads <- MCPayloads
  Counts = {3}
  Sizes = {2}
  Positions = {0, 3}
  InitialSizes = {0, 3}
  MayTruncate = TRUE
INVARIANT ValidWriteSize
