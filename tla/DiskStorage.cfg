SPECIFICATION Spec
CONSTANTS
  a = a
  b = b
  Limit = 6
  Value = {a, b}
  Zero = zero
  Undef = undef
  Original = {a}
  Payloads <- MCPayloads
  Counts = {1, 3}
  Sizes = {2, 5}
  Positions = {0, 2, 4}
  InitialSizes = {0, 2}
  Tolerant = FALSE
  ClientsSeek = TRUE
INVARIANTS
  TypeOK
  NoStreamError
PROPERTY ImplementsStorage
