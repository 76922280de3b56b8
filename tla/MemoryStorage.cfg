SPECIFICATION Spec
CONSTANTS
  a = a
  b = b
  PageSize = 2
  Word = 64
  Limit = 7
  Value = {a, b}
  Junk = junk
  Undef = undef
  Payloads <- MCPayloads
  Counts = {1, 4}
  Sizes = {1, 4, 6}
  Positions = {0, 1, 3}
  Careful = TRUE
INVARIANTS
  TypeOK
  NoAssertionFails
PROPERTY ImplementsStorage
