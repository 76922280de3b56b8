SPECIFICATION FairSpec
CONSTANTS
  even = even
  odd = odd
  Node = {n1, n2, n3, n4}
  Nil = nil
  None = none
  Key = {1, 2, 3, 4}
  Entries <- MCEntries
  MayStepBackEmpty = FALSE
INVARIANTS
  TypeOK
  IsRedBlack
PROPERTIES
  ImplementsSet
  CallsReturn
