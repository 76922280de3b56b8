SPECIFICATION Spec
CONSTANTS
  even = even
  odd = odd
  Node = {n1, n2, n3, n4, n5, n6, n7}
  Nil = nil
  None = none
  Key = {1, 2, 3, 4, 5, 6, 7}
  Entries <- MCEntries
  MayStepBackEmpty = FALSE
VIEW ByKey
INVARIANTS
  TypeOK
  IsRedBlack
PROPERTY ImplementsSet
