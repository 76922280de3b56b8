SPECIFICATION Spec
CONSTANTS
  even = even
  odd = odd
  Node = {n1, n2, n3}
  Nil = nil
  None = none
  Key = {1, 2}
  Entries <- MCEntries
  MayStepBackEmpty = TRUE
INVARIANT StepsReachItems
