SPECIFICATION Spec
CONSTANTS
  Client = {f1}
  MaxVersion = 4
  Named = FALSE
  Exclusive = TRUE
  OpensOverlap = FALSE
  MayCrash = FALSE
INVARIANT OpenFileHasHeader
CHECK_DEADLOCK FALSE
