SPECIFICATION Spec
CONSTANTS
  Client = {f1, f2}
  MaxVersion = 4
  Named = TRUE
  Exclusive = TRUE
  OpensOverlap = TRUE
  MayCrash = FALSE
INVARIANT FailedSaveLeavesInvalid
CHECK_DEADLOCK FALSE
