SPECIFICATION Spec
CONSTANTS
  Client = {f1}
  MaxVersion = 5
  Named = FALSE
  Exclusive = TRUE
  OpensOverlap = FALSE
  MayCrash = FALSE
INVARIANT ClosedMeansDurable
CHECK_DEADLOCK FALSE
