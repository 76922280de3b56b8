SPECIFICATION Spec
CONSTANTS
  Client = {f1, f2}
  MaxVersion = 3
  Named = TRUE
  Exclusive = TRUE
  OpensOverlap = TRUE
  MayCrash = TRUE
SYMMETRY ClientSymmetry
PROPERTY ReadersAreIsolated
CHECK_DEADLOCK FALSE
