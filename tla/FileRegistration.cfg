SPECIFICATION Spec
CONSTANTS
  Client = {f1}
  MaxVersion = 4
  Named = TRUE
  Exclusive = TRUE
  OpensOverlap = FALSE
  MayCrash = FALSE
INVARIANT RegistrationAllowed
CHECK_DEADLOCK FALSE
