SPECIFICATION Spec
CONSTANTS
  Client = {f1, f2}
  MaxVersion = 4
  Named = TRUE
  Exclusive = FALSE
  OpensOverlap = FALSE
  MayCrash = TRUE
SYMMETRY ClientSymmetry
INVARIANTS TypeOK RecognizedMeansSaved WritersHideDocument
PROPERTY ReadersSeeLastSave
CHECK_DEADLOCK FALSE
