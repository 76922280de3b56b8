SPECIFICATION Spec
CONSTANTS
  v1 = v1
  v2 = v2
  Sids = {v1, v2}
  Grid <- OneGrid
  KL = 1
  Zone = 2
  PackSize = 1
  Preallocated = 6
  KeyOffsets = {0, 7}
  WriteCounts = {2, 7}
  Overlaps = {0, 3}
  SetSizes = {0, 4}
  MetadataSizes = {6, 13}
  MayEmptyNew = FALSE
  MaxAllocated = 14
  LastAddress = 45
  Blank = Blank
  Metadata = Metadata
  Fill = Fill
  Pack = Pack
CHECK_DEADLOCK FALSE
INVARIANT StreamIntact
