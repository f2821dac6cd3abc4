CONSTANTS
  BLOCK_SIZE = 4
  INDEX_SIZE = 1
  DIR_BLOCKS = 2
  CHAR_BIT = 3
  WORDS = 64
  Procs = {p1, p2, p3}
  Names = {a}
  Inodes = {i1, i2, i3, i4}
  NONE = NONE
  DiskSizes = {0, 4, 31}
  Images <- MCImages
  MaxRuns = 3
SYMMETRY MCSymmetry
SPECIFICATION Spec
INVARIANTS TypeOK DiskWhole RefusedForAReason WalkInsideBitmap PrintsTheTruth
CHECK_DEADLOCK FALSE
