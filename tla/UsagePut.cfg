SPECIFICATION Spec
CONSTANTS
  Path = {a, b}
  Spare = {b}
  Size = {1, 2}
  Quota = 2
  Worker = {w1, w2}
  MaxRequests = 3
  MaxCut = 1
  StorageIsAbsolute = TRUE
SYMMETRY Symmetry
PROPERTY NoHalfFiles
CHECK_DEADLOCK FALSE
