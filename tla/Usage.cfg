SPECIFICATION Spec
CONSTANTS
  Path = {a, b}
  Spare = {b}
  Size = {2}
  Quota = 3
  Worker = {w1, w2}
  MaxRequests = 3
  MaxCut = 1
  StorageIsAbsolute = TRUE
SYMMETRY Symmetry
INVARIANTS
  TypeOK
  Accounted
PROPERTIES
  QuotaKept
  RecalculationCorrects
CHECK_DEADLOCK FALSE
