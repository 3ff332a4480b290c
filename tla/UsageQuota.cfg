SPECIFICATION Spec
CONSTANTS
  Path = {a, b}
  Spare = {b}
  Size = {2}
  Quota = 3
  Worker = {w1}
  MaxRequests = 1
  MaxCut = 2
  StorageIsAbsolute = TRUE
PROPERTY QuotaEnforced
CHECK_DEADLOCK FALSE
