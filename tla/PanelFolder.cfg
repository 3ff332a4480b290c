SPECIFICATION Spec
CONSTANTS
  a = a
  b = b
  ada = ada
  bob = bob
  U = u
  Owners = {ada, bob}
  Me = ada
  Dirs <- MCDirs
  Names = {a, b}
  Images = {a}
  Acts = {x1, x2}
  Nobody = Nobody
  Disks <- MCDisks
  Budgets <- MCBudgets
  MaxLists = 2
  MaxUploads = 2
  Selections <- MCSelections
INVARIANTS
  FolderTogether
CHECK_DEADLOCK FALSE
