SPECIFICATION Spec
CONSTANTS
  Name <- MCName
  Resource <- MCResource
  NoName = NoName
  WalkToRoot <- MCWalkToRoot
  Duration = {1}
  MaxGen = 3
  Worker = {w1, w2}
  Lists = 2
  MaxTime = 1
SYMMETRY Symmetry
INVARIANTS
  TypeOK
  WritersExclusive
  LockedResourcesRespected
  LocksAccounted
