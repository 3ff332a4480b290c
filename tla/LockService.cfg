SPECIFICATION Spec
CONSTANTS
  Name <- MCName
  NoName = NoName
  WalkToRoot <- MCWalkToRoot
  Duration = {1}
  MaxGen = 2
  Caller = {p1, p2}
  MaxTime = 1
SYMMETRY Symmetry
INVARIANTS
  TypeOK
  IndexOK
  Exclusive
  ReleaseFindsItsNodes
  ClaimsDisjoint
  ClaimsCovered
PROPERTY
  Implements
