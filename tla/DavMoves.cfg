SPECIFICATION Spec
CONSTANTS
  Name <- MovesName
  Resource <- MovesResource
  NoName = NoName
  WalkToRoot <- MovesWalkToRoot
  Duration = {1}
  MaxGen = 3
  Worker = {w1, w2}
  Lists = 1
  MaxTime = 1
SYMMETRY Symmetry
INVARIANT
  MovedLocksRespected
