SPECIFICATION Spec
CONSTANTS
  Names = {n1, n2}
  Passwords = {p1, p2}
  Ids = {1, 2, 3}
  SessionIds = {1, 2, 3}
  Requests = {r1, r2}
  MaxStarts = 2
  TTL = 2
  SessionIdle = 0
  Commands = FALSE
SYMMETRY Symmetry
INVARIANT ChangeClearsCache
