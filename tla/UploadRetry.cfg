SPECIFICATION Spec
CONSTANTS
  Size = 5
  ChunkSize = 2
  Concurrency = 3
  MaxAttempts = 3
  Declared = {5}
INVARIANT
  CompleteMeansWhole
CHECK_DEADLOCK FALSE
