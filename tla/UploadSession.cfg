SPECIFICATION Spec
CONSTANTS
  Size = 5
  ChunkSize = 2
  Concurrency = 3
  MaxAttempts = 2
  Declared = {4, 5}
INVARIANTS
  TypeOK
  AcceptedOnceInOrder
  CompleteMeansStored
PROPERTY
  UploadEnds
CHECK_DEADLOCK FALSE
