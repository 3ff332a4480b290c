SPECIFICATION Spec
CONSTANTS
  Size = 5
  ChunkSize = 2
  Concurrency = 3
  MaxAttempts = 3
  Declared = {5}
INVARIANT
  SmoothUploadSucceeds
CHECK_DEADLOCK FALSE
