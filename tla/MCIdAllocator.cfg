SPECIFICATION Spec
CONSTANTS
  Threads = {t1}
  BATCH = 3
  WORD = 8
  PutFails = TRUE
  None = None
  MaxId = 6
  MaxRestarts = 2
INVARIANTS
  TypeOK
  UniqueUnlessLost
PROPERTY RestartSkipsLessThanABatch
