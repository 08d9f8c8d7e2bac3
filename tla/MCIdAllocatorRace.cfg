SPECIFICATION Spec
CONSTANTS
  Threads = {t1, t2}
  BATCH = 3
  WORD = 8
  PutFails = FALSE
  None = None
  MaxId = 6
  MaxRestarts = 0
INVARIANT UniqueIds
