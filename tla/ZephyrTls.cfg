CONSTANTS
  Threads = {t1, t2, t3}
  Values = {v1}
  NULL = NULL
  MaxKeys = 2
  MaxThreads = 2
  GenMod = 4
  MaxEpoch = 3
SPECIFICATION Spec
INVARIANT OneSlotPerThread
PROPERTY IsolatedCells
