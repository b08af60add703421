CONSTANTS
  Entries = {1, 2, 3, 4, 5, 6}
  GrpEntries = {}
  Threads = {t1}
  Nil = Nil
  Delays = {1, 2}
  InitSize = 1
  MaxPerPoll = 1
  GrowMayFail = FALSE
  MaxTime = 2
SPECIFICATION StructureSpec
INVARIANTS HeapOrdered IndexConsistent
CHECK_DEADLOCK FALSE
