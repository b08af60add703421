CONSTANTS
  Entries = {e1, e2}
  GrpEntries = {e1}
  Threads = {t1, t2}
  Nil = Nil
  Delays = {1, 2}
  InitSize = 1
  MaxPerPoll = 2
  GrowMayFail = TRUE
  MaxTime = 3
SPECIFICATION FairSpec
INVARIANT FailedGrowthContained
PROPERTIES ImplementsTimerSet EveryTimerEnds
