CONSTANTS
  Threads = {t1, t2}
  ExtLocks = {x, y}
  Own = own
  ListHead = head
  Handlers = {h}
  Positions = {1, 2}
  NoThread = none
  MaxDepth = 2
SPECIFICATION FairSpec
INVARIANTS InsideHoldsChainedLocks UnlocksOnlyOwned NoUseAfterDestroy HandlersOnDestroy
PROPERTY EveryCallReturns
CHECK_DEADLOCK FALSE
