CONSTANTS
  Threads = {t1, t2}
  ExtLocks = {x}
  Own = own
  ListHead = head
  Handlers = {h}
  Positions = {0}
  NoThread = none
  MaxDepth = 2
SPECIFICATION Spec
INVARIANT InsideHoldsChainedLocks
CHECK_DEADLOCK FALSE
