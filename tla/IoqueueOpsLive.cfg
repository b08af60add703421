CONSTANTS
  Threads = {t1, t2}
  NULL = NULL
  ReadOps = {r1, r2}
  WriteOps = {w1, w2}
  AcceptOps = {a1, a2}
  r1 = r1
  r2 = r2
  w1 = w1
  w2 = w2
  a1 = a1
  a2 = a2
  Applications <- LiveApplications
  WriteSize = 1
  MaxData = 1
  MaxDepth = 4
SPECIFICATION FairSpec
PROPERTIES ReadsServed WritesEnd CallsReturn
CHECK_DEADLOCK FALSE
