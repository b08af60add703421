CONSTANTS
  Keys = {k1, k2}
  Threads = {t1, t2}
  Groups = {g1}
  NULL = NULL
  MAX_EVENTS = 2
  MaxRegs = 2
  Slow = FALSE
SPECIFICATION FairSpec
INVARIANTS EventsOfLiveKeys CountExact GroupRefsExact
PROPERTY KeyComesBack
