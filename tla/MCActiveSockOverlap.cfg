SPECIFICATION Spec
CONSTANTS
  ReadOps = {"r1"}
  SendOps = {"s1", "s2"}
  AcceptOps = {"a1"}
  ConnectOps = {"x1"}
  Closers = {"c1"}
  MaxSize = 1
  MsgLen = 3
  MaxLoop = 1
  MaxErrors = 1
  MaxConns = 0
  Apps <- OverlappingSender
INVARIANT
  WholeDataSent
CHECK_DEADLOCK FALSE
