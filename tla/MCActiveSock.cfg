SPECIFICATION FairSpec
CONSTANTS
  ReadOps = {"r1", "r2"}
  SendOps = {"s1", "s2"}
  AcceptOps = {"a1", "a2"}
  ConnectOps = {"x1"}
  Closers = {"c1", "c2"}
  MaxSize = 2
  MsgLen = 3
  MaxLoop = 2
  MaxErrors = 2
  MaxConns = 2
  Apps <- OrderlyApps
INVARIANTS
  DataIntact
  OneLateRead
  WholeDataSent
  SendsAnsweredOnce
  UnregisteredOnce
  ConnectionsAccounted
PROPERTIES
  SendsAnswered
  DataDelivered
CHECK_DEADLOCK FALSE
