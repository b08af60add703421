SPECIFICATION ObjectsSpec
CONSTANTS
  main = main
  worker = worker
  stranger = stranger
  Threads <- MCThreads
  Users = {main, worker}
  Workers = {worker}
  Foreign = {stranger}
  Values <- MCValues
  NULL = NULL
  MaxKeys = 5
  MaxThreads = 2
  GenMod = 64
  MaxEpoch = 8
  MaxNest = 2
  MaxAtexit = 3
  MaxExcId = 3
  MaxLife = 2
  MaxInit = 2
  Plans <- MCPlans
  EventThreads = {e1, e2, e3}
  BarrierThreads = {b1, b2, b3}
  BarrierGenMod = 2
  MaxRounds = 3
  PoolIds = {1, 2}
  pool_sizes <- MCSizes
  START_SIZE = 1
  POOL = 2
  BLOCK = 1
  MAX_SEARCH = 1
  max_capacity = 14
  InitialSizes = {5, 7, 13}
  Increments = {0, 3}
  Alignments = {1, 4}
  ChunkSizes = {2}
  Residues = {0, 1}
  MaxBlocks = 3
  MaxChunks = 3
  Capacities = {0, 9, 10, 11, 12}
  SZ = 2
  FifoSizes = {0, 1, 2, 3, 7}
INVARIANTS
  InnermostHandler
  OwnIdentity
  IdsAccounted
  NoReleaseStranded
  Lockstep
  ChunksApart
  BooksBalanced
  RecycledLikeNew
  FifoBlocksApart
PROPERTY
  RoundsEnd
CHECK_DEADLOCK FALSE
