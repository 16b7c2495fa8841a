SPECIFICATION Spec
CONSTANTS
  NumEntities = 1
  Kinds = {"row", "malformed", "poison"}
  MaxBatch <- MCMaxBatch
  PollCap <- MCPollCap
  IdleAfter = 1
  PollEvery = 2
  PoolSize = 1
  MaxIterations = 10
  MaxLog = 4
  MaxFaults = 3
INVARIANTS NoLoss FullBufferCanCommit DeliveryInv BufferIsBacklog
PROPERTIES Delivers DropsOnlyLanded
CHECK_DEADLOCK FALSE
