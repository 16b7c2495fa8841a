SPECIFICATION Spec
CONSTANTS
  NumEntities = 1
  Kinds = {"row", "malformed"}
  MaxBatch <- MCMaxBatch
  PollCap <- MCPollCap
  IdleAfter = 1
  PollEvery = 2
  PoolSize = 1
  MaxIterations = 2
  MaxLog = 2
  MaxFaults = 0
INVARIANTS FullyFlushedOnReturn
CHECK_DEADLOCK FALSE
