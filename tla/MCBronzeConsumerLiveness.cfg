SPECIFICATION FairSpec
CONSTANTS
  NumEntities = 2
  Kinds = {"row"}
  MaxBatch <- MCMaxBatch
  PollCap <- MCPollCap
  IdleAfter = 1
  PollEvery = 2
  PoolSize = 1
  MaxIterations = 0
  MaxLog = 2
  MaxFaults = 1
INVARIANTS TypeOK NoRepeatWithoutFault
PROPERTIES FlushOwnsBuffer EventuallyCommitted
