SPECIFICATION FairSpec
CONSTANTS
  NumStages = 5
  GroupOf <- MCGroupOf
  MaxAttempts <- MCMaxAttempts
  Executors = {"sequential", "parallel"}
  PolicySets <- MCPolicySets
  MaxHookErrors = 1
INVARIANTS TypeOK PoliciesSeeOwnStage VerdictIsTrue AnswersAreRecorded NoSpanLost FailureIsNamed
PROPERTIES RunsAsPromised EventuallyConcludes
CHECK_DEADLOCK FALSE
