SPECIFICATION Spec
CONSTANTS
  NumStages = 5
  GroupOf <- MCGroupOf
  MaxAttempts <- MCMaxAttempts
  Executors = {"sequential", "parallel"}
  PolicySets = {{"failfast", "retry"}}
  MaxHookErrors = 0
INVARIANTS ReportIsTrue
CHECK_DEADLOCK FALSE
