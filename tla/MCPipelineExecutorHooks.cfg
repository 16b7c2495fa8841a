SPECIFICATION Spec
CONSTANTS
  NumStages = 5
  GroupOf <- MCGroupOf
  MaxAttempts <- MCMaxAttempts
  Executors = {"parallel"}
  PolicySets = {{"failfast", "retry"}}
  MaxHookErrors = 1
INVARIANTS HooksAreIsolated
CHECK_DEADLOCK FALSE
