SPECIFICATION LogFairSpec
CONSTANTS
  Executions <- ThreeExecutions
  NumShards = 2
  MaxAttempts = 2
INVARIANTS
  OrdinalsArePrefix
  AtMostOneSuccess
  AttemptBudget
  GreenMeansNothingRetryable
  LogIInv
PROPERTIES
  RecordsAreImmutable
  EveryExecutionConcludes
CHECK_DEADLOCK FALSE
