SPECIFICATION FairSpec
CONSTANTS
  Executions <- Four
  NumShards = 1
  MaxAttempts = 2
  NoExecution = 0
  MaxFaults = 2
INVARIANTS
  BrokerTypeOK
  RecordedDispatchBudget
  StateFollowsHistory
  RecordedExecutionsDoNotOverlap
  ExhaustedMeansBudgetUsed
  SucceededIsReconciled
  ManifestNeverForgets
PROPERTIES
  KeepsPromise
  RequestEnds
CHECK_DEADLOCK FALSE
