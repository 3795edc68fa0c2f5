SPECIFICATION Spec
CONSTANTS
  Executions <- Three
  NumShards = 1
  MaxAttempts = 2
  NoExecution = 0
  MaxFaults = 1
INVARIANT ManifestSelfHeals
CHECK_DEADLOCK FALSE
