SPECIFICATION Spec
CONSTANTS
  Executions <- Three
  NumShards = 1
  MaxAttempts = 2
  NoExecution = 0
  MaxFaults = 0
INVARIANT ExhaustedMeansUnsuccessful
CHECK_DEADLOCK FALSE
