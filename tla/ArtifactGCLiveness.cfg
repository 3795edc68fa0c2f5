SPECIFICATION FairSpec
CONSTANTS
  r1 = r1
  r2 = r2
  d1 = d1
  d2 = d2
  Requests <- TwoRequests
  Digests <- TwoDigests
  InputOf <- Inputs
  OutputsOf <- Outputs
  Holdable <- NoDigests
  Citable <- FirstDigest
  Collectors <- NormalOnly
  NoDigest = NoDigest
  Free = Free
  MaxFaults = 1
PROPERTIES
  IntentsConverge
  GarbageCollected
CHECK_DEADLOCK FALSE
