SPECIFICATION Spec
CONSTANTS
  r1 = r1
  r2 = r2
  d1 = d1
  d2 = d2
  Requests <- TwoRequests
  Digests <- TwoDigests
  InputOf <- Inputs
  OutputsOf <- Outputs
  Holdable <- NoDigests
  Citable <- NoDigests
  Collectors <- NormalOnly
  NoDigest = NoDigest
  Free = Free
  MaxFaults = 1
INVARIANTS
  SucceededOutputStays
CHECK_DEADLOCK FALSE
