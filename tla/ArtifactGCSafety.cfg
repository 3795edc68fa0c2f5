SPECIFICATION Spec
CONSTANTS
  r1 = r1
  r2 = r2
  d1 = d1
  d2 = d2
  Requests <- TwoRequests
  Digests <- TwoDigests
  InputOf <- Inputs
  OutputsOf <- Outputs
  Holdable <- FirstDigest
  Citable <- NoDigests
  Collectors <- Both
  NoDigest = NoDigest
  Free = Free
  MaxFaults = 1
INVARIANTS
  GCIInv
  LiveRunKept
  UndeliveredKept
  MissingIsAccounted
PROPERTIES
  HeldStays
  SharedWaitsForAll
  ApplySettles
CHECK_DEADLOCK FALSE
