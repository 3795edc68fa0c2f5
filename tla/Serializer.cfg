SPECIFICATION FairSerializerSpec
CONSTANTS
  t1 = t1
  t2 = t2
  t3 = t3
  i1 = i1
  i2 = i2
  l1 = l1
  l2 = l2
  l3 = l3
  Threads <- ThreeThreads
  Ids <- TwoIds
  Locks <- ThreeLocks
  NoLock = NoLock
  NoThread = NoThread
INVARIANTS
  IInv
  MutualExclusion
  NeverCorrupt
PROPERTY WaitersMoveOn
