\* An input grows to its bound and stays.
SPECIFICATION InputSpec
CONSTANTS
    NoLimit = NoLimit
    NoPlan = NoPlan
    NoRow = NoRow
    Rows <- MCRows
    MaxRows = 4
    MaxFiles = 3
    Decisions <- MCDecisions
    Plans <- MCEmptyPlans
    MaxRange = 7
    ScanBatch = 1
    SortRunRows = 2
    MergeFanIn = 2
    SentinelIdentity <- MCSentinelIdentity
    NullCore = "null"
    BucketCount = 2
    BucketOf <- MCBucketOf
    SortRunCapacity = 2
    BucketBufferRows = 3
INVARIANTS
    CanonicalStateIsOfTheRows
    WavesMergeInAnyOrder
    WindowFactsAreExact
    CollapsedTradesAreExact
    PlanCoversRangeOnce
CHECK_DEADLOCK FALSE
