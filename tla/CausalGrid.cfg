\* The pass stops when both partitions are extracted or one was refused.
SPECIFICATION Spec
CONSTANTS
    Histories <- MCHistories
    Requests <- MCRequests
    Targets = {"AAA"}
    AsOfOffsets <- MCOffsets
    TrailingWidths = {3}
    DayLength = 1
    MaxOutputRows = 4
    None = None
INVARIANTS
    CutoffIsFrozenCutoff
    TrailingFactsAreExact
    AsOfFactsAreLatest
    PartitionsCoverGridOnce
CHECK_DEADLOCK FALSE
