SPECIFICATION Spec
CONSTANTS
    MaxNodes = 6
    Requests <- MCRequests
    Limits = {8, 9, 13, 40}
    Override = 0
    OffsetCost = 1
    ContinuationCost = 4
    DipSpan = 4
    MaxFollowups = 3
INVARIANTS
    Complete
    NoDanglingLink
    DeliveredOnce
    FitIsLargest
CHECK_DEADLOCK FALSE
