SPECIFICATION Spec
CONSTANTS
    MaxSeq = 3
    MaxAttempts = 2
    MaxOutOfOrder = 1
    MaxAckRanges = 2
    MaxFaults = 0
    MaxAcks = 0
INVARIANTS
    AtMostOnce
    WrittenOffOnlyAfterOverflow
    HeldBounded
PROPERTY ImplementsDelivery
CHECK_DEADLOCK FALSE
