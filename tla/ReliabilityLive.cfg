SPECIFICATION FairSpec
CONSTANTS
    MaxSeq = 2
    MaxAttempts = 2
    MaxOutOfOrder = 1
    MaxAckRanges = 1
    MaxFaults = 1
    MaxAcks = 2
INVARIANTS
    TypeOK
    NoSilentLoss
    AcksStayTrue
PROPERTIES
    PendingDrains
    SentIsHandedOver
CHECK_DEADLOCK FALSE
