SPECIFICATION Spec
CONSTANTS
    MaxOutOfOrder = 1
    MaxAckRanges = 1
    MaxCommands = 1
    Scripts <- OneQuery
    MaxSends = 1
    MaxPushes = 1
    MaxFaults = 0
INVARIANT PushesAreShown
CHECK_DEADLOCK FALSE
