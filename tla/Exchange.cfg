SPECIFICATION FairSpec
CONSTANTS
    MaxOutOfOrder = 1
    MaxAckRanges = 1
    MaxCommands = 2
    Scripts <- MCScripts
    MaxSends = 2
    MaxPushes = 1
    MaxFaults = 1
INVARIANTS
    TypeOK
    CarriedOutOnce
    AnswersAgree
    RunnersMatchResults
PROPERTIES
    CommandsAnswered
    ClosedSessionsEnd
CHECK_DEADLOCK FALSE
