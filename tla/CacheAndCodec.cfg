SPECIFICATION SpecAll
CONSTANTS
    Keys = {1, 2, 3}
    TTL = 2
    CompactMin = 2
    Horizon = 7
    MaxQueue = 5
    LongOctets = 2
    WordOctets = 1
    RealOctets = 8
    Second = 100
INVARIANTS
    TypeOK
    SpentBounded
    MessagesRoundTrip
    AcceptedQueriesRun
PROPERTY ImplementsTTLCache
CHECK_DEADLOCK FALSE
