SPECIFICATION FairSpec
CONSTANTS
    Watched = {x, y}
    Key <- MCKey
    Numeric = {x}
    Queries <- MCQueries
    InitiallyThere = {x}
    MaxMutations = 2
    MaxTicks = 2
INVARIANTS
    TypeOK
    ReportsDiffer
    NoSelfWaking
    SamplesInOrder
PROPERTIES
    EventuallyUpToDate
    EventuallyTransferred
    CancelStops
CHECK_DEADLOCK FALSE
