SPECIFICATION FairSpec
CONSTANTS
    Watched = {x, y}
    Key <- MCKey
    Numeric = {x}
    Queries <- OnlyOnChange
    InitiallyThere = {x}
    MaxMutations = 1
    MaxTicks = 2
PROPERTY BusyRunnerIsWoken
CHECK_DEADLOCK FALSE
