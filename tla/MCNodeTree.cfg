SPECIFICATION Spec
CONSTANTS
    OwnSession = "conn"
    Identity = "admin"
    Policy <- MCPolicy
    NoNode = NoNode
    Nodes <- MCNodes
    Vals = {1, 2}
    InitialTree <- MCInitialTree
    Root = "root"
    NewNodes = "nn"
    QueryResults = "qr"
    Errors = "er"
    Creates <- MCCreates
    Sets <- MCSets
    Deletes <- MCDeletes
INVARIANTS
    NoParentCycle
    WellFormed
    ReachableIsExact
    ContainersStay
    DeletedIsGone
    OtherSessionsUntouched
PROPERTIES
    AllOrNothing
    DropsAreAuthorized
    MovesAndWritesAuthorized
CHECK_DEADLOCK FALSE
