SPECIFICATION Spec
CONSTANTS
    OwnSession = "conn"
    Identity = "admin"
    Policy <- MCPolicy
    NoNode = NoNode
    Nodes <- MCNodes
    Vals = {1, 2}
    InitialTree <- MCInitialTree
    Root = "root"
    NewNodes = "nn"
    QueryResults = "qr"
    Errors = "er"
    Creates <- MCCreates
    Sets <- RollbackSets
    Deletes <- MCDeletes
PROPERTY AllOrNothing
CHECK_DEADLOCK FALSE
