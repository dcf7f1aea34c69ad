CONSTANTS
    NumObjects = 3
    Sizes = {1}
    Limit = 1
    NumSlots = 2
    NumWorkers = 2
    SvidRange = 6
    SvidStart = 3
    MaxIds = 4
SPECIFICATION Spec
INVARIANTS NothingLost AccountExact PoolOrdered FreshIds Found
PROPERTY ImplementsLists
CHECK_DEADLOCK FALSE
