CONSTANTS
    Services = {boot, a}
    Boot = boot
    NoService = none
    NumWorkers = 2
    MaxSends = 3
    MaxExits = 1
    MaxCalls = 3
    FullIds = FALSE
SPECIFICATION Spec
INVARIANTS SingleThreaded NoDangling CloseIsLast WeightIsLoad SenderOrder
PROPERTY ImplementsActor
CHECK_DEADLOCK FALSE
