CONSTANTS
    Services = {boot, a, b}
    Boot = boot
    NoService = none
    NumWorkers = 0
    MaxSends = 1
    MaxExits = 1
    MaxCalls = 3
    FullIds = FALSE
SPECIFICATION FairSpec
PROPERTIES ImplementsActor ExitCompletes
CHECK_DEADLOCK FALSE
