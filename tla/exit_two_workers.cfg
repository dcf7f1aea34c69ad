CONSTANTS
    Services = {boot}
    Boot = boot
    NoService = none
    NumWorkers = 2
    MaxSends = 0
    MaxExits = 1
    MaxCalls = 2
    FullIds = FALSE
SPECIFICATION FairSpec
PROPERTY ExitCompletes
CHECK_DEADLOCK FALSE
