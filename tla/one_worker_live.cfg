CONSTANTS
    Services = {boot, a}
    Boot = boot
    NoService = none
    NumWorkers = 1
    MaxSends = 2
    MaxExits = 1
    MaxCalls = 4
    FullIds = FALSE
SPECIFICATION FairSpec
PROPERTIES ExitCompletes OnlineIsClosed StoppedIsFreed Delivered
CHECK_DEADLOCK FALSE
