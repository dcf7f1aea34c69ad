CONSTANTS
    Services = {a, b}
    Listener = a
    NoService = none
    MaxFd = 2
    Arrivals = {{"READ"}, {"HUP"}}
    MaxEvents = 2
    MaxOpens = 1
    MaxMods = 2
SPECIFICATION FairSpec
INVARIANTS TypeOK Announced NoDangling OneOwner Agreed
PROPERTIES Noticed Accepted
CHECK_DEADLOCK FALSE
