CONSTANTS
    Services = {a, b}
    Listener = a
    NoService = none
    MaxFd = 2
    Arrivals = {{"READ"}, {"HUP"}}
    MaxEvents = 2
    MaxOpens = 1
    MaxMods = 2
SPECIFICATION Spec
INVARIANT EventIsOpen
CHECK_DEADLOCK FALSE
