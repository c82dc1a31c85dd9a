SPECIFICATION Spec
CONSTANTS
    a = a
    b = b
    NoClient = NoClient
    Clients <- MCClients
    Scripts <- MCBadLine
    Parts = 1
    MaxOut = 1
    BACKLOG = 1
    Faults = FALSE
    Losses = 0
CHECK_DEADLOCK FALSE
INVARIANT OnlyStopEnds
