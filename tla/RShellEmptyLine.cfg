SPECIFICATION FairSpec
CONSTANTS
    a = a
    b = b
    NoClient = NoClient
    Clients <- MCClients
    Scripts <- MCEmptyLine
    Parts = 1
    MaxOut = 1
    BACKLOG = 1
    Faults = FALSE
    Losses = 0
CHECK_DEADLOCK FALSE
PROPERTY EveryLineAnswered
