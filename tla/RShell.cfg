SPECIFICATION FairSpec
CONSTANTS
    a = a
    b = b
    NoClient = NoClient
    Clients <- MCClients
    Scripts <- MCScripts
    Parts = 1
    MaxOut = 1
    BACKLOG = 1
    Faults = TRUE
    Losses = 1
INVARIANTS
    TypeOK
    InSync
    OnceInOrder
    StopHasCause
    NoticeTrue
PROPERTIES
    SessionEnds
