SPECIFICATION FairSpec
CONSTANTS
    p1 = p1
    p2 = p2
    p3 = p3
    Old = Old
    NoStudent = NoStudent
    Procs <- MCProcs
    Commands <- MCCommands
    MAX_STD_ID = 2
    Wrap = 8
    Exclusive = TRUE
    Faults = TRUE
INVARIANTS
    TypeOK
    Slotted
    ScanSound
PROPERTIES
    TableSpec
    CommandsEnd
