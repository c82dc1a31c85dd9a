SPECIFICATION Spec
CONSTANTS
    p1 = p1
    p2 = p2
    p3 = p3
    Old = Old
    NoStudent = NoStudent
    Procs <- MCTwo
    Commands <- MCAdd
    MAX_STD_ID = 2
    Wrap = 8
    Exclusive = FALSE
    Faults = FALSE
INVARIANT AddedOnce
