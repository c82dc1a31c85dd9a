SPECIFICATION Spec
CONSTANTS
    CMD_MAX = 1
    ARG_MAX = 2
    EXE_MAX = 3
    BUFFER_SZ = 6
    MaxLine = 6
    MaxLost = 1
    MaxString = 8
    MaxOptions = 4
INVARIANTS
    WordsCounted
CHECK_DEADLOCK FALSE
