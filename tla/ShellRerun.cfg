SPECIFICATION FairSpec
CONSTANTS
    CMD_MAX = 2
    ARG_MAX = 20
    EXE_MAX = 3
    Programs = {"5-ShellP3"}
    Devices = {"file"}
    Inputs <- MCTwice
    Chunk = 3
    BlockSize = 5
    Faults = FALSE
CHECK_DEADLOCK FALSE
PROPERTIES
    InputEnds
