SPECIFICATION FairSpec
CONSTANTS
    CMD_MAX = 2
    ARG_MAX = 20
    EXE_MAX = 3
    Programs = {"3-ShellP1", "4-ShellP2", "5-ShellP3", "6-RShell"}
    Devices = {"tty", "pipe", "file"}
    Inputs <- MCInputs
    Chunk = 2
    BlockSize = 5
    Faults = TRUE
\* The shells end.
CHECK_DEADLOCK FALSE
INVARIANTS
    TypeOK
    MemorySound
    EndHasCause
PROPERTIES
    LineLoopSpec
    ShellEnds
