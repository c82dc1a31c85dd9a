SPECIFICATION Spec
CONSTANTS
    CMD_MAX = 1
    ARG_MAX = 2
    EXE_MAX = 3
    BUFFER_SZ = 6
    MaxLine = 6
    MaxLost = 1
    MaxString = 8
    MaxOptions = 4
INVARIANTS
    WordsFaithful
    LimitsKept
    ParsersAgree
    BufferFilled
    ServicesAgree
    ReverseOverruns
    ServedOrReported
    OptionsHonoured
CHECK_DEADLOCK FALSE
