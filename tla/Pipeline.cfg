SPECIFICATION FairSpec
CONSTANTS
    N = 3
    Items = 3
    Cap = 2
    Programs = {"cat", "head", "missing"}
    FailuresPossible = TRUE
    Remote = TRUE
\* A failed fork leaves children that block for ever.
CHECK_DEADLOCK FALSE
INVARIANTS
    TypeOK
    StreamsWired
    EndOfInputSound
    BrokenPipeSound
    CleanReturn
    WholeOutput
PROPERTIES
    ChainSpec
    PipelineReturns
