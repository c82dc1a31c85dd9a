SPECIFICATION Spec
CONSTANTS
    N = 2
    Items = 1
    Cap = 1
    Programs = {"cat"}
    FailuresPossible = TRUE
    Remote = FALSE
CHECK_DEADLOCK FALSE
INVARIANT WaitsForAll
