CONSTANTS
    Blocks = {b1, b2}
    MaxWrites = 2
    MaxTasks = 3
    MaxFaults = 1
SPECIFICATION Spec
CHECK_DEADLOCK FALSE
SYMMETRY AllBlocks
INVARIANTS
    CompletedIsSnapshot
    NothingLeftBehind
    ResultIsTrue
