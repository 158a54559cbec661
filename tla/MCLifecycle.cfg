CONSTANTS
    MaxInst = 2
    MaxCrashes = 1
SPECIFICATION Spec
CHECK_DEADLOCK FALSE
INVARIANTS
    StoppedStaysStopped
    NothingLeft
    
