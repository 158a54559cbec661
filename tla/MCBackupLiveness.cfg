CONSTANTS
    Blocks = {b1, b2}
    MaxWrites = 1
    MaxTasks = 2
    MaxFaults = 1
SPECIFICATION FairSpec
CHECK_DEADLOCK FALSE
PROPERTY
    BackupsEnd
