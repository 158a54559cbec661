SPECIFICATION FairSpec
CONSTANTS
    Disks = {disk1, disk2}
    HasFlash = FALSE
    RemoveAfter = TRUE
    OverrideName = FALSE
    CreateDisks = FALSE
    ConnLimit = 1
    AllowCancel = TRUE
    AllowShutdown = FALSE
    AllowCrash = TRUE
CHECK_DEADLOCK FALSE
PROPERTIES
    SourceTaskEnds
    IncomingEndsWithoutConnections
