SPECIFICATION Spec
CONSTANTS
    Disks = {disk1}
    HasFlash = FALSE
    RemoveAfter = TRUE
    OverrideName = FALSE
    CreateDisks = TRUE
    ConnLimit = 2
    AllowCancel = FALSE
    AllowShutdown = FALSE
    AllowCrash = FALSE
CHECK_DEADLOCK FALSE
INVARIANT
    CompleteOnlyIfHandedOver
