SPECIFICATION Spec
CONSTANTS
    Disks = {disk1}
    HasFlash = TRUE
    RemoveAfter = TRUE
    OverrideName = FALSE
    CreateDisks = TRUE
    ConnLimit = 1
    AllowCancel = TRUE
    AllowShutdown = TRUE
    AllowCrash = TRUE
CHECK_DEADLOCK FALSE
INVARIANTS
    OneHostExecutes
    GuestStaysUntilHandedOver
    SourceEndsOnlyIfTakenOver
    FailureLeavesNothing
PROPERTIES
    ImplementsHandover
    InSyncUnlessBroken
