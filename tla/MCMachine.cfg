SPECIFICATION Spec
CONSTANTS
    p1 = p1
    p2 = p2
    p3 = p3
    p4 = p4
    n1 = n1
    n2 = n2
    n3 = n3
    Paths = {p1, p2, p3, p4}
    Names = {n1, n2, n3}
    BaseName <- MCBaseName
    Limits = {0, 1}
    Positions <- MCPositions
    Devices = {"blk", "scsi", "cdrom", "net", "vsock"}
    Kind <- OfEachKind
    Uid = 1024
    MaxRequests = 4
    MaxFailures = 2
    Blocks = {"block"}
    Remotes = {"remote"}
    Images = {"image", "other"}
    CdromDriver = "ide-cd"
    MaxChanges = 4
    MaxChangeFailures = 2
    MaxBuilds = 2
    Sizes <- MCSizes
    MaxCPU = 4
    MaxSettings = 3
    UintMB = 4096
INVARIANTS
    PoolIsSound
    AnswersHold
    LeftoversAreHarmless
    AnsweredIsInserted
    ImageIsCurrent
    LimitsKept
    ProcessorsAreFirst
PROPERTY
    OrderKept
CHECK_DEADLOCK FALSE
