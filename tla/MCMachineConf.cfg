SPECIFICATION Spec
CONSTANTS
    Clients = {c1, c2}
    VMs = {vm1}
    Disks = {}
    Paths = {}
    BaseName <- MCBaseName
    Slots = {s1, s2}
    Values = {a}
    None = None
    Kinds = {"Update", "Conf", "Migration"}
    MaxAttempts = 2
    MaxInstances = 2
SYMMETRY Symmetry
INVARIANTS
    AnsweredChangesAreStored
    AnsweredChangesAreLive
    MigratedConfIsCurrent
