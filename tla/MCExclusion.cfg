SPECIFICATION Spec
CONSTANTS
    Clients = {c1, c2}
    VMs = {vm1}
    Disks = {d1, d2}
    Paths = {p1}
    BaseName <- MCBaseName
    MaxAttempts = 2
    Machines = {m1, m2, m3}
    MIN_UID <- MCMin
    MAX_UID <- MCMax
    SystemUids <- MCSystem
INVARIANTS
    UniqueLabels
    ChangesAreApart
    UniqueUids
PROPERTIES
    EveryRequestAnswered
    CallsReturn
