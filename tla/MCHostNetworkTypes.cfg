SPECIFICATION Spec
CONSTANTS
    t1 = t1
    t2 = t2
    Prefixes <- MCPrefixes
    Options <- MCOptions
    Updates <- MCUpdates
    MaxRate = 1
    MaxSchemeCalls = 2
    Addrs <- MCAddrs
    Wide <- MCWide
    Refused <- MCRefused
    MaxLimit = 1
    MaxIndex = 2
    MaxCalls = 3
    Taps <- MCTaps
    MaxMade = 4
    MaxTasks = 5
INVARIANT
    StoredCanBeExtracted
CHECK_DEADLOCK FALSE
