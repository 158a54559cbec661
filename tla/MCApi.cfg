SPECIFICATION Spec
CONSTANT HostMachines <- MCHostMachines
INVARIANTS
    RestSameAsGrpc
    RequestReachesItsFunction
    CommandDoesWhatItSays
