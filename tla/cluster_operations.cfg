SPECIFICATION Spec
CONSTANTS
    ClusterIds = {k1, k2}
    VGroups = {v1}
    MaxNodes = 1
    MaxBatch = 1
    MaxSpecs = 2
    MaxTotal = 3
    Faults <- MagnumFaults
    NoCluster = NoCluster
INVARIANT TypeOK
INVARIANT ScaleMatchesReference
PROPERTY ApiCallsReturn
