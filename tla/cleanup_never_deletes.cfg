SPECIFICATION Spec
CONSTANTS
    ClusterIds = {k1}
    VGroups = {v1}
    MaxNodes = 2
    MaxBatch = 1
    MaxSpecs = 1
    MaxTotal = 2
    Faults <- NoFaults
    NoCluster = NoCluster
PROPERTY StuckClustersCleaned
