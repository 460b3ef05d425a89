SPECIFICATION Spec
CONSTANTS
    Groups = {g1}
    ClusterIds = {k1, k2}
    MinClusters = 1
    MaxTarget = 2
    Faults <- NoFaults
    NoCluster = NoCluster
INVARIANT NoOrphanCluster
