SPECIFICATION Spec
CONSTANTS
    Groups = {g1, g2}
    ClusterIds = {k1, k2, k3}
    MinClusters = 1
    MaxTarget = 2
    Faults <- MagnumFaults
    NoCluster = NoCluster
INVARIANT TypeOK
INVARIANT CountsMatchList
PROPERTY CallsReturn
