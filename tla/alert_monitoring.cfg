SPECIFICATION Spec
CONSTANTS
    Rules <- MCRules
    Clusters <- MCClusters
    ClusterOrder <- MCClusterOrder
    Cooldown <- MCCooldown
    TickSeconds = 30
    MaxTime = 3
    MaxErrors = 2
    Faults <- CycleFaults
    NoTime <- MCNoTime
INVARIANT TypeOK
PROPERTY RedisCooldownRespected
