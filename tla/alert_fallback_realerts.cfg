SPECIFICATION Spec
CONSTANTS
    Rules <- MCRules
    Clusters <- MCClusters
    ClusterOrder <- MCClusterOrder
    Cooldown <- MCCooldownDefault
    TickSeconds = 30
    MaxTime = 4
    MaxErrors = 5
    Faults <- CycleFaults
    NoTime <- MCNoTime
PROPERTY CooldownRespected
