SPECIFICATION Spec
CONSTANTS
    Hosts <- MCHosts
    HostOrder <- MCHostOrder
    Root <- MCRoot
    Children <- MCChildren
    Inventory <- MCInventory
    ProviderTraits <- MCProviderTraits
    RcPatternMatches <- MCRcPatternMatches
    RawRequests <- MCRawRequests
    Policies <- BothPolicies
    Faults <- AllFaults
    Concurrent = TRUE
    InitialUsage <- IdleUsage
    Unmet = Unmet
    BadAmount = BadAmount
INVARIANT TypeOK
INVARIANT ResultMatchesReference
INVARIANT MonotoneAcrossHosts
