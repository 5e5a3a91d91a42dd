CONSTANTS
    Client = {c1, c2}
    PoolSize = 1
    Hostname <- MCHostname
    Passed <- MCPassed
    NormalizeHostname <- MCNormalize
    Fallback <- MCFallback
    NsName = "ns.lan."
    ReservedConfigs <- MCReservedConfigs
    LeaseDuration = 2
    OfferDuration = 1
    DeclineDuration = 1
    MaxTime = 2
    QueueMax = 2
    None = None
SYMMETRY ClientSymmetry
SPECIFICATION DhcpSpec
INVARIANTS
    BoundIsBacked
    NoAddressConflict
