CONSTANTS
    Client = {c1, c2}
    PoolSize = 2
    Hostname <- MCHostname
    Passed <- MCPassed
    NormalizeHostname <- MCNormalize
    Fallback <- MCFallback
    NsName = "ns.lan."
    ReservedConfigs <- MCReservedConfigs
    LeaseDuration = 2
    OfferDuration = 1
    DeclineDuration = 1
    MaxTime = 2
    None = None
SYMMETRY ClientSymmetry
SPECIFICATION Spec
INVARIANTS
    AddressExclusive
    NameExclusive
    FileRestorable
    PromiseKept
    QuarantineKept
PROPERTIES
    ContractSpec
