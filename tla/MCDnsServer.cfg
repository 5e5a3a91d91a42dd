CONSTANTS
    Client = {c1, c2}
    PoolSize = 2
    Hostname <- MCHostname
    Passed <- MCPassed
    NormalizeHostname <- MCNormalize
    Fallback <- MCFallback
    NsName = "ns.lan."
    ReservedConfigs <- MCReservedConfigs
    LeaseDuration = 1
    OfferDuration = 1
    DeclineDuration = 1
    MaxTime = 1
    None = None
    OctetBits = 2
    AddressOctets = 2
    Handler = {"h1", "h2"}
    Name <- MCName
    Root = "."
    Domain = "lan."
    Parent <- MCParent
    Wildcard <- MCWildcard
    Labels <- MCLabels
    ARecords <- MCARecords
    GatewayName = "gateway.lan."
    ServerIP = 3
    Subnet <- MCSubnet
    Upstream = TRUE
    TTL = 2
    MaxForwards = 1
    Questions <- MCQuestions
SYMMETRY ClientSymmetry
SPECIFICATION DnsSpec
INVARIANTS
    SteadyAnswers
    RecordsTrue
    ForwardSlots
    ReverseZonesRight
