SPECIFICATION SupervisorSpec
CONSTANTS
    Conn <- MCConn
    Endpoint <- MCEndpoint
    Asks <- MCAsks
    maxConnections = 2
    maxBindAttempts = 2
    BindSlots = 1
    MaxRequests = 1
    MaxQueries = 1
    NfsConn <- MCNfsConn
    NfsSlots = 1
    Talker = "n1"
    Share = {"data", "software"}
    ReadOnly = {"software"}
    maxFiles = 1
    MaxSaved = 1
    Peer = {"p1", "p2", "p3", "p4"}
    ClientOf <- MCClientOf
    Responds = {"p1"}
    Options = {"p1"}
    Blocks = 4
    Modulus = 3
    maxAttempts = 2
    maxTransfers = 2
    maxClientTransfers = 1
    MaxTid = 2
    None = None
    Others = {"other"}
INVARIANTS RightsFromLastBind NothingLeft TablesExact FilesArrive ReadOnlyKept
PROPERTIES StopsTogether TransfersEnd
CHECK_DEADLOCK FALSE
