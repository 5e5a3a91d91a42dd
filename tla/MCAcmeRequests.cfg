SPECIFICATION Spec
CONSTANTS
    Account = {"a1", "a2"}
    Cert = {"x1"}
    Handler = {h1, h2}
    Owner <- MCOwner
    CertKey <- MCCertKey
    Name = {"n1", "n2"}
    Names <- MCNames
    Host = {"p", "q"}
    Authorizations <- MCAuthorizations
    FirstKey <- MCFirstKey
    Message <- MCMessage
    maxNonces = 3
    MaxIssued = 4
    None = None
SYMMETRY HandlerSymmetry
INVARIANTS AtMostOnce NoncesKept
PROPERTY CurrentAuthority
