CONSTANTS
    Process = {p1, p2}
    Config = {c1, c2}
    Service <- MCServices
    RootLifetime = 3
    LeafLifetime = 2
    ListLifetime = 1
    RenewBefore = 1
    ClockSkew = 1
    MaxTime = 3
    None = None
    Unreadable = Unreadable
    Spelling <- MCSpelling
    canonical <- MCCanonical
    Authorized <- MCAuthorized
SPECIFICATION Spec
SYMMETRY MCSymmetry
CONSTRAINT OneOwner
INVARIANTS
    DirectorySound
    CertificatesAreValid
    RenewsOnce
PROPERTIES
    RootForGood
