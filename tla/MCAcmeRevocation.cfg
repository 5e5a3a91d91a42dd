CONSTANTS
    Certificate = {x1, x2, x3}
    MaxNumber = 4
SYMMETRY CertSymmetry
SPECIFICATION RevocationSpec
INVARIANTS
    ConfirmedIsListed
PROPERTIES
    OneListPerNumber
