CONSTANTS
    t1 = t1
    t2 = t2
    k1 = k1
    k2 = k2
    Account = {a1, a2}
    OrderId = {o1}
    Key = {k1, k2}
    Name = {n1, n2}
    Target = {t1, t2}
    Serves <- MCServes
    Slot = {1, 2}
    None = None
SYMMETRY Interchangeable
SPECIFICATION Spec
INVARIANTS
    SavedStateIsValid
    OpenOrdersAreSound
    NotStranded
PROPERTIES
    AcceptsCurrentProofs
    IssuesToHolders
    OrdersMoveForward
