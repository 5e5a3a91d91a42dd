CONSTANTS
    t1 = t1
    t2 = t2
    k1 = k1
    k2 = k2
    Account = {a1}
    OrderId = {o1, o2}
    Key = {k1, k2}
    Name = {n1}
    Target = {t1, t2}
    Serves <- MCServes
    Slot = {1}
    None = None
SPECIFICATION FairSpec
PROPERTIES
    ChecksEnd
