CONSTANTS
    Source = {s1, s2}
    Account = {a1, a2, a3}
    maxAccounts = 2
    maxAccountOrders = 2
    maxLeaseAccounts = 1
    maxLeaseOrders = 2
    maxRecords = 1
    orderRateWindow = 2
    accountRateWindow = 3
    orderLifetime = 3
    accountIdleLifetime = 4
    CertLifetime = 5
    MaxTime = 5
SYMMETRY Interchangeable
SPECIFICATION Spec
INVARIANTS
    QuotasHold
PROPERTIES
    OnlyIdleRemoved
