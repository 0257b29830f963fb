SPECIFICATION Spec
CONSTANTS
    alice = alice
    bob = bob
    ca = ca
    cb = cb
    va = va
    p1 = p1
    p2 = p2
    s1 = s1
    w1 = w1
    Accounts = {alice, bob}
    Nobody = Nobody
    Calls = {ca, cb, va, p1, p2, s1, w1}
    KindOf <- Kind
    AccountOf <- Account
    InvoiceOf <- Invoice
    TTL = 1
    PaymentGrace = 2
    MaxSweeps = 2
    Scenarios <- Visits
    Overruns = {p1}
    MaxTime = 2
    MaxMishaps = 1
INVARIANTS
    ShopOwnsAddress
PROPERTIES
    BookUntilOverrun
    HistoryKept
    PaidOrdersGetJob
