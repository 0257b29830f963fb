SPECIFICATION OrdersSpec
CONSTANTS
    o1 = o1
    o2 = o2
    e1 = e1
    v1 = v1
    p1 = p1
    x1 = x1
    s1 = s1
    small = small
    large = large
    Requests = {o1, o2, e1, v1, p1, x1, s1}
    Visits <- TwoClicksOrOneLife
    KindOf <- Kind
    OrderOf <- About
    ConfigOf <- Config
    RamOf <- Ram
    Threshold = 2
    Second = 2
    TTL = 4
    DedupWindow = 3
    Grace = 0
    LateRenewals = FALSE
    MaxTime = 5
    MaxMishaps = 1
INVARIANTS
    OrdersTypeOK
    DraftsFit
    OneDraftPerClick
PROPERTIES
    PaidDraftsSettle
