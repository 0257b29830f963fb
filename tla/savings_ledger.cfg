SPECIFICATION Spec
CONSTANTS
    pos = pos dom = dom mail = mail b1 = b1 b2 = b2 b3 = b3 p1 = p1 p2 = p2 k = k x = x m = m
    Nobody = Nobody
    Services = {pos, dom, mail}
    Primary = pos
    Companions = {mail}
    Calls = {b1, b2, b3, p1, p2, k, x, m}
    Monthly <- MCMonthly
    Setup <- MCSetup
    Saving <- MCSaving
    CallKind <- MCCallKind
    Wants <- MCWants
    Scenarios <- MCScenarios
    MaxFailures = 2
INVARIANTS TypeOK OneDiscountPerPairing DiscountsRecorded QuotedInFull
PROPERTIES LockFreed
CHECK_DEADLOCK FALSE
