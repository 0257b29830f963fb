SPECIFICATION Spec
CONSTANTS
    u1 = u1 u2 = u2 u3 = u3 d1 = d1 d2 = d2 d3 = d3 a1 = a1 a2 = a2
    Resources = {u1}
    Builds = {d1}
    Attempts = {a1}
    None = None
    MaxAttempts = 2
    MaxMishaps = 0
    MaxOverlaps = 0
    MaxCalls = 1
INVARIANTS NothingLeft
CHECK_DEADLOCK FALSE
