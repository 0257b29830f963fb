SPECIFICATION Spec
CONSTANTS
    u1 = u1 u2 = u2 u3 = u3 d1 = d1 d2 = d2 d3 = d3 a1 = a1 a2 = a2
    Resources = {u1, u2, u3}
    Builds = {d1, d2, d3}
    Attempts = {a1, a2}
    None = None
    MaxAttempts = 2
    MaxMishaps = 1
    MaxOverlaps = 1
    MaxCalls = 1
SYMMETRY UuidSymmetry
INVARIANTS FewResources FewBuilds VerdictsFit
CHECK_DEADLOCK FALSE
