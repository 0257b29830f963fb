SPECIFICATION Spec
CONSTANTS
    j1 = j1 j2 = j2 p1 = p1 p2 = p2 t1 = t1 t2 = t2
    None = None
    Ticks = {t1, t2}
    Processes = {p1, p2}
    ProcessOf <- TwoProcesses
    Jobs = {j1, j2}
    Buildable = {j1, j2}
    Premium = {j1}
    MaxAttempts = 2
    SlowBuilds = TRUE
    Scenarios <- OnePassOrTwo
    MaxMishaps = 2
    MaxAdmin = 1
INVARIANTS ClaimsBounded
PROPERTIES Settles 
