SPECIFICATION Spec
CONSTANTS
    f1 = f1 f2 = f2 form = form staff1 = staff1 staff2 = staff2 backfill = backfill
    None = None
    Calls = {f1, f2, form, staff1, staff2, backfill}
    KindOf <- MCKindOf
    Wanted <- MCWanted
    Scenarios <- MCScenarios
    MaxMishaps = 1
INVARIANTS FulfilledOnce
PROPERTY CancelledFinal
CHECK_DEADLOCK FALSE
