SPECIFICATION Spec
CONSTANTS
    web = web dom = dom o1 = o1 a1 = a1 a2 = a2 p1 = p1 p2 = p2 d1 = d1
    Services = {web, dom}
    Renewable = {web}
    Calls = {o1, a1, a2, p1, p2, d1}
    Ask <- MCAsk
    Scenarios <- MCScenarios
    Cycle = 1
    Year = 2
    Grace = 1
    MaxTime = 3
PROPERTIES NeverBilledEarly CutOnlyWhenOwing SweepCatchesUp
