SPECIFICATION BrokerSpec
CONSTANTS
    s1 = s1 s2 = s2 a = a c = c
    Sessions = {s1, s2}
    PageSize = 1
    Accounts = {a}
    AccountOf <- MCAccountOf
    Containers = {c}
    ContainerOf <- MCContainerOf
    PerAccount = 1
    GlobalMax = 2
    Scenarios <- MCScenarios
INVARIANTS CapsHeld OneEnd
PROPERTIES SlotsReturn OrphansReaped ExpiredPurged PointerLast
CHECK_DEADLOCK FALSE
