SPECIFICATION Spec
CONSTANTS
    c1 = c1
    b1 = b1
    h1 = h1
    g1 = g1
    w1 = w1
    w2 = w2
    None = None
    timer = timer
    hand = hand
    Hosts = {timer, hand}
    ByHand = {hand}
    Jobs = {c1, b1, h1, g1}
    Scenarios <- Mixes
    LaneOf <- Lane
    BirthOf <- Birth
    Workers = {w1, w2}
    MaxAttempts = 2
    HeldAttempts = 3
    MaxMishaps = 1
    MaxAdmin = 1
INVARIANTS
    TypeOK
    HeldNeverBuilt
    HostBuildsCharged
PROPERTIES
    Delivered
