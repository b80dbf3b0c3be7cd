SPECIFICATION Spec
CONSTANTS
    a1 = a1
    a2 = a2
    k1 = k1
    k2 = k2
    kfree = kfree
    r1 = r1
    r2 = r2
    r3 = r3
    r4 = r4
    NoKey = NoKey
    Agents = {a1}
    Keys = {k1}
    Gated = {k1}
    RowIds = {r1, r2}
    TTL = 1
    Horizon = 2
    MaxRestarts = 1
    Faults = FALSE
    SweeperInstalled = FALSE
CHECK_DEADLOCK FALSE
PROPERTY PendingResolves
