CONSTANTS
    c1 = c1
    c2 = c2
    c3 = c3
    i1 = i1
    i2 = i2
    i3 = i3
    Callers = {c1, c2, c3}
    ReqIds = {i1, i2, i3}
    Picks <- ThreePicks
    N = 1
    MaxInFlight = 1
    Latencies = {4}
    InitialLatency = 1
    AlphaNum = 1
    AlphaDen = 2
SPECIFICATION Spec
CHECK_DEADLOCK FALSE
INVARIANT
    QueueExposureBounded
