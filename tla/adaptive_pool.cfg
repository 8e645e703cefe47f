CONSTANTS
    c1 = c1
    c2 = c2
    c3 = c3
    i1 = i1
    i2 = i2
    i3 = i3
    Callers = {c1, c2, c3}
    ReqIds = {i1, i2, i3}
    Picks <- ThreePicks
    N = 2
    MaxInFlight = 1
    Latencies = {1, 4}
    InitialLatency = 2
    AlphaNum = 1
    AlphaDen = 2
SPECIFICATION FairSpec
CHECK_DEADLOCK FALSE
INVARIANTS
    TypeOK
    CallsAccountedFor
    OneAdmissionPerId
    ColdSampleFirst
PROPERTY
    RetriesEnd
