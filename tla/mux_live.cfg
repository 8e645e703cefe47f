CONSTANTS
    Callers = {c1, c2}
    Closers = {k1}
    ReqIds = {i1, i2}
    Nobody = Nobody
    NoId = NoId
    Deadlines = {c1}
    StationFaults = {"exit", "error"}
    InCap = 1
    OutCap = 1
SPECIFICATION FairSpec
CHECK_DEADLOCK FALSE
INVARIANTS
    HonestStationIsTrusted
PROPERTIES
    EvaluateReturns
    CloseReturns
