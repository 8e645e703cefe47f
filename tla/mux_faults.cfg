CONSTANTS
    Callers = {c1, c2}
    Closers = {k1}
    ReqIds = {i1, i2}
    Nobody = Nobody
    NoId = NoId
    Deadlines = {c1, c2}
    StationFaults = {"exit", "error", "forge", "garble"}
    InCap = 1
    OutCap = 1
SPECIFICATION Spec
SYMMETRY Symmetry
CHECK_DEADLOCK FALSE
INVARIANTS
    TypeOK
    EveryWaiterIsOwed
    AnswersNeverCollide
    FatalStrandsNobody
PROPERTY
    KeepsPromise
