CONSTANTS
    h1 = h1
    h2 = h2
    h3 = h3
    Calls = {c1, c2}
    MaxConcurrent = 1
    Keys = {k1, k2}
    StartInputs <- MCStartInputs
    Heads = {h1, h2, h3}
    Bases = {"b1", "b2"}
    Files <- MCFiles
    MaxFiles = 1
    Texts = {"t1"}
    MaxRuns = 2
    MaxContracts = 1
SPECIFICATION CodingSpec
SYMMETRY Symmetry
INVARIANTS
    ReceiptIsEarned
    FilesWithinScope
    GreenTogether
