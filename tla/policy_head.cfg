CONSTANTS
    Openers = {o1}
    Branches = {a, b}
    Links <- MCLinks
    Candidates <- MCCandidates
    NoHead = NoHead
    Torn = Torn
    Hazards = {"kill", "power", "syncError"}
SPECIFICATION HeadSpec
SYMMETRY Symmetry
INVARIANTS
    TypeOK
    WrittenHeadsHold
    LongestIsWelcome
