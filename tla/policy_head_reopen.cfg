CONSTANTS
    Openers = {o1}
    Branches = {a, b}
    Links <- MCLinks
    Candidates <- MCCandidates
    NoHead = NoHead
    Torn = Torn
    Hazards = {"kill", "power"}
SPECIFICATION HeadSpec
INVARIANT
    AcceptedHeadKept
