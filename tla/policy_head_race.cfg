CONSTANTS
    Openers = {o1, o2}
    Branches = {a, b}
    Links <- MCLinks
    Candidates <- MCCandidates
    NoHead = NoHead
    Torn = Torn
    Hazards = {}
SPECIFICATION HeadSpec
INVARIANT
    AcceptedHeadKept
