CONSTANTS
    Items <- ThreeItems
    Arms <- TwoArms
    Hazards = {"kill", "power", "tear", "name", "syncError", "shortWrite"}
    MaxLines = 3
SPECIFICATION Spec
CHECK_DEADLOCK FALSE
INVARIANTS
    TypeOK
    CrashesReplay
    PolicyMatchesJournal
    AckedSurvives
    LearnedOnce
