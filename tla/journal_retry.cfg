CONSTANTS
    Items <- ThreeItems
    Arms <- TwoArms
    Hazards = {"syncError"}
    MaxLines = 3
SPECIFICATION Spec
CHECK_DEADLOCK FALSE
INVARIANT
    JournalReplays
