CONSTANTS
    Items <- ThreeItems
    Arms <- TwoArms
    Hazards = {"kill", "power"}
    MaxLines = 3
SPECIFICATION Spec
CHECK_DEADLOCK FALSE
INVARIANT
    ReportedSurvives
