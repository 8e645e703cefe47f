CONSTANTS
    Items <- ThreeItems
    Arms <- TwoArms
    Hazards = {"power", "name"}
    MaxLines = 3
SPECIFICATION Spec
CHECK_DEADLOCK FALSE
INVARIANT
    ReportedSurvives
