CONSTANTS
    Callers = {c1, c2}
    Requests <- MCRequests
    Replies <- MCReplies
    Confidences = {98, 97}
    Verifications <- MCVerifications
    MaxRestarts = 1
    MaxCalls = 3
SPECIFICATION Spec
SYMMETRY Symmetry
CHECK_DEADLOCK FALSE
INVARIANTS
    OneVerification
    ResultIsOneExecution
