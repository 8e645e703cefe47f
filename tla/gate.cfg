CONSTANTS
    Callers = {c1, c2}
    Root <- MCRoot
    Presented <- MCPresented
    Requests <- MCRequests
    Policies <- MCPolicies
    Evidences <- MCEvidences
    Handlers <- MCHandlers
SPECIFICATION GateSpec
SYMMETRY Symmetry
INVARIANTS
    NoSilentWeakening
    ResultOfOnePolicy
