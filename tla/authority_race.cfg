CONSTANTS
    Grants = {"root", "next"}
    Root = "root"
    Allowed <- RootAllowed
    Issuer <- TwoKeys
    Epoch <- TwoEpochs
    Offered <- SelfSigned
    Paths = {p, q}
    Calls = {c, d}
    Contexts = {x, y}
    Actions = {"a", "b"}
    MaxLines = 2
    MaxRotations = 2
SYMMETRY Interchangeable
SPECIFICATION Spec
INVARIANT AttestedOnHead
