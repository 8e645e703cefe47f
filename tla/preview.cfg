CONSTANTS
    Handlers = {r1, r2, r3}
    Slots = 2
    Capacity = 2
    Actions <- MCActions
SPECIFICATION Spec
SYMMETRY Symmetry
INVARIANTS
    OneDispatch
    ReservedAreUsed
    VerifiedIsReproducible
