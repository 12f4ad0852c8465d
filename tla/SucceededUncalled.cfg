SPECIFICATION Spec
CONSTANTS
    Requests = {r1, r2, r3}
    None = None
    MaxActive = 1
    Faults = {}
SYMMETRY Symmetry
INVARIANTS
    SucceededMeansCalled
