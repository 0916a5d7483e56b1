CONSTANTS
    Request = {r1, r2}
    Worker = {w1, w2, w3}
    Key = {k1, k2, k3, k4, k5, k6}
    CoreSize = 2
    Capacity = 2
    None = None
SPECIFICATION Spec
SYMMETRY Symmetry
INVARIANTS
    OneTaskPerKey
    ListedHasTask
CHECK_DEADLOCK FALSE
