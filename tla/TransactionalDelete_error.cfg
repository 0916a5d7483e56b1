CONSTANTS
    Thread = {t1}
    Key = {k1, k2}
    MaxDepth = 2
    None = None
SPECIFICATION Spec
INVARIANT
    NothingOwedAtRest
