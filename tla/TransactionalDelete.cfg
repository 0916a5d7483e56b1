CONSTANTS
    Thread = {t1, t2}
    Key = {k1, k2}
    MaxDepth = 3
    None = None
SPECIFICATION Spec
SYMMETRY Symmetry
INVARIANTS
    TypeOK
    CleanUnlessGivenUp
    KeysRemembered
PROPERTY
    DeletesOnlyAtTheEnd
CHECK_DEADLOCK TRUE
