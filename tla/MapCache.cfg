CONSTANTS
    Request = {r1}
    PlainKey = {p1}
    HashKey = {h1}
    Field = {f1}
    Hash = {a1, a2}
    Value = {v1}
    UnpersistMaxSize = 0
    MaxChanged = 2
    Dead = Dead
    None = None
SPECIFICATION Spec
SYMMETRY Symmetry
VIEW View
INVARIANTS
    TypeOK
    UnsavedIsCounted
CHECK_DEADLOCK TRUE
