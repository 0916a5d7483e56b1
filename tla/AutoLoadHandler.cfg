SPECIFICATION FairSpec
CONSTANTS
    r1 = r1
    r2 = r2
    w1 = w1
    k1 = k1
    k2 = k2
    k3 = k3
    o1 = o1
    o2 = o2
    Request = {r1, r2}
    Worker = {w1}
    Key = {k1, k2, k3}
    To = {o1, o2}
    MaxElement = 1
    CheckFromCache = TRUE
    SortMayThrow = TRUE
    None = None
INVARIANTS
    TypeOK
    BoundedSize
    RegisteredIsRequested
    QueuedOnce
    LoadingIsTrue
PROPERTIES
    EveryoneIsServed
CHECK_DEADLOCK FALSE
