SPECIFICATION Spec
CONSTANTS
    k1 = k1
    k2 = k2
    t1 = t1
    t2 = t2
    Thread = {t1, t2}
    Key = {k1, k2}
    Calls <- Batches
    Initially = {k2}
    Strangers = {k2}
    ReturnsArray = {t1}
    ReturnsNull = {t2}
    MaxUpdates = 1
    Null = Null
    Absent = Absent
INVARIANTS
    TypeOK
    MatchedToTheCall
    StaleIsLate
    ArraysFit
PROPERTIES
    NoPenetration
