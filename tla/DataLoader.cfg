SPECIFICATION FairSpec
CONSTANTS
    k1 = k1
    r1 = r1
    r2 = r2
    Key = {k1}
    KeyOf <- OneKey
    Foreign = Foreign
    None = None
    Request = {r1, r2}
    LoadDataTryCnt = 2
INVARIANTS
    TypeOK
    SingleFlight
    NoOrphanEntry
PROPERTIES
    RetryOnlyWhenOverdue
    ImplementsSingleFlight
    OnlyTheDaoHoldsARequest
