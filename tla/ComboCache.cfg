SPECIFICATION Spec
CONSTANTS
    s1 = s1
    s2 = s2
    t1 = t1
    t2 = t2
    t3 = t3
    t4 = t4
    Server = {s1, s2}
    Thread = {t1, t2, t3, t4}
    ServerOf <- Home
    AutoLoader = {t3}
    Writer = {t1, t2}
    LocalOnly = {}
    Expire = 1
    RenewExpire = 1
    LoadTime = 1
    MaxVersion = 1
    None = None
INVARIANTS
    TypeOK
    BoundedStaleness
    OnlyCarriersBringItBack
