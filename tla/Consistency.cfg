SPECIFICATION FairSpec
CONSTANTS
    s1 = s1
    s2 = s2
    r1 = r1
    r2 = r2
    f1 = f1
    a1 = a1
    w1 = w1
    Server = {s1, s2}
    Request = {r1}
    Refresher = {f1}
    AutoLoader = {a1}
    Writer = {w1}
    ServerOf <- Home
    Expire = 2
    RenewExpire = 1
    MaxVersion = 1
    None = None
INVARIANTS
    TypeOK
    OnlyTheLateBringItBack
    OthersAreUpToDate
PROPERTIES
    Converges
