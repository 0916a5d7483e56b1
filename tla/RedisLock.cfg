SPECIFICATION FairLockSpec
CONSTANTS
    c1 = c1
    c2 = c2
    c3 = c3
    Client = {c1, c2, c3}
    LeaseTime = 4
    NetDelay = 1
    Nobody = Nobody
INVARIANTS
    LockTypeOK
    ExclusiveUnlessReleasedLate
PROPERTIES
    LockGoesAway
