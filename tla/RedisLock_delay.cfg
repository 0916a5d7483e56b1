SPECIFICATION LockSpec
CONSTANTS
    c1 = c1
    c2 = c2
    c3 = c3
    Client = {c1, c2, c3}
    LeaseTime = 3
    NetDelay = 1
    Nobody = Nobody
INVARIANTS
    Exclusive
