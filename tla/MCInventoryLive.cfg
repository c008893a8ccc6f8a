SPECIFICATION FairSpec
CONSTANTS
    None = None
    s1 = s1
    s2 = s2
    s9 = s9
    Calls = {c1, c2, c3}
    Orders = {o1, o2}
    Skus = {s1}
    SeedSkus = {s1}
    SeedStock <- MCRaceStock
    Requests <- MCRaceRequests
    MaxAttempts = 2
    PoolSize = 2
PROPERTY
    EveryCallAnswered
