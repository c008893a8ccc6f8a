SPECIFICATION LossySpec
CONSTANTS
    None = None
    s1 = s1
    Calls = {c1, c2, c3}
    Orders = {o1, o2}
    Skus = {s1}
    SeedSkus = {s1}
    SeedStock <- MCSeedStock
    Requests <- MCRequests
    MaxAttempts = 2
    PoolSize = 2
SYMMETRY MCSymmetry
INVARIANTS
    ConservedAcrossLoss
PROPERTY
    DurableReservationsStay
