SPECIFICATION Spec
CONSTANTS
    None = None
    s1 = s1
    s2 = s2
    s9 = s9
    Calls = {c1, c2, c3}
    Orders = {o1, o2}
    Skus = {s1, s2, s9}
    SeedSkus = {s1, s2}
    SeedStock <- MCSeedStock
    Requests <- MCRequests
    MaxAttempts = 2
    PoolSize = 2
SYMMETRY MCSymmetry
INVARIANTS
    NoOversell
    StockConserved
    RefusalsStayTrue
    ContentionHasWinners
PROPERTIES
    PairedWrites
    RefinesRegistry
