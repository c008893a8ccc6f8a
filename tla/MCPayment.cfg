SPECIFICATION FairSpec
CONSTANTS
    None = None
    Calls = {c1, c2, c3}
    Orders = {o1, o2}
    Requests <- MCRequests
    PoolSize = 2
INVARIANTS
    LoserSeesWinner
    ChargedOnce
PROPERTIES
    RefinesRegistry
    EveryChargeAnswered
