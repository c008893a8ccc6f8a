SPECIFICATION FairSpec
CONSTANTS
    None = None
    noAmount = noAmount
    Calls = {c1, c2}
    Orders = {o1}
    Items = {i1, i2}
    Amounts = {noAmount, a1, a2}
    Requests <- MCRequests
    BadRequests <- MCBadRequests
INVARIANTS
    ChargedImpliesReserved
    CompletedIsRecorded
    ConflictIsFinal
PROPERTY
    RefinesLifecycle
    EveryCheckoutAnswered
