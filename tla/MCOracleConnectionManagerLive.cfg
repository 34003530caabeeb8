SPECIFICATION FairSpec
CONSTANTS
    Clients = {t1, t2, t3}
    ConnStrings = {s1}
    Pools = {p1, p2}
    Contexts = {c1, c2}
    DefaultLimit = 1
    Limits = {1}
    None = None
PROPERTIES
    AcquireReturns
    ImplementsSessionPool
CHECK_DEADLOCK TRUE
