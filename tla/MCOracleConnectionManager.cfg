SPECIFICATION Spec
CONSTANTS
    Clients = {t1, t2, t3}
    ConnStrings = {s1, s2}
    Pools = {p1, p2, p3}
    Contexts = {c1, c2, c3}
    DefaultLimit = 1
    Limits = {1, 3}
    None = None
SYMMETRY MCSymmetry
INVARIANTS
    TypeOK
    SessionAccounting
    WithinLimit
    ExclusiveSessions
    LiveSessions
    OwnSession
PROPERTIES
    CapacityIsAnnounced
CHECK_DEADLOCK TRUE
