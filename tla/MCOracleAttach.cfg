SPECIFICATION Spec
CONSTANTS
    Instances = {i1, i2}
    Aliases = {a1, a2}
    ConnStrings = {u1, u2}
    States = {o1, o2, o3}
    MaxOverlap = 2
    None = None
SYMMETRY MCSymmetry
INVARIANTS
    TypeOK
    EveryCatalogIsRegistered
    AliasResolvesToItsAttach
    NoFallbackManager
    CatalogAndManagerAgree
CHECK_DEADLOCK TRUE
