SPECIFICATION Spec
CONSTANTS
    Instances = {i1, i2}
    Aliases = {a1, a2}
    ConnStrings = {u1, u2}
    States = {o1, o2, o3}
    MaxOverlap = 1
    None = None
SYMMETRY MCSymmetry
INVARIANTS
    AttachedUsesItsConnString
CHECK_DEADLOCK TRUE
