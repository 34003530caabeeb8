SPECIFICATION Spec
CONSTANTS
    Threads = {t1, t2}
    Schemas = {HR, APP}
    Current = HR
    Main = Main
    Objects = {A, B}
    Version = v21
    None = None
    Options <- TwoOptions
    MaxChanges = 1
SYMMETRY Symmetries
INVARIANTS
    TypeOK
    ScanSeesVersion
    MainIsCurrent
    MainListedForCurrent
    ClearShowsObjects
