SPECIFICATION Spec
CONSTANTS
    Scans <- TwoColumns
    Ops = {"=", "IS NULL", "other"}
    BatchSize = 2
    MaxRows = 2
    MaxFilters = 1
    MaxPushdowns = 1
    MaxExecutions = 1
INVARIANTS
    FiltersSelectAskedRows
CHECK_DEADLOCK TRUE
