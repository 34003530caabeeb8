SPECIFICATION Spec
CONSTANTS
    Scans <- MCScans
    Ops = {"<", "IS NULL", "other"}
    BatchSize = 2
    MaxRows = 3
    MaxFilters = 2
    MaxPushdowns = 2
    MaxExecutions = 2
INVARIANTS
    TypeOK
    AlignedFiltersSelectAskedRows
    OutputsShowAskedColumns
    ValuesKeepPromisedType
    AllRowsDelivered
CHECK_DEADLOCK TRUE
