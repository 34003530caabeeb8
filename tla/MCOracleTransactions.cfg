SPECIFICATION FairSpec
CONSTANTS
    w1 = w1
    w2 = w2
    e1 = e1
    x1 = x1
    x2 = x2
    c1 = c1
    c2 = c2
    c3 = c3
    Clients <- MCClients
    Copies <- MCCopies
    Executions <- MCExecutions
    Txns <- MCTxns
    Contexts = {c1, c2}
    ConnStrings = {s1}
    None = None
    MaxBatches = 2
    RowsPerBatch = 2
INVARIANTS
    TypeOK
    RunningCopyIntact
    RowsOnce
    LeftoversAreOfFailedCopies
    SessionsFollowWork
PROPERTIES
    KeepsCopyContract
    CopyReturnsSession
CHECK_DEADLOCK TRUE
