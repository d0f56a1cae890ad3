CONSTANTS
    Task = {t1, t2}
    Request = {r1, r2}
    GASPI_TAG_NULL = GASPI_TAG_NULL
    MaxQueues = 2
    NumCheckers = 1
    CreatedQueues = {1}
    ListSize = {1}
    numRequests <- MCnumRequests
    listRequests <- MClistRequests
    BatchSize = 1
SPECIFICATION FairSpec
INVARIANTS TypeOK EventAccounting NoStaleTag
PROPERTIES ImplementsTaskAware FinishedTasksComplete
