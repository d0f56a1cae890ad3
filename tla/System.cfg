CONSTANTS
    Task = {t1}
    Request = {r1, r2}
    GASPI_TAG_NULL = GASPI_TAG_NULL
    MaxQueues = 1
    NumCheckers = 1
    CreatedQueues = {0}
    ListSize = {1}
    numRequests <- MCnumRequests
    listRequests <- MClistRequests
    BatchSize = 1
    MaxSegments = 1
    NumIds = 1
    Buffers = {TRUE, FALSE}
    Value = {1}
    Garbage = Garbage
    Object = {o1}
    Capacity = 1
    NoTask = NoTask
    NumCPUs = 2
    MaxCalls = 2
SPECIFICATION Spec
SYMMETRY MCSymmetry
INVARIANT SharedAccounting
PROPERTY ImplementsTaskAware
