CONSTANTS
    Task = {t1, t2}
    MaxSegments = 1
    NumIds = 2
    Buffers = {TRUE, FALSE}
    Value = {1}
    Garbage = Garbage
    Object = {o1, o2}
    Capacity = 1
    NoTask = NoTask
    NumCPUs = 3
    MaxCalls = 2
SPECIFICATION Spec
SYMMETRY MCSymmetry
INVARIANTS TypeOK RangesConserved PendingRanges WaitAccounting ResultsDelivered CleanShutdown
PROPERTIES ImplementsTaskAware NoLateWrite EveryIdConsumed
