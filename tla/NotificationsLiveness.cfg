CONSTANTS
    Task = {t1, t2}
    MaxSegments = 2
    NumIds = 1
    Buffers = {FALSE}
    Value = {1}
    Garbage = Garbage
    Object = {o1, o2}
    Capacity = 1
    NoTask = NoTask
    NumCPUs = 3
    MaxCalls = 3
SPECIFICATION FairSpec
PROPERTIES CallsReturn FinishedTasksComplete
