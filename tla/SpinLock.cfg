CONSTANTS
    Thread = {t1, t2, t3}
    Size = 2
    MaxTickets = 6
SPECIFICATION FairSpec
INVARIANTS TypeOK MutualExclusion
PROPERTIES ImplementsFairLock LockReturns
CHECK_DEADLOCK FALSE
