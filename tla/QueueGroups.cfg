CONSTANTS
    Thread = {t1, t2}
    Group = {g1, g2}
    Null = Null
    maxQueueGroups = 2
    NumQueues = {1, 3}
SPECIFICATION FairSpec
INVARIANTS GroupsCounted UsesReadyGroup RoundRobin
PROPERTY CallsReturn
