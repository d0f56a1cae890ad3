CONSTANTS
    MaxQueues = 2
    NumCheckers = 3
    NumCPUs = 2
    AlpiErrors = TRUE
    Group = {g1, g2}
    MaxInits = 2
SPECIFICATION FairSpec
INVARIANTS InstanceAlive PollingSafe QueuesDivided TerminatedClean
PROPERTY TerminationEnds
