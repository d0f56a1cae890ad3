CONSTANTS
    MaxQueues = 3
    NumCheckers = 2
    NumCPUs = 2
    AlpiErrors = TRUE
    Group = {g1}
    MaxInits = 1
SPECIFICATION Spec
INVARIANT SymbolsLoaded
