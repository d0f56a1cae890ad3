CONSTANTS
    Machine <- MCMachine
    Groups <- MCGroups
    Unset = Unset
SPECIFICATION FairSpec
INVARIANTS HardwareKnown QueuesOfGroup NUMASeparation
 
