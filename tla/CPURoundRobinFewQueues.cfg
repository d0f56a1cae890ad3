CONSTANTS
    Machine <- MCManyNodes0
    Groups <- MCFewQueues
    Unset = Unset
SPECIFICATION Spec
INVARIANT OneToOne
