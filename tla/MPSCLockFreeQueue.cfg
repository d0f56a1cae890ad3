CONSTANTS
    Producer = {p1, p2, p3, p4}
    Value = {v1, v2}
    Nil = Nil
    Capacity = 3
    MaxEnqueues = 7
SPECIFICATION FairSpec
INVARIANTS EntryExclusive CountExact
PROPERTIES ImplementsFIFO ObjectsDequeued
