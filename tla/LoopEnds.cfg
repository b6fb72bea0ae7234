SPECIFICATION Spec
CONSTANTS
    QueueDepth = 1
    Rate = 1
    MaxRetries = 0
    MaxFails = 1
INVARIANTS
    LoopEndsOnlyOnStop
