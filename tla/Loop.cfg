SPECIFICATION Spec
CONSTANTS
    QueueDepth = 1
    Rate = 2
    MaxRetries = 1
    MaxFails = 1
INVARIANTS
    TypeOK
    RateLimit
    
PROPERTIES
    NoBurstAfterRecovery
    NeverWedged
    LoopStops
