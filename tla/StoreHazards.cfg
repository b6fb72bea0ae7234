SPECIFICATION Spec
CONSTANTS
    n1 = n1
    n2 = n2
    sweep = sweep
    api = api
    NoNode = NoNode
    Nodes = {n1, n2}
    Vectors = {n1, n2}
    Legacy = {n1}
    Deleters = {sweep}
    Sweeper = sweep
    Hazards <- Everything
    MaxFaults = 1
    MaxCrashes = 1
INVARIANTS
    TypeOK
PROPERTIES
    RecordWrittenOnce
    LockReleased
