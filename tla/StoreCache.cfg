SPECIFICATION Spec
CONSTANTS
    n1 = n1
    n2 = n2
    sweep = sweep
    api = api
    NoNode = NoNode
    Nodes = {n1, n2}
    Vectors = {n1, n2}
    Legacy = {n1}
    Deleters = {sweep, api}
    Sweeper = sweep
    Hazards = {}
    MaxFaults = 0
    MaxCrashes = 0
INVARIANTS
    CacheInSync
