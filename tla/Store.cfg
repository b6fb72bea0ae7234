SPECIFICATION Spec
CONSTANTS
    n1 = n1
    n2 = n2
    sweep = sweep
    api = api
    NoNode = NoNode
    Nodes = {n1, n2}
    Vectors = {n1, n2}
    Legacy = {n1}
    Deleters = {sweep, api}
    Sweeper = sweep
    Hazards <- ToleratedErrors
    MaxFaults = 2
    MaxCrashes = 2
INVARIANTS
    NoOrphan
    Searchable
PROPERTIES
    EntryOutlivesFile
    ImplementsNodeLife
    OldNodesGo
    OldEntriesGo
