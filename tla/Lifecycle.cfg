SPECIFICATION Spec
CONSTANTS
    Processes = {p1, p2}
    MaxLaunches = 3
    MaxFaults = 2
CHECK_DEADLOCK FALSE
INVARIANTS
    TypeOK
    
    WipedStaysUnreadable
PROPERTIES
    StopEnds
