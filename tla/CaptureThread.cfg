SPECIFICATION Spec
CONSTANTS
    Slots = 5
    WithDXGI = TRUE
CHECK_DEADLOCK FALSE
INVARIANTS
    TypeOK
    
    
    OneAtATime
PROPERTIES
    AllGivenBack
