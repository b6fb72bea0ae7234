SPECIFICATION Spec
CONSTANTS
    Capacity = 3
    MaxPushes = 8
INVARIANTS
    TypeOK
    HoldsNewest
    DeadSlotsReleased
    NoLostWakeup
PROPERTIES
    FreshInOrder
    
    ImplementsDropOldest
