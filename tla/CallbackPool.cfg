SPECIFICATION Spec
CONSTANTS
    Slots = 8
    WithDXGI = FALSE
CHECK_DEADLOCK FALSE
INVARIANTS
    SlotsSuffice
