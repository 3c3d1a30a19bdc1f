SPECIFICATION Spec
CONSTANTS
    Slots = {1, 2}
    Tasks = {1}
    MaxClicks = 3
    Quantities = {0, 3}
    MaxQuantity = 3
INVARIANTS
    TypeOK
    
    
    LockSeen
CHECK_DEADLOCK FALSE
PROPERTIES
    TasksEnd
