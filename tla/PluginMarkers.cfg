\* Three launches that overlap, crash, panic and confirm, over two callbacks.
CONSTANTS
    a = a
    b = b
    MaxLaunches = 3
    MaxAlive = 2
    Callbacks = {a, b}
    MaxCalls = 3
    MaxFaults = 1
SPECIFICATION Spec
SYMMETRY CallbackSymmetry
INVARIANTS
    TypeOK
    MarkedWhileInside
    
    IncidentHasOneOwner

    
CHECK_DEADLOCK FALSE
