\* The typed and operation lanes: terminals only, retained queue first.
CONSTANTS
    r1 = r1
    r2 = r2
    r3 = r3
    r4 = r4
    Requests = {r1, r2, r3, r4}
    Kind <- PlainKinds
    Ordered = FALSE
    PrimaryCap = 1
    RetainedCap = 2
    WorkerCap = 1
    MaxBatches = 0
SPECIFICATION Spec
INVARIANTS
    
    SlotMatchesTerminal
PROPERTIES
    EventuallyTerminal
