\* The navigation lane: batches through the primary sender, terminals retained.
CONSTANTS
    r1 = r1
    r2 = r2
    r3 = r3
    r4 = r4
    Requests = {r1, r2, r3}
    Kind <- NavigationKinds
    Ordered = TRUE
    PrimaryCap = 1
    RetainedCap = 2
    WorkerCap = 1
    MaxBatches = 2
SPECIFICATION Spec
PROPERTIES
    EventuallyTerminal
