\* A terminal overtakes the batches published before it.
CONSTANTS
    r1 = r1
    r2 = r2
    r3 = r3
    r4 = r4
    Requests = {r1, r2}
    Kind <- NavigationKinds
    Ordered = TRUE
    PrimaryCap = 1
    RetainedCap = 2
    WorkerCap = 1
    MaxBatches = 3
SPECIFICATION Spec
INVARIANTS
    DeliveryOrder
