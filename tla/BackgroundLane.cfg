\* The background lane with a column listing and both breadcrumb jobs.
CONSTANTS
    r1 = r1
    r2 = r2
    r3 = r3
    r4 = r4
    Requests = {r1, r2, r3}
    Kind <- BackgroundKinds
    Ordered = TRUE
    PrimaryCap = 1
    RetainedCap = 2
    WorkerCap = 1
    MaxBatches = 2
SPECIFICATION Spec
INVARIANTS
    TypeOK
    AtMostOneTerminal
    QueueOrder
    TerminalBehindBatches
