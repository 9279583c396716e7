\* Two dispatches under disable, enable, remove and shutdown, with and without a UI mailbox.
CONSTANTS
    j1 = j1
    j2 = j2
    f1 = f1
    f2 = f2
    Jobs = {j1, j2}
    Features = {f1, f2}
    MaxEpoch = 2
    MaxQueue = 2
    MaxRows = 1
    MaxActive = 2
    ReadyCap = 1
    MaxGen = 2
    Setups <- HostSetups
SPECIFICATION Spec
SYMMETRY JobSymmetry
INVARIANTS
    TypeOK
    CountersAgree
    RevokedShowsNothing
    OldRowsAreDead
    DisabledHidesValues
    QueuedIsAnnounced
PROPERTIES
    RetirementIsFinal
    ImplementsFence
CHECK_DEADLOCK FALSE
