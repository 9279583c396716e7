\* Every method of the scheduler over two packages and two generations.
CONSTANTS
    j1 = j1
    j2 = j2
    j3 = j3
    j4 = j4
    A = A
    B = B
    f = f
    Jobs = {j1, j2, j3}
    Classes = {"Cpu", "Io"}
    Packages = {A, B}
    Owners <- OwnersAB
    Shapes <- MixedShapes
    Limits <- TightLimits
    Burst = 1
    FenceCap = 1
SPECIFICATION Spec
SYMMETRY JobSymmetry
INVARIANTS
    TypeOK
    CountersAgree
    LanesHoldTheQueued
    ClosedWorkIsStopping
PROPERTIES
    DrainIsFinal
