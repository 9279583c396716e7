\* A job passed over at its package's limit is overtaken for ever.
CONSTANTS
    j1 = j1
    j2 = j2
    j3 = j3
    j4 = j4
    A = A
    B = B
    f = f
    Jobs = {j1, j2, j3, j4}
    Classes = {"Cpu"}
    Packages = {A, B}
    Owners <- OwnersAB
    Shapes <- SharedLane
    Limits <- SharedLimits
    Burst = 1
    FenceCap = 1
SPECIFICATION WorkSpec
PROPERTIES
    NoStarvation
