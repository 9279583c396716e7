----------------------- MODULE MCExtensionScheduler -----------------------
(* Instances of ExtensionScheduler for TLC.                                *)
EXTENDS ExtensionScheduler, TLC

CONSTANTS j1, j2, j3, j4, A, B, f

JobSymmetry == Permutations(Jobs)

AF == [package |-> A, feature |-> f]
BF == [package |-> B, feature |-> f]

OwnersAB == {AF, BF}

Shape(o, e, c, p) == [owner |-> o, epoch |-> e, class |-> c, priority |-> p]

\* Two packages, two generations of the first one, two priorities and both
\* resource classes.
MixedShapes ==
    {Shape(AF, 1, "Cpu", 0), Shape(AF, 2, "Cpu", 3), Shape(BF, 1, "Cpu", 3),
     Shape(BF, 1, "Io", 0)}

\* One lane shared by two packages.
SharedLane == {Shape(AF, 1, "Cpu", 3), Shape(BF, 1, "Cpu", 3)}

TightLimits ==
    [c \in Classes |-> [queued |-> 2, queuedPer |-> 2, running |-> 2, runningPer |-> 1]]

SharedLimits ==
    [c \in Classes |-> [queued |-> 3, queuedPer |-> 3, running |-> 2, runningPer |-> 1]]
=============================================================================
