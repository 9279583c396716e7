\* The shared session file under crashes, faults, resets and unguarded loads.
CONSTANTS
    p1 = p1
    p2 = p2
    w0 = w0
    Nobody = Nobody
    Procs = {p1, p2}
    Closed = w0
    MaxWindows = 2
    MaxVersion = 2
    Scenarios <- SoundCases
SPECIFICATION Spec
INVARIANTS
    TypeOK
    CleanMeansSaved
    GuardedWritesExclude
PROPERTIES
    SavedVersionsSurvive
    ChangesReachDisk
CHECK_DEADLOCK FALSE
