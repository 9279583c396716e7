\* History jumps with failures, and tabs that come and go while they load.
CONSTANTS
    t1 = t1
    t2 = t2
    t3 = t3
    a = a
    b = b
    home = home
    alias = alias
    TabIds = {t1, t2, t3}
    Locations = {a, b, home, alias}
    Synthetic = {home}
    Resolve <- Canonical
    InitialTab = t1
    InitialLoc = a
    Scenarios <- HistoryAndWindow
    MaxRequests = 4
    MaxChanges = 0
SPECIFICATION Spec
INVARIANTS
    TypeOK
    ReadyShowsLocation
    CacheHoldsOneListing
    AbandonedWorkCancelled
PROPERTIES
    HistoryIsALine
