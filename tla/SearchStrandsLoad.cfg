\* A search started during a load leaves the load without an end.
CONSTANTS
    t1 = t1
    t2 = t2
    t3 = t3
    a = a
    b = b
    home = home
    alias = alias
    TabIds = {t1}
    Locations = {a}
    Synthetic = {}
    Resolve <- Canonical
    InitialTab = t1
    InitialLoc = a
    Scenarios <- SearchOnly
    MaxRequests = 3
    MaxChanges = 0
SPECIFICATION Spec
PROPERTIES
    LoadEnds
