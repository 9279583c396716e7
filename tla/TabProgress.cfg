\* Searches against loads, and folders that change under a watcher.
CONSTANTS
    t1 = t1
    t2 = t2
    t3 = t3
    a = a
    b = b
    home = home
    alias = alias
    TabIds = {t1}
    Locations = {a, b}
    Synthetic = {}
    Resolve <- Canonical
    InitialTab = t1
    InitialLoc = a
    Scenarios <- SearchAndWatch
    MaxRequests = 3
    MaxChanges = 1
SPECIFICATION Spec

    
PROPERTIES
    CurrentLoadEnds
    SearchEndsSometime
    WatchedChangeShows
