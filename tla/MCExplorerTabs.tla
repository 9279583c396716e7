--------------------------- MODULE MCExplorerTabs ---------------------------
(* Instances of ExplorerTabs for TLC.                                      *)
EXTENDS ExplorerTabs, TLC

CONSTANTS t1, t2, t3, a, b, home, alias

\* alias names the folder a (a bare drive letter, a known folder...).
Canonical == [l \in Locations |-> IF l = alias THEN a ELSE l]

\* Back, Forward and jumps over a line of folders, with failures.
History == [does |-> {"history", "failures"}, tabs |-> {t1},
            folders |-> {a, b, alias}, changing |-> {}, requests |-> 4]

\* Tabs opened, closed, reopened and moved while they load.
Window == [does |-> {"tabs"}, tabs |-> {t1, t2, t3},
           folders |-> {a, home}, changing |-> {}, requests |-> 3]

\* Searches and loads that supersede one another.
Search == [does |-> {"search", "failures"}, tabs |-> {t1},
           folders |-> {a, b}, changing |-> {}, requests |-> 3]

\* A folder that changes while it is listed, watched and left.
Watch == [does |-> {}, tabs |-> {t1},
          folders |-> {a, b}, changing |-> {a}, requests |-> 3]

\* The same with watchers that cannot start or report.
Deaf == [does |-> {"deafness"}, tabs |-> {t1},
         folders |-> {a, b}, changing |-> {a, b}, requests |-> 2]

\* A folder that changes while it is searched.
SearchedWatch == [does |-> {"search"}, tabs |-> {t1},
                  folders |-> {a}, changing |-> {a}, requests |-> 2]

HistoryAndWindow == {History, Window}
SearchAndWatch == {Search, Watch, Deaf, SearchedWatch}
SearchOnly == {[Search EXCEPT !.does = {"search"}, !.folders = {a}]}
=============================================================================
