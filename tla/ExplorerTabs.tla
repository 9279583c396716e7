---------------------------- MODULE ExplorerTabs ----------------------------
(***************************************************************************)
(* One Explorer window: its tabs (explorer-model window.rs, navigation.rs),*)
(* the commands and the presentation gate of the UI (explorer-ui state.rs, *)
(* lib.rs), the Shell STA thread that lists folders and the directory      *)
(* watchers it starts (explorer-shell-win sta.rs, watcher.rs).             *)
(*                                                                         *)
(* A row is <<l, v>>: folder l as it was after v changes, so a listing of l*)
(* is one row and a stale or foreign listing is told apart by its row.     *)
(* Request identifiers are positions in `requests`.  Selection, columns,   *)
(* view settings and the texts of the address bar are left out.            *)
(***************************************************************************)
EXTENDS Naturals, Sequences, SequencesExt

CONSTANTS
    TabIds,       \* identities a tab can be given
    Locations,    \* folders
    Synthetic,    \* the folders the UI lists by itself (Home, Favorites...)
    Resolve,      \* Resolve[l]: the canonical descriptor the Shell gives l
    InitialTab,   \* the tab the window opens with
    InitialLoc,   \* and its location
    Scenarios,    \* what users and environment do: the kinds of behaviour in
                  \* play, and bounds on tabs, folders, changing folders
                  \* and requests
    MaxRequests,  \* bound: requests ever issued in any scenario
    MaxChanges    \* bound: changes ever made to a folder

AllBehaviours == {"history", "search", "tabs", "failures", "deafness"}

ASSUME TabsAssumption ==
    /\ InitialTab \in TabIds
    /\ InitialLoc \in Locations
    /\ Synthetic \subseteq Locations
    /\ Resolve \in [Locations -> Locations]
    /\ \A l \in Locations : Resolve[Resolve[l]] = Resolve[l]
    /\ Resolve[InitialLoc] = InitialLoc
    /\ \A l \in Synthetic : Resolve[l] = l
    /\ MaxRequests \in Nat \ {0}
    /\ MaxChanges \in Nat
    /\ \A s \in Scenarios : /\ s.does \subseteq AllBehaviours
                            /\ s.tabs \subseteq TabIds
                            /\ s.folders \subseteq Locations
                            /\ s.changing \subseteq Locations
                            /\ s.requests \in 1..MaxRequests

VARIABLES
    scenario,   \* the scenario of this behaviour, chosen at the start
    order,      \* ExplorerWindowState.tabs, in presentation order
    active,     \* active_tab_id
    tab,        \* tab[t]: the state of tab t
    closed,     \* recently_closed: [index, back, cur, fwd], latest last
    used,       \* tab identities given out so far
    cache,      \* DirectorySnapshotCache: the rows cached per folder
    requests,   \* requests[i]: tab, generation, kind and folder of request i
    cancelled,  \* requests whose CancellationToken is set
    svc,        \* svc[i]: how far the service is with request i
    mail,       \* mail[i]: events of request i the UI has not drained
    watch,      \* watch[t]: the directory watcher of tab t
    notices,    \* DirectoryChanged events the UI has not drained
    disk,       \* disk[l]: number of changes made to folder l
    missed      \* (history) tabs whose folder changed, since it was last
                \* read, and no watcher of their generation reported it, or
                \* a search took the generation before the report was drained

vars == <<order, active, tab, closed, used, cache, requests, cancelled, svc,
          mail, watch, notices, disk, missed, scenario>>

uiVars == <<order, active, closed, used>>
svcVars == <<svc, mail, watch, notices, disk, missed>>

Open == {order[i] : i \in 1..Len(order)}

NoPending == [direction |-> "none", steps |-> 0]
NoWatch == [loc |-> InitialLoc, gen |-> 0]

TabAt(back, cur, fwd) ==
    [gen |-> 0, back |-> back, cur |-> cur, fwd |-> fwd, pending |-> NoPending,
     dir |-> "Idle", req |-> 0, rows |-> {}, seen |-> {},
     search |-> "Idle", sreq |-> 0, hits |-> FALSE]

Init ==
    /\ order = <<InitialTab>>
    /\ active = InitialTab
    /\ tab = [t \in TabIds |-> TabAt(<<>>, InitialLoc, <<>>)]
    /\ closed = <<>>
    /\ used = {InitialTab}
    /\ cache = [l \in Locations |-> {}]
    /\ requests = <<>>
    /\ cancelled = {}
    /\ svc = <<>>
    /\ mail = <<>>
    /\ watch = [t \in TabIds |-> NoWatch]
    /\ notices = {}
    /\ disk = [l \in Locations |-> 0]
    /\ missed = {}
    /\ scenario \in Scenarios

Listing(l) == {<<l, disk[l]>>}

-----------------------------------------------------------------------------
(* Transitions of one tab: each takes the tab's record and returns the new *)
(* one.                                                                    *)

\* NavigationHistory::commit_navigation; committing the current location again
\* is a Refresh and adds no history.
CommitNavigation(tb, l) ==
    IF tb.cur = l THEN tb
    ELSE [tb EXCEPT !.back = Append(@, tb.cur), !.cur = l, !.fwd = <<>>]

CommitBackSwapped(tb, l, k) ==
    LET d == Len(tb.back) - k + 1
    IN IF d < 1 \/ tb.back[d] # l THEN tb
       ELSE [tb EXCEPT !.back = SubSeq(@, 1, d - 1), !.cur = l,
                       !.fwd = (@ \o Reverse(SubSeq(tb.back, d + 1, Len(tb.back))))
                                  \o <<tb.cur>>]

\* commit_back_steps: the entries crossed move to the forward stack, nearest
\* last.  A location that is not the entry's leaves the history alone.
CommitBack(tb, l, k) ==
    LET d == Len(tb.back) - k + 1
    IN IF d < 1 \/ tb.back[d] # l THEN tb
       ELSE [tb EXCEPT !.back = SubSeq(@, 1, d - 1), !.cur = l,
                       !.fwd = Append(@, tb.cur)
                                 \o Reverse(SubSeq(tb.back, d + 1, Len(tb.back)))]

\* commit_forward_steps, the mirror image.
CommitForward(tb, l, k) ==
    LET d == Len(tb.fwd) - k + 1
    IN IF d < 1 \/ tb.fwd[d] # l THEN tb
       ELSE [tb EXCEPT !.fwd = SubSeq(@, 1, d - 1), !.cur = l,
                       !.back = Append(@, tb.cur)
                                  \o Reverse(SubSeq(tb.fwd, d + 1, Len(tb.fwd)))]

ResolvedLeavesHistory(tb, l) == [tb EXCEPT !.pending = NoPending]

\* commit_resolved_location.  The pending jump is the one of the loading
\* request: beginning any other load clears it.
Resolved(tb, l) ==
    LET p == tb.pending
        cleared == [tb EXCEPT !.pending = NoPending]
    IN IF p.direction = "none" THEN CommitNavigation(tb, l)
       ELSE IF p.direction = "back" THEN CommitBack(cleared, l, p.steps)
       ELSE CommitForward(cleared, l, p.steps)

\* DirectoryState::merge_batch
Merged(tb, rows) == [tb EXCEPT !.rows = @ \cup rows, !.seen = @ \cup rows]

\* DirectoryState::finish keeps the rows this request has listed.
Finished(tb) == [tb EXCEPT !.dir = "Ready", !.rows = @ \cap tb.seen, !.seen = {}]

\* reject_history_navigation and DirectoryState::fail
Failed(tb) == [tb EXCEPT !.dir = "Error", !.pending = NoPending, !.seen = {}]

\* finish_search
SearchEnded(tb, outcome) ==
    [tb EXCEPT !.search =
        IF outcome = "Error" /\ tb.hits THEN "Partial" ELSE outcome]

\* cancel_search
LeftSearch(tb) == [tb EXCEPT !.search = "Idle", !.hits = FALSE]

\* begin_navigation_request_with_snapshot and begin_refresh_request: rows is
\* what the tab shows until the listing arrives.
Loading(tb, i, rows) ==
    [LeftSearch(tb) EXCEPT !.gen = @ + 1, !.pending = NoPending,
                           !.dir = "Loading", !.req = i, !.rows = rows,
                           !.seen = {}]

\* begin_search_request
Searching(tb, i) ==
    [tb EXCEPT !.gen = @ + 1, !.search = "Loading", !.sreq = i, !.hits = FALSE]

-----------------------------------------------------------------------------
(* Issuing a request                                                       *)

NextId == Len(requests) + 1
CanIssue == NextId <= scenario.requests

LoadOf(tb) == IF tb.dir = "Loading" THEN {tb.req} ELSE {}
SearchOf(tb) == IF tb.search = "Loading" THEN {tb.sreq} ELSE {}

\* The service takes request NextId, or refuses it (Overloaded): then
\* submit_command applies a Failed event for it at once.
Enqueue(t, kind, l, stage) ==
    /\ requests' = Append(requests, [tab |-> t, gen |-> tab[t].gen + 1,
                                     kind |-> kind, loc |-> l])
    /\ svc' = Append(svc, stage)
    /\ mail' = Append(mail, <<>>)

\* submit_command for a Navigate or Refresh of l on a tab whose record is
\* already tb.  The UI lists a synthetic folder itself, in the same call; no
\* synthetic folder has a cache key.
SubmitLoad(t, tb, l) ==
    /\ \/ /\ l \in Synthetic
          /\ Enqueue(t, "load", l, "done")
          /\ tab' = [tab EXCEPT ![t] = Finished(Merged(Resolved(tb, l), Listing(l)))]
       \/ /\ l \notin Synthetic
          /\ Enqueue(t, "load", l, "queued")
          /\ tab' = [tab EXCEPT ![t] = tb]
       \/ /\ l \notin Synthetic
          /\ "failures" \in scenario.does
          /\ Enqueue(t, "load", l, "done")
          /\ tab' = [tab EXCEPT ![t] = Failed(tb)]
    /\ UNCHANGED <<watch, disk, missed>>

\* Begin the load of l and submit it: the loading request and the running
\* search of the tab are cancelled.
BeginLoad(t, tb, l, rows, pending) ==
    /\ CanIssue
    /\ cancelled' = cancelled \cup LoadOf(tb) \cup SearchOf(tb)
    /\ SubmitLoad(t, [Loading(tb, NextId, rows) EXCEPT !.pending = pending], l)

\* begin_active_navigation: a folder visited before shows its cached rows.
Navigate(l) ==
    /\ BeginLoad(active, tab[active], l, cache[l], NoPending)
    /\ UNCHANGED uiVars /\ UNCHANGED <<cache, notices>>

\* begin_refresh_navigation: the rows shown stay until the listing converges.
Refresh ==
    /\ LET tb == tab[active]
       IN BeginLoad(active, tb, tb.cur, tb.rows, NoPending)
    /\ UNCHANGED uiVars /\ UNCHANGED <<cache, notices>>

\* begin_back_navigation, begin_history_navigation: history is not touched
\* until the destination resolves.
Back(k) ==
    /\ "history" \in scenario.does
    /\ k <= Len(tab[active].back)
    /\ LET tb == tab[active]
           l == tb.back[Len(tb.back) - k + 1]
       IN BeginLoad(active, tb, l, cache[l], [direction |-> "back", steps |-> k])
    /\ UNCHANGED uiVars /\ UNCHANGED <<cache, notices>>

Forward(k) ==
    /\ "history" \in scenario.does
    /\ k <= Len(tab[active].fwd)
    /\ LET tb == tab[active]
           l == tb.fwd[Len(tb.fwd) - k + 1]
       IN BeginLoad(active, tb, l, cache[l], [direction |-> "forward", steps |-> k])
    /\ UNCHANGED uiVars /\ UNCHANGED <<cache, notices>>

-----------------------------------------------------------------------------
(* Search                                                                  *)

\* A change of the folder of tab t has been reported and not drained yet.
Reported(t) == [tab |-> t, gen |-> tab[t].gen] \in notices

\* begin_active_search: the previous search is cancelled, the directory below
\* is left as it is; the new generation makes the UI drop a report that is on
\* its way.
StartSearch ==
    /\ "search" \in scenario.does
    /\ CanIssue
    /\ cancelled' = cancelled \cup ({tab[active].sreq} \ {0})
    /\ LET tb == Searching(tab[active], NextId)
       IN \/ /\ Enqueue(active, "search", tb.cur, "queued")
             /\ tab' = [tab EXCEPT ![active] = tb]
          \/ /\ "failures" \in scenario.does
             /\ Enqueue(active, "search", tb.cur, "done")
             /\ tab' = [tab EXCEPT ![active] = SearchEnded(tb, "Error")]
    /\ missed' = missed \cup {t \in {active} : Reported(t)}
    /\ UNCHANGED <<watch, notices, disk, cache>> /\ UNCHANGED uiVars

\* leave_active_search (Escape, Clear)
LeaveSearch ==
    /\ tab[active].search # "Idle"
    /\ cancelled' = cancelled \cup SearchOf(tab[active])
    /\ tab' = [tab EXCEPT ![active] = LeftSearch(@)]
    /\ UNCHANGED <<cache, requests>> /\ UNCHANGED uiVars /\ UNCHANGED svcVars

\* begin_search_editing (focus moves to the search box)
EditSearch ==
    /\ "search" \in scenario.does
    /\ cancelled' = cancelled \cup SearchOf(tab[active])
    /\ tab' = [tab EXCEPT ![active] = [LeftSearch(@) EXCEPT !.search = "Editing"]]
    /\ UNCHANGED <<cache, requests>> /\ UNCHANGED uiVars /\ UNCHANGED svcVars

-----------------------------------------------------------------------------
(* Tabs                                                                    *)

\* begin_idle_active_location_load, run after every action that can reveal a
\* tab not loaded yet.
RevealTab(t, tb) ==
    IF tb.dir = "Idle"
    THEN BeginLoad(t, tb, tb.cur, cache[tb.cur], NoPending) /\ UNCHANGED notices
    ELSE /\ UNCHANGED <<tab, requests, cancelled>> /\ UNCHANGED svcVars

\* new_tab: an independent copy of the active tab's history, loaded at once.
NewTab(t) ==
    /\ "tabs" \in scenario.does
    /\ t \notin used
    /\ LET src == tab[active]
           tb == TabAt(src.back, src.cur, src.fwd)
       IN BeginLoad(t, tb, tb.cur, cache[tb.cur], NoPending)
    /\ order' = Append(order, t)
    /\ active' = t
    /\ used' = used \cup {t}
    /\ UNCHANGED <<closed, cache, notices>>

\* activate: background tabs keep their work.
ActivateTab(t) ==
    /\ t \in Open
    /\ active' = t
    /\ RevealTab(t, tab[t])
    /\ UNCHANGED <<order, closed, used, cache>>

CancelNothing(tb) == {}

\* TabRequestScopes::cancel_all: the last load and the last search.
CancelAll(tb) == {tb.req, tb.sreq} \ {0}

IndexOf(t) == CHOOSE i \in 1..Len(order) : order[i] = t

HeirStays(t, i, rest) == active

\* The tab that is active once tab t, at position i, is removed.
Heir(t, i, rest) ==
    IF t # active THEN active ELSE rest[IF i <= Len(rest) THEN i ELSE Len(rest)]

\* close: the last tab of a window is not closed (the window is).  The tab
\* that takes the place of a closed active tab is revealed.
CloseTab(t) ==
    /\ "tabs" \in scenario.does
    /\ t \in Open
    /\ Len(order) > 1
    /\ LET i == IndexOf(t)
           rest == RemoveAt(order, i)
           heir == Heir(t, i, rest)
           tb == tab[t]
       IN /\ order' = rest
          /\ active' = heir
          /\ closed' = Append(closed, [index |-> i, back |-> tb.back,
                                       cur |-> tb.cur, fwd |-> tb.fwd])
          /\ IF tab[heir].dir = "Idle"
             THEN /\ CanIssue
                  /\ SubmitLoad(heir, Loading(tab[heir], NextId, cache[tab[heir].cur]),
                                tab[heir].cur)
                  /\ UNCHANGED notices
             ELSE UNCHANGED <<tab, requests>> /\ UNCHANGED svcVars
          /\ cancelled' = cancelled \cup CancelAll(tb)
               \cup (IF tab[heir].dir = "Idle" THEN SearchOf(tab[heir]) ELSE {})
    /\ UNCHANGED <<used, cache>>

\* reopen_closed_tab: the history comes back under a new identity.
ReopenTab(t) ==
    /\ "tabs" \in scenario.does
    /\ t \notin used
    /\ closed # <<>>
    /\ LET c == Last(closed)
           tb == TabAt(c.back, c.cur, c.fwd)
       IN /\ order' = InsertAt(order, IF c.index <= Len(order) THEN c.index
                                                               ELSE Len(order) + 1, t)
          /\ RevealTab(t, tb)
    /\ active' = t
    /\ used' = used \cup {t}
    /\ closed' = Front(closed)
    /\ UNCHANGED cache

\* reorder
ReorderTab(t, j) ==
    /\ "tabs" \in scenario.does
    /\ t \in Open
    /\ j \in 1..Len(order)
    /\ order' = InsertAt(RemoveAt(order, IndexOf(t)), j, t)
    /\ UNCHANGED <<active, tab, closed, used, cache, requests, cancelled>>
    /\ UNCHANGED svcVars

-----------------------------------------------------------------------------
(* The service                                                             *)

Event(kind, l, rows) == [kind |-> kind, loc |-> l, rows |-> rows]
Plain(kind) == Event(kind, InitialLoc, {})

Post(i, e, stage) ==
    /\ mail' = [mail EXCEPT ![i] = Append(@, e)]
    /\ svc' = [svc EXCEPT ![i] = stage]

unserved == <<order, active, tab, closed, used, cache, requests, cancelled>>

\* The STA thread runs one command at a time, in submission order.
OnSta(i) ==
    /\ requests[i].kind = "load"
    /\ \A j \in 1..(i - 1) : requests[j].kind = "load" => svc[j] = "done"

\* process_navigation gives up: cancelled, or the folder cannot be resolved or
\* listed, or the event queue is full.
StaFails(i) ==
    /\ OnSta(i)
    /\ svc[i] \in {"queued", "list"}
    /\ i \in cancelled \/ "failures" \in scenario.does
    /\ Post(i, Plain("Failed"), "done")
    /\ UNCHANGED <<watch, notices, disk, missed>> /\ UNCHANGED unserved

StaResolves(i) ==
    /\ OnSta(i)
    /\ svc[i] = "queued"
    /\ i \notin cancelled
    /\ Post(i, Event("LocationResolved", Resolve[requests[i].loc], {}), "list")
    /\ UNCHANGED <<watch, notices, disk, missed>> /\ UNCHANGED unserved

\* enumerate_directory reads the folder.
StaLists(i) ==
    /\ OnSta(i)
    /\ svc[i] = "list"
    /\ i \notin cancelled
    /\ LET l == Resolve[requests[i].loc]
       IN Post(i, Event("DirectoryBatch", l, Listing(l)), "finish")
    /\ missed' = missed \ {requests[i].tab}
    /\ UNCHANGED <<watch, notices, disk>> /\ UNCHANGED unserved

StaFinishes(i) ==
    /\ OnSta(i)
    /\ svc[i] = "finish"
    /\ Post(i, Plain("DirectoryFinished"), "watch")
    /\ UNCHANGED <<watch, notices, disk, missed>> /\ UNCHANGED unserved

\* watch_location replaces the watcher of the tab, after the terminal.
StaWatches(i) ==
    /\ OnSta(i)
    /\ svc[i] = "watch"
    /\ watch' = [watch EXCEPT ![requests[i].tab] =
                    [loc |-> Resolve[requests[i].loc], gen |-> requests[i].gen]]
    /\ svc' = [svc EXCEPT ![i] = "done"]
    /\ UNCHANGED <<mail, notices, disk, missed>> /\ UNCHANGED unserved

\* The new watcher cannot start; the old one is gone already.
StaWatchFails(i) ==
    /\ OnSta(i)
    /\ svc[i] = "watch"
    /\ "deafness" \in scenario.does
    /\ watch' = [watch EXCEPT ![requests[i].tab] = NoWatch]
    /\ svc' = [svc EXCEPT ![i] = "done"]
    /\ UNCHANGED <<mail, notices, disk, missed>> /\ UNCHANGED unserved

\* A search worker: an optional batch of hits, then one terminal.
SearchHits(i) ==
    /\ requests[i].kind = "search"
    /\ svc[i] = "queued"
    /\ Post(i, Plain("SearchBatch"), "list")
    /\ UNCHANGED <<watch, notices, disk, missed>> /\ UNCHANGED unserved

SearchEnds(i) ==
    /\ requests[i].kind = "search"
    /\ svc[i] \in {"queued", "list"}
    /\ \/ Post(i, Plain(IF i \in cancelled THEN "SearchCancelled" ELSE "SearchReady"), "done")
       \/ "failures" \in scenario.does /\ Post(i, Plain("Failed"), "done")
    /\ UNCHANGED <<watch, notices, disk, missed>> /\ UNCHANGED unserved

\* The folder tab t shows, and the one it is loading.
FoldersOf(t) ==
    {tab[t].cur} \cup {Resolve[requests[i].loc] : i \in LoadOf(tab[t])}

Armed(t, l) == watch[t].gen > 0 /\ watch[t].loc = l

\* Something changes folder l; every watcher on it reports the change under
\* the generation it was started with.  A watcher of `deaf` finds the event
\* queue full: its report is lost and its thread ends.
FolderChanges(l, deaf) ==
    /\ deaf # {} => "deafness" \in scenario.does
    /\ \A t \in deaf : Armed(t, l)
    /\ disk[l] < MaxChanges
    /\ disk' = [disk EXCEPT ![l] = @ + 1]
    /\ notices' = notices \cup {[tab |-> t, gen |-> watch[t].gen] :
                                  t \in {u \in TabIds : Armed(u, l)} \ deaf}
    /\ watch' = [t \in TabIds |-> IF t \in deaf THEN NoWatch ELSE watch[t]]
    /\ missed' = missed \cup {t \in Open :
                                /\ l \in FoldersOf(t)
                                /\ t \in deaf \/ ~(Armed(t, l) /\ watch[t].gen = tab[t].gen)}
    /\ UNCHANGED <<svc, mail>> /\ UNCHANGED unserved

-----------------------------------------------------------------------------
(* The event pump of the UI                                                *)

\* RequestContext::validate_event against the loading request of tb.
AcceptsLoad(tb, i) == tb.dir = "Loading" /\ tb.req = i /\ i \notin cancelled

AcceptsSearch(tb, i) == tb.search = "Loading" /\ tb.sreq = i /\ i \notin cancelled

LoadEvents == {"LocationResolved", "DirectoryBatch", "DirectoryFinished"}

GateFailedLoads(i, kind) ==
    LET t == requests[i].tab
    IN /\ i \notin cancelled
       /\ t \in Open
       /\ tab[t].gen = requests[i].gen
       /\ IF kind \in LoadEvents \cup {"Failed"} THEN AcceptsLoad(tab[t], i)
                                                 ELSE AcceptsSearch(tab[t], i)

GateFailedSearches(i, kind) ==
    LET t == requests[i].tab
    IN /\ i \notin cancelled
       /\ t \in Open
       /\ tab[t].gen = requests[i].gen
       /\ IF kind \in LoadEvents THEN AcceptsLoad(tab[t], i)
                                 ELSE AcceptsSearch(tab[t], i)

\* accepts_presentation_event: the event of request i is for an open tab, of
\* its current generation, and for the load or search that is running there.
Gate(i, kind) ==
    LET t == requests[i].tab
    IN /\ i \notin cancelled
       /\ t \in Open
       /\ tab[t].gen = requests[i].gen
       /\ \/ kind \in LoadEvents \cup {"Failed"} /\ AcceptsLoad(tab[t], i)
          \/ kind \notin LoadEvents /\ AcceptsSearch(tab[t], i)

\* ExplorerWindowState::apply_event on the tab's record: a load event changes
\* it only if it validates against the loading request, a search event only
\* against the running search; a failure goes to the search if one is running.
AppliedToLoad(tb, e) ==
    IF e.kind = "LocationResolved" THEN Resolved(tb, e.loc)
    ELSE IF e.kind = "DirectoryBatch" THEN Merged(tb, e.rows)
    ELSE IF e.kind = "DirectoryFinished" THEN Finished(tb)
    ELSE Failed(tb)

AppliedToSearch(tb, e) ==
    IF e.kind = "SearchBatch" THEN [tb EXCEPT !.hits = TRUE]
    ELSE IF e.kind = "SearchReady" THEN SearchEnded(tb, "Ready")
    ELSE IF e.kind = "SearchCancelled" THEN SearchEnded(tb, "Cancelled")
    ELSE SearchEnded(tb, "Error")

Applied(tb, i, e) ==
    IF e.kind \in LoadEvents \/ (e.kind = "Failed" /\ tb.search # "Loading")
    THEN IF AcceptsLoad(tb, i) THEN AppliedToLoad(tb, e) ELSE tb
    ELSE IF AcceptsSearch(tb, i) THEN AppliedToSearch(tb, e) ELSE tb

CachedOnFailure(i, e, tb) ==
    IF e.kind \in {"DirectoryFinished", "Failed"}
    THEN [cache EXCEPT ![tab[requests[i].tab].cur] = tb.rows]
    ELSE cache

\* apply_service_event: a finished listing is cached under the location that
\* was current before the event was applied.
Cached(i, e, tb) ==
    IF e.kind = "DirectoryFinished"
    THEN [cache EXCEPT ![tab[requests[i].tab].cur] = tb.rows]
    ELSE cache

\* One service event is drained: gated, then applied.
Drain(i) ==
    /\ mail[i] # <<>>
    /\ mail' = [mail EXCEPT ![i] = Tail(@)]
    /\ LET e == Head(mail[i])
           t == requests[i].tab
           tb == Applied(tab[t], i, e)
       IN IF Gate(i, e.kind)
          THEN /\ tab' = [tab EXCEPT ![t] = tb]
               /\ cache' = Cached(i, e, tb)
          ELSE UNCHANGED <<tab, cache>>
    /\ UNCHANGED <<requests, cancelled, svc, watch, notices, disk, missed>>
    /\ UNCHANGED uiVars

DrainNoticeIgnored(n) ==
    /\ n \in notices
    /\ notices' = notices \ {n}
    /\ UNCHANGED <<tab, requests, cancelled, svc, mail, watch, disk, missed, cache>>
    /\ UNCHANGED uiVars

\* A DirectoryChanged event is drained: watcher_recovery_command refreshes the
\* tab if the event is of its current generation.
DrainNotice(n) ==
    /\ n \in notices
    /\ notices' = notices \ {n}
    /\ IF n.tab \in Open /\ tab[n.tab].gen = n.gen
       THEN LET tb == tab[n.tab]
            IN BeginLoad(n.tab, tb, tb.cur, tb.rows, NoPending)
       ELSE UNCHANGED <<tab, requests, cancelled, svc, mail, watch, disk, missed>>
    /\ UNCHANGED cache /\ UNCHANGED uiVars

-----------------------------------------------------------------------------

User ==
    \/ \E l \in scenario.folders : Navigate(l)
    \/ Refresh
    \/ \E k \in 1..MaxRequests : Back(k) \/ Forward(k)
    \/ StartSearch
    \/ LeaveSearch
    \/ EditSearch
    \/ \E t \in scenario.tabs :
         \/ NewTab(t) \/ ActivateTab(t) \/ CloseTab(t) \/ ReopenTab(t)
         \/ \E j \in 1..Len(order) : ReorderTab(t, j)

Service(i) ==
    \/ StaFails(i)
    \/ StaResolves(i)
    \/ StaLists(i)
    \/ StaFinishes(i)
    \/ StaWatches(i)
    \/ StaWatchFails(i)
    \/ SearchHits(i)
    \/ SearchEnds(i)

Next ==
    /\ \/ User
       \/ \E i \in 1..Len(requests) : Service(i) \/ Drain(i)
       \/ \E l \in scenario.changing, deaf \in SUBSET scenario.tabs : FolderChanges(l, deaf)
       \/ \E n \in notices : DrainNotice(n)
    /\ UNCHANGED scenario

\* The service threads run and the event pump of the window keeps draining;
\* nothing is assumed of the user or of what changes the folders.
Fairness ==
    \A i \in 1..MaxRequests :
        /\ WF_vars(i <= Len(requests) /\ Service(i) /\ UNCHANGED scenario)
        /\ WF_vars(i <= Len(requests) /\ Drain(i) /\ UNCHANGED scenario)

NoticeFairness ==
    \A t \in TabIds, g \in 1..MaxRequests :
        WF_vars(DrainNotice([tab |-> t, gen |-> g]) /\ UNCHANGED scenario)

Spec == Init /\ [][Next]_vars /\ Fairness /\ NoticeFairness

-----------------------------------------------------------------------------
(* Properties                                                              *)

DirStates == {"Idle", "Loading", "Ready", "Error"}
SearchStates == {"Idle", "Editing", "Loading", "Ready", "Partial", "Cancelled", "Error"}

\* Every tab record and every request has its type, the window has at least
\* one tab, no tab twice, and its active tab among them (validate).
TypeOK ==
    /\ order # <<>> /\ IsInjective(order)
    /\ active \in Open
    /\ Open \subseteq used
    /\ \A t \in TabIds :
         LET tb == tab[t]
         IN /\ tb.gen \in 0..MaxRequests
            /\ tb.dir \in DirStates /\ tb.search \in SearchStates
            /\ tb.cur \in Locations
            /\ \A i \in 1..Len(tb.back) : tb.back[i] \in Locations
            /\ \A i \in 1..Len(tb.fwd) : tb.fwd[i] \in Locations
            /\ {tb.req, tb.sreq} \subseteq 0..Len(requests)
    /\ Len(svc) = Len(requests) /\ Len(mail) = Len(requests)
    /\ cancelled \subseteq 1..Len(requests)

\* A listing shown as complete is the listing of the folder the tab's history
\* says it is at: no batch, terminal or cached snapshot of another request,
\* however late, ends up in a Ready tab.
ReadyShowsLocation ==
    \A t \in Open :
        tab[t].dir = "Ready" => \E v \in 0..MaxChanges : tab[t].rows = {<<tab[t].cur, v>>}

\* A cached snapshot is one complete listing of its own folder: neither failed,
\* cancelled nor superseded loads, nor rows kept from the snapshot shown while
\* loading, are ever written to the cache.
CacheHoldsOneListing ==
    \A l \in Locations :
        cache[l] = {} \/ \E v \in 0..disk[l] : cache[l] = {<<l, v>>}

Timeline(tb) == Append(tb.back, tb.cur) \o Reverse(tb.fwd)

\* The history of a tab is a line with a cursor: a step either keeps the line
\* (Back and Forward only move the cursor, by any number of entries) or cuts
\* it behind the cursor and adds one location.
HistoryIsALine ==
    [][\A t \in Open :
         LET o == tab[t]
             n == tab'[t]
         IN \/ Timeline(n) = Timeline(o)
            \/ Timeline(n) = o.back \o <<o.cur, n.cur>>]_vars

Unstarted(i) == svc[i] \in {"queued", "list"}

\* Per tab at most one load and one search are running that nobody cancelled,
\* and none for a tab that was closed: work the user no longer waits for is
\* always told to stop.
AbandonedWorkCancelled ==
    \A i \in 1..Len(requests) :
        (Unstarted(i) /\ i \notin cancelled) =>
            /\ requests[i].tab \in Open
            /\ i \in {tab[requests[i].tab].req, tab[requests[i].tab].sreq}

Superseded(t, i) == i <= Len(requests) /\ tab[t].gen # requests[i].gen

\* A load that is still of its tab's generation ends: the tab shows a listing
\* or an error, unless the user closes it or moves it on to another request.
CurrentLoadEnds ==
    \A t \in TabIds, i \in 1..MaxRequests :
        (t \in Open /\ tab[t].dir = "Loading" /\ tab[t].req = i)
            ~> (t \notin Open \/ tab[t].dir # "Loading" \/ Superseded(t, i))

\* Every load of an open tab ends, with a listing or with an error.
LoadEnds ==
    \A t \in TabIds :
        (t \in Open /\ tab[t].dir = "Loading")
            ~> (t \notin Open \/ tab[t].dir # "Loading")

\* Every search of an open tab ends.
SearchEndsSometime ==
    \A t \in TabIds :
        (t \in Open /\ tab[t].search = "Loading")
            ~> (t \notin Open \/ tab[t].search # "Loading")

\* Nothing that concerns tab t is under way any more.
Quiet(t) ==
    /\ tab[t].dir = "Ready"
    /\ \A i \in 1..Len(requests) : svc[i] = "done" /\ mail[i] = <<>>
    /\ \A n \in notices : n.tab # t

\* A tab that has come to rest shows its folder as it is on disk, unless the
\* folder changed while no watcher of the tab's generation was armed (between
\* reading the folder and starting its watcher: watch_location runs last) or
\* the watcher died of a full event queue with that very change in its hands,
\* or a search took the generation of the tab before the report was drained.
StaleOnlyIfUnwatched ==
    \A t \in Open :
        (Quiet(t) /\ tab[t].cur \notin Synthetic /\ tab[t].rows # Listing(tab[t].cur))
            => t \in missed

\* A change that the watcher of the tab's generation has reported is shown: the
\* event is not lost between the watcher and watcher_recovery_command, unless
\* the user searches meanwhile.  (The bound on requests may leave none for the
\* refresh.)
WatchedChangeShows ==
    \A t \in TabIds, l \in Locations, v \in 1..MaxChanges :
        ( /\ t \in Open /\ tab[t].dir = "Ready" /\ tab[t].cur = l /\ disk[l] = v
          /\ [tab |-> t, gen |-> tab[t].gen] \in notices )
            ~> (t \notin Open \/ tab[t].cur # l \/ disk[l] # v \/ ~CanIssue
                  \/ tab[t].search = "Loading" \/ tab[t].rows = {<<l, v>>})
=============================================================================
