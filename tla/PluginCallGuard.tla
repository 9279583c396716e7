--------------------------- MODULE PluginCallGuard ---------------------------
(* Crash markers around native plugin callbacks (plugin_call_guard.rs).      *)
(* Every process that loads plugins makes a launch namespace, a directory    *)
(* with an owner file it keeps open, and writes a marker file there before   *)
(* plugin code runs.  A process that dies leaves its markers behind; the     *)
(* next process scans the namespaces whose owner file nobody holds and turns *)
(* their markers into Safe Mode incidents that deny exactly those callbacks. *)
(* Anything it cannot explain denies every plugin.  Processes overlap.       *)
EXTENDS Integers, FiniteSets

CONSTANTS
    MaxLaunches,    \* bound: processes started over time
    MaxAlive,       \* bound: processes running at once
    Callbacks,      \* plugin callbacks (package, digest, entry point, interface)
    MaxCalls,       \* bound: callbacks begun
    MaxFaults       \* bound: failing file operations

ASSUME LaunchAssumption ==
    MaxLaunches \in Nat /\ MaxAlive \in Nat /\ MaxCalls \in Nat /\ MaxFaults \in Nat

VARIABLES
    ns,             \* per launch: its namespace on disk
    proc,           \* per launch: where its process stands
    overlay,        \* per launch: the Safe Mode overlay of its store
    call,           \* per launch and callback: the guarded call
    owed,           \* interrupted calls nobody has confirmed yet
    faults,         \* failing file operations left
    calls           \* callbacks left to begin

vars == <<ns, proc, overlay, call, owed, faults, calls>>

Launches == 1..MaxLaunches
None == 0

(* A marker file; a rejected library keeps its marker under another          *)
(* operation (LoadRejectedResident).                                         *)
Marks == [cb : Callbacks, op : {"call", "rejected"}]
MarkOf(cb) == [cb |-> cb, op |-> "call"]

Namespaces == [dir : BOOLEAN, owner : BOOLEAN, holder : Launches \cup {None},
               marks : SUBSET Marks, torn : BOOLEAN]
Processes == [pc : {"unborn", "dir", "scan", "cleanOwner", "cleanDir", "run",
                    "closing", "dropDir", "gone"},
              first : BOOLEAN, todo : SUBSET Launches, before : SUBSET Launches,
              skipped : SUBSET Launches, cleaning : Launches \cup {None}]
Overlays == [mode : {"clean", "global", "incidents"},
             set : SUBSET (Launches \X Marks), evidence : Launches \cup {None}]

NoNamespace == [dir |-> FALSE, owner |-> FALSE, holder |-> None, marks |-> {}, torn |-> FALSE]
Clean == [mode |-> "clean", set |-> {}, evidence |-> None]
Global(n) == [mode |-> "global", set |-> {}, evidence |-> n]

Unborn == [pc |-> "unborn", first |-> TRUE, todo |-> {}, before |-> {}, skipped |-> {},
           cleaning |-> None]
Ended == [Unborn EXCEPT !.pc = "gone"]

Alive(l) == proc[l].pc \notin {"unborn", "gone"}
Gone == {n \in Launches : proc[n].pc = "gone"}
Writing(l) == \E cb \in Callbacks : call[l][cb] = "writing"

Fault == faults > 0 /\ faults' = faults - 1

(* Handles of recovered namespaces are closed when their incidents go.       *)
Released(space, l) ==
    [n \in Launches |-> IF n # l /\ space[n].holder = l
                        THEN [space[n] EXCEPT !.holder = None] ELSE space[n]]

(* capture_global_evidence: the directory of a running process cannot be     *)
(* opened for a move, then only a rescan is left.                            *)
Evidence(n) == IF n # None /\ ~Alive(n) /\ ns[n].dir THEN n ELSE None

SetGlobal(l, n, space) ==
    /\ overlay' = [overlay EXCEPT ![l] = Global(Evidence(n))]
    /\ ns' = Released(space, l)

-----------------------------------------------------------------------------
(* Startup: create_launch_namespace, then scan_until.                        *)

CreateDir(l) ==
    /\ proc[l].pc = "unborn"
    /\ l > 1 => proc[l - 1].pc # "unborn"
    /\ Cardinality({k \in Launches : Alive(k)}) < MaxAlive
    /\ ns' = [ns EXCEPT ![l].dir = TRUE]
    /\ proc' = [proc EXCEPT ![l].pc = "dir"]
    /\ UNCHANGED <<overlay, call, owed, faults, calls>>

ScanFrom(p, l) ==
    [p EXCEPT ![l] = [@ EXCEPT !.pc = "scan", !.todo = {n \in Launches : ns[n].dir} \ {l},
                               !.before = Gone, !.skipped = {}]]

CreateOwner(l) ==
    /\ proc[l].pc = "dir"
    /\ ns' = [ns EXCEPT ![l].owner = TRUE, ![l].holder = l]
    /\ proc' = ScanFrom(proc, l)
    /\ UNCHANGED <<overlay, call, owed, faults, calls>>

(* A namespace vanished before it could be pinned: opening the store fails,  *)
(* a rescan turns global.                                                    *)
ScanMissing(l, n) ==
    /\ proc[l].pc = "scan" /\ n \in proc[l].todo
    /\ ~ns[n].dir
    /\ \/ /\ proc[l].first
          /\ proc' = [proc EXCEPT ![l].pc = "closing"]
          /\ ns' = Released(ns, l)
          /\ overlay' = [overlay EXCEPT ![l] = Clean]
       \/ /\ ~proc[l].first
          /\ proc' = [proc EXCEPT ![l].pc = "run"]
          /\ SetGlobal(l, None, ns)
    /\ UNCHANGED <<call, owed, faults, calls>>

(* The owner file is missing, or a marker is not readable.                   *)
ScanUnsafe(l, n) ==
    /\ proc[l].pc = "scan" /\ n \in proc[l].todo
    /\ ns[n].dir
    /\ ~ns[n].owner \/ (ns[n].holder = None /\ ns[n].torn)
    /\ proc' = [proc EXCEPT ![l].pc = "run", ![l].first = FALSE]
    /\ SetGlobal(l, n, ns)
    /\ UNCHANGED <<call, owed, faults, calls>>

(* namespace_owner_state: somebody holds the owner file.                     *)
ScanLive(l, n) ==
    /\ proc[l].pc = "scan" /\ n \in proc[l].todo
    /\ ns[n].dir /\ ns[n].owner /\ ns[n].holder # None
    /\ proc' = [proc EXCEPT ![l].todo = @ \ {n}, ![l].skipped = @ \cup {n}]
    /\ UNCHANGED <<ns, overlay, call, owed, faults, calls>>

DeadUnprobed(l, n) ==
    /\ proc[l].pc = "scan" /\ n \in proc[l].todo
    /\ ns[n].dir /\ ns[n].owner /\ ~ns[n].torn

Dead(l, n) ==
    /\ proc[l].pc = "scan" /\ n \in proc[l].todo
    /\ ns[n].dir /\ ns[n].owner /\ ns[n].holder = None /\ ~ns[n].torn

ScanDeadEmpty(l, n) ==
    /\ Dead(l, n)
    /\ ns[n].marks = {}
    /\ ns' = [ns EXCEPT ![n].holder = l]
    /\ proc' = [proc EXCEPT ![l].pc = "cleanOwner", ![l].cleaning = n]
    /\ UNCHANGED <<overlay, call, owed, faults, calls>>

ScanIncidentsUnheld(l, n) ==
    /\ Dead(l, n)
    /\ ns[n].marks # {}
    /\ overlay' = [overlay EXCEPT ![l] =
          [mode |-> "incidents", set |-> @.set \cup ({n} \X ns[n].marks), evidence |-> None]]
    /\ proc' = [proc EXCEPT ![l].todo = @ \ {n}]
    /\ UNCHANGED <<ns, call, owed, faults, calls>>

ScanIncidents(l, n) ==
    /\ Dead(l, n)
    /\ ns[n].marks # {}
    /\ ns' = [ns EXCEPT ![n].holder = l]
    /\ overlay' = [overlay EXCEPT ![l] =
          [mode |-> "incidents", set |-> @.set \cup ({n} \X ns[n].marks), evidence |-> None]]
    /\ proc' = [proc EXCEPT ![l].todo = @ \ {n}]
    /\ UNCHANGED <<call, owed, faults, calls>>

(* cleanup_dead_namespace: the owner file, then the directory.               *)
CleanOwnerLeaksHandle(l) ==
    LET n == proc[l].cleaning IN
    /\ proc[l].pc = "cleanOwner"
    /\ ns' = [ns EXCEPT ![n].owner = FALSE]
    /\ proc' = [proc EXCEPT ![l].pc = "cleanDir"]
    /\ UNCHANGED <<overlay, call, owed, faults, calls>>

CleanOwner(l) ==
    LET n == proc[l].cleaning IN
    /\ proc[l].pc = "cleanOwner"
    /\ ns' = [ns EXCEPT ![n].owner = FALSE, ![n].holder = None]
    /\ proc' = [proc EXCEPT ![l].pc = "cleanDir"]
    /\ UNCHANGED <<overlay, call, owed, faults, calls>>

CleanDir(l) ==
    LET n == proc[l].cleaning IN
    /\ proc[l].pc = "cleanDir"
    /\ ns' = [ns EXCEPT ![n] = NoNamespace]
    /\ proc' = [proc EXCEPT ![l].pc = "scan", ![l].cleaning = None, ![l].todo = @ \ {n}]
    /\ UNCHANGED <<overlay, call, owed, faults, calls>>

CleanFails(l) ==
    /\ proc[l].pc \in {"cleanOwner", "cleanDir"}
    /\ Fault
    /\ proc' = [proc EXCEPT ![l].pc = "run", ![l].first = FALSE, ![l].cleaning = None]
    /\ SetGlobal(l, proc[l].cleaning, ns)
    /\ UNCHANGED <<call, owed, calls>>

ScanEnd(l) ==
    /\ proc[l].pc = "scan" /\ proc[l].todo = {}
    /\ proc' = [proc EXCEPT ![l].pc = "run", ![l].first = FALSE]
    /\ UNCHANGED <<ns, overlay, call, owed, faults, calls>>

-----------------------------------------------------------------------------
(* A guarded call: begin, the plugin, clear.  begin, clear and confirm hold  *)
(* the store's io lock, so none overlaps a write or a rescan.                *)

Ready(l) == proc[l].pc = "run" /\ ~Writing(l)

DeniedGlobalOnly(l, cb) == overlay[l].mode = "global"

Denied(l, cb) ==
    \/ overlay[l].mode = "global"
    \/ \E i \in overlay[l].set : i[2] = MarkOf(cb)

Begin(l, cb) ==
    /\ Ready(l)
    /\ call[l][cb] = "idle" /\ MarkOf(cb) \notin ns[l].marks
    /\ ~Denied(l, cb)
    /\ calls > 0 /\ calls' = calls - 1
    /\ call' = [call EXCEPT ![l][cb] = "writing"]
    /\ UNCHANGED <<ns, proc, overlay, owed, faults>>

MarkerWritten(l, cb) ==
    /\ call[l][cb] = "writing"
    /\ call' = [call EXCEPT ![l][cb] = "inside"]
    /\ ns' = [ns EXCEPT ![l].marks = @ \cup {MarkOf(cb)}]
    /\ UNCHANGED <<proc, overlay, owed, faults, calls>>

(* The partial file stays behind.                                            *)
MarkerWriteFails(l, cb) ==
    /\ call[l][cb] = "writing"
    /\ Fault
    /\ call' = [call EXCEPT ![l][cb] = "idle"]
    /\ SetGlobal(l, None, [ns EXCEPT ![l].torn = TRUE])
    /\ UNCHANGED <<proc, owed, calls>>

Returned(l, cb) ==
    /\ Ready(l)
    /\ call[l][cb] = "inside"
    /\ call' = [call EXCEPT ![l][cb] = "idle"]

Clear(l, cb) ==
    /\ Returned(l, cb)
    /\ ns' = [ns EXCEPT ![l].marks = @ \ {MarkOf(cb)}]
    /\ UNCHANGED <<proc, overlay, owed, faults, calls>>

(* Deleting the marker fails, or flushing the directory after it.            *)
ClearFails(l, cb) ==
    /\ Returned(l, cb)
    /\ Fault
    /\ \E kept \in SUBSET {MarkOf(cb)} :
          /\ SetGlobal(l, None, [ns EXCEPT ![l].marks = (@ \ {MarkOf(cb)}) \cup kept])
          /\ owed' = owed \cup ({l} \X kept)
    /\ UNCHANGED <<proc, calls>>

(* The plugin panics: the marker is kept on purpose.                         *)
Panic(l, cb) ==
    /\ proc[l].pc # "gone"
    /\ call[l][cb] = "inside"
    /\ call' = [call EXCEPT ![l][cb] = "idle"]
    /\ owed' = owed \cup {<<l, MarkOf(cb)>>}
    /\ UNCHANGED <<ns, proc, overlay, faults, calls>>

(* transition_operation: the loader rejected the library, which stays mapped. *)
Reject(l, cb) ==
    LET kept == [cb |-> cb, op |-> "rejected"] IN
    /\ Returned(l, cb)
    /\ ns' = [ns EXCEPT ![l].marks = (@ \ {MarkOf(cb)}) \cup {kept}]
    /\ owed' = owed \cup {<<l, kept>>}
    /\ UNCHANGED <<proc, overlay, faults, calls>>

RejectFails(l, cb) ==
    /\ Returned(l, cb)
    /\ Fault
    /\ SetGlobal(l, None, [ns EXCEPT ![l].marks = @ \ {MarkOf(cb)}, ![l].torn = TRUE])
    /\ UNCHANGED <<proc, owed, calls>>

-----------------------------------------------------------------------------
(* The user confirms one incident: its file goes, nothing else.              *)
WithoutIncident(l, i) ==
    LET rest == overlay[l].set \ {i}
        n == i[1]
        gone == [ns EXCEPT ![n].marks = @ \ {i[2]}]
    IN  IF \E j \in rest : j[1] = n THEN gone ELSE [gone EXCEPT ![n].holder = None]

Confirm(l, i) ==
    /\ Ready(l)
    /\ overlay[l].mode = "incidents" /\ i \in overlay[l].set
    /\ overlay' = [overlay EXCEPT ![l].set = @ \ {i}]
    /\ ns' = WithoutIncident(l, i)
    /\ owed' = owed \ {i}
    /\ UNCHANGED <<proc, call, faults, calls>>

(* The file is gone but flushing its directory failed.                       *)
ConfirmFails(l, i) ==
    /\ Ready(l)
    /\ overlay[l].mode = "incidents" /\ i \in overlay[l].set
    /\ Fault
    /\ SetGlobal(l, None, WithoutIncident(l, i))
    /\ owed' = owed \ {i}
    /\ UNCHANGED <<proc, call, calls>>

(* The user confirms the global state: the evidence is moved aside and the   *)
(* namespaces are scanned again.                                             *)
ConfirmGlobal(l) ==
    LET n == overlay[l].evidence IN
    /\ Ready(l)
    /\ overlay[l].mode = "global"
    /\ \/ /\ n # None => ~ns[n].dir
          /\ UNCHANGED <<ns, owed>>
          /\ proc' = ScanFrom(proc, l)
       \/ /\ n # None /\ ns[n].dir /\ ns[n].holder = None
          /\ ns' = [ns EXCEPT ![n] = NoNamespace]
          /\ owed' = {i \in owed : i[1] # n}
          /\ proc' = [ScanFrom(proc, l) EXCEPT ![l].todo = @ \ {n}]
    /\ overlay' = [overlay EXCEPT ![l] = Clean]
    /\ UNCHANGED <<call, faults, calls>>

-----------------------------------------------------------------------------
(* The process ends: the store's Drop removes a namespace without markers.   *)
Exit(l) ==
    /\ proc[l].pc = "run"
    /\ \A cb \in Callbacks : call[l][cb] = "idle"
    /\ proc' = [proc EXCEPT ![l].pc = "closing"]
    /\ ns' = Released(ns, l)
    /\ overlay' = [overlay EXCEPT ![l] = Clean]
    /\ UNCHANGED <<call, owed, faults, calls>>

DropKeeps(l) ==
    /\ proc[l].pc = "closing"
    /\ ns[l].marks # {} \/ ns[l].torn
    /\ ns' = [ns EXCEPT ![l].holder = None]
    /\ proc' = [proc EXCEPT ![l] = Ended]
    /\ UNCHANGED <<overlay, call, owed, faults, calls>>

DropOwnerAlways(l) ==
    /\ proc[l].pc = "closing"
    /\ ns' = [ns EXCEPT ![l].owner = FALSE, ![l].holder = None]
    /\ proc' = [proc EXCEPT ![l].pc = "dropDir"]
    /\ UNCHANGED <<overlay, call, owed, faults, calls>>

DropOwner(l) ==
    /\ proc[l].pc = "closing"
    /\ ns[l].marks = {} /\ ~ns[l].torn
    /\ ns' = [ns EXCEPT ![l].owner = FALSE, ![l].holder = None]
    /\ proc' = [proc EXCEPT ![l].pc = "dropDir"]
    /\ UNCHANGED <<overlay, call, owed, faults, calls>>

DropDir(l) ==
    /\ proc[l].pc = "dropDir"
    /\ ns' = [ns EXCEPT ![l] = NoNamespace]
    /\ proc' = [proc EXCEPT ![l] = Ended]
    /\ UNCHANGED <<overlay, call, owed, faults, calls>>

(* The process dies: its handles close, its files stay.                      *)
Crash(l) ==
    LET inside == {cb \in Callbacks : call[l][cb] = "inside"} IN
    /\ Alive(l)
    /\ proc' = [proc EXCEPT ![l] = Ended]
    /\ ns' = [Released(ns, l) EXCEPT ![l].holder = None, ![l].torn = @ \/ Writing(l)]
    /\ overlay' = [overlay EXCEPT ![l] = Clean]
    /\ call' = [call EXCEPT ![l] = [cb \in Callbacks |-> "idle"]]
    /\ owed' = owed \cup {<<l, MarkOf(cb)>> : cb \in inside}
    /\ UNCHANGED <<faults, calls>>

-----------------------------------------------------------------------------
Init ==
    /\ ns = [l \in Launches |-> NoNamespace]
    /\ proc = [l \in Launches |-> Unborn]
    /\ overlay = [l \in Launches |-> Clean]
    /\ call = [l \in Launches |-> [cb \in Callbacks |-> "idle"]]
    /\ owed = {}
    /\ faults = MaxFaults
    /\ calls = MaxCalls

Next ==
    \E l \in Launches :
       \/ CreateDir(l) \/ CreateOwner(l) \/ CleanOwner(l) \/ CleanDir(l) \/ CleanFails(l)
       \/ ScanEnd(l) \/ ConfirmGlobal(l) \/ Exit(l) \/ DropKeeps(l) \/ DropOwner(l)
       \/ DropDir(l) \/ Crash(l)
       \/ \E n \in Launches :
             \/ ScanMissing(l, n) \/ ScanUnsafe(l, n) \/ ScanLive(l, n)
             \/ ScanDeadEmpty(l, n) \/ ScanIncidents(l, n)
       \/ \E cb \in Callbacks :
             \/ Begin(l, cb) \/ MarkerWritten(l, cb) \/ MarkerWriteFails(l, cb)
             \/ Clear(l, cb) \/ ClearFails(l, cb) \/ Panic(l, cb)
             \/ Reject(l, cb) \/ RejectFails(l, cb)
       \/ \E i \in Launches \X Marks : Confirm(l, i) \/ ConfirmFails(l, i)

Spec == Init /\ [][Next]_vars

-----------------------------------------------------------------------------
(* Properties                                                                *)

(* A held owner file exists, in a directory that exists, and only a store    *)
(* with incidents has any.                                                   *)
Shapes ==
    \A n \in Launches : /\ ns[n].holder # None => ns[n].owner
                        /\ ns[n].owner => ns[n].dir
                        /\ overlay[n].set # {} => overlay[n].mode = "incidents"

(* Namespaces, processes, overlays and calls keep their types and shapes.    *)
TypeOK ==
    /\ ns \in [Launches -> Namespaces]
    /\ proc \in [Launches -> Processes]
    /\ overlay \in [Launches -> Overlays]
    /\ call \in [Launches -> [Callbacks -> {"idle", "writing", "inside"}]]
    /\ owed \in SUBSET (Launches \X Marks)
    /\ faults \in 0..MaxFaults
    /\ calls \in 0..MaxCalls
    /\ Shapes

(* Plugin code runs only while its marker is on disk, whatever scans,        *)
(* confirmations, moves and cleanups other processes do meanwhile (begin,    *)
(* namespace_owner_state).                                                   *)
MarkedWhileInside ==
    \A l \in Launches, cb \in Callbacks :
       call[l][cb] = "inside" => ns[l].dir /\ ns[l].owner /\ MarkOf(cb) \in ns[l].marks

(* The evidence of an interrupted call stays on disk until somebody confirms *)
(* that call or moves its namespace aside (cleanup_dead_namespace, Drop).    *)
EvidenceSurvives ==
    \A i \in owed : ns[i[1]].dir /\ i[2] \in ns[i[1]].marks

(* An incident is offered by one process at a time: two users never confirm  *)
(* the same marker (the owner file is reopened without sharing).             *)
IncidentHasOneOwner ==
    \A l, k \in Launches : l # k => overlay[l].set \cap overlay[k].set = {}

(* A process begins no callback that an earlier process died or panicked in  *)
(* before the scan, unless another live process had that namespace in hand   *)
(* at the time of the scan (scan_until, begin).                              *)
Begins(l, cb) == call[l][cb] = "idle" /\ call'[l][cb] = "writing"
Interrupted(l, cb) == {i \in owed : i[2] = MarkOf(cb) /\ i[1] \in proc[l].before}

InterruptedCallDenied ==
    [][\A l \in Launches, cb \in Callbacks :
          Begins(l, cb) => \A i \in Interrupted(l, cb) : i[1] \in proc[l].skipped]_vars
=============================================================================
