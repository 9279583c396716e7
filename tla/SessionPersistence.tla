------------------------- MODULE SessionPersistence -------------------------
(* The session file shared by every running window.  Each process owns one  *)
(* window, coalesces its changes in a coordinator (session_lifecycle.rs) and *)
(* lets one worker thread upsert that window into a file set on disk        *)
(* (session_store.rs): current, backup and a temporary file, under a named   *)
(* mutex.  Loads take no mutex: the user interface thread loads at startup   *)
(* and for the list of closed windows, and a load may quarantine or rewrite  *)
(* the files.  A process may crash at any step; the files survive.           *)
EXTENDS Integers, Sequences, FiniteSets, SequenceFilter

CONSTANTS
    Procs,          \* processes; each is named by the window it owns
    Closed,         \* a window of an earlier run that no process owns
    Nobody,         \* the free mutex, and a temporary file nobody has open
    MaxWindows,     \* MAX_PERSISTED_WINDOWS
    MaxVersion,     \* bound: versions of one window
    Scenarios       \* what the disk holds at first, who runs, which faults can
                    \* occur, and the bounds: changes, loads, resets, faults, crashes

ASSUME BoundsAssumption ==
    /\ MaxWindows \in Nat \ {0}
    /\ MaxVersion \in Nat

ASSUME NamesAssumption == Closed \notin Procs /\ Nobody \notin Procs

VARIABLES
    scenario,       \* the member of Scenarios this behaviour plays
    current,        \* the session file
    backup,         \* the last known good file
    temp,           \* the temporary file, with the thread that has it open
    holder,         \* the process that holds the session write mutex
    state,          \* per process: its coordinator
    thread,         \* per thread: where it stands in the store's code
    want,           \* per process: the version its disk entry must reach
    raced,          \* a load has written while another thread used the files
    budget          \* what is left of the bounds

disk == <<current, backup, temp>>
vars == <<scenario, current, backup, temp, holder, state, thread, want, raced, budget>>

Windows == Procs \cup {Closed}
Threads == Procs \X {"ui", "worker"}
Scopes == {"session", "view"}

-----------------------------------------------------------------------------
(* File contents.  "old" is a snapshot of an earlier schema, or one with     *)
(* unusable windows: it decodes, and the load writes it back.                *)

Entry == [win : Windows, ver : 0..MaxVersion]
File == [form : {"absent", "bad", "old", "ok"}, set : Seq(Entry)]
Absent == [form |-> "absent", set |-> <<>>]
NoTemp == [form |-> "absent", set |-> <<>>, open |-> Nobody]
Snapshot(entries) == [form |-> "ok", set |-> entries]
Loadable(file) == file.form \in {"ok", "old"}

\* A window is in a set once: reading refuses a file that repeats one.
OncePerWindow(entries) ==
    \A i, j \in DOMAIN entries : entries[i].win = entries[j].win => i = j

ASSUME ScenariosAssumption ==
    \A s \in Scenarios :
       /\ s.current \in File /\ OncePerWindow(s.current.set)
       /\ s.backup \in File /\ OncePerWindow(s.backup.set)

MergeForgetsBase(base, entry) == <<entry>>

(* merge_window_set: the incoming window moves to the end, the oldest windows *)
(* above the limit are dropped.                                              *)
Merge(base, entry) ==
    LET all == Append(Kept(base, {e \in Members(base) : e.win # entry.win}), entry)
    IN  IF Len(all) > MaxWindows THEN SubSeq(all, Len(all) - MaxWindows + 1, Len(all)) ELSE all

(* What load would return now, and the version of a window in it.            *)
OnDisk == IF Loadable(current) THEN current.set
          ELSE IF Loadable(backup) THEN backup.set ELSE <<>>

VersionIn(entries, w) ==
    IF \E i \in DOMAIN entries : entries[i].win = w
    THEN entries[CHOOSE i \in DOMAIN entries : entries[i].win = w].ver
    ELSE 0

-----------------------------------------------------------------------------
(* Threads inside the store.                                                 *)

Idle == [pc |-> "idle", task |-> "none", ver |-> 0, migrating |-> FALSE,
         blind |-> FALSE, path |-> "current", out |-> <<>>, ok |-> TRUE]

Spend(kind) ==
    /\ budget[kind] > 0
    /\ budget' = [budget EXCEPT ![kind] = @ - 1]

Fault(kind) == kind \in scenario.faults /\ Spend("faults")

(* A store call returns to its caller: a load to the user interface thread,  *)
(* anything else to the worker, whose guard releases the mutex.              *)
Finished(t, ok) ==
    IF thread[t].task = "load" THEN Idle ELSE [thread[t] EXCEPT !.pc = "done", !.ok = ok]

(* load returned: result is "error", "none" or "found" with the entries.     *)
Loaded(t, result, entries) ==
    LET own == [win |-> t[1], ver |-> thread[t].ver] IN
    IF thread[t].task = "save"
    THEN [thread[t] EXCEPT !.pc = "open", !.migrating = FALSE, !.blind = result = "error",
                           !.out = IF result = "found" THEN Merge(entries, own) ELSE <<own>>]
    ELSE IF thread[t].task = "view" /\ result = "found"
    THEN [thread[t] EXCEPT !.pc = "open", !.migrating = FALSE, !.out = entries]
    ELSE Finished(t, result = "none")

WriteFailed(t) ==
    IF thread[t].migrating THEN Loaded(t, "error", <<>>) ELSE Finished(t, FALSE)

WriteSucceeded(t) ==
    IF thread[t].migrating THEN Loaded(t, "found", thread[t].out) ELSE Finished(t, TRUE)

(* A load that quarantines or rewrites holds no mutex: it may meet a guarded *)
(* writer, or another load.  It may also come to the backup, having found no *)
(* current file, when a writer has put one there by now; an old backup would *)
(* then be written over it.                                                  *)
Racing ==
    \E t \in Threads :
       /\ thread[t].task = "load"
       /\ \/ /\ thread[t].pc \notin {"idle", "current", "backup"}
             /\ \E u \in Threads \ {t} : thread[u].pc \notin {"idle", "acquire", "done"}
          \/ thread[t].pc = "backup" /\ backup.form = "old" /\ Loadable(current)

Watch == raced' = (raced \/ Racing)

StepKeepsMutex(t, next) ==
    /\ thread' = [thread EXCEPT ![t] = next]
    /\ holder' = IF next.pc = "done" /\ next.ok /\ holder = t[1] THEN Nobody ELSE holder
    /\ Watch
    /\ UNCHANGED <<scenario, state>>

Step(t, next) ==
    /\ thread' = [thread EXCEPT ![t] = next]
    /\ holder' = IF next.pc = "done" /\ holder = t[1] THEN Nobody ELSE holder
    /\ Watch
    /\ UNCHANGED <<scenario, state>>

At(t, pc) == thread[t].pc = pc

(* SessionWriteMutex::acquire: an abandoned mutex counts as acquired, two    *)
(* seconds of waiting fail the call.                                         *)
Acquire(p) ==
    LET t == <<p, "worker">> IN
    /\ At(t, "acquire")
    /\ holder = Nobody
    /\ holder' = p
    /\ thread' = [thread EXCEPT ![t].pc = IF thread[t].task = "session"
                                          THEN "rmCurrent" ELSE "current"]
    /\ Watch
    /\ UNCHANGED <<scenario, disk, state, want, budget>>

AcquireTimeoutIgnored(p) ==
    LET t == <<p, "worker">> IN
    /\ At(t, "acquire")
    /\ holder # Nobody
    /\ Fault("timeout")
    /\ Step(t, [thread[t] EXCEPT !.pc = "current"])
    /\ UNCHANGED <<disk, want>>

AcquireTimesOut(p) ==
    LET t == <<p, "worker">> IN
    /\ At(t, "acquire")
    /\ holder # Nobody
    /\ Fault("timeout")
    /\ Step(t, Finished(t, FALSE))
    /\ UNCHANGED <<disk, want>>

(* The worker saves the bookmarks first; when that fails the session is not  *)
(* saved at all.                                                             *)
BookmarksFail(p) ==
    LET t == <<p, "worker">> IN
    /\ At(t, "acquire")
    /\ thread[t].task = "save"
    /\ Fault("write")
    /\ Step(t, Finished(t, FALSE))
    /\ UNCHANGED <<disk, want>>

(* load, one file: an absent file is passed over, an unreadable one ends the *)
(* load, an invalid one is quarantined, an old one is rewritten.             *)
Read(t, pc, file, path, absent) ==
    /\ At(t, pc)
    /\ \/ /\ \/ file.form = "absent" /\ Step(t, absent)
             \/ /\ file.form = "bad"
                /\ Step(t, [thread[t] EXCEPT !.pc = "quarantine", !.path = path])
             \/ /\ file.form = "old"
                /\ Step(t, [thread[t] EXCEPT !.pc = "open", !.migrating = TRUE,
                                             !.path = path, !.out = file.set])
             \/ file.form = "ok" /\ Step(t, Loaded(t, "found", file.set))
          /\ UNCHANGED budget
       \/ /\ Fault("read")
          /\ Step(t, Loaded(t, "error", <<>>))
    /\ UNCHANGED <<disk, want>>

ReadCurrent(t) ==
    Read(t, "current", current, "current", [thread[t] EXCEPT !.pc = "backup"])

ReadBackup(t) ==
    Read(t, "backup", backup, "backup", Loaded(t, "none", <<>>))

(* A version that is on disk no longer has to be there: a reset, a full set  *)
(* or a save that could not read the set takes it away.                      *)
Forgive(lost(_)) ==
    want' = [q \in Procs |-> IF lost(q) /\ want[q] <= VersionIn(OnDisk, q) THEN 0 ELSE want[q]]

(* quarantine renames whatever has the path now; its failure is ignored.     *)
Quarantine(t) ==
    /\ At(t, "quarantine")
    /\ Step(t, IF thread[t].path = "current"
               THEN [thread[t] EXCEPT !.pc = "backup"]
               ELSE Loaded(t, "none", <<>>))
    /\ \/ /\ IF thread[t].path = "current"
             THEN current' = Absent /\ UNCHANGED backup
             ELSE backup' = Absent /\ UNCHANGED current
          /\ UNCHANGED budget
       \/ Fault("quarantine") /\ UNCHANGED <<current, backup>>
    /\ UNCHANGED <<temp, want>>

(* write_snapshot: remove the temporary file, create it, fill and sync it,   *)
(* then put it in place of the current file.                                 *)
OpenTemporary(t) ==
    /\ At(t, "open")
    /\ \/ /\ temp' = [form |-> "bad", set |-> thread[t].out, open |-> t]
          /\ Step(t, [thread[t] EXCEPT !.pc = "fill"])
          /\ UNCHANGED budget
       \/ /\ Fault("write")
          /\ temp' = NoTemp
          /\ Step(t, WriteFailed(t))
    /\ UNCHANGED <<current, backup, want>>

CloseHalfWritten(f, form) == [f EXCEPT !.form = "half", !.open = Nobody]

Close(f, form) == [f EXCEPT !.form = form, !.open = Nobody]

FillTemporary(t) ==
    /\ At(t, "fill")
    /\ \/ /\ temp' = IF temp.open = t THEN Close(temp, "ok") ELSE temp
          /\ Step(t, [thread[t] EXCEPT !.pc = IF current.form # "absent"
                                              THEN "rotate" ELSE "move"])
          /\ UNCHANGED budget
       \/ /\ Fault("write")
          /\ temp' = IF temp.open = t THEN Close(temp, "bad") ELSE temp
          /\ Step(t, WriteFailed(t))
    /\ UNCHANGED <<current, backup, want>>

CanPlace == temp.form # "absent" /\ temp.open = Nobody

(* replace_with_backup, first half: the current file becomes the backup.     *)
Rotate(t) ==
    /\ At(t, "rotate")
    /\ \/ /\ current.form # "absent" /\ CanPlace
          /\ backup' = current
          /\ current' = Absent
          /\ Step(t, [thread[t] EXCEPT !.pc = "move"])
          /\ UNCHANGED budget
       \/ /\ current.form = "absent" \/ ~CanPlace
          /\ Step(t, WriteFailed(t))
          /\ UNCHANGED <<current, backup, budget>>
       \/ /\ Fault("write")
          /\ Step(t, WriteFailed(t))
          /\ UNCHANGED <<current, backup>>
    /\ UNCHANGED <<temp, want>>

(* Second half: the temporary file takes the current file's name.            *)
Move(t) ==
    /\ At(t, "move")
    /\ \/ /\ CanPlace
          /\ current' = [form |-> temp.form, set |-> temp.set]
          /\ temp' = NoTemp
          /\ Step(t, WriteSucceeded(t))
          /\ Forgive(LAMBDA q : /\ VersionIn(temp.set, q) = 0
                                /\ thread[t].blind \/ Len(temp.set) = MaxWindows)
          /\ UNCHANGED budget
       \/ /\ ~CanPlace
          /\ Step(t, WriteFailed(t))
          /\ UNCHANGED <<current, temp, want, budget>>
       \/ /\ Fault("write")
          /\ Step(t, WriteFailed(t))
          /\ UNCHANGED <<current, temp, want>>
    /\ UNCHANGED backup

(* reset of the whole session: three removals, the first failure ends it.    *)
Remove(t, pc, next) ==
    /\ At(t, pc)
    /\ Step(t, next)
    /\ Forgive(LAMBDA q : TRUE)
    /\ UNCHANGED budget

RemoveFails(t) ==
    /\ thread[t].pc \in {"rmCurrent", "rmBackup", "rmTemp"}
    /\ Fault("write")
    /\ Step(t, Finished(t, FALSE))
    /\ UNCHANGED <<disk, want>>

RemoveCurrent(t) ==
    /\ Remove(t, "rmCurrent", [thread[t] EXCEPT !.pc = "rmBackup"])
    /\ current' = Absent
    /\ UNCHANGED <<backup, temp>>

RemoveBackup(t) ==
    /\ Remove(t, "rmBackup", [thread[t] EXCEPT !.pc = "rmTemp"])
    /\ backup' = Absent
    /\ UNCHANGED <<current, temp>>

RemoveTemp(t) ==
    /\ Remove(t, "rmTemp", Finished(t, TRUE))
    /\ temp' = NoTemp
    /\ UNCHANGED <<current, backup>>

-----------------------------------------------------------------------------
(* The coordinator of one process.                                           *)

Off == [up |-> "down", ver |-> 0, latest |-> 0, reset |-> "none"]

Coordinate(p, next) ==
    /\ state' = [state EXCEPT ![p] = next]
    /\ Watch
    /\ UNCHANGED <<scenario, disk, holder>>

(* A process starts: its user interface thread loads, without the mutex.     *)
Start(p) ==
    /\ p \in scenario.procs
    /\ state[p].up = "down"
    /\ Coordinate(p, [state[p] EXCEPT !.up = "loading"])
    /\ thread' = [thread EXCEPT ![<<p, "ui">>] = [Idle EXCEPT !.pc = "current", !.task = "load"]]
    /\ UNCHANGED <<want, budget>>

StartCoordinator(p) ==
    /\ state[p].up = "loading"
    /\ At(<<p, "ui">>, "idle")
    /\ Coordinate(p, [state[p] EXCEPT !.up = "running"])
    /\ UNCHANGED <<thread, want, budget>>

(* load_closed_windows: the same load, at any later time.                    *)
LoadClosedWindows(p) ==
    /\ state[p].up = "running"
    /\ At(<<p, "ui">>, "idle")
    /\ Spend("loads")
    /\ thread' = [thread EXCEPT ![<<p, "ui">>] = [Idle EXCEPT !.pc = "current", !.task = "load"]]
    /\ Watch
    /\ UNCHANGED <<scenario, disk, holder, state, want>>

(* accept: the newest snapshot replaces the pending one.                     *)
Accept(p) ==
    /\ state[p].up = "running"
    /\ state[p].ver < MaxVersion
    /\ Spend("changes")
    /\ Coordinate(p, [state[p] EXCEPT !.ver = @ + 1, !.latest = state[p].ver + 1])
    /\ want' = [want EXCEPT ![p] = state[p].ver + 1]
    /\ UNCHANGED <<thread>>

RequestReset(p) ==
    /\ state[p].up = "running"
    /\ Spend("resets")
    /\ \E scope \in Scopes :
          Coordinate(p, [state[p] EXCEPT !.latest = 0, !.reset = scope])
    /\ want' = [want EXCEPT ![p] = 0]
    /\ UNCHANGED thread

(* worker_loop takes a pending reset before a pending snapshot.              *)
Take(p) ==
    LET t == <<p, "worker">>
        s == state[p]
        resets == s.reset # "none" IN
    /\ s.up \in {"running", "closing"}
    /\ At(t, "idle")
    /\ resets \/ s.latest # 0
    /\ Coordinate(p, IF resets THEN [s EXCEPT !.reset = "none"] ELSE [s EXCEPT !.latest = 0])
    /\ thread' = [thread EXCEPT ![t] =
          [Idle EXCEPT !.pc = "acquire",
                       !.task = IF resets THEN s.reset ELSE "save",
                       !.ver = IF resets THEN 0 ELSE s.latest]]
    /\ UNCHANGED <<want, budget>>

CompleteOverNewer(p) ==
    LET t == <<p, "worker">>
        s == state[p]
        retry == ~thread[t].ok /\ s.up = "running" IN
    /\ At(t, "done")
    /\ Coordinate(p, IF retry /\ thread[t].task = "save" THEN [s EXCEPT !.latest = thread[t].ver]
                     ELSE IF retry THEN [s EXCEPT !.reset = thread[t].task] ELSE s)
    /\ thread' = [thread EXCEPT ![t] = Idle]
    /\ UNCHANGED <<want, budget>>

(* The worker has the result: a failed save comes back unless a newer        *)
(* snapshot is pending, a failed reset comes back; at shutdown neither does. *)
Complete(p) ==
    LET t == <<p, "worker">>
        s == state[p]
        retry == ~thread[t].ok /\ s.up = "running" IN
    /\ At(t, "done")
    /\ Coordinate(p, IF retry /\ thread[t].task = "save" /\ s.latest = 0
                     THEN [s EXCEPT !.latest = thread[t].ver]
                     ELSE IF retry /\ thread[t].task # "save"
                     THEN [s EXCEPT !.reset = thread[t].task] ELSE s)
    /\ thread' = [thread EXCEPT ![t] = Idle]
    /\ UNCHANGED <<want, budget>>

Shutdown(p) ==
    /\ state[p].up = "running"
    /\ At(<<p, "ui">>, "idle")
    /\ Coordinate(p, [state[p] EXCEPT !.up = "closing"])
    /\ UNCHANGED <<thread, want, budget>>

(* The worker returns once nothing is pending and shutdown joins it.         *)
Exit(p) ==
    /\ state[p].up = "closing"
    /\ state[p].latest = 0 /\ state[p].reset = "none"
    /\ At(<<p, "worker">>, "idle")
    /\ Coordinate(p, [state[p] EXCEPT !.up = "down"])
    /\ want' = [want EXCEPT ![p] = 0]
    /\ UNCHANGED <<thread, budget>>

(* The process dies: the files stay, its handles and its mutex are released. *)
Crash(p) ==
    /\ state[p].up # "down"
    /\ Spend("crashes")
    /\ state' = [state EXCEPT ![p] = [Off EXCEPT !.ver = state[p].ver]]
    /\ thread' = [t \in Threads |-> IF t[1] = p THEN Idle ELSE thread[t]]
    /\ holder' = IF holder = p THEN Nobody ELSE holder
    /\ temp' = IF temp.open # Nobody /\ temp.open[1] = p THEN Close(temp, temp.form) ELSE temp
    /\ want' = [want EXCEPT ![p] = 0]
    /\ Watch
    /\ UNCHANGED <<scenario, current, backup>>

-----------------------------------------------------------------------------
Init ==
    /\ scenario \in Scenarios
    /\ current = scenario.current
    /\ backup = scenario.backup
    /\ temp = NoTemp
    /\ holder = Nobody
    /\ state = [p \in Procs |-> Off]
    /\ thread = [t \in Threads |-> Idle]
    /\ want = [p \in Procs |-> 0]
    /\ raced = FALSE
    /\ budget = scenario.budget

StoreStep(t) ==
    \/ ReadCurrent(t) \/ ReadBackup(t) \/ Quarantine(t)
    \/ OpenTemporary(t) \/ FillTemporary(t) \/ Rotate(t) \/ Move(t)
    \/ RemoveCurrent(t) \/ RemoveBackup(t) \/ RemoveTemp(t) \/ RemoveFails(t)

WorkerStep(p) == Take(p) \/ Acquire(p) \/ Complete(p)

Next ==
    \/ \E t \in Threads : StoreStep(t)
    \/ \E p \in Procs :
          \/ WorkerStep(p) \/ AcquireTimesOut(p) \/ BookmarksFail(p)
          \/ Start(p) \/ StartCoordinator(p) \/ LoadClosedWindows(p)
          \/ Accept(p) \/ RequestReset(p) \/ Shutdown(p) \/ Exit(p) \/ Crash(p)

Fairness ==
    /\ \A t \in Threads : WF_vars(StoreStep(t))
    /\ \A p \in Procs : WF_vars(WorkerStep(p))

Spec == Init /\ [][Next]_vars /\ Fairness

-----------------------------------------------------------------------------
(* Properties                                                                *)

(* Files, coordinators and threads keep their shapes.                        *)
TypeOK ==
    /\ scenario \in Scenarios
    /\ current \in File /\ backup \in File
    /\ temp \in [form : {"absent", "bad", "ok"}, set : Seq(Entry), open : Threads \cup {Nobody}]
    /\ holder \in Procs \cup {Nobody}
    /\ state \in [Procs -> [up : {"down", "loading", "running", "closing"},
                            ver : 0..MaxVersion, latest : 0..MaxVersion,
                            reset : Scopes \cup {"none"}]]
    /\ thread \in [Threads -> [pc : {"idle", "acquire", "current", "backup", "quarantine",
                                    "open", "fill", "rotate", "move", "rmCurrent",
                                    "rmBackup", "rmTemp", "done"},
                              task : {"none", "load", "save"} \cup Scopes,
                              ver : 0..MaxVersion, migrating : BOOLEAN, blind : BOOLEAN,
                              path : {"current", "backup"}, out : Seq(Entry), ok : BOOLEAN]]
    /\ want \in [Procs -> 0..MaxVersion]

(* Whatever step a process dies at, load still finds every window that was   *)
(* on disk, at the version it had or a later one.  The exceptions are a      *)
(* reset, a window pushed out of a full set, and a save that could not read  *)
(* the set (replace_with_backup, merge_window_set).                          *)
Excused(w) ==
    \E t \in Threads :
       \/ thread[t].pc \in {"rmCurrent", "rmBackup"} /\ thread'[t] # thread[t]
       \/ /\ thread[t].pc = "move" /\ thread'[t] # thread[t]
          /\ VersionIn(current'.set, w) = 0
          /\ thread[t].blind \/ Len(current'.set) = MaxWindows

SavedVersionsSurvive ==
    [][\A w \in Windows :
          VersionIn(OnDisk', w) >= VersionIn(OnDisk, w) \/ Excused(w) \/ raced']_vars

(* What a scenario must grant for that: a window a process restores counts as *)
(* its version 0, and a bad current file in front of a backup that load can  *)
(* use is found and moved away (a failed rename is ignored: the next write    *)
(* then makes the bad file the backup).                                      *)
RestoredAtZero(s) ==
    \A p \in Procs : VersionIn(s.current.set, p) = 0 /\ VersionIn(s.backup.set, p) = 0

BadMovesAway(s) ==
    s.current.form = "bad" /\ Loadable(s.backup) =>
       "read" \notin s.faults /\ "quarantine" \notin s.faults

(* A coordinator with nothing pending and no write in progress has its       *)
(* newest accepted state on disk, through every failure and retry            *)
(* (worker_loop, flush).                                                     *)
CleanMeansSaved ==
    \A p \in Procs :
       /\ state[p].up = "running" /\ state[p].latest = 0 /\ state[p].reset = "none"
       /\ At(<<p, "worker">>, "idle")
       => VersionIn(OnDisk, p) >= want[p] \/ raced

(* Two workers are never in the store at once, although a waiter gives up    *)
(* after two seconds and a dead holder leaves its mutex to the next          *)
(* (SessionWriteMutex).                                                      *)
InStore(p) == thread[<<p, "worker">>].pc \notin {"idle", "acquire", "done"}

GuardedWritesExclude == \A p, q \in Procs : InStore(p) /\ InStore(q) => p = q

(* A change of a process that keeps running reaches the disk.                *)
ChangesReachDisk ==
    \A p \in Procs :
       state[p].up = "running" /\ want[p] > VersionIn(OnDisk, p)
          ~> state[p].up # "running" \/ want[p] <= VersionIn(OnDisk, p) \/ raced
=============================================================================
