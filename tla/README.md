# SuperExplorer: TLA+ models and proofs

SuperExplorer is a tabbed file manager for Windows written in Rust. This
directory holds a formal development of the parts of it that are hard to test:
the hand-over of results between Shell threads and the UI, the life of tabs,
loads, searches and directory watchers, the session file shared by several
processes, and the host of native extensions with its job registry, crash
markers and scheduler.

## 1. Inventory

| Component | State | Operations | Interaction and difficulty |
|---|---|---|---|
| Shell STA endpoint (`explorer-shell-win/sta.rs`) | command queues, active requests, watchers, worker counters | `submit`, `process_command`, `try_recv_event` | One STA thread, many worker and deadline threads; the UI polls. Bounded queues everywhere, Shell extensions that never return. |
| Terminal lanes (same file) | primary channel, retained queue | `enqueue_terminal`, `try_publish_batch`, `try_recv` | Publishers release one lock before they take the next; a lost terminal hangs a request for ever. |
| Window and tabs (`explorer-model/window.rs`, `navigation.rs`) | tabs, histories, directory and search state, generations | `apply_event`, `begin_*`, `commit_*`, `close`, `reopen_tab` | Events of old requests arrive late; jumps commit after the stacks may have changed. |
| UI (`explorer-ui/state.rs`, `lib.rs`) | snapshot cache, recently closed tabs, pending work | user commands, `accepts_presentation_event`, `apply_service_event`, `watcher_recovery_command` | Gate in front of the reducer; commands issued from inside the event pump. |
| Directory watchers (`explorer-shell-win/watcher.rs`) | one thread per tab | `start`, `watch_loop` | Started after the listing, report under an old generation. |
| Extension job scheduler (`explorer-jobs/extension_scheduler.rs`) | lanes, job tables, counters, fences | `submit`, `try_start`, `cancel*`, `close_scope`, `expire`, `complete` | Counters kept beside tables; starvation; fences that must stay closed. |
| Thumbnail and preview schedulers (`explorer-jobs`) | joined consumers, budgets, LRU | request, cancel, complete | Late completions, byte budget. |
| Extension job runtime (`explorer-extension-host/extension_job_runtime.rs`, `extension_job_ui_bridge.rs`) | jobs, queued batches, retained rows, revoked generations, credits, UI mailbox | open, submit, finish, retire, revoke, drain, apply, rescan | Plugin threads, the UI and the lifecycle share it; values outlive their job; the mailbox overflows. |
| Native extension lifecycle (`native_lifecycle.rs`) | a gate per feature: state, epoch, leases, operation | `try_enter`, `call_provider`, `disable`, `enable`, `require_restart`, `shutdown` | Releases its lock for every call into the runtime; drains against a deadline. |
| Plugin call guard (`plugin_call_guard.rs`) | launch namespaces and markers on disk, Safe Mode overlay | `open`, scan, `begin`, `clear`, `confirm`, drop | Several processes, crash at any step, file operations that fail. |
| Extension result cache, invalidation batcher, packages, registries (`explorer-extension-host`) | generations, cached values, manifests | | Cached values under old generations; parsing. |
| Extension broker (`explorer-extension-broker`) | process, pending requests | request, reply, restart | Pipe messages, timeouts, crash of the child process. |
| Operation center, undo journal (`explorer-model/operation.rs`) | operations, undo entries | begin, progress, finish, undo | Progress after the terminal; partial failure. |
| Session persistence (`explorer-app/session_store.rs`, `session_lifecycle.rs`) | current, backup and temporary file, write mutex, coordinator per process | load, merge and save, reset, flush, shutdown | Several processes upsert one file; crash between two file operations; loads without the mutex. |
| Launch coordination (`explorer-app/launch_coordination.rs`) | two named mutexes | acquire, activate | One system call each. |
| Remote transfers (`explorer-remote`) | transfer queue | enqueue, pause, resume, retry | Retries of what was already done. |
| MFT index, folder sizes (`explorer-app`) | index, journal position | scan, replay, persist | Journal wrap, crash between persist and position. |
| Automation (`explorer-automation`) | tasks, schedules | route, run, stop | Events during shutdown. |
| Search language, bookmarks, i18n, setup, AI client | mostly pure | | Parsing and I/O; unit tests serve them well. |

What makes each modelled component correct:

* **Lanes.** Every admitted request gets exactly one terminal, in bounded
  memory, behind its batches, and gives its admission slot back.
* **Tabs.** What is shown as complete is the listing of the folder the history
  is at; work nobody waits for is told to stop; loads and searches end; what
  changes on disk is shown in the end.
* **Scheduler.** Limits hold for the jobs that really exist, no job is lost or
  starved, and a closed feature generation never runs again.
* **Session.** What was saved survives every crash; windows do not erase one
  another; a running window's changes reach the disk.
* **Extension host.** No plugin code runs in a feature that is reported
  disabled; a revoked generation shows nothing; credits match what exists; what
  is queued is announced to the UI.
* **Call guard.** Plugin code runs under its marker; evidence of an interrupted
  call lasts until somebody confirms it, and until then the call is denied.

`PROJECT.json` lists the hazards, each at its line.

## 2. Modules

| Module | Models | Used by |
|---|---|---|
| `TerminalLane` | one terminal lane, its publishers, admission, receiver | `MCTerminalLane`, `TerminalLaneProofs` |
| `ExplorerTabs` | one window: tabs, UI commands and gate, STA listings, searches, watchers | `MCExplorerTabs` |
| `ExtensionScheduler` | the job scheduler and its host | `MCExtensionScheduler` |
| `SessionPersistence` | the session file and the processes that share it | `MCSessionPersistence` |
| `PluginCallGuard` | crash markers and Safe Mode incidents | `MCPluginCallGuard` |
| `ExtensionJobRuntime` | the job registry and the UI mailbox, as operators and actions | `ExtensionHost` |
| `ExtensionHost` | composition: lifecycle, dispatching threads, plugin code, UI and the registry | `MCExtensionHost` |
| `CallbackFence` | abstract specification of what the lifecycle promises | `ExtensionHost` (refinement) |
| `SequenceFilter` | the elements of a sequence that are wanted, in order | `ExtensionScheduler`, `SessionPersistence` |
| `SequenceFilterProofs` | lemmas about it: members, order, no repetition | the proofs of both |
| `TerminalLaneProofs`, `ExplorerTabsProofs`, `ExtensionSchedulerProofs`, `SessionPersistenceProofs`, `PluginCallGuardProofs` | theorems about the module of that name (section 4) | |
| `ExtensionJobRuntimeProofs` | the registry's part of the host's invariant, action by action | `ExtensionHostProofs` |
| `ExtensionHostProofs` | theorems about the composition, and the refinement | |

### TerminalLane

`primary` is the `sync_channel`, `retained` the mutex-protected deque, `active`
the admission table. Each publishing thread has a program counter, because the
code releases the retained mutex before it tries the primary channel: the
steps `TermCheck`, `TermSend`, `TermSpill` are the three parts of
`enqueue_terminal`, and `BatchCheck`, `BatchSend`, `BatchSpill` those of
`try_publish_batch`. The receiver has a position too (`rx`), between its look
at one queue and the next. `Kind` says what a request runs:

* `plain`: one terminal, no batches (file operations, icons, thumbnails, ...);
* `navigation`: batches through a clone of the primary sender, which end the
  listing when the channel is full; after the terminal the STA thread still
  feeds the index and starts the watcher, and a panic there publishes a second
  terminal;
* `column`: batches that leave one retained slot free; a terminal the lane
  refuses, and every failure, goes to the typed lane (`fallback`);
* `ancestry`, `children`: breadcrumb jobs with a deadline thread and the
  `terminal_sent` gate.

Abstractions: the payload and outcome of events; a submission refused because
the control queue is full leaves the state as it was; reports of directory
watchers, which share the primary channel of the navigation lane, and the
search lane are left out; the typed lane seen from a background lane is a set.

### ExplorerTabs

A tab is a record (generation, history stacks, pending jump, directory state
with its rows and the rows seen, search state). A row is `<<folder, version>>`,
so that a foreign or an outdated listing is visible in the state. A listing is
one batch. Requests are numbered; `svc` says how far the service is with each
and `mail` holds the events the UI has not drained, per request in order and
across requests in any order. `Drain` is gate and reducer together;
`DrainNotice` is `watcher_recovery_command` and the submission of its refresh.

`scenario`, chosen at the start, says which groups of user and environment
actions occur and how many tabs, folders and requests there are, so that one
run asks several questions at the cost of their sum. Under `deafness` a watcher
may fail to start (`StaWatchFails`: the code logs it and goes on without one)
or find the event queue full at the moment of a change, which ends its thread
for good (`FolderChanges`). A folder named without a path gets no watcher.
Selection, address text and columns are left out. `missed` is a history
variable: tabs whose folder changed with no watcher of theirs to report it, or
whose report was still in the queue when a search took their generation.

### ExtensionScheduler

Every method of the scheduler is one action, since its host holds a lock. What
the host does after it has released the lock, signalling tokens, is an action
of its own (`SignalAll`), so a job may complete, be started or be cancelled
again in between. `TryStart(c, k, i)` starts the `i`-th job of the `k`-th lane
that `try_start` visits; its guard says that nothing before it was eligible.
At this commit only tests use the scheduler. A job identity is used again after
its job is gone, which lets behaviours go on for ever in a finite model;
`consecutive_visible_starts` is counted up to the burst limit, beyond which the
code tells no two values apart.

### SessionPersistence

`current`, `backup` and `temp` are the three files; a file is absent, sound,
old (it decodes, and the load writes it back) or bad. An entry of a session is a
window with the version of its state. `holder` is the process that has the
write mutex. Every process has two threads that can be in the store: the worker
of its coordinator, which saves and resets under the mutex, and the user
interface thread, which loads without it (at startup and for the list of closed
windows). A thread's `pc` stands between two file operations: read current,
read backup, quarantine, open and fill the temporary file, the two halves of
`replace_with_backup`, and the three removals of `reset`. Each may fail, and
`Crash` ends a process at any of them; the mutex of a dead process is abandoned
to the next waiter. `state` is the `CoordinatorState`; `Take` and `Complete` are
the two lock sections of `worker_loop`. A failing bookmark save ends a save
before it reaches the store (`BookmarksFail`).

`want` is the version of a process's window that must reach the disk; it is
forgiven by a reset, a full set and a blind save. `raced` records that a load
which writes met another thread in the files.

### PluginCallGuard

A launch owns a namespace: a directory, an owner file it keeps open, and one
marker per guarded call. `proc` walks through `open` (make the directory, make
the owner file, scan the others one by one, clean up what is empty), runs, and
drops. `overlay` is what the scan found: nothing, a set of incidents, or global
Safe Mode with the namespace that caused it. Calls of one process are
concurrent. Launches overlap, die at any step, panic inside plugin code, and
file operations fail. `owed` is a history variable: the calls that a process
died or panicked in and nobody has confirmed since.

### ExtensionJobRuntime, ExtensionHost, CallbackFence

The registry and the lifecycle have a lock each, and the lifecycle never holds
its own while it calls the registry. Every action is one section under one of
these locks, which makes `disable` five steps (close the gate, revoke and
cancel, wait for leases, wait for the runtime, finish) and a dispatch eight
(`step`). A job belongs to a producer generation (`Key`: feature and enable
epoch); a value belongs to a token (`Token`: job and generation of the host's
view), and `live` holds the tokens whose values are current. `tombstones` are
the tokens a later revocation must still find. `mail`, `sending` and `ui` are
the bounded mailbox, the signals between registry and mailbox, and what the UI
has taken: batches it drained and not applied (`held`) and values it shows.

Plugin code submits, misbehaves, returns or stays inside at will; the UI drains,
applies late, cancels, moves its view on and purges; disable, enable, remove
(also of a resident disabled feature, in two sections) and shutdown overlap.
`HostInit` is the state after `seal_startup`. Left out: progress values, restart
reasons, the result cache, reads of host input streams, admission at startup and
authority envelopes.

`CallbackFence` says what all this is for: dispatches enter an open feature, run
plugin code inside, leave; a feature is reported closed only when all have left;
one that cannot be emptied in time is broken for good. `ExtensionHost` maps
gate states to the fence's, leases to `entered` and threads in plugin code to
`inside`; `ImplementsFence` is the refinement.

## 3. Runs

All bounds are constants of the configurations. The primary channel has
capacity 1, the retained queue 2: both fill, spill and drain again with two or
three requests, which is what the properties are about; the real capacities
(4096 and 64 to 576) only make that rarer.

| Run | Bounds | Shows |
|---|---|---|
| `TypedLane` | 4 requests, no batches | no terminal lost, slots match terminals, every request ends |
| `NavigationLane` | 3 listings of up to 2 batches | every listing ends, with batches and panics |
| `BackgroundLane` | 1 column, 2 breadcrumb jobs, 1 worker slot | one terminal per request, order within the queues |
| `TabSafety` | 1 tab, 2 folders and an alias, 4 requests; 3 tabs, 2 folders, 3 requests | a ready tab shows its location; cache, history and window stay sound; abandoned work is cancelled |
| `TabProgress` | 1 tab, 2 folders, 3 requests with searches; 3 requests with a changing folder; 2 requests with deaf watchers; 2 requests with a changing folder that is searched | loads of the current generation and searches end; reported changes are shown; what is stale changed unwatched |
| `SchedulerSafety` | 3 jobs, 2 packages, 2 generations, both classes, 1 fence | counters, lanes, limits; a closed generation stops and a drained fence is final |
| `SessionStore` | 2 processes, a set of 2 windows with a third from an earlier run, up to 3 changes, one or two faults, a crash, a reset, a late load; sound, old, corrupt and unreadable files | saved versions survive, a clean coordinator has saved, workers exclude each other, changes reach the disk |
| `PluginMarkers` | 3 launches, 2 alive at once, 2 callbacks, 3 calls, 1 failing file operation | markers cover calls, evidence survives, one owner per incident, interrupted calls are denied |
| `ExtensionHost` | 2 jobs, 2 features, 2 epochs, 2 queued batches, 1 retained row, a mailbox of 1; up to 3 lifecycle calls, UI requests or failures | counters agree, revoked and old values are dead, queued work is announced, retirement is final, the fence is implemented |

`SchedulerSafety` and `ExtensionHost` use the symmetry of job identities,
`PluginMarkers` that of callbacks; none of them checks liveness. Four requests
are enough for one load to be superseded twice and a jump to be pending while
another is resolved; three tabs are enough for an active tab to be closed with a
neighbour on either side. Two processes, one of which dies in the middle of a
replacement, and a third window in a set of two are what the session hazards
need. Three launches are enough for one to die, one to hold its namespace and
one to scan meanwhile; two dispatches for one to hold a lease while the other is
admitted, refused or late. `SessionStore`, `PluginMarkers` and `ExtensionHost`
may stop: processes exit, bounds are used up.

Runs that end in a violation, each a disagreement between the code and what
the repository says of it:

| Run | What TLC finds |
|---|---|
| `LaneOrderRace` | the receiver sees the primary channel empty, a worker fills it and spills its terminal, the receiver pops the terminal first |
| `SearchStrandsLoad` | a search started during a load makes the gate refuse the load's events; the tab loads for ever |
| `SchedulerStarves` | with two packages in one lane, a job passed over at its package's limit goes behind a newer one of that package, again and again; `WorkSpec` leaves cancellation out, so this is a behaviour of `Spec` too |

What the models contain and the passing runs leave aside, so that a reader does
not take those runs for more than they show:

* On the background lane breadcrumb batches may take the last retained slot, so
  `NoTerminalDropped` does not hold there; it is checked and proved for lanes
  whose retained queue takes only terminals.
* An ancestry job whose batch is refused ends without claiming its terminal and
  its deadline thread stands down, so `EventuallyTerminal` does not hold there.
* A change between the reading of a folder and the start of its watcher is never
  shown, nor is one that falls to a watcher that did not start or has fallen
  silent; `StaleOnlyIfUnwatched` says that these, and the next, are the only ways to
  stay stale.
* A search advances the generation of its tab (`navigation.rs:2846`), and a
  report of the watcher that is drained under the old one is dropped
  (`state.rs:9604`): the folder stays stale. It is the root cause of
  `SearchStrandsLoad` again. The properties of `TabProgress` excuse it: such a tab
  is in `missed`, and `WatchedChangeShows` promises nothing while a search runs.
* A load of the session takes no mutex, yet it may quarantine or rewrite files
  (`session_store.rs:185-217`; the comment at 273 says read-modify-write cycles
  are serialised).
  When it meets a writer, nothing is promised: the properties stop at `raced`.
  The same holds for a load that found no current file, and comes to an old
  backup when a writer has put a current file there.
* A failed rename of a bad current file is ignored (`session_store.rs:206`). When
  there is a good backup behind it, the next write makes the bad file the backup
  (`replace_with_backup`, 431-493), and a death or a failing rename at that moment
  loses the saved set. No scenario of `SessionStore` has this fault together
  with such files (`BadMovesAway`).
* A save that cannot read the set writes its own window alone and erases its
  siblings (`session_store.rs:358`; the comment at 337 says every process upserts
  only its own window).
  `SavedVersionsSurvive` excuses this step and no other of that kind.
* A save that fails while a reset is requested is put back and runs after the
  reset, which brings the window back (`session_lifecycle.rs:325-331`). A write
  that fails during shutdown drops its snapshot, and `flush` still returns true.
* A process that starts while another holds a recovered namespace skips its
  incident, so the interrupted callback may run there
  (`sdk/NATIVE_PLUGIN_OPERATIONS.md:103` says otherwise); `InterruptedCallDenied`
  excepts it. A scan that meets a live launch between its directory and its owner
  file goes to global Safe Mode. The marker of a rejected library denies no load.
* An authority minted before `disable` and opened after the revocation starts a
  job of a generation that is over (`late`); `disable` still waits for its lease,
  and `ImplementsFence` covers it, but its values are not hidden.
* A cancelled or abandoned job revokes its whole producer generation, so a fresh
  context of the same epoch is refused until the feature is enabled again.
* `cancel_and_revoke_all` at shutdown revokes only generations that have an open
  job, before the lifecycle stops accepting: values of retired jobs, and of jobs
  prepared in between, stay current. The properties about values are stated of
  revoked generations and of a host that is running.

### Fairness

* Lanes: the UI timer keeps polling (`WF(Receive)`), operating system threads
  run, and commands that call no Shell extension end. Nothing is assumed of a
  breadcrumb provider: only its deadline thread is fair. Every poll asks the
  typed lane before the others, hence strong fairness of `RecvFallback`.
* Tabs: service threads and the event pump run. Nothing is assumed of the user
  or of changes on disk.
* Session: threads that are inside the store take their next step and the
  coordinator's worker wakes up. Nothing is assumed of changes, loads, crashes
  or faults, of which there are finitely many.
* Extension host and call guard: no fairness; plugin code may never return.
* Scheduler (`SchedulerStarves`): the host polls, signals what it was handed, and callbacks return.
  The code never interrupts a callback, so a job that never returns holds its
  slot and `NoStarvation` would not hold without this.

Every property of a passing run has a mutant of the model, a plausible bug,
under which TLC finds it violated (`PROJECT.json`, `mutants`).

## 4. Proofs

Every safety invariant, every action property and the refinement that a passing
run checks is a theorem, for all values of the constants: 35 theorems in eight
modules, listed in `PROJECT.json`. Each rests on an inductive invariant that TLC
checked first:

| Module | Invariant | Checked by TLC on |
|---|---|---|
| `TerminalLane` | `TypeInv`, `Gated`, `OrderInv` | `BackgroundLane` (5 million states), `TypedLane`, `NavigationLane` |
| | `DropInv`, `SlotInv` | `TypedLane`, `NavigationLane` |
| `ExplorerTabs` | `TabInv` | `TabSafety` (3.3 million), `TabProgress`, and two tabs that mix its scenarios |
| `ExtensionScheduler` | `SchedulerInv` | `SchedulerSafety` |
| `SessionPersistence` | `SessionInv`, `Preserved` | `SessionStore`, and wider scenarios (3.9 million) |
| `PluginCallGuard` | `GuardInv` | `PluginMarkers` (0.7 million) |
| `ExtensionHost` | `HostInv` | `ExtensionHost` (2.3 million) |

**Assumptions.** The proofs use the assumptions that the modules state about their
constants: `LaneAssumption`, `TabsAssumption`, `SchedulerAssumption`,
`BoundsAssumption`, `NamesAssumption`, `ScenariosAssumption`,
`LaunchAssumption` and `RuntimeAssumption`. TLC evaluates them in every run. Two
theorems have a hypothesis of their own. `NoTerminalIsDropped` and the two about
slots speak of lanes whose retained queue takes only terminals
(`TerminalsOnly`, or plain commands alone), since batches may take the last slot
of a background lane. `SavedVersionsLast` asks of the files at the start what
`RestoredAtZero` and `BadMovesAway` say; `MCSessionPersistence` has TLC evaluate
both on the scenarios of its run.

### Lanes

`LaneTypeCorrect` says that no queue exceeds its capacity; `TypeInv` adds to
`TypeOK` that a thread about to send a batch has one to send.

`NoTerminalIsDropped`, `SlotsFollowTerminals` and `SlotsAreReturned` are counting
arguments. `Gated` bounds, for every request, the terminals that exist anywhere
and those in the hands of its threads by what the claims on its `terminal_sent`
gate and a panic allow (`Allowed`); `TerminalsAreUnique` follows.
With `DropInv`, retained terminals inject into the admitted requests other than
the publisher's (`RoomForTerminal`), and admission keeps those below the
capacity: a slot is free. `SlotInv` turns the bound into an equation: a request
holds its slot exactly until its terminal is delivered. A panic of a listing adds
a terminal that no admission covers, which is why it is excepted.

`BatchesKeepOrder` and `TerminalComesLast`: a publisher looks at the retained
queue, releases it and sends to the primary channel, so order needs an argument
about threads as well as queues. `OrderInv` says that no thread which is about to
send to the primary channel has left a batch in the retained queue
(`SendsFirst`), that batches of one request ascend within a queue and across the
two, and that no batch of a request stands behind its worker's terminal.

### Tabs

`ReadyTabsShowTheirFolder`, `CachedListingsAreWhole`,
`SupersededWorkIsCancelled`, `HistoriesStayLines` and `RestingTabsAreFresh`. A
property of what is shown must follow the listing from the request through the
service and the mailbox into the tab. `TabInv` does so: a tab that loads is linked
to one request of its own generation (`TabsLinked`); what is in a mailbox fits
what the service has done for it (`RequestsServed`); uncancelled work that has
not started is work that a tab waits for (`WorkAwaited`); and what the tab has
taken plus what is still in the mailbox is one whole listing of the folder that
was asked for (`LoadsProgress`). `ShownFresh` and `ComingFresh` add
that rows, shown or on their way, are of the present version of the folder, or a
report is queued, or the tab is in `missed`. The proof has one lemma per kind of
step (begins a load, searches, changes the window only, takes an event, changes
a folder) and shows the actions of `Next` to be of these kinds.

### Scheduler

`SlotsAreAccounted`, `LanesAreFaithful`, `ClosedGenerationStops` and
`DrainStaysFinal`. Counters agree with the job tables only because a lane holds
exactly the queued jobs of its class and priority, each once (`Placed`): what a
scan of `try_start` drops, rotates or starts is found there. `Told` is what
`close_scope` needs: a job whose cancellation was requested earlier is signalled
or about to be. What filtering a lane keeps is proved in `SequenceFilterProofs`,
where the filter is a recursive function; in place of induction over data, which
the provers cannot instantiate, its lemmas argue about the least position at which
a claim would fail.

### Session

`GuardedWritesAreExclusive`: a worker in the store holds the mutex (`Guarded`),
through timeouts and abandoned mutexes. `NothingAcceptedIsLost`: outside a race
only one thread at a time does more than begin to read (`OneEngaged`), so what
it has seen of the files is still true when it writes (`Faithful`); what
a process wants on disk is pending in its coordinator, in the hands of its
worker, or in a file set that a load returns untouched (`NothingForgotten`).

`SavedVersionsLast` is an action property, and needs more: the set a thread is
about to move into place has every window that load returns now (`SetsKept`),
whatever is on disk or about to be written is no newer than its coordinator, so
that the merged entry is never older (`VersionsWithin`, `InOrder`), and a
bad file never stands between a thread that writes and a good backup (`BadAlone`).
The last part is false without `BadMovesAway`: section 3 describes the behaviour.

### Call guard

`CallsAreMarked`, `EvidenceIsKept`, `IncidentsAreExclusive` and
`InterruptedCallsAreDenied`. The heart of `GuardInv` is ownership: a living
process holds its own owner file open, so an owner file that can be opened
belongs to a process that is gone (`OwnNamespace`); a namespace in cleanup is
empty, of a process that is gone and held by the one that deletes it (`Cleaning`);
and each interrupted call a scan owes is still to be scanned, was in other hands
or is an incident (`Owing`).

### Extension host

`RegistryInv` belongs to the job registry alone: credits and counters are the
sizes of what they stand for (`Credits`), every current value has a tombstone,
so that a revocation finds it (`Values`), and a job with batches the UI could show
is announced (`Signalled`).
`ExtensionJobRuntimeProofs` proves what each operation of the registry does to it;
`HostInv` adds the gates: the lease counter of a feature counts its dispatches
(`LeasesIn`), each step of `disable` finds the gate in the state it left
(`GateIn`), and current values belong to the present epoch (`HiddenIn`). From it
follow `HostCountersAgree`, `RevocationIsComplete`, `OldRowsStayDead`,
`DisabledShowsNothing`, `NoWakeupIsLost` and `RetirementStaysFinal`.

`HostImplementsFence` is the refinement `Spec => ImplementsFence`: a step of the
host closes a feature only when the lease counter is zero, and that counter
counts exactly the dispatches the fence has as `entered`, so every step of the
host is a step of `CallbackFence` or leaves its variables unchanged.

### What stays with TLC

Liveness under fairness (`EventuallyTerminal`, `CurrentLoadEnds`,
`SearchEndsSometime`, `WatchedChangeShows`, `ChangesReachDisk`) and everything
that needs `ENABLED` is beyond the prover, and is checked on the bounds of
section 3. The three runs that end in a violation are counterexamples and have
nothing to prove.

## 5. Not modelled, and the plan

Left out for good: COM and Shell calls, rendering (`chrome.rs` and most of
`lib.rs` and `state.rs` of `explorer-ui`), text and parsing, network protocols,
database layout, and the command line tools of the SDK. They make up most of the
repository's lines and have no state whose interleavings could be explored.

Components that would be modelled next:

1. The extension broker with lost replies and restarts.
2. Thumbnail scheduler and preview coordinator; the result cache of extensions.
3. The operation center and remote transfers. The undo journal has no user at
   this commit.
4. Column view branches as part of `ExplorerTabs`; a composition of
   `TerminalLane` and `ExplorerTabs` in which watchers and listings share the
   bounded navigation channel.
