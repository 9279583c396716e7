--------------------------- MODULE ExtensionHost ---------------------------
(* The native extension host: the lifecycle that opens and closes features   *)
(* (native_lifecycle.rs), the threads that dispatch plugin callbacks, and    *)
(* the job registry they share (ExtensionJobRuntime).  The lifecycle has its *)
(* own lock and never holds it while it calls the registry, so every call    *)
(* below is several steps.  A dispatch holds a lease of its feature from     *)
(* try_enter until its job has left the registry and was dropped.            *)
EXTENDS ExtensionJobRuntime

VARIABLES
    gate,           \* per feature: FeatureGateV1
    call,           \* per feature: the lifecycle call that is under way
    lateRemove,     \* features whose removal waits to take the lock again
    phase,          \* where the shutdown of the host stands
    stopping,       \* features the shutdown still drains
    step,           \* per job: where its dispatching thread stands
    lease,          \* jobs that hold a lease of their feature
    late,           \* jobs opened after their generation's revocation
    ops             \* lifecycle calls, UI requests and failures left

hostVars == <<gate, call, lateRemove, phase, stopping, step, lease, late, ops>>
vars == <<rtVars, hostVars>>

NoCall == [pc |-> "idle", todo |-> {}, drained |-> TRUE]
Running == phase # "stopped"

Spend == ops > 0 /\ ops' = ops - 1

-----------------------------------------------------------------------------
(* Dispatch: mint_job_authority, prepare, call_provider, publish, drop.      *)

(* try_enter                                                                 *)
TryEnter(j, f) ==
    /\ step[j] = "idle" /\ Running
    /\ Cardinality({k \in Jobs : step[k] # "idle"}) < setup.jobs
    /\ gate[f].accepting /\ gate[f].state = "enabled"
    /\ gate' = [gate EXCEPT ![f].inFlight = @ + 1]
    /\ lease' = lease \cup {j}
    /\ job' = [job EXCEPT ![j].f = f, ![j].e = gate[f].epoch]
    /\ step' = [step EXCEPT ![j] = "leased"]
    /\ UNCHANGED <<setup, revoked, tombstones, live, applied, rowCount, queuedCount, activeCount,
                   mail, sending, ui, call, lateRemove, phase, stopping, late, ops>>

Prepare(j) ==
    /\ step[j] = "leased"
    /\ OpenJob(j)
    /\ step' = [step EXCEPT ![j] = "prepared"]
    /\ late' = IF gate[job[j].f].state = "enabled" \/ call[job[j].f].pc = "cancel"
               THEN late ELSE late \cup {j}
    /\ UNCHANGED <<gate, call, lateRemove, phase, stopping, lease, ops>>

PrepareRefused(j) ==
    /\ step[j] = "leased" /\ ~OpenAllowed(j)
    /\ step' = [step EXCEPT ![j] = "gone"]
    /\ UNCHANGED <<rtVars, gate, call, lateRemove, phase, stopping, lease, late, ops>>

(* The marker is on disk and the registry lets the callback in.              *)
CallProvider(j) ==
    /\ step[j] = "prepared"
    /\ EnterScope(j)
    /\ step' = [step EXCEPT ![j] = "inside"]
    /\ UNCHANGED <<gate, call, lateRemove, phase, stopping, lease, late, ops>>

(* invoke_once is refused: the job was cancelled, revoked or is stale; the   *)
(* whole generation fails with it (fail_marker_clear).                       *)
CallRefused(j) ==
    /\ step[j] = "prepared" /\ ~EnterAllowed(j)
    /\ FailClose(j, "incompatible")
    /\ step' = [step EXCEPT ![j] = "published"]
    /\ UNCHANGED <<gate, call, lateRemove, phase, stopping, lease, late, ops>>

(* The ticket is dropped before its callback ran or was published: the       *)
(* marker was denied, the stream authority was revoked, the owner gave up.   *)
Abandon(j) ==
    /\ step[j] \in {"prepared", "returned"}
    /\ Spend
    /\ FailClose(j, "cancelled")
    /\ step' = [step EXCEPT ![j] = "published"]
    /\ UNCHANGED <<gate, call, lateRemove, phase, stopping, lease, late>>

PluginSubmits(j) ==
    /\ step[j] = "inside"
    /\ Submit(j)
    /\ UNCHANGED hostVars

PluginMisbehaves(j) ==
    /\ step[j] = "inside"
    /\ Spend
    /\ SubmitMalformed(j)
    /\ UNCHANGED <<gate, call, lateRemove, phase, stopping, step, lease, late>>

PluginReturns(j) ==
    /\ step[j] = "inside"
    /\ LeaveScope(j)
    /\ step' = [step EXCEPT ![j] = "returned"]
    /\ UNCHANGED <<gate, call, lateRemove, phase, stopping, lease, late, ops>>

(* publish_terminal_after_marker_clear: finish_job, then                     *)
(* authorize_retirement in a second lock section.                            *)
PublishTerminal(j) ==
    /\ step[j] = "returned"
    /\ \E reported \in {"completed", "panicked"} : FinishJob(j, reported)
    /\ step' = [step EXCEPT ![j] = "finished"]
    /\ UNCHANGED <<gate, call, lateRemove, phase, stopping, lease, late, ops>>

PublishAuthorized(j) ==
    /\ step[j] = "finished"
    /\ AuthorizeRetirement(j)
    /\ step' = [step EXCEPT ![j] = "published"]
    /\ UNCHANGED <<gate, call, lateRemove, phase, stopping, lease, late, ops>>

(* Clearing the marker fails, or the stream authority is gone by then.       *)
MarkerClearFails(j) ==
    /\ step[j] = "returned"
    /\ Spend
    /\ FailClose(j, "incompatible")
    /\ step' = [step EXCEPT ![j] = "published"]
    /\ UNCHANGED <<gate, call, lateRemove, phase, stopping, lease, late>>

(* The ticket's Drop retires the job unless somebody else did.               *)
TicketDrop(j) ==
    /\ step[j] = "published"
    /\ Retire(j) \/ (~Retirable(j) /\ UNCHANGED rtVars)
    /\ step' = [step EXCEPT ![j] = "gone"]
    /\ UNCHANGED <<gate, call, lateRemove, phase, stopping, lease, late, ops>>

(* The job was removed from the registry; dropping it drops the lease.       *)
LeaseDrop(j) ==
    LET f == job[j].f IN
    /\ j \in lease /\ ~job[j].open
    /\ step[j] # "leased"
    /\ lease' = lease \ {j}
    /\ gate' = [gate EXCEPT ![f].inFlight = @ - 1]
    /\ UNCHANGED <<rtVars, call, lateRemove, phase, stopping, step, late, ops>>

HostRetires(j) ==
    /\ Retire(j)
    /\ Spend
    /\ UNCHANGED <<gate, call, lateRemove, phase, stopping, step, lease, late>>

-----------------------------------------------------------------------------
(* Lifecycle calls of one feature                                            *)

CloseGate(f, op) ==
    /\ Running /\ Spend
    /\ gate[f].op = "idle" /\ gate[f].state = "enabled"
    /\ gate' = [gate EXCEPT ![f].accepting = FALSE, ![f].state = "disabling", ![f].op = op]
    /\ call' = [call EXCEPT ![f] = [NoCall EXCEPT !.pc = "cancel"]]
    /\ UNCHANGED <<rtVars, lateRemove, phase, stopping, step, lease, late>>

Disable(f) == CloseGate(f, "disabling")

Remove(f) == CloseGate(f, "removing")

(* require_restart on a resident feature takes no operation: it only locks   *)
(* again later.                                                              *)
RemoveResident(f) ==
    /\ Running /\ Spend
    /\ gate[f].op = "idle" /\ gate[f].state = "disabled"
    /\ lateRemove' = lateRemove \cup {f}
    /\ UNCHANGED <<rtVars, gate, call, phase, stopping, step, lease, late>>

FinishRemoveLeavesGateOpen(f) ==
    /\ f \in lateRemove
    /\ lateRemove' = lateRemove \ {f}
    /\ gate' = IF Running
               THEN [gate EXCEPT ![f].op = "idle", ![f].state = "restart"]
               ELSE gate
    /\ UNCHANGED <<rtVars, call, phase, stopping, step, lease, late, ops>>

FinishRemoveResident(f) ==
    /\ f \in lateRemove
    /\ lateRemove' = lateRemove \ {f}
    /\ gate' = IF Running
               THEN [gate EXCEPT ![f].accepting = FALSE, ![f].op = "idle", ![f].state = "restart"]
               ELSE gate
    /\ UNCHANGED <<rtVars, call, phase, stopping, step, lease, late, ops>>

(* drain: cancel_scope revokes the generation, and retires its jobs that are *)
(* not in plugin code one by one.                                            *)
CancelScope(f) ==
    LET key == <<f, gate[f].epoch>> IN
    /\ call[f].pc = "cancel"
    /\ RevokeFeature(key)
    /\ call' = [call EXCEPT ![f].pc = "leases",
                            ![f].todo = {j \in Jobs : /\ job'[j].open /\ ~job'[j].active
                                                      /\ job'[j].terminal # "none"
                                                      /\ Key(j) = key}]
    /\ UNCHANGED <<gate, lateRemove, phase, stopping, step, lease, late, ops>>

CancelRetires(f, j) ==
    /\ j \in call[f].todo
    /\ Retire(j) \/ (~Retirable(j) /\ UNCHANGED rtVars)
    /\ call' = [call EXCEPT ![f].todo = @ \ {j}]
    /\ UNCHANGED <<gate, lateRemove, phase, stopping, step, lease, late, ops>>

WaitLeases(f) ==
    /\ call[f].pc = "leases" /\ call[f].todo = {}
    /\ gate[f].inFlight = 0
    /\ call' = [call EXCEPT ![f].pc = "port"]
    /\ UNCHANGED <<rtVars, gate, lateRemove, phase, stopping, step, lease, late, ops>>

LeasesTimeOut(f) ==
    /\ call[f].pc = "leases" /\ call[f].todo = {}
    /\ gate[f].inFlight # 0
    /\ call' = [call EXCEPT ![f].pc = "port", ![f].drained = FALSE]
    /\ UNCHANGED <<rtVars, gate, lateRemove, phase, stopping, step, lease, late, ops>>

(* feature_callbacks_drained; by then it is asked once more or timed out.    *)
WaitPort(f) ==
    LET key == <<f, gate[f].epoch>> IN
    /\ call[f].pc = "port"
    /\ call' = [call EXCEPT ![f].pc = "finish",
                            ![f].drained = @ /\ \A j \in Jobs : Key(j) = key => ~job[j].active]
    /\ UNCHANGED <<rtVars, gate, lateRemove, phase, stopping, step, lease, late, ops>>

FinishDisable(f) ==
    /\ call[f].pc = "finish"
    /\ Running /\ gate[f].op = "disabling"
    /\ gate' = [gate EXCEPT ![f].op = "idle",
                            ![f].state = IF call[f].drained THEN "disabled" ELSE "restart"]
    /\ call' = [call EXCEPT ![f] = NoCall]
    /\ UNCHANGED <<rtVars, lateRemove, phase, stopping, step, lease, late, ops>>

FinishRemove(f) ==
    /\ call[f].pc = "finish"
    /\ Running /\ gate[f].op = "removing"
    /\ gate' = [gate EXCEPT ![f].op = "idle", ![f].state = "restart"]
    /\ call' = [call EXCEPT ![f] = NoCall]
    /\ UNCHANGED <<rtVars, lateRemove, phase, stopping, step, lease, late, ops>>

(* enable: restore runs without the lock, the gate opens afterwards.         *)
Enable(f) ==
    /\ Running /\ Spend
    /\ gate[f].op = "idle" /\ gate[f].state = "disabled" /\ gate[f].epoch < MaxEpoch
    /\ gate' = [gate EXCEPT ![f].op = "enabling"]
    /\ call' = [call EXCEPT ![f] = [NoCall EXCEPT !.pc = "restore"]]
    /\ UNCHANGED <<rtVars, lateRemove, phase, stopping, step, lease, late>>

FinishEnable(f) ==
    /\ call[f].pc = "restore"
    /\ Running /\ gate[f].op = "enabling"
    /\ gate' = [gate EXCEPT ![f].op = "idle", ![f].state = "enabled", ![f].accepting = TRUE,
                            ![f].epoch = @ + 1]
    /\ call' = [call EXCEPT ![f] = NoCall]
    /\ UNCHANGED <<rtVars, lateRemove, phase, stopping, step, lease, late, ops>>

(* A shutdown, or a removal that locked late, took the operation away.       *)
Superseded(f) ==
    /\ call[f].pc \in {"finish", "restore"}
    /\ ~Running \/ gate[f].op = "idle"
    /\ call' = [call EXCEPT ![f] = NoCall]
    /\ UNCHANGED <<rtVars, gate, lateRemove, phase, stopping, step, lease, late, ops>>

-----------------------------------------------------------------------------
(* Shutdown of the host (lib.rs): the mailbox, the registry, the lifecycle.  *)

ShutdownMailbox ==
    /\ phase = "running" /\ setup.stop
    /\ CloseMailbox
    /\ phase' = "closing"
    /\ UNCHANGED <<gate, call, lateRemove, stopping, step, lease, late, ops>>

ShutdownRegistry ==
    /\ phase = "closing"
    /\ RevokeAll
    /\ phase' = "revoked"
    /\ UNCHANGED <<gate, call, lateRemove, stopping, step, lease, late, ops>>

ShutdownLifecycle ==
    LET drained == {f \in Features : gate[f].state \in {"enabled", "disabling"}
                                        \/ gate[f].op # "idle"}
    IN  /\ phase = "revoked"
        /\ phase' = "stopped"
        /\ gate' = [f \in Features |->
                      [gate[f] EXCEPT !.accepting = FALSE, !.op = "idle",
                                      !.state = IF f \in drained THEN "disabling" ELSE @]]
        /\ stopping' = drained
        /\ UNCHANGED <<rtVars, call, lateRemove, step, lease, late, ops>>

ShutdownDrained(f) ==
    /\ f \in stopping /\ gate[f].inFlight = 0
    /\ stopping' = stopping \ {f}
    /\ gate' = [gate EXCEPT ![f].state = "disabled"]
    /\ UNCHANGED <<rtVars, call, lateRemove, phase, step, lease, late, ops>>

ShutdownTimesOut(f) ==
    /\ f \in stopping /\ gate[f].inFlight # 0
    /\ stopping' = stopping \ {f}
    /\ gate' = [gate EXCEPT ![f].state = "restart"]
    /\ UNCHANGED <<rtVars, call, lateRemove, phase, step, lease, late, ops>>

-----------------------------------------------------------------------------
HostInit ==
    /\ RuntimeInit
    /\ gate = [f \in Features |-> [state |-> "enabled", accepting |-> TRUE, inFlight |-> 0,
                                   epoch |-> 1, op |-> "idle"]]
    /\ call = [f \in Features |-> NoCall]
    /\ lateRemove = {} /\ phase = "running" /\ stopping = {}
    /\ step = [j \in Jobs |-> "idle"]
    /\ lease = {} /\ late = {}
    /\ ops = setup.ops

ThreadStep(j) ==
    \/ Prepare(j) \/ PrepareRefused(j) \/ CallProvider(j) \/ CallRefused(j) \/ Abandon(j)
    \/ PublishTerminal(j) \/ PublishAuthorized(j) \/ MarkerClearFails(j) \/ TicketDrop(j)
    \/ LeaseDrop(j)

CallStep(f) ==
    \/ CancelScope(f) \/ WaitLeases(f) \/ LeasesTimeOut(f) \/ WaitPort(f)
    \/ FinishDisable(f) \/ FinishRemove(f) \/ FinishEnable(f) \/ Superseded(f)
    \/ \E j \in Jobs : CancelRetires(f, j)

MailStep ==
    \/ \E s \in Tokens : Signal(s) \/ Drain(s) \/ DrainNothing(s)
    \/ TakeReady \/ Rescan \/ AcknowledgeRescan

UiStep ==
    /\ MailStep \/ \E b \in ui.held : Apply(b) \/ ApplyRefused(b)
    /\ UNCHANGED hostVars

UiRequest(j) ==
    /\ Spend
    /\ \/ AdvanceGeneration(j) \/ ReplaceSource(j) \/ Purge(j)
       \/ RequestControl(j, "cancelled") \/ RequestControl(j, "deadline")
    /\ UNCHANGED <<gate, call, lateRemove, phase, stopping, step, lease, late>>

Next ==
    \/ \E j \in Jobs, f \in setup.features : TryEnter(j, f)
    \/ \E j \in Jobs :
          \/ ThreadStep(j) \/ PluginSubmits(j) \/ PluginMisbehaves(j) \/ PluginReturns(j)
          \/ HostRetires(j) \/ UiRequest(j)
    \/ \E f \in setup.features :
          \/ Disable(f) \/ Remove(f) \/ RemoveResident(f) \/ FinishRemoveResident(f)
          \/ Enable(f) \/ CallStep(f)
    \/ \E f \in Features : ShutdownDrained(f) \/ ShutdownTimesOut(f)
    \/ ShutdownMailbox \/ ShutdownRegistry \/ ShutdownLifecycle
    \/ UiStep

Spec == HostInit /\ [][Next]_vars

-----------------------------------------------------------------------------
(* Properties                                                                *)

(* Gates, jobs, the mailbox and the UI keep their shapes: an operation in    *)
(* progress has its call, and only an enabled gate accepts.                  *)
TypeOK ==
    /\ gate \in [Features -> [state : {"enabled", "disabling", "disabled", "restart"},
                              accepting : BOOLEAN, inFlight : 0..Cardinality(Jobs),
                              epoch : Epochs,
                              op : {"idle", "enabling", "disabling", "removing"}]]
    /\ call \in [Features -> [pc : {"idle", "cancel", "leases", "port", "finish", "restore"},
                              todo : SUBSET Jobs, drained : BOOLEAN]]
    /\ lateRemove \subseteq Features /\ stopping \subseteq Features
    /\ phase \in {"running", "closing", "revoked", "stopped"}
    /\ step \in [Jobs -> {"idle", "leased", "prepared", "inside", "returned", "finished",
                          "published", "gone"}]
    /\ lease \subseteq Jobs /\ late \subseteq Jobs
    /\ revoked \subseteq Keys /\ tombstones \subseteq Tokens /\ live \subseteq Tokens
    /\ \A j \in Jobs : /\ job[j].terminal \in Terminals \cup {"none"}
                       /\ job[j].control \in Controls
                       /\ job[j].final \in {"idle", "pending", "authorized"}
                       /\ job[j].gen \in Gens /\ job[j].e \in Epochs /\ job[j].f \in Features
    /\ mail.ready \subseteq Tokens /\ Cardinality(mail.ready) <= ReadyCap
    /\ sending \subseteq Tokens
    /\ ui.todo \subseteq Tokens /\ ui.shown \subseteq Tokens
    /\ \A f \in Features : /\ gate[f].op # "idle" => call[f].pc # "idle"
                           /\ gate[f].accepting => gate[f].state = "enabled"

(* The registry's counters and the leases agree with the jobs, so no checked *)
(* subtraction ever fails, no credit is lost and the limits hold, whatever   *)
(* revocations, drains, purges and retirements overlap.                      *)
CountersAgree ==
    /\ queuedCount = QueuedOf(Jobs) /\ queuedCount <= MaxQueue
    /\ rowCount = Cardinality(applied) /\ rowCount <= MaxRows
    /\ activeCount = Cardinality({j \in Jobs : job[j].open}) /\ activeCount <= MaxActive
    /\ \A f \in Features : gate[f].inFlight = Cardinality({j \in lease : job[j].f = f})

(* A revoked producer generation has no current value left, not in a queue,  *)
(* in the registry, in a batch the UI drained earlier or in rows that        *)
(* outlived their job; and none of its jobs is still open-ended.             *)
UiTokens == ui.shown \cup {<<b.job, b.gen>> : b \in ui.held}

RevokedShowsNothing ==
    /\ \A t \in live \cap UiTokens : Key(t[1]) \notin revoked
    /\ \A r \in applied : Key(r[1]) \notin revoked
    /\ \A j \in Jobs : (job[j].open /\ Key(j) \in revoked) =>
                          job[j].terminal # "none" /\ job[j].queue = <<>>

(* Rows of an older generation of the host's view are never current, though  *)
(* the UI still holds them and batches of that generation.                   *)
OldRowsAreDead ==
    \A t \in live \cap UiTokens : t[2] = job[t[1]].gen

(* A feature that disable reported as resident shows no value of the epoch   *)
(* it ended, except from a job that was prepared after its revocation.       *)
DisabledHidesValues ==
    \A f \in Features : (Running /\ gate[f].state = "disabled") =>
       \A t \in live \cap ui.shown : job[t[1]].f = f => t[1] \in late

(* A job with batches the UI could show is announced: a signal is queued or  *)
(* on its way, the UI has it in hand, or a rescan that will find it is due.  *)
QueuedIsAnnounced ==
    (setup.mailbox /\ ~mail.closed) =>
    \A j \in Jobs : (job[j].open /\ job[j].queue # <<>> /\ UiCurrent(j) /\ job[j].gen = 1) =>
       \/ Token(j) \in mail.ready \cup sending \cup ui.todo
       \/ mail.rescan
       \/ ui.seen # 0 /\ ~ui.merged

(* Once a job may retire it stays so until it is removed, and its terminal   *)
(* only ever changes by revocation: the check and the removal of retire_job  *)
(* are two lock sections.                                                    *)
RetirementIsFinal ==
    [][\A j \in Jobs :
          /\ (Retirable(j) /\ job'[j].open) => Retirable(j)'
          /\ (job'[j].open /\ job[j].terminal # "none" /\ job'[j].terminal # job[j].terminal) =>
                /\ Key(j) \in revoked' \ revoked
                /\ job'[j].terminal \in {"cancelled", "incompatible"}]_vars

(* The host implements the callback fence: a disabled feature has no         *)
(* callback, lease or job left and admits none, through timeouts, late       *)
(* removals and a shutdown at any step.                                      *)
FenceStatus ==
    [f \in Features |-> IF gate[f].state = "enabled" THEN "open"
                        ELSE IF gate[f].state = "disabling" THEN "closing"
                        ELSE IF gate[f].state = "disabled" THEN "closed" ELSE "broken"]

Fence == INSTANCE CallbackFence WITH
    Dispatches <- Jobs,
    status <- FenceStatus,
    entered <- {<<j, job[j].f>> : j \in lease},
    inside <- {j \in Jobs : step[j] = "inside"}

ImplementsFence == Fence!Spec
=============================================================================
