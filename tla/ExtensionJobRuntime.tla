------------------------ MODULE ExtensionJobRuntime ------------------------
(* The host's registry of plugin jobs (extension_job_runtime.rs) and the     *)
(* bounded mailbox that tells the UI about them (extension_job_ui_bridge.rs). *)
(* A job belongs to a producer generation, a feature and its enable epoch;   *)
(* revoking the generation closes every job of it and makes every value it   *)
(* ever published invisible, also values that outlived their job.  Plugin    *)
(* threads, the UI and the lifecycle use the registry concurrently; every    *)
(* action here is one section under the registry's lock.                     *)
EXTENDS Integers, Sequences, FiniteSets

CONSTANTS
    Jobs,           \* job handles; a handle is never used twice
    Features,       \* features of native plugins
    MaxEpoch,       \* bound: times a feature is enabled
    MaxQueue,       \* max_batches: batches the registry retains
    MaxRows,        \* max_items: rows the registry retains
    MaxActive,      \* max_active_jobs
    ReadyCap,       \* MAX_EXTENSION_UI_READY_SIGNALS_V1
    Setups,         \* bounds of a behaviour: the jobs and features it uses, whether a
                    \* UI mailbox is attached and the host stops, how many batches a job
                    \* submits, how many calls, requests and failures there are
    MaxGen          \* bound: generations of the host's view of a job

ASSUME RuntimeAssumption ==
    /\ IsFiniteSet(Jobs) /\ IsFiniteSet(Features) /\ Features # {}
    /\ {MaxQueue, MaxRows, MaxActive, ReadyCap} \subseteq Nat
    /\ {MaxEpoch, MaxGen} \subseteq Nat \ {0}
    /\ Setups \subseteq [jobs : Nat, features : SUBSET Features, mailbox : BOOLEAN,
                      stop : BOOLEAN, submits : Nat, ops : Nat]

VARIABLES
    setup,          \* the bounds of this behaviour
    job,            \* per handle: the registered job
    revoked,        \* revoked producer generations
    tombstones,     \* value tokens remembered for later revocation
    live,           \* value tokens that are current
    applied,        \* rows the registry retains: <<job, sequence>>
    rowCount,       \* applied_row_count
    queuedCount,    \* queued_batches
    activeCount,    \* active jobs
    mail,           \* the mailbox
    sending,        \* ready signals on their way to the mailbox
    ui              \* what the UI took from the mailbox and the registry

rtVars == <<setup, job, revoked, tombstones, live, applied, rowCount, queuedCount, activeCount,
            mail, sending, ui>>

Epochs == 1..MaxEpoch
Gens == 1..MaxGen
Keys == Features \X Epochs
Tokens == Jobs \X Gens

Terminals == {"completed", "error", "cancelled", "deadline", "incompatible", "panicked"}
Controls == {"active", "cancelled", "deadline", "closed"}

NoJob(f) ==
    [open |-> FALSE, f |-> f, e |-> 1, gen |-> 1, control |-> "active", terminal |-> "none",
     final |-> "idle", active |-> FALSE, fresh |-> TRUE, next |-> 0, queue |-> <<>>]

Key(j) == <<job[j].f, job[j].e>>
Token(j) == <<j, job[j].gen>>

(* result_job_is_ui_current                                                  *)
UiCurrent(j) ==
    /\ \/ job[j].terminal = "completed"
       \/ job[j].terminal = "none" /\ job[j].control = "active"
    /\ Token(j) \in live
    /\ job[j].fresh

BatchCurrent(b) ==
    /\ job[b.job].open
    /\ UiCurrent(b.job)
    /\ job[b.job].gen = b.gen
    /\ Key(b.job) \notin revoked

\* the retained batches of some jobs: <<job, position in its queue>>
QueuedIn(S) == UNION {{j} \X (1..Len(job[j].queue)) : j \in S}
QueuedOf(S) == Cardinality(QueuedIn(S))
AppliedOf(S) == {r \in applied : r[1] \in S}

\* remove_applied_rows
ForgetRows(S) ==
    /\ applied' = applied \ AppliedOf(S)
    /\ rowCount' = rowCount - Cardinality(AppliedOf(S))

-----------------------------------------------------------------------------
(* Revocation of producer generations: revoke_generation_and_close.  A job   *)
(* that never entered plugin code may retire at once; one that did keeps its *)
(* lease until its marker is settled.                                        *)

ClosedJob(r, terminal) ==
    [r EXCEPT !.terminal = terminal, !.control = "closed", !.queue = <<>>,
              !.final = IF ~r.active /\ r.final = "idle" THEN "authorized" ELSE r.final]

Remembered(K) == {t \in tombstones : Key(t[1]) \in K}

RevokedTokensJobOnly(K) == {Token(j) : j \in {k \in Jobs : job[k].open /\ Key(k) \in K}}

RevokedTokens(K) ==
    Remembered(K) \cup {Token(j) : j \in {k \in Jobs : job[k].open /\ Key(k) \in K}}

RevokeGenerations(keys, terminal, authorize) ==
    LET K == keys \ revoked
        hit == {j \in Jobs : job[j].open /\ Key(j) \in K}
        closed == [j \in Jobs |-> IF j \in hit THEN ClosedJob(job[j], terminal) ELSE job[j]]
    IN  /\ revoked' = revoked \cup K
        /\ job' = [j \in Jobs |-> IF j \in authorize
                                  THEN [closed[j] EXCEPT !.final = "authorized"] ELSE closed[j]]
        /\ live' = live \ RevokedTokens(K)
        /\ tombstones' = tombstones \ Remembered(K)
        /\ ForgetRows(hit)
        /\ queuedCount' = queuedCount - QueuedOf(hit)
        /\ UNCHANGED <<setup, activeCount, mail, sending, ui>>

(* revoke_feature_generation: a generation without a remembered value or an  *)
(* open job is unknown to the registry, and is not recorded as revoked.      *)
RevokeFeatureWithJobs(key) ==
    RevokeGenerations({k \in {key} : \E j \in Jobs : job[j].open /\ Key(j) = k},
                      "cancelled", {})

RevokeFeature(key) ==
    RevokeGenerations({k \in {key} : \/ Remembered({k}) # {}
                                     \/ \E j \in Jobs : job[j].open /\ Key(j) = k},
                      "cancelled", {})

(* cancel_and_revoke_all: the generations of the jobs that are open.         *)
RevokeAll ==
    RevokeGenerations({Key(j) : j \in {k \in Jobs : job[k].open}}, "cancelled", {})

(* fail_close_ticket, up to the retirement that follows it.                  *)
FailClose(j, terminal) ==
    \/ /\ job[j].open
       /\ RevokeGenerations({Key(j)}, terminal, {j})
    \/ /\ ~job[j].open
       /\ UNCHANGED rtVars

-----------------------------------------------------------------------------
(* A job's life                                                              *)

\* remember_generation_tombstone: dead entries of the generation are pruned.
Remember(t, current) ==
    tombstones' = {x \in tombstones : Key(x[1]) = Key(t[1]) => x \in current} \cup {t}

OpenAllowed(j) == Key(j) \notin revoked /\ activeCount < MaxActive

OpenJob(j) ==
    /\ OpenAllowed(j)
    /\ job' = [job EXCEPT ![j].open = TRUE]
    /\ live' = live \cup {Token(j)}
    /\ Remember(Token(j), live)
    /\ activeCount' = activeCount + 1
    /\ UNCHANGED <<setup, revoked, applied, rowCount, queuedCount, mail, sending, ui>>

EnterAllowed(j) ==
    /\ job[j].open /\ job[j].terminal = "none" /\ job[j].control = "active"
    /\ job[j].gen = 1 /\ job[j].fresh /\ ~job[j].active

EnterScope(j) ==
    /\ EnterAllowed(j)
    /\ job' = [job EXCEPT ![j].active = TRUE, ![j].final = "pending"]
    /\ UNCHANGED <<setup, revoked, tombstones, live, applied, rowCount, queuedCount, activeCount,
                   mail, sending, ui>>

LeaveScope(j) ==
    /\ job[j].active
    /\ job' = [job EXCEPT ![j].active = FALSE]
    /\ UNCHANGED <<setup, revoked, tombstones, live, applied, rowCount, queuedCount, activeCount,
                   mail, sending, ui>>

\* ready_signal_sink, when one is installed
Announced(S) == IF setup.mailbox THEN S ELSE {}

Submitting(j) ==
    /\ job[j].active /\ Key(j) \notin revoked
    /\ job[j].gen = 1 /\ job[j].fresh
    /\ job[j].terminal = "none" /\ job[j].control = "active"

(* submit_locked accepts a batch; the signal is sent after the lock.         *)
Submit(j) ==
    /\ Submitting(j)
    /\ queuedCount < MaxQueue
    /\ job[j].next < setup.submits
    /\ job' = [job EXCEPT ![j].queue = Append(@, job[j].next), ![j].next = @ + 1]
    /\ queuedCount' = queuedCount + 1
    /\ sending' = sending \cup Announced({Token(j)})
    /\ UNCHANGED <<setup, revoked, tombstones, live, applied, rowCount, activeCount, mail, ui>>

(* A malformed batch or progress update: quarantine_and_close.               *)
SubmitMalformed(j) ==
    /\ Submitting(j)
    /\ RevokeGenerations({Key(j)}, "incompatible", {})

(* request_control: monotonic, ignored after the terminal.                   *)
RequestControl(j, c) ==
    /\ job[j].open /\ job[j].terminal = "none" /\ job[j].control = "active"
    /\ job' = [job EXCEPT ![j].control = c]
    /\ UNCHANGED <<setup, revoked, tombstones, live, applied, rowCount, queuedCount, activeCount,
                   mail, sending, ui>>

(* update_current_generations: the host's view moved on.                     *)
AdvanceKeepsToken(j) ==
    /\ job[j].open /\ job[j].gen < MaxGen
    /\ job' = [job EXCEPT ![j].gen = @ + 1, ![j].fresh = TRUE,
                          ![j].control = IF job[j].terminal = "none" /\ @ = "active"
                                         THEN "cancelled" ELSE @]
    /\ live' = live \cup {<<j, job[j].gen + 1>>}
    /\ Remember(<<j, job[j].gen + 1>>, live)
    /\ ForgetRows({j})
    /\ UNCHANGED <<setup, revoked, queuedCount, activeCount, mail, sending, ui>>

AdvanceGeneration(j) ==
    /\ job[j].open /\ job[j].gen < MaxGen
    /\ job' = [job EXCEPT ![j].gen = @ + 1, ![j].fresh = TRUE,
                          ![j].control = IF job[j].terminal = "none" /\ @ = "active"
                                         THEN "cancelled" ELSE @]
    /\ live' = (live \ {Token(j)}) \cup {<<j, job[j].gen + 1>>}
    /\ Remember(<<j, job[j].gen + 1>>, live \ {Token(j)})
    /\ ForgetRows({j})
    /\ UNCHANGED <<setup, revoked, queuedCount, activeCount, mail, sending, ui>>

(* replace_host_snapshot: the file the job reads was replaced; the values    *)
(* carry the file's token too.                                               *)
ReplaceSource(j) ==
    /\ job[j].fresh /\ (job[j].open \/ \E g \in Gens : <<j, g>> \in live)
    /\ job' = [job EXCEPT ![j].fresh = FALSE]
    /\ live' = {t \in live : t[1] # j}
    /\ UNCHANGED <<setup, revoked, tombstones, applied, rowCount, queuedCount, activeCount,
                   mail, sending, ui>>

(* terminal_precedence                                                       *)
Precedence(r, reported) ==
    IF r.fresh /\ reported \in {"panicked", "incompatible"} THEN reported
    ELSE IF r.control = "deadline" THEN "deadline"
    ELSE IF r.fresh /\ r.control = "active" THEN reported
    ELSE "cancelled"

FinishJobOverwrites(j, reported) ==
    /\ job[j].open
    /\ job' = [job EXCEPT ![j].terminal = Precedence(job[j], reported),
                          ![j].control = "closed"]
    /\ UNCHANGED <<setup, revoked, tombstones, live, applied, rowCount, queuedCount, activeCount,
                   mail, sending, ui>>

FinishJob(j, reported) ==
    /\ job[j].open
    /\ job' = [job EXCEPT ![j] = IF @.terminal # "none" THEN @
                                 ELSE [@ EXCEPT !.terminal = Precedence(job[j], reported),
                                                !.control = "closed"]]
    /\ UNCHANGED <<setup, revoked, tombstones, live, applied, rowCount, queuedCount, activeCount,
                   mail, sending, ui>>

AuthorizeRetirement(j) ==
    /\ job[j].open /\ job[j].terminal # "none"
    /\ job' = [job EXCEPT ![j].final = "authorized"]
    /\ UNCHANGED <<setup, revoked, tombstones, live, applied, rowCount, queuedCount, activeCount,
                   mail, sending, ui>>

RetirableWithoutMarker(j) == job[j].open /\ job[j].terminal # "none"

Retirable(j) ==
    /\ job[j].open /\ ~job[j].active
    /\ job[j].terminal # "none" /\ job[j].final = "authorized"

(* retire_job checks in one lock section and removes in the next: nothing    *)
(* makes a retirable job unretirable in between (RetirementIsFinal).         *)
RetireKeepsCredits(j) ==
    /\ Retirable(j)
    /\ job' = [job EXCEPT ![j] = [NoJob(job[j].f) EXCEPT !.e = job[j].e, !.gen = job[j].gen,
                                                         !.fresh = job[j].fresh]]
    /\ ForgetRows({j})
    /\ activeCount' = activeCount - 1
    /\ UNCHANGED <<setup, revoked, tombstones, live, queuedCount, mail, sending, ui>>

Retire(j) ==
    /\ Retirable(j)
    /\ job' = [job EXCEPT ![j] = [NoJob(job[j].f) EXCEPT !.e = job[j].e, !.gen = job[j].gen,
                                                         !.fresh = job[j].fresh]]
    /\ ForgetRows({j})
    /\ queuedCount' = queuedCount - Len(job[j].queue)
    /\ activeCount' = activeCount - 1
    /\ UNCHANGED <<setup, revoked, tombstones, live, mail, sending, ui>>

Purge(j) ==
    /\ job[j].open /\ job[j].queue # <<>>
    /\ job' = [job EXCEPT ![j].queue = <<>>]
    /\ queuedCount' = queuedCount - Len(job[j].queue)
    /\ UNCHANGED <<setup, revoked, tombstones, live, applied, rowCount, activeCount, mail, sending, ui>>

-----------------------------------------------------------------------------
(* The UI                                                                    *)

Open == [ready |-> {}, rescan |-> FALSE, epoch |-> 0, closed |-> FALSE]

(* RuntimeReadySignalSinkV1.signal                                           *)
Delivered(m, s) ==
    IF m.closed \/ s \in m.ready THEN m
    ELSE IF Cardinality(m.ready) = ReadyCap
    THEN [m EXCEPT !.rescan = TRUE, !.epoch = @ + 1]
    ELSE [m EXCEPT !.ready = @ \cup {s}]

Signal(s) ==
    /\ s \in sending
    /\ sending' = sending \ {s}
    /\ mail' = Delivered(mail, s)
    /\ UNCHANGED <<setup, job, revoked, tombstones, live, applied, rowCount, queuedCount,
                   activeCount, ui>>

(* ready_job_signals: what a rescan finds.                                   *)
ReadyJobs == {Token(j) : j \in {k \in Jobs : job[k].open /\ job[k].queue # <<>> /\ UiCurrent(k)}}

(* take_ready: the signals, and the epoch of a pending rescan.               *)
TakeReady ==
    /\ mail.ready # {} \/ mail.rescan
    /\ ui.seen = 0
    /\ mail' = [mail EXCEPT !.ready = {}]
    /\ ui' = [ui EXCEPT !.todo = @ \cup mail.ready, !.seen = IF mail.rescan THEN mail.epoch ELSE 0,
                        !.merged = FALSE]
    /\ UNCHANGED <<setup, job, revoked, tombstones, live, applied, rowCount, queuedCount,
                   activeCount, sending>>

Rescan ==
    /\ ui.seen # 0 /\ ~ui.merged
    /\ ui' = [ui EXCEPT !.todo = @ \cup ReadyJobs, !.merged = TRUE]
    /\ UNCHANGED <<setup, job, revoked, tombstones, live, applied, rowCount, queuedCount,
                   activeCount, mail, sending>>

AcknowledgeAnyRescan ==
    /\ ui.seen # 0 /\ ui.merged
    /\ mail' = [mail EXCEPT !.rescan = FALSE]
    /\ ui' = [ui EXCEPT !.seen = 0, !.merged = FALSE]
    /\ UNCHANGED <<setup, job, revoked, tombstones, live, applied, rowCount, queuedCount,
                   activeCount, sending>>

AcknowledgeRescan ==
    /\ ui.seen # 0 /\ ui.merged
    /\ mail' = [mail EXCEPT !.rescan = @ /\ mail.epoch # ui.seen]
    /\ ui' = [ui EXCEPT !.seen = 0, !.merged = FALSE]
    /\ UNCHANGED <<setup, job, revoked, tombstones, live, applied, rowCount, queuedCount,
                   activeCount, sending>>

(* With no mailbox the caller drains the job it dispatched.                  *)
Drainable ==
    IF setup.mailbox THEN ui.todo ELSE {Token(j) : j \in {k \in Jobs : job[k].queue # <<>>}}

(* drain: at most one batch for the generation in the signal; stale batches  *)
(* give their credit back, a revoked generation is emptied.                  *)
Batches(s, n) ==
    {[job |-> s[1], gen |-> 1, seq |-> job[s[1]].queue[i]] : i \in 1..n}

Drain(s) ==
    LET j == s[1]
        n == IF Key(j) \in revoked THEN Len(job[j].queue)
             ELSE IF job[j].queue = <<>> THEN 0 ELSE 1
        rest == SubSeq(job[j].queue, n + 1, Len(job[j].queue))
        deliver == Key(j) \notin revoked /\ UiCurrent(j) /\ s[2] = 1 /\ job[j].gen = 1
    IN  /\ s \in Drainable
        /\ job[j].open
        /\ job' = [job EXCEPT ![j].queue = rest]
        /\ queuedCount' = queuedCount - n
        /\ ui' = [ui EXCEPT !.todo = @ \ {s},
                            !.held = @ \cup (IF deliver THEN Batches(s, n) ELSE {})]
        /\ sending' = sending \cup Announced({t \in {Token(j)} : rest # <<>> /\ UiCurrent(j)})
        /\ UNCHANGED <<setup, revoked, tombstones, live, applied, rowCount, activeCount, mail>>

DrainNothing(s) ==
    /\ s \in ui.todo
    /\ ~job[s[1]].open
    /\ ui' = [ui EXCEPT !.todo = @ \ {s}]
    /\ UNCHANGED <<setup, job, revoked, tombstones, live, applied, rowCount, queuedCount,
                   activeCount, mail, sending>>

(* apply_accepted_batch: the rows are committed only while the batch is      *)
(* current, once; the UI keeps them with their value token, and the batch.   *)
Apply(b) ==
    /\ b \in ui.held
    /\ BatchCurrent(b) /\ <<b.job, b.seq>> \notin applied /\ rowCount < MaxRows
    /\ applied' = applied \cup {<<b.job, b.seq>>}
    /\ rowCount' = rowCount + 1
    /\ ui' = [ui EXCEPT !.shown = @ \cup {<<b.job, b.gen>>}]
    /\ UNCHANGED <<setup, job, revoked, tombstones, live, queuedCount, activeCount, mail, sending>>

ApplyRefused(b) ==
    /\ b \in ui.held
    /\ ~BatchCurrent(b) \/ <<b.job, b.seq>> \in applied \/ rowCount >= MaxRows
    /\ ui' = [ui EXCEPT !.held = @ \ {b}]
    /\ UNCHANGED <<setup, job, revoked, tombstones, live, applied, rowCount, queuedCount,
                   activeCount, mail, sending>>

(* ExtensionJobUiIngressV1.close                                             *)
CloseMailbox ==
    /\ mail' = [mail EXCEPT !.closed = TRUE, !.ready = {}, !.rescan = FALSE]
    /\ UNCHANGED <<setup, job, revoked, tombstones, live, applied, rowCount, queuedCount,
                   activeCount, sending, ui>>

RuntimeInit ==
    /\ setup \in Setups
    /\ job \in [Jobs -> {NoJob(CHOOSE f \in Features : TRUE)}]
    /\ revoked = {} /\ tombstones = {} /\ live = {} /\ applied = {}
    /\ rowCount = 0 /\ queuedCount = 0 /\ activeCount = 0
    /\ mail = Open /\ sending = {}
    /\ ui = [todo |-> {}, seen |-> 0, merged |-> FALSE, held |-> {}, shown |-> {}]
=============================================================================
