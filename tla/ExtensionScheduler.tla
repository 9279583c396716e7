------------------------- MODULE ExtensionScheduler -------------------------
(***************************************************************************)
(* The admission scheduler of extension jobs (explorer-jobs,               *)
(* extension_scheduler.rs) and the host around it: CPU and I/O lanes of    *)
(* four priorities, global and per-package limits on queued and running    *)
(* jobs, the bounded burst of visible work, deadlines, cancellation whose  *)
(* tokens the host signals only after it has released the scheduler, and   *)
(* the fences that close a feature generation for good.                    *)
(*                                                                         *)
(* Every method runs under the host's lock and is one step.  A job is an   *)
(* identity that is used again once its job is gone (next_job_id is a u64  *)
(* that never comes round); payloads and the statistics that nothing reads *)
(* are left out.                                                           *)
(***************************************************************************)
EXTENDS Naturals, Sequences, FiniteSets, SequenceFilter

CONSTANTS
    Jobs,      \* job identities
    Classes,   \* ExtensionJobClassV1
    Packages,  \* package identifiers
    Owners,    \* package features: [package, feature]
    Shapes,    \* requests: [owner, epoch, class, priority]
    Limits,    \* Limits[c]: ExtensionQueueLimitsV1 of class c
    Burst,     \* maximum_consecutive_high_priority_starts
    FenceCap   \* MAX_EXTENSION_QUEUE_LIMIT_V1: owners that can be fenced

\* priority_index; 0 is VisibleViewport.
Priorities == 0..3

\* The limits try_new accepts.
ValidLimits ==
    {l \in [queued : Nat \ {0}, queuedPer : Nat \ {0},
            running : Nat \ {0}, runningPer : Nat \ {0}] :
        l.queuedPer <= l.queued /\ l.runningPer <= l.running}

ASSUME SchedulerAssumption ==
    /\ IsFiniteSet(Jobs)
    /\ \A o \in Owners : o.package \in Packages
    /\ Shapes # {}
    /\ \A s \in Shapes : /\ s.owner \in Owners
                         /\ s.epoch \in Nat \ {0}
                         /\ s.class \in Classes
                         /\ s.priority \in Priorities
    /\ \A c \in Classes : Limits[c] \in ValidLimits
    /\ Burst \in Nat \ {0}
    /\ FenceCap \in Nat \ {0}

VARIABLES
    lanes,       \* lanes[c][p]: queued jobs of class c and priority p
    queued,      \* jobs with a QueuedJobV1
    running,     \* jobs with a RunningJobV1
    req,         \* req[j]: the request of a queued or running job
    requested,   \* running jobs with cancellation_requested
    nQueued,     \* stats[c].queued_jobs
    nRunning,    \* stats[c].running_jobs
    perQueued,   \* queued_per_package
    perRunning,  \* running_per_package
    closed,      \* closed_epoch_by_owner; 0 for an owner without a fence
    visible,     \* consecutive_visible_starts, up to Burst
    nextLower,   \* next_lower_priority
    cancelled,   \* queued or running jobs whose CancellationToken is set
    elapsed,     \* queued or running jobs whose deadline has elapsed
    pending      \* tokens in ExtensionCancellationActionsV1 not yet signalled

vars == <<lanes, queued, running, req, requested, nQueued, nRunning, perQueued,
          perRunning, closed, visible, nextLower, cancelled, elapsed, pending>>

\* What a job that is gone leaves behind in req.
Blank == CHOOSE s \in Shapes : TRUE

Pkg(j) == req[j].owner.package

Init ==
    /\ lanes = [c \in Classes |-> [p \in Priorities |-> <<>>]]
    /\ queued = {}
    /\ running = {}
    /\ req = [j \in Jobs |-> Blank]
    /\ requested = {}
    /\ nQueued = [c \in Classes |-> 0]
    /\ nRunning = [c \in Classes |-> 0]
    /\ perQueued = [c \in Classes |-> [p \in Packages |-> 0]]
    /\ perRunning = [c \in Classes |-> [p \in Packages |-> 0]]
    /\ closed = [o \in Owners |-> 0]
    /\ visible = [c \in Classes |-> 0]
    /\ nextLower = [c \in Classes |-> 1]
    /\ cancelled = {}
    /\ elapsed = {}
    /\ pending = {}

-----------------------------------------------------------------------------
(* Bookkeeping shared by the methods                                       *)

\* usize::saturating_sub
Minus(a, b) == IF a > b THEN a - b ELSE 0

Of(S, c) == {j \in S : req[j].class = c}
OfPackage(S, c, p) == {j \in Of(S, c) : Pkg(j) = p}

Without(s, S) == Kept(s, Jobs \ S)

ScopeIsClosed(s) == s.epoch <= closed[s.owner]

\* remove_queued_internal for every job of S.
Dequeue(S) ==
    /\ queued' = queued \ S
    /\ nQueued' = [c \in Classes |-> Minus(nQueued[c], Cardinality(Of(S, c)))]
    /\ perQueued' = [c \in Classes |-> [p \in Packages |->
                        Minus(perQueued[c][p], Cardinality(OfPackage(S, c, p)))]]

\* The request, token and deadline of the jobs of S are dropped with them.
Forget(S) ==
    /\ req' = [j \in Jobs |-> IF j \in S THEN Blank ELSE req[j]]
    /\ elapsed' = elapsed \ S
    /\ cancelled' = cancelled \ S

\* request_running_cancellation for every running job of S: the jobs whose
\* token has to be signalled.
ToSignal(S) == (S \cap running) \ (requested \cup cancelled)

-----------------------------------------------------------------------------
(* Admission and start                                                     *)

SubmitIgnoresFence(j, s) ==
    /\ j \notin queued \cup running \cup pending
    /\ nQueued[s.class] < Limits[s.class].queued
    /\ perQueued[s.class][s.owner.package] < Limits[s.class].queuedPer
    /\ lanes' = [lanes EXCEPT ![s.class][s.priority] = Append(@, j)]
    /\ queued' = queued \cup {j}
    /\ req' = [req EXCEPT ![j] = s]
    /\ nQueued' = [nQueued EXCEPT ![s.class] = @ + 1]
    /\ perQueued' = [perQueued EXCEPT ![s.class][s.owner.package] = @ + 1]
    /\ UNCHANGED <<running, requested, nRunning, perRunning, closed, visible,
                   nextLower, cancelled, elapsed, pending>>

\* submit, for a request with a live token and deadline: refused when its
\* scope is closed or a queue limit is reached.
Submit(j, s) ==
    /\ j \notin queued \cup running \cup pending
    /\ ~ScopeIsClosed(s)
    /\ nQueued[s.class] < Limits[s.class].queued
    /\ perQueued[s.class][s.owner.package] < Limits[s.class].queuedPer
    /\ lanes' = [lanes EXCEPT ![s.class][s.priority] = Append(@, j)]
    /\ queued' = queued \cup {j}
    /\ req' = [req EXCEPT ![j] = s]
    /\ nQueued' = [nQueued EXCEPT ![s.class] = @ + 1]
    /\ perQueued' = [perQueued EXCEPT ![s.class][s.owner.package] = @ + 1]
    /\ UNCHANGED <<running, requested, nRunning, perRunning, closed, visible,
                   nextLower, cancelled, elapsed, pending>>

Dead(j) == j \in cancelled \cup elapsed

\* A job that is passed over because its package runs all it may.
Blocked(j) ==
    /\ ~Dead(j)
    /\ perRunning[req[j].class][Pkg(j)] >= Limits[req[j].class].runningPer

Eligible(j) == ~Dead(j) /\ ~Blocked(j)

\* try_start_lower_rotating: the lower lanes from next_lower_priority on.
LowerOrder(c) == [k \in 1..3 |-> 1 + ((nextLower[c] - 1 + (k - 1)) % 3)]

NextLowerOverruns(p) == 1 + p

\* Where the rotation goes on after a start from lane p.
NextLower(p) == 1 + (p % 3)

\* The order in which try_start tries the lanes.  (After a full round of the
\* lower lanes it may try them again; they have nothing eligible left.)
LaneOrder(c) ==
    IF visible[c] >= Burst THEN Append(LowerOrder(c), 0)
                           ELSE <<0>> \o LowerOrder(c)

\* try_start_priority over a lane without an eligible job: the dead are
\* dropped, the blocked go round once and keep their order.
Scanned(q) == Kept(q, {j \in Jobs : Blocked(j)})

StartedAtLosesBlocked(q, i) == SubSeq(q, i + 1, Len(q))

\* The lane when its i-th job starts: the blocked ones before it went to the
\* back.
StartedAt(q, i) == SubSeq(q, i + 1, Len(q)) \o Scanned(SubSeq(q, 1, i - 1))

\* Lanes of class c tried before the k-th one of LaneOrder.
Tried(c, k) == {LaneOrder(c)[m] : m \in 1..(k - 1)}

NoneEligible(q) == \A i \in 1..Len(q) : ~Eligible(q[i])

\* What a scan drops: the token of an expired job has to be signalled, a
\* cancelled one is just forgotten.
Drop(D, started) ==
    /\ Dequeue(D \cup started)
    /\ pending' = pending \cup (D \ cancelled)
    /\ Forget(D)

\* try_start of class c starts a job: the first eligible one of the first lane
\* that has one.
TryStart(c, k, i) ==
    LET p == LaneOrder(c)[k]
        q == lanes[c][p]
        j == q[i]
        dead == {d \in Members(SubSeq(q, 1, i - 1)) : Dead(d)}
                  \cup UNION {{d \in Members(lanes[c][x]) : Dead(d)} : x \in Tried(c, k)}
    IN /\ nRunning[c] < Limits[c].running
       /\ Eligible(j)
       /\ NoneEligible(SubSeq(q, 1, i - 1))
       /\ \A x \in Tried(c, k) : NoneEligible(lanes[c][x])
       /\ lanes' = [lanes EXCEPT ![c] =
             [x \in Priorities |-> IF x = p THEN StartedAt(q, i)
                              ELSE IF x \in Tried(c, k) THEN Scanned(lanes[c][x])
                              ELSE lanes[c][x]]]
       /\ Drop(dead, {j})
       /\ running' = running \cup {j}
       /\ nRunning' = [nRunning EXCEPT ![c] = @ + 1]
       /\ perRunning' = [perRunning EXCEPT ![c][Pkg(j)] = @ + 1]
       /\ visible' = [visible EXCEPT ![c] = IF p # 0 THEN 0
                                            ELSE IF @ < Burst THEN @ + 1 ELSE @]
       /\ nextLower' = [nextLower EXCEPT ![c] = IF p # 0 THEN NextLower(p) ELSE @]
       /\ UNCHANGED <<requested, closed>>

\* try_start of class c finds nothing to start, and drops the dead.
TryStartNone(c) ==
    /\ nRunning[c] < Limits[c].running
    /\ \A p \in Priorities : NoneEligible(lanes[c][p])
    /\ lanes' = [lanes EXCEPT ![c] = [p \in Priorities |-> Scanned(lanes[c][p])]]
    /\ Drop({d \in queued : req[d].class = c /\ Dead(d)}, {})
    /\ UNCHANGED <<running, requested, nRunning, perRunning, closed, visible,
                   nextLower>>

-----------------------------------------------------------------------------
(* Cancellation, deadlines and fences                                      *)

\* remove_queued_batch and request_running_cancellation for the jobs of S.
CancelJobs(S) ==
    /\ lanes' = [c \in Classes |-> [p \in Priorities |-> Without(lanes[c][p], S)]]
    /\ Dequeue(S \cap queued)
    /\ Forget(S \cap queued)
    /\ pending' = pending \cup (S \cap queued) \cup ToSignal(S)
    /\ requested' = requested \cup ToSignal(S)
    /\ UNCHANGED <<running, nRunning, perRunning, visible, nextLower>>

\* cancel
Cancel(j) ==
    /\ j \in queued \cup running
    /\ CancelJobs({j})
    /\ UNCHANGED closed

Live == queued \cup running

\* cancel_scope
CancelScope(o, e) ==
    /\ CancelJobs({j \in Live : req[j].owner = o /\ req[j].epoch = e})
    /\ UNCHANGED closed

\* cancel_package
CancelPackage(p) ==
    /\ CancelJobs({j \in Live : Pkg(j) = p})
    /\ UNCHANGED closed

CloseScopeExactEpoch(o, e) ==
    /\ closed[o] > 0 \/ Cardinality({x \in Owners : closed[x] > 0}) < FenceCap
    /\ closed' = [closed EXCEPT ![o] = IF e > @ THEN e ELSE @]
    /\ CancelJobs({j \in Live : req[j].owner = o /\ req[j].epoch = e})

\* close_scope: the fence only rises, and takes all older work with it.  A
\* full fence store refuses and changes nothing.
CloseScope(o, e) ==
    /\ closed[o] > 0 \/ Cardinality({x \in Owners : closed[x] > 0}) < FenceCap
    /\ closed' = [closed EXCEPT ![o] = IF e > @ THEN e ELSE @]
    /\ CancelJobs({j \in Live : req[j].owner = o /\ req[j].epoch <= closed'[o]})

\* expire
Expire ==
    /\ CancelJobs(elapsed)
    /\ UNCHANGED closed

CompleteKeepsPackageSlot(j) ==
    /\ j \in running
    /\ running' = running \ {j}
    /\ requested' = requested \ {j}
    /\ nRunning' = [nRunning EXCEPT ![req[j].class] = Minus(@, 1)]
    /\ pending' = IF j \in elapsed \ requested THEN pending \cup {j} ELSE pending
    /\ Forget({j})
    /\ UNCHANGED <<lanes, queued, nQueued, perQueued, closed, visible, nextLower,
                   perRunning>>

\* complete: the slot is released; a deadline nobody acted on is signalled now.
Complete(j) ==
    /\ j \in running
    /\ running' = running \ {j}
    /\ requested' = requested \ {j}
    /\ nRunning' = [nRunning EXCEPT ![req[j].class] = Minus(@, 1)]
    /\ perRunning' = [perRunning EXCEPT ![req[j].class][Pkg(j)] = Minus(@, 1)]
    /\ pending' = IF j \in elapsed \ requested THEN pending \cup {j} ELSE pending
    /\ Forget({j})
    /\ UNCHANGED <<lanes, queued, nQueued, perQueued, closed, visible, nextLower>>

-----------------------------------------------------------------------------
(* The host                                                                *)

unscheduled == <<lanes, queued, running, req, requested, nQueued, nRunning,
                 perQueued, perRunning, closed, visible, nextLower>>

\* signal_all, after the scheduler lock was released: the token of one job.
SignalAll(j) ==
    /\ j \in pending
    /\ pending' = pending \ {j}
    /\ cancelled' = IF j \in Live THEN cancelled \cup {j} ELSE cancelled
    /\ UNCHANGED elapsed /\ UNCHANGED unscheduled

\* The owner of the request cancels its token directly.
TokenCancelled(j) ==
    /\ j \in Live
    /\ cancelled' = cancelled \cup {j}
    /\ UNCHANGED <<pending, elapsed>> /\ UNCHANGED unscheduled

DeadlineElapses(j) ==
    /\ j \in Live
    /\ elapsed' = elapsed \cup {j}
    /\ UNCHANGED <<pending, cancelled>> /\ UNCHANGED unscheduled

-----------------------------------------------------------------------------

Poll(c) ==
    \/ \E k \in 1..4 : \E i \in 1..Len(lanes[c][LaneOrder(c)[k]]) : TryStart(c, k, i)
    \/ TryStartNone(c)

Epochs == {s.epoch : s \in Shapes}

Next ==
    \/ \E j \in Jobs, s \in Shapes : Submit(j, s)
    \/ \E c \in Classes : Poll(c)
    \/ \E j \in Jobs :
         \/ Cancel(j)
         \/ Complete(j)
         \/ SignalAll(j)
         \/ TokenCancelled(j)
         \/ DeadlineElapses(j)
    \/ \E o \in Owners, e \in Epochs : CancelScope(o, e) \/ CloseScope(o, e)
    \/ \E p \in Packages : CancelPackage(p)
    \/ Expire

\* Workers poll and signal what they are handed, and extension callbacks
\* return; nothing else is assumed.
Fairness ==
    /\ \A c \in Classes : WF_vars(Poll(c))
    /\ \A j \in Jobs : WF_vars(Complete(j)) /\ WF_vars(SignalAll(j))

Spec == Init /\ [][Next]_vars /\ Fairness

\* The behaviours in which nothing is cancelled, closed or late.
Work ==
    \/ \E j \in Jobs, s \in Shapes : Submit(j, s)
    \/ \E c \in Classes : Poll(c)
    \/ \E j \in Jobs : Complete(j)

WorkSpec == Init /\ [][Work]_vars /\ Fairness

-----------------------------------------------------------------------------
(* Properties                                                              *)

\* Every variable holds a value of its type.
TypeOK ==
    /\ lanes \in [Classes -> [Priorities -> Seq(Jobs)]]
    /\ queued \subseteq Jobs /\ running \subseteq Jobs
    /\ req \in [Jobs -> Shapes]
    /\ requested \subseteq running
    /\ nQueued \in [Classes -> Nat] /\ nRunning \in [Classes -> Nat]
    /\ perQueued \in [Classes -> [Packages -> Nat]]
    /\ perRunning \in [Classes -> [Packages -> Nat]]
    /\ closed \in [Owners -> Nat]
    /\ visible \in [Classes -> 0..Burst]
    /\ nextLower \in [Classes -> 1..3]
    /\ cancelled \subseteq queued \cup running
    /\ elapsed \subseteq queued \cup running
    /\ pending \subseteq Jobs

\* Whatever mix of polls, cancellations, expiries and completions removes
\* jobs, the four counters agree with the jobs they count, and so keep those
\* within the limits of their class: no slot leaks and saturating_sub never
\* hides a double release.
CountersAgree ==
    /\ queued \cap running = {}
    /\ \A c \in Classes :
         /\ nQueued[c] = Cardinality(Of(queued, c))
         /\ nRunning[c] = Cardinality(Of(running, c))
         /\ nQueued[c] <= Limits[c].queued /\ nRunning[c] <= Limits[c].running
         /\ \A p \in Packages :
              /\ perQueued[c][p] = Cardinality(OfPackage(queued, c, p))
              /\ perRunning[c][p] = Cardinality(OfPackage(running, c, p))
              /\ perQueued[c][p] <= Limits[c].queuedPer
              /\ perRunning[c][p] <= Limits[c].runningPer

\* Every queued job stands exactly once in the lane of its class and priority
\* and in no other, and the lanes hold nothing else: a job is neither lost by
\* the rotation of try_start_priority nor started twice.
LanesHoldTheQueued ==
    \A c \in Classes, p \in Priorities :
        /\ Members(lanes[c][p]) = {j \in queued : req[j].class = c /\ req[j].priority = p}
        /\ Len(lanes[c][p]) = Cardinality(Members(lanes[c][p]))

\* Work of a closed feature generation is never left waiting, and what still
\* runs has been told to stop: its token is set, or in the hands of the host.
ClosedWorkIsStopping ==
    \A j \in queued \cup running :
        ScopeIsClosed(req[j]) => j \in running /\ j \in pending \cup cancelled

\* No work of owner o up to its fence is left (is_fence_drained).
Drained(o) == \A j \in Live : ~(req[j].owner = o /\ ScopeIsClosed(req[j]))

\* A fence that has drained stays drained while it does not rise, and a fence
\* never falls: an unloaded generation gets no job again.
DrainIsFinal ==
    [][\A o \in Owners :
         /\ closed'[o] >= closed[o]
         /\ (Drained(o) /\ closed'[o] = closed[o]) => Drained(o)']_vars

\* Every queued job starts, or is cancelled, in the end: neither visible work
\* nor another lane keeps it waiting for ever.
NoStarvation == \A j \in Jobs : j \in queued ~> j \notin queued
=============================================================================
