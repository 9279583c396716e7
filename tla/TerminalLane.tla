---------------------------- MODULE TerminalLane ----------------------------
(***************************************************************************)
(* One terminal lane of the Shell STA endpoint (explorer-shell-win, sta.rs):*)
(* the bounded primary channel, the bounded retained queue beside it, the  *)
(* publishers that run on worker and deadline threads, the admission of    *)
(* new requests against the lane's retained capacity and the UI thread     *)
(* that polls the lane.                                                    *)
(*                                                                         *)
(* The code has two forms of the lane.  `channel` (Ordered = FALSE) serves *)
(* operation and typed terminals; its receiver empties the retained queue  *)
(* first.  `ordered_channel` (Ordered = TRUE) also carries the batches of a*)
(* request; its receiver empties the primary queue first.  The atomic      *)
(* steps are the code's: the retained mutex is released before the primary *)
(* channel is tried and taken again to retain.                             *)
(*                                                                         *)
(* An event is [req, n]: n = 0 is the request's terminal, n >= 1 its n-th  *)
(* batch.  The payload and the outcome a terminal reports are left out.    *)
(***************************************************************************)
EXTENDS Naturals, Sequences, FiniteSets

CONSTANTS
    Requests,     \* identifiers of the requests ever submitted to this lane
    Kind,         \* Kind[r]: the command that r runs
    Ordered,      \* TRUE for `ordered_channel`, FALSE for `channel`
    PrimaryCap,   \* capacity of the primary channel
    RetainedCap,  \* capacity of the retained queue
    WorkerCap,    \* BREADCRUMB_WORKER_CAPACITY
    MaxBatches    \* bound: batches one request publishes at most

\* "plain": a command with a terminal and no batch, run by a worker thread;
\* "navigation" and "column": a folder and a column listing, run by the STA
\* thread; "ancestry" and "children": the two breadcrumb jobs.
Kinds == {"plain", "navigation", "column", "ancestry", "children"}

ASSUME LaneAssumption ==
    /\ IsFiniteSet(Requests)
    /\ Kind \in [Requests -> Kinds]
    /\ Ordered \in BOOLEAN
    /\ PrimaryCap \in Nat \ {0}
    /\ RetainedCap \in Nat \ {0}
    /\ WorkerCap \in Nat
    /\ MaxBatches \in Nat
    /\ ~Ordered => \A r \in Requests : Kind[r] = "plain"

VARIABLES
    primary,    \* mpsc::sync_channel: the events not yet received
    retained,   \* Mutex<VecDeque>: the events the primary channel refused
    active,     \* active_requests: admitted, terminal not yet received
    submitted,  \* requests submitted so far
    worker,     \* worker[r]: program counter of the thread that runs r
    deadline,   \* deadline[r]: program counter of r's deadline thread
    claimed,    \* claimed[r]: who published r's terminal ("none" so far, the
                \* worker, the deadline, or the worker and then its panic)
    sent,       \* sent[r]: batches of r accepted by the lane so far
    rx,         \* the receiver's position inside one try_recv
    delivered,  \* delivered[r]: what the UI received of r, in order
    fallback,   \* column requests whose terminal went to the typed lane
    dropped     \* requests whose terminal neither queue accepted

vars == <<primary, retained, active, submitted, worker, deadline, claimed,
          sent, rx, delivered, fallback, dropped>>

Event(r, n) == [req |-> r, n |-> n]

Breadcrumb(r) == Kind[r] \in {"ancestry", "children"}

\* Commands that process_command runs to their end on the STA thread.
OnSta(r) == Kind[r] \in {"navigation", "column"}

\* The positions of a publishing thread.  "claim" is just before the
\* terminal_sent compare-exchange; the "term" positions are the three steps of
\* enqueue_terminal, the "batch" ones those of try_publish_batch.
WorkerPC == {"idle", "queued", "run", "batchSend", "batchSpill", "claim", "termCheck",
             "termSend", "termSpill", "tail", "done"}

DeadlinePC == {"off", "armed", "claim", "termCheck", "termSend", "termSpill",
               "done"}

Init ==
    /\ primary = <<>>
    /\ retained = <<>>
    /\ active = {}
    /\ submitted = {}
    /\ worker = [r \in Requests |-> "idle"]
    /\ deadline = [r \in Requests |-> "off"]
    /\ claimed = [r \in Requests |-> "none"]
    /\ sent = [r \in Requests |-> 0]
    /\ rx = "idle"
    /\ delivered = [r \in Requests |-> <<>>]
    /\ fallback = {}
    /\ dropped = {}

-----------------------------------------------------------------------------
(* Admission                                                               *)

SubmitUnbounded(r) ==
    /\ r \notin submitted
    /\ active' = active \cup {r}
    /\ submitted' = submitted \cup {r}
    /\ worker' = [worker EXCEPT ![r] = "queued"]
    /\ UNCHANGED <<primary, retained, deadline, claimed, sent, rx, delivered,
                   fallback, dropped>>

\* submit: refuse the request when the active requests of the lane could
\* already fill the retained queue.
Submit(r) ==
    /\ r \notin submitted
    /\ Cardinality(active) < RetainedCap
    /\ active' = active \cup {r}
    /\ submitted' = submitted \cup {r}
    /\ worker' = [worker EXCEPT ![r] = "queued"]
    /\ UNCHANGED <<primary, retained, deadline, claimed, sent, rx, delivered,
                   fallback, dropped>>

Running(r) == worker[r] \notin {"idle", "queued", "done"}

\* Threads holding an IsolatedWorkerGuard of the breadcrumb domain.
BusyWorkers == {r \in Requests : Breadcrumb(r) /\ Running(r)}

\* process_command picks the request up.  A breadcrumb job that finds its
\* domain saturated goes straight to its failure terminal and arms no deadline.
Start(r) ==
    /\ worker[r] = "queued"
    /\ OnSta(r) => ~\E q \in Requests : OnSta(q) /\ Running(q)
    /\ LET admitted == Breadcrumb(r) => Cardinality(BusyWorkers) < WorkerCap
       IN /\ worker' = [worker EXCEPT ![r] = IF admitted THEN "run" ELSE "claim"]
          /\ deadline' = [deadline EXCEPT
                            ![r] = IF admitted /\ Breadcrumb(r) THEN "armed"
                                                                ELSE @]
    /\ UNCHANGED <<primary, retained, active, submitted, claimed, sent, rx,
                   delivered, fallback, dropped>>

-----------------------------------------------------------------------------
(* Publishing a batch                                                      *)

\* try_publish_batch_reserving_terminal keeps one retained slot free; the
\* breadcrumb jobs use try_publish_batch, which does not.
BatchLimit(r) == IF Kind[r] = "column" THEN RetainedCap - 1 ELSE RetainedCap

\* What a worker does when its batch is refused: process_ancestry returns the
\* error, which start_brokered_breadcrumb discards; the others go on to publish
\* a failure terminal.
AfterRefusedBatch(r) == IF Kind[r] = "ancestry" THEN "done" ELSE "claim"

RetainBatchUnbounded(r) ==
    /\ retained' = Append(retained, Event(r, sent[r] + 1))
    /\ sent' = [sent EXCEPT ![r] = @ + 1]
    /\ worker' = [worker EXCEPT ![r] = "run"]

\* The retained queue takes the batch, or the batch is refused.
RetainBatch(r) ==
    IF Len(retained) < BatchLimit(r)
    THEN /\ retained' = Append(retained, Event(r, sent[r] + 1))
         /\ sent' = [sent EXCEPT ![r] = @ + 1]
         /\ worker' = [worker EXCEPT ![r] = "run"]
    ELSE /\ worker' = [worker EXCEPT ![r] = AfterRefusedBatch(r)]
         /\ UNCHANGED <<retained, sent>>

BatchCheckSkipsRetained(r) ==
    /\ worker[r] = "run"
    /\ Kind[r] # "plain"
    /\ sent[r] < MaxBatches
    /\ worker' = [worker EXCEPT ![r] = "batchSend"]
    /\ UNCHANGED <<primary, retained, active, submitted, deadline, claimed,
                   sent, rx, delivered, fallback, dropped>>

\* First critical section: once the lane has spilled, later events queue
\* behind what is retained.  A folder listing has no such section: it sends
\* through a clone of the primary sender.
BatchCheck(r) ==
    /\ worker[r] = "run"
    /\ Kind[r] # "plain"
    /\ sent[r] < MaxBatches
    /\ IF retained # <<>> /\ Kind[r] # "navigation"
       THEN RetainBatch(r)
       ELSE /\ worker' = [worker EXCEPT ![r] = "batchSend"]
            /\ UNCHANGED <<retained, sent>>
    /\ UNCHANGED <<primary, active, submitted, deadline, claimed, rx,
                   delivered, fallback, dropped>>

\* primary.try_send, outside the mutex.  A folder listing that finds the
\* channel full ends there, as a failure.
BatchSend(r) ==
    /\ worker[r] = "batchSend"
    /\ IF Len(primary) < PrimaryCap
       THEN /\ primary' = Append(primary, Event(r, sent[r] + 1))
            /\ sent' = [sent EXCEPT ![r] = @ + 1]
            /\ worker' = [worker EXCEPT ![r] = "run"]
       ELSE /\ worker' = [worker EXCEPT
                            ![r] = IF Kind[r] = "navigation" THEN "claim"
                                                             ELSE "batchSpill"]
            /\ UNCHANGED <<primary, sent>>
    /\ UNCHANGED <<retained, active, submitted, deadline, claimed, rx,
                   delivered, fallback, dropped>>

\* Second critical section, after a full primary channel.
BatchSpill(r) ==
    /\ worker[r] = "batchSpill"
    /\ RetainBatch(r)
    /\ UNCHANGED <<primary, active, submitted, deadline, claimed, rx,
                   delivered, fallback, dropped>>

\* The job ends: enumeration finished, failed, was cancelled or panicked.
\* (Of a column listing: finished.)
JobEnds(r) ==
    /\ worker[r] = "run"
    /\ worker' = [worker EXCEPT ![r] = "claim"]
    /\ UNCHANGED <<primary, retained, active, submitted, deadline, claimed,
                   sent, rx, delivered, fallback, dropped>>

\* A column listing fails, is cancelled or panics: process_command hands the
\* failure to publish_command_terminal, which sends it to the typed lane.
\* (Cancellation is looked at once more after a refused batch.)
ColumnFails(r) ==
    /\ Kind[r] = "column"
    /\ worker[r] \in {"run", "claim"}
    /\ claimed[r] = "none"
    /\ worker' = [worker EXCEPT ![r] = "done"]
    /\ claimed' = [claimed EXCEPT ![r] = "worker"]
    /\ fallback' = fallback \cup {r}
    /\ UNCHANGED <<primary, retained, active, submitted, deadline, sent, rx,
                   delivered, dropped>>

-----------------------------------------------------------------------------
(* The deadline thread of a breadcrumb job                                 *)

\* recv_timeout elapsed before the worker reported done.
DeadlineElapses(r) ==
    /\ deadline[r] = "armed"
    /\ worker[r] # "done"
    /\ deadline' = [deadline EXCEPT ![r] = "claim"]
    /\ UNCHANGED <<primary, retained, active, submitted, worker, claimed,
                   sent, rx, delivered, fallback, dropped>>

\* The worker reported done first.
DeadlineStandsDown(r) ==
    /\ deadline[r] = "armed"
    /\ worker[r] = "done"
    /\ deadline' = [deadline EXCEPT ![r] = "done"]
    /\ UNCHANGED <<primary, retained, active, submitted, worker, claimed,
                   sent, rx, delivered, fallback, dropped>>

-----------------------------------------------------------------------------
(* Publishing a terminal                                                   *)

\* The two threads of r run the same code; At and Goto hide which one it is.
At(r, who, pc) ==
    IF who = "worker" THEN worker[r] = pc ELSE deadline[r] = pc

Goto(r, who, pc) ==
    IF who = "worker"
    THEN worker' = [worker EXCEPT ![r] = pc] /\ UNCHANGED deadline
    ELSE deadline' = [deadline EXCEPT ![r] = pc] /\ UNCHANGED worker

\* After its terminal a folder listing still feeds the directory index and
\* starts the watcher; every other thread is finished.
AfterTerminal(r) ==
    IF Kind[r] = "navigation" /\ claimed[r] = "worker" THEN "tail" ELSE "done"

ClaimUngated(r, who) ==
    /\ At(r, who, "claim")
    /\ claimed' = [claimed EXCEPT ![r] = who]
    /\ Goto(r, who, "termCheck")
    /\ UNCHANGED <<primary, retained, active, submitted, sent, rx, delivered,
                   fallback, dropped>>

\* compare_exchange on terminal_sent: the loser publishes nothing.
Claim(r, who) ==
    /\ At(r, who, "claim")
    /\ IF claimed[r] = "none"
       THEN /\ claimed' = [claimed EXCEPT ![r] = who]
            /\ Goto(r, who, "termCheck")
       ELSE /\ Goto(r, who, "done")
            /\ UNCHANGED claimed
    /\ UNCHANGED <<primary, retained, active, submitted, sent, rx, delivered,
                   fallback, dropped>>

\* retain_terminal.  A terminal the retained queue refuses is lost, except a
\* column's, which publish_column_terminal hands to the typed lane.
RetainTerminal(r) ==
    \/ /\ \E i \in 1..Len(retained) : retained[i] = Event(r, 0)
       /\ UNCHANGED <<retained, fallback, dropped>>
    \/ /\ \A i \in 1..Len(retained) : retained[i] # Event(r, 0)
       /\ IF Len(retained) < RetainedCap
          THEN /\ retained' = Append(retained, Event(r, 0))
               /\ UNCHANGED <<fallback, dropped>>
          ELSE /\ IF Kind[r] = "column"
                  THEN fallback' = fallback \cup {r} /\ UNCHANGED dropped
                  ELSE dropped' = dropped \cup {r} /\ UNCHANGED fallback
               /\ UNCHANGED retained

TermCheckSkipsRetained(r, who) ==
    /\ At(r, who, "termCheck")
    /\ Goto(r, who, "termSend")
    /\ UNCHANGED <<primary, retained, active, submitted, claimed, sent, rx,
                   delivered, fallback, dropped>>

\* enqueue_terminal, first critical section (ordered lanes only).
TermCheck(r, who) ==
    /\ At(r, who, "termCheck")
    /\ IF Ordered /\ retained # <<>>
       THEN RetainTerminal(r) /\ Goto(r, who, AfterTerminal(r))
       ELSE Goto(r, who, "termSend") /\ UNCHANGED <<retained, fallback, dropped>>
    /\ UNCHANGED <<primary, active, submitted, claimed, sent, rx, delivered>>

\* enqueue_terminal, primary.try_send.
TermSend(r, who) ==
    /\ At(r, who, "termSend")
    /\ IF Len(primary) < PrimaryCap
       THEN /\ primary' = Append(primary, Event(r, 0))
            /\ Goto(r, who, AfterTerminal(r))
       ELSE Goto(r, who, "termSpill") /\ UNCHANGED primary
    /\ UNCHANGED <<retained, active, submitted, claimed, sent, rx, delivered,
                   fallback, dropped>>

TermSpillDiscards(r, who) ==
    /\ At(r, who, "termSpill")
    /\ Goto(r, who, AfterTerminal(r))
    /\ UNCHANGED <<primary, retained, active, submitted, claimed, sent, rx,
                   delivered, fallback, dropped>>

\* enqueue_terminal, second critical section, after a full primary channel.
TermSpill(r, who) ==
    /\ At(r, who, "termSpill")
    /\ RetainTerminal(r)
    /\ Goto(r, who, AfterTerminal(r))
    /\ UNCHANGED <<primary, active, submitted, claimed, sent, rx, delivered>>

\* The rest of process_command after a folder listing's terminal.
TailEnds(r) ==
    /\ worker[r] = "tail"
    /\ worker' = [worker EXCEPT ![r] = "done"]
    /\ UNCHANGED <<primary, retained, active, submitted, deadline, claimed,
                   sent, rx, delivered, fallback, dropped>>

\* It panics instead: catch_unwind publishes a second terminal, a failure.
TailPanics(r) ==
    /\ worker[r] = "tail"
    /\ worker' = [worker EXCEPT ![r] = "termCheck"]
    /\ claimed' = [claimed EXCEPT ![r] = "panic"]
    /\ UNCHANGED <<primary, retained, active, submitted, deadline, sent, rx,
                   delivered, fallback, dropped>>

-----------------------------------------------------------------------------
(* The receiver: one try_recv of the UI thread                             *)

DeliverKeepsSlot(e) ==
    /\ delivered' = [delivered EXCEPT ![e.req] = Append(@, e.n)]
    /\ active' = active

\* try_recv_event hands the event to the UI; remove_completed_request releases
\* the admission slot when it is a terminal.
Deliver(e) ==
    /\ delivered' = [delivered EXCEPT ![e.req] = Append(@, e.n)]
    /\ active' = IF e.n = 0 THEN active \ {e.req} ELSE active

Unreceived == <<submitted, worker, deadline, claimed, sent, dropped>>

\* retained_first: the retained queue is tried before the primary channel.
RecvRetainedFirst ==
    /\ ~Ordered
    /\ rx = "idle"
    /\ IF retained # <<>>
       THEN Deliver(Head(retained)) /\ retained' = Tail(retained) /\ rx' = rx
       ELSE rx' = "primary" /\ UNCHANGED <<retained, delivered, active>>
    /\ UNCHANGED <<primary, fallback>> /\ UNCHANGED Unreceived

\* primary.try_recv; Empty sends the receiver on to the retained queue.
RecvPrimary ==
    /\ rx = IF Ordered THEN "idle" ELSE "primary"
    /\ IF primary # <<>>
       THEN Deliver(Head(primary)) /\ primary' = Tail(primary) /\ rx' = "idle"
       ELSE rx' = "retained" /\ UNCHANGED <<primary, delivered, active>>
    /\ UNCHANGED <<retained, fallback>> /\ UNCHANGED Unreceived

\* The retained queue after the primary channel was seen empty.
RecvRetained ==
    /\ rx = "retained"
    /\ rx' = "idle"
    /\ IF retained # <<>>
       THEN Deliver(Head(retained)) /\ retained' = Tail(retained)
       ELSE UNCHANGED <<retained, delivered, active>>
    /\ UNCHANGED <<primary, fallback>> /\ UNCHANGED Unreceived

\* The typed lane, polled before this one, hands over a column's terminal.
RecvFallback(r) ==
    /\ r \in fallback
    /\ rx = "idle"
    /\ Deliver(Event(r, 0))
    /\ fallback' = fallback \ {r}
    /\ UNCHANGED <<primary, retained, rx>> /\ UNCHANGED Unreceived

-----------------------------------------------------------------------------

Publish(r, who) ==
    \/ Claim(r, who)
    \/ TermCheck(r, who)
    \/ TermSend(r, who)
    \/ TermSpill(r, who)

Work(r) ==
    \/ Start(r)
    \/ BatchCheck(r)
    \/ BatchSend(r)
    \/ BatchSpill(r)
    \/ JobEnds(r)
    \/ ColumnFails(r)
    \/ TailEnds(r)
    \/ TailPanics(r)

Deadline(r) ==
    \/ DeadlineElapses(r)
    \/ DeadlineStandsDown(r)

Receive ==
    \/ RecvRetainedFirst
    \/ RecvPrimary
    \/ RecvRetained
    \/ \E r \in Requests : RecvFallback(r)

Next ==
    \/ \E r \in Requests : Submit(r) \/ Work(r) \/ Deadline(r)
    \/ \E r \in Requests, who \in {"worker", "deadline"} : Publish(r, who)
    \/ Receive

\* The UI keeps polling, threads are scheduled, and a job that does not call a
\* Shell extension ends.  A breadcrumb provider may never return: nothing is
\* assumed of its worker while it runs, only that its deadline elapses.
\* Every poll passes the typed lane before it reaches this one, hence the
\* strong fairness of RecvFallback.
Fairness ==
    /\ WF_vars(Receive)
    /\ \A r \in Requests :
         /\ WF_vars(Start(r))
         /\ WF_vars(~Breadcrumb(r) /\ Work(r))
         /\ WF_vars(Deadline(r))
         /\ SF_vars(RecvFallback(r))
         /\ \A who \in {"worker", "deadline"} : WF_vars(Publish(r, who))

Spec == Init /\ [][Next]_vars /\ Fairness

-----------------------------------------------------------------------------
(* Properties                                                              *)

Events == [req : Requests, n : 0..MaxBatches]

\* Every variable holds a value of its type, and neither queue of the lane
\* ever exceeds the capacity it was created with.
TypeOK ==
    /\ primary \in Seq(Events)
    /\ retained \in Seq(Events)
    /\ Len(primary) <= PrimaryCap
    /\ Len(retained) <= RetainedCap
    /\ active \in SUBSET Requests
    /\ submitted \in SUBSET Requests
    /\ worker \in [Requests -> WorkerPC]
    /\ deadline \in [Requests -> DeadlinePC]
    /\ claimed \in [Requests -> {"none", "worker", "deadline", "panic"}]
    /\ sent \in [Requests -> 0..MaxBatches]
    /\ rx \in {"idle", "primary", "retained"}
    /\ delivered \in [Requests -> Seq(0..MaxBatches)]
    /\ fallback \in SUBSET Requests
    /\ dropped \in SUBSET Requests

\* Some folder listing panicked after its terminal.
Panicked == \E r \in Requests : claimed[r] = "panic"

Occurrences(s, e) == Cardinality({i \in 1..Len(s) : s[i] = e})

\* Terminals of r that the UI has received or can still receive.
Terminals(r) ==
    Occurrences(primary, Event(r, 0)) + Occurrences(retained, Event(r, 0))
      + Occurrences(delivered[r], 0) + (IF r \in fallback THEN 1 ELSE 0)

\* A worker and its deadline thread racing for the terminal never put two
\* terminals of one request in the lane: the terminal_sent gate of
\* start_bounded_breadcrumb_job holds across both queues and the receiver.
\* Only a panic after the terminal of a folder listing adds a second one.
AtMostOneTerminal ==
    \A r \in Requests : Terminals(r) <= IF claimed[r] = "panic" THEN 2 ELSE 1

\* The admission test of submit is enough: no thread ever finds the retained
\* queue full when it must retain a terminal, so enqueue_terminal never
\* reports "required Shell terminal retention capacity was exhausted".  The
\* second terminal a panic adds belongs to no admitted request and voids this.
NoTerminalDropped == dropped # {} => Panicked

\* A request that left the admission table has had its terminal received, and
\* an admitted request whose threads are all finished still has a terminal on
\* its way: the table neither leaks slots nor frees them early.
SlotMatchesTerminal ==
    \A r \in submitted :
        /\ r \notin active <=> \E i \in 1..Len(delivered[r]) : delivered[r][i] = 0
        /\ (r \in active /\ worker[r] = "done" /\ deadline[r] \in {"off", "done"})
              => Terminals(r) = 1

\* Whatever two publishers and the receiver do, the batches of one request
\* stand in the two queues in publication order: an event never enters the
\* primary channel while an older one of its request waits in the retained
\* queue.
QueueOrder ==
    LET lane == primary \o retained
    IN \A i, j \in 1..Len(lane) :
          ( /\ i < j
            /\ lane[i].req = lane[j].req
            /\ lane[i].n # 0
            /\ lane[j].n # 0 ) => lane[i].n < lane[j].n

\* A terminal published by the worker itself comes after all of its batches
\* in the lane.
TerminalBehindBatches ==
    LET lane == primary \o retained
    IN \A i, j \in 1..Len(lane) :
          ( /\ lane[i].n = 0
            /\ claimed[lane[i].req] = "worker"
            /\ lane[j].req = lane[i].req
            /\ lane[j].n # 0 ) => j < i

\* The batches of a request published before its terminal are observed before
\* it, and in order (the contract of ordered_channel).
DeliveryOrder ==
    \A r \in Requests :
        \A i, j \in 1..Len(delivered[r]) :
            i < j => /\ delivered[r][j] # 0 => delivered[r][i] < delivered[r][j]
                     /\ delivered[r][i] = 0 => claimed[r] # "worker"

\* Every admitted request has its terminal delivered to the UI, and so gives
\* its admission slot back (again unless a panic added a terminal).
EventuallyTerminal ==
    \A r \in Requests : r \in submitted ~> (r \notin active \/ Panicked)
=============================================================================
