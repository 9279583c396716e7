------------------------- MODULE TerminalLaneProofs -------------------------
(***************************************************************************)
(* Theorems about TerminalLane, for every set of requests and every        *)
(* capacity: every lane stays within its types and capacities; no request  *)
(* has two terminals; events keep their order across the two queues; and a *)
(* lane whose retained queue takes only terminals (operation, typed and    *)
(* navigation lanes) never loses one and gives every slot back with it.    *)
(***************************************************************************)
EXTENDS TerminalLane, TLAPS, FiniteSetTheorems

-----------------------------------------------------------------------------
(* Type correctness                                                        *)

\* What TypeOK needs to be inductive: a thread about to publish a batch has
\* not used up its batches, and only breadcrumb jobs have a deadline thread.
TypeInv ==
    /\ TypeOK
    /\ \A r \in Requests :
         /\ worker[r] \in {"batchSend", "batchSpill"} => sent[r] < MaxBatches
         /\ deadline[r] # "off" => Breadcrumb(r)

\* Appending to a queue that is not full, and removing its head, keep it a
\* bounded queue of events.
LEMMA QueueTypes ==
    ASSUME NEW cap \in Nat, NEW s \in Seq(Events), Len(s) <= cap
    PROVE  /\ \A e \in Events : Len(s) < cap
                => Append(s, e) \in Seq(Events) /\ Len(Append(s, e)) <= cap
           /\ s # <<>> => /\ Head(s) \in Events
                          /\ Tail(s) \in Seq(Events)
                          /\ Len(Tail(s)) <= cap
  OBVIOUS

\* Events are pairs of a request and a batch number.
LEMMA EventTypes ==
    /\ \A r \in Requests, n \in 0..MaxBatches : Event(r, n) \in Events
    /\ \A e \in Events : e.req \in Requests /\ e.n \in 0..MaxBatches
  BY DEF Event, Events

\* Every step of the lane keeps TypeInv.
LEMMA TypeInvNext == TypeInv /\ [Next]_vars => TypeInv'
<1> SUFFICES ASSUME TypeInv, [Next]_vars PROVE TypeInv'
  OBVIOUS
<1> USE LaneAssumption
<1>a. CASE UNCHANGED vars
  BY <1>a DEF vars, TypeInv, TypeOK
<1>b. ASSUME NEW r \in Requests, Submit(r) PROVE TypeInv'
  BY <1>b DEF Submit, TypeInv, TypeOK, WorkerPC
<1>c. ASSUME NEW r \in Requests, Start(r) PROVE TypeInv'
  BY <1>c DEF Start, TypeInv, TypeOK, WorkerPC, DeadlinePC
<1>d. ASSUME NEW r \in Requests, sent[r] < MaxBatches, RetainBatch(r),
             UNCHANGED <<primary, active, submitted, deadline, claimed, rx,
                         delivered, fallback, dropped>>
      PROVE  TypeInv'
  <2>1. Event(r, sent[r] + 1) \in Events /\ sent[r] + 1 \in 0..MaxBatches
    BY <1>d, EventTypes DEF TypeInv, TypeOK
  <2>2. BatchLimit(r) <= RetainedCap /\ BatchLimit(r) \in Int
    BY DEF BatchLimit
  <2>a. Len(retained) < BatchLimit(r)
          => /\ Append(retained, Event(r, sent[r] + 1)) \in Seq(Events)
             /\ Len(Append(retained, Event(r, sent[r] + 1))) <= RetainedCap
    BY <2>1, <2>2, QueueTypes DEF TypeInv, TypeOK
  <2>3. retained' \in Seq(Events) /\ Len(retained') <= RetainedCap
    BY <1>d, <2>a DEF RetainBatch, TypeInv, TypeOK
  <2>4. sent' \in [Requests -> 0..MaxBatches]
    BY <1>d, <2>1 DEF RetainBatch, TypeInv, TypeOK
  <2>5. worker' \in [Requests -> WorkerPC]
    BY <1>d DEF RetainBatch, AfterRefusedBatch, WorkerPC, TypeInv, TypeOK
  <2>6. \A q \in Requests : worker'[q] \in {"batchSend", "batchSpill"}
            => sent'[q] < MaxBatches
    BY <1>d DEF RetainBatch, AfterRefusedBatch, TypeInv, TypeOK
  <2> QED
    BY <1>d, <2>3, <2>4, <2>5, <2>6 DEF TypeInv, TypeOK
<1>e. ASSUME NEW r \in Requests, BatchCheck(r) PROVE TypeInv'
  <2>1. CASE retained # <<>> /\ Kind[r] # "navigation"
    BY <1>d, <1>e, <2>1 DEF BatchCheck
  <2>2. CASE ~(retained # <<>> /\ Kind[r] # "navigation")
    BY <1>e, <2>2 DEF BatchCheck, TypeInv, TypeOK, WorkerPC
  <2> QED
    BY <2>1, <2>2
<1>f. ASSUME NEW r \in Requests, BatchSend(r) PROVE TypeInv'
  <2>1. Event(r, sent[r] + 1) \in Events /\ sent[r] + 1 \in 0..MaxBatches
    BY <1>f, EventTypes DEF BatchSend, TypeInv, TypeOK
  <2>a. Len(primary) < PrimaryCap
          => /\ Append(primary, Event(r, sent[r] + 1)) \in Seq(Events)
             /\ Len(Append(primary, Event(r, sent[r] + 1))) <= PrimaryCap
    BY <2>1, QueueTypes DEF TypeInv, TypeOK
  <2>2. primary' \in Seq(Events) /\ Len(primary') <= PrimaryCap
    BY <1>f, <2>a DEF BatchSend, TypeInv, TypeOK
  <2>3. sent' \in [Requests -> 0..MaxBatches]
    BY <1>f, <2>1 DEF BatchSend, TypeInv, TypeOK
  <2>4. worker' \in [Requests -> WorkerPC]
    BY <1>f DEF BatchSend, TypeInv, TypeOK, WorkerPC
  <2>5. \A q \in Requests : worker'[q] \in {"batchSend", "batchSpill"}
            => sent'[q] < MaxBatches
    BY <1>f DEF BatchSend, TypeInv, TypeOK
  <2>6. UNCHANGED <<retained, active, submitted, deadline, claimed, rx, delivered, fallback,
                    dropped>>
    BY <1>f DEF BatchSend
  <2> QED
    BY <2>2, <2>3, <2>4, <2>5, <2>6 DEF TypeInv, TypeOK
<1>g. ASSUME NEW r \in Requests, BatchSpill(r) PROVE TypeInv'
  BY <1>d, <1>g DEF BatchSpill, TypeInv
<1>h. ASSUME NEW r \in Requests,
             JobEnds(r) \/ ColumnFails(r) \/ TailEnds(r) \/ TailPanics(r)
      PROVE  TypeInv'
  BY <1>h DEF JobEnds, ColumnFails, TailEnds, TailPanics, TypeInv, TypeOK,
              WorkerPC
<1>i. ASSUME NEW r \in Requests, Deadline(r) PROVE TypeInv'
  BY <1>i DEF Deadline, DeadlineElapses, DeadlineStandsDown, TypeInv, TypeOK,
              DeadlinePC
<1>j. ASSUME NEW r \in Requests, NEW who \in {"worker", "deadline"},
             Publish(r, who)
      PROVE  TypeInv'
  <2>1. ASSUME NEW pc \in WorkerPC, Goto(r, who, pc),
               pc \notin {"batchSend", "batchSpill"},
               who = "deadline" => pc \in DeadlinePC /\ deadline[r] # "off",
               UNCHANGED sent
        PROVE  /\ worker' \in [Requests -> WorkerPC]
               /\ deadline' \in [Requests -> DeadlinePC]
               /\ \A q \in Requests :
                    /\ worker'[q] \in {"batchSend", "batchSpill"}
                         => sent'[q] < MaxBatches
                    /\ deadline'[q] # "off" => Breadcrumb(q)
    BY <2>1 DEF Goto, TypeInv, TypeOK
  <2>2. \A pc : At(r, who, pc) /\ pc # "off"
           => (who = "deadline" => deadline[r] # "off")
    BY DEF At
  <2>3. /\ AfterTerminal(r) \in {"tail", "done"}
        /\ (who = "deadline" /\ deadline[r] # "off") => AfterTerminal(r) = "done"
    BY DEF AfterTerminal, TypeInv, Breadcrumb
  <2>4. ASSUME RetainTerminal(r)
        PROVE  /\ retained' \in Seq(Events)
               /\ Len(retained') <= RetainedCap
               /\ fallback' \in SUBSET Requests
               /\ dropped' \in SUBSET Requests
    <3>1. Len(retained) < RetainedCap
            => /\ Append(retained, Event(r, 0)) \in Seq(Events)
               /\ Len(Append(retained, Event(r, 0))) <= RetainedCap
      BY EventTypes, QueueTypes DEF TypeInv, TypeOK
    <3> QED
      BY <2>4, <3>1 DEF RetainTerminal, TypeInv, TypeOK
  <2>5. CASE Claim(r, who)
    <3>1. claimed' \in [Requests -> {"none", "worker", "deadline", "panic"}]
      BY <2>5 DEF Claim, TypeInv, TypeOK
    <3>2. Goto(r, who, "termCheck") \/ Goto(r, who, "done")
      BY <2>5 DEF Claim
    <3>3. who = "deadline" => deadline[r] # "off"
      BY <2>2, <2>5 DEF Claim
    <3> QED
      BY <2>1, <2>5, <3>1, <3>2, <3>3
         DEF Claim, TypeInv, TypeOK, WorkerPC, DeadlinePC
  <2>6. CASE TermCheck(r, who)
    <3>1. /\ retained' \in Seq(Events)
          /\ Len(retained') <= RetainedCap
          /\ fallback' \in SUBSET Requests
          /\ dropped' \in SUBSET Requests
      BY <2>4, <2>6 DEF TermCheck, TypeInv, TypeOK
    <3>2. Goto(r, who, "termSend") \/ Goto(r, who, AfterTerminal(r))
      BY <2>6 DEF TermCheck
    <3>3. who = "deadline" => deadline[r] # "off"
      BY <2>2, <2>6 DEF TermCheck
    <3> QED
      BY <2>1, <2>3, <2>6, <3>1, <3>2, <3>3
         DEF TermCheck, TypeInv, TypeOK, WorkerPC, DeadlinePC
  <2>7. CASE TermSend(r, who)
    <3>1. primary' \in Seq(Events) /\ Len(primary') <= PrimaryCap
      <4>1. Len(primary) < PrimaryCap
              => /\ Append(primary, Event(r, 0)) \in Seq(Events)
                 /\ Len(Append(primary, Event(r, 0))) <= PrimaryCap
        BY EventTypes, QueueTypes DEF TypeInv, TypeOK
      <4> QED
        BY <2>7, <4>1 DEF TermSend, TypeInv, TypeOK
    <3>2. Goto(r, who, "termSpill") \/ Goto(r, who, AfterTerminal(r))
      BY <2>7 DEF TermSend
    <3>3. who = "deadline" => deadline[r] # "off"
      BY <2>2, <2>7 DEF TermSend
    <3> QED
      BY <2>1, <2>3, <2>7, <3>1, <3>2, <3>3
         DEF TermSend, TypeInv, TypeOK, WorkerPC, DeadlinePC
  <2>8. CASE TermSpill(r, who)
    <3>1. who = "deadline" => deadline[r] # "off"
      BY <2>2, <2>8 DEF TermSpill
    <3> QED
      BY <2>1, <2>3, <2>4, <2>8, <3>1
         DEF TermSpill, TypeInv, TypeOK, WorkerPC, DeadlinePC
  <2> QED
    BY <1>j, <2>5, <2>6, <2>7, <2>8 DEF Publish
<1>k. CASE Receive
  <2>1. ASSUME NEW e \in Events, Deliver(e)
        PROVE  /\ active' \in SUBSET Requests
               /\ delivered' \in [Requests -> Seq(0..MaxBatches)]
    BY <2>1, EventTypes DEF Deliver, TypeInv, TypeOK
  <2>2. CASE RecvRetainedFirst
    BY <2>1, <2>2, QueueTypes DEF RecvRetainedFirst, Unreceived, TypeInv, TypeOK
  <2>3. CASE RecvPrimary
    BY <2>1, <2>3, QueueTypes DEF RecvPrimary, Unreceived, TypeInv, TypeOK
  <2>4. CASE RecvRetained
    BY <2>1, <2>4, QueueTypes DEF RecvRetained, Unreceived, TypeInv, TypeOK
  <2>5. ASSUME NEW r \in Requests, RecvFallback(r) PROVE TypeInv'
    BY <2>1, <2>5, EventTypes DEF RecvFallback, Unreceived, TypeInv, TypeOK
  <2> QED
    BY <1>k, <2>2, <2>3, <2>4, <2>5 DEF Receive
<1> QED
  BY <1>a, <1>b, <1>c, <1>e, <1>f, <1>g, <1>h, <1>i, <1>j, <1>k DEF Next, Work

\* Every lane, of whatever capacities and for whatever mix of requests, keeps
\* its two queues within the capacities they were created with.
THEOREM LaneTypeCorrect == Spec => []TypeOK
<1>1. Init => TypeInv
  BY LaneAssumption DEF Init, TypeInv, TypeOK, WorkerPC, DeadlinePC
<1>2. TypeInv => TypeOK
  BY DEF TypeInv
<1> QED
  BY <1>1, <1>2, TypeInvNext, PTL DEF Spec

-----------------------------------------------------------------------------
(* Lanes without spilled batches                                           *)

\* Every terminal queued in s belongs to an admitted request whose thread has
\* published it and not yet gone further.
Waiting(s) ==
    \A i \in 1..Len(s) :
        s[i].n = 0 => /\ s[i].req \in active
                      /\ worker[s[i].req] \in {"tail", "done"}

\* No two terminals of s belong to one request.
OneEach(s) ==
    \A i, j \in 1..Len(s) :
        (s[i].n = 0 /\ s[j].n = 0 /\ s[i].req = s[j].req) => i = j

\* No request has a terminal in both queues.
Apart ==
    \A i \in 1..Len(primary), j \in 1..Len(retained) :
        (primary[i].n = 0 /\ retained[j].n = 0)
            => primary[i].req # retained[j].req

\* The admission slots: what has not finished is admitted, no more are
\* admitted than the retained queue can hold, and no batch is on its way there.
Slots ==
    /\ \A r \in Requests :
         /\ worker[r] \notin {"idle", "tail", "done"} => r \in active
         /\ r \in active => r \in submitted
         /\ r \notin submitted => worker[r] = "idle"
         /\ worker[r] # "batchSpill"
         /\ worker[r] = "batchSend" => Kind[r] = "navigation"
    /\ Cardinality(active) <= RetainedCap

QueueInv ==
    /\ Waiting(primary)
    /\ Waiting(retained)
    /\ \A j \in 1..Len(retained) : retained[j].n = 0
    /\ OneEach(primary)
    /\ OneEach(retained)
    /\ Apart

\* The strengthening of NoTerminalDropped.
DropInv == ~Panicked => Slots /\ QueueInv /\ fallback = {} /\ dropped = {}

\* The lanes the theorem is about: `channel`, and an `ordered_channel` whose
\* requests are folder listings.
TerminalsOnly == \A r \in Requests : Kind[r] \in {"plain", "navigation"}

\* An admitted request that has not published its terminal leaves the retained
\* queue at least one slot: the queued terminals inject into the others.
LEMMA RoomForTerminal ==
    ASSUME TypeInv, Slots, QueueInv, NEW r \in Requests,
           worker[r] \notin {"idle", "tail", "done"}
    PROVE  Len(retained) < RetainedCap
<1> DEFINE D == 1..Len(retained)
           f == [i \in D |-> retained[i].req]
<1>1. Len(retained) \in Nat /\ \A i \in D : retained[i] \in Events
  BY DEF TypeInv, TypeOK
<1>2. r \in active /\ IsFiniteSet(active)
  BY LaneAssumption, FS_Subset DEF Slots, TypeInv, TypeOK
<1>3. /\ IsFiniteSet(active \ {r})
      /\ Cardinality(active \ {r}) = Cardinality(active) - 1
  BY <1>2, FS_RemoveElement
<1>4. \A i \in D : retained[i].req \in active \ {r}
  BY <1>1 DEF QueueInv, Waiting
<1>5. \A i, j \in D : f[i] = f[j] => i = j
  BY DEF QueueInv, OneEach
<1>6. f \in Injection(D, active \ {r})
  BY <1>4, <1>5 DEF Injection, IsInjective
<1> HIDE DEF D, f
<1>7. Cardinality(D) <= Cardinality(active \ {r})
  BY <1>3, <1>6, FS_Injection
<1>8. Cardinality(D) = Len(retained)
  <2>1. \A n \in Nat : Cardinality(1..n) = n
    <3> SUFFICES ASSUME NEW n \in Nat PROVE Cardinality(1..n) = n
      OBVIOUS
    <3>0. 1 \in Int /\ n \in Int
      OBVIOUS
    <3>1. Cardinality(1..n) = IF 1 > n THEN 0 ELSE n - 1 + 1
      BY <3>0, FS_Interval, Zenon
    <3> QED
      BY <3>1
  <2> QED
    BY <1>1, <2>1 DEF D
<1>9. Cardinality(active) \in Nat /\ Cardinality(active) <= RetainedCap
  BY <1>2, FS_CardinalityType DEF Slots
<1> QED
  BY <1>1, <1>3, <1>7, <1>8, <1>9, LaneAssumption

\* A thread that has not published its terminal moves on, or ends without
\* publishing, and the queues and the admission table stay as they are.
LEMMA MoveKeepsQueues ==
    ASSUME TypeInv, Slots, QueueInv, NEW r \in Requests,
           NEW pc \in WorkerPC \ {"idle", "batchSpill"},
           pc = "batchSend" => Kind[r] = "navigation",
           worker[r] \notin {"idle", "tail", "done"},
           worker' = [worker EXCEPT ![r] = pc],
           UNCHANGED <<primary, retained, active, submitted>>
    PROVE  Slots' /\ QueueInv'
<1>1. Slots'
  BY DEF Slots, TypeInv, TypeOK
<1>2. Waiting(primary)' /\ Waiting(retained)'
  BY DEF QueueInv, Waiting, TypeInv, TypeOK
<1> QED
  BY <1>1, <1>2 DEF QueueInv, OneEach, Apart

\* A terminal of a request that has none in s keeps one terminal each.
LEMMA OneEachAppend ==
    ASSUME NEW s \in Seq(Events), NEW e \in Events, OneEach(s),
           \A i \in 1..Len(s) : s[i].n = 0 => s[i].req # e.req
    PROVE  OneEach(Append(s, e))
<1>1. Len(Append(s, e)) = Len(s) + 1 /\ Len(s) \in Nat
  OBVIOUS
<1>2. \A i \in 1..Len(s) + 1 : Append(s, e)[i] = IF i <= Len(s) THEN s[i] ELSE e
  OBVIOUS
<1> QED
  BY <1>1, <1>2 DEF OneEach

\* The worker publishes its terminal into one of the two queues.
LEMMA PublishKeepsQueues ==
    ASSUME TypeInv, Slots, QueueInv, NEW r \in Requests,
           worker[r] \notin {"idle", "tail", "done"},
           NEW pc \in {"tail", "done"},
           worker' = [worker EXCEPT ![r] = pc],
           UNCHANGED <<active, submitted>>,
           \/ primary' = Append(primary, Event(r, 0)) /\ UNCHANGED retained
           \/ retained' = Append(retained, Event(r, 0)) /\ UNCHANGED primary
    PROVE  Slots' /\ QueueInv'
<1> DEFINE e == Event(r, 0)
           Fresh(s) == \A i \in 1..Len(s) : s[i].n = 0 => s[i].req # r
<1>1. primary \in Seq(Events) /\ retained \in Seq(Events)
  BY DEF TypeInv, TypeOK
<1>2. e \in Events /\ e.n = 0 /\ e.req = r
  BY EventTypes, LaneAssumption DEF Event
<1>3. r \in active
  BY DEF Slots
<1>4. Fresh(primary) /\ Fresh(retained)
  BY DEF QueueInv, Waiting
<1>5. Slots'
  BY <1>3 DEF Slots, TypeInv, TypeOK
<1>6. worker'[r] = pc /\ \A q \in Requests \ {r} : worker'[q] = worker[q]
  BY DEF TypeInv, TypeOK
<1>7. ASSUME NEW s \in Seq(Events), Waiting(s) PROVE Waiting(s)'
  BY <1>6, <1>7, EventTypes DEF Waiting
<1> HIDE DEF e
<1>8. ASSUME NEW s \in Seq(Events), Waiting(s) PROVE Waiting(Append(s, e))'
  <2>1. Waiting(s)'
    BY <1>7, <1>8
  <2>2. Len(Append(s, e)) = Len(s) + 1
    BY <1>2, <1>8
  <2>3. \A i \in 1..Len(s) + 1 : Append(s, e)[i] = IF i <= Len(s) THEN s[i] ELSE e
    BY <1>2, <1>8
  <2> QED
    BY <1>2, <1>3, <1>6, <2>1, <2>2, <2>3 DEF Waiting
<1>9. CASE primary' = Append(primary, e) /\ UNCHANGED retained
  <2>1. Waiting(primary)' /\ Waiting(retained)'
    BY <1>1, <1>7, <1>8, <1>9 DEF QueueInv, Waiting
  <2>2. OneEach(primary)'
    BY <1>1, <1>2, <1>4, <1>9, OneEachAppend DEF QueueInv
  <2>3. Apart'
    BY <1>1, <1>2, <1>4, <1>9 DEF QueueInv, Apart
  <2> QED
    BY <1>5, <1>9, <2>1, <2>2, <2>3 DEF QueueInv
<1>10. CASE retained' = Append(retained, e) /\ UNCHANGED primary
  <2>1. Waiting(primary)' /\ Waiting(retained)'
    BY <1>1, <1>7, <1>8, <1>10 DEF QueueInv, Waiting
  <2>2. OneEach(retained)'
    BY <1>1, <1>2, <1>4, <1>10, OneEachAppend DEF QueueInv
  <2>3. Apart'
    BY <1>1, <1>2, <1>4, <1>10 DEF QueueInv, Apart
  <2>4. \A j \in 1..Len(retained') : retained'[j].n = 0
    BY <1>1, <1>2, <1>10 DEF QueueInv
  <2> QED
    BY <1>5, <1>10, <2>1, <2>2, <2>3, <2>4 DEF QueueInv
<1> QED
  BY <1>9, <1>10 DEF e

\* What is left of a queue when its head is received.
LEMMA TailOfQueue ==
    ASSUME NEW s \in Seq(Events), s # <<>>
    PROVE  /\ Head(s) \in Events
           /\ Head(s) = s[1]
           /\ Len(s) \in Nat \ {0}
           /\ Len(Tail(s)) = Len(s) - 1
           /\ 1 \in 1..Len(s)
           /\ \A i \in 1..Len(Tail(s)) : /\ i + 1 \in 1..Len(s)
                                         /\ i + 1 # 1
                                         /\ Tail(s)[i] = s[i + 1]
  OBVIOUS

\* The receiver takes the head of one of the two queues.  A terminal frees the
\* slot of its request, which has no other event to wait for.
LEMMA ReceiveKeepsQueues ==
    ASSUME TypeInv, Slots, QueueInv, NEW e \in Events, Deliver(e),
           UNCHANGED <<worker, submitted>>,
           \/ /\ primary # <<>> /\ e = Head(primary)
              /\ primary' = Tail(primary) /\ UNCHANGED retained
           \/ /\ retained # <<>> /\ e = Head(retained)
              /\ retained' = Tail(retained) /\ UNCHANGED primary
    PROVE  Slots' /\ QueueInv'
<1>1. primary \in Seq(Events) /\ retained \in Seq(Events)
  BY DEF TypeInv, TypeOK
<1>2. e.req \in Requests /\ (e.n = 0 => worker[e.req] \in {"tail", "done"})
  BY <1>1, EventTypes, TailOfQueue DEF QueueInv, Waiting
<1>3. active' \subseteq active /\ \A q \in active : q = e.req \/ q \in active'
  BY DEF Deliver
<1>4. e.n # 0 => active' = active
  BY DEF Deliver
<1>5. Slots'
  <2>1. IsFiniteSet(active)
    BY LaneAssumption, FS_Subset DEF TypeInv, TypeOK
  <2>2. /\ Cardinality(active') <= Cardinality(active)
        /\ Cardinality(active') \in Nat
        /\ Cardinality(active) \in Nat
    BY <1>3, <2>1, FS_Subset, FS_CardinalityType
  <2>3. Cardinality(active') <= RetainedCap
    BY <2>2, LaneAssumption DEF Slots
  <2> QED
    BY <1>2, <1>3, <1>4, <2>3 DEF Slots
<1>6. CASE /\ primary # <<>> /\ e = Head(primary)
           /\ primary' = Tail(primary) /\ UNCHANGED retained
  <2>1. /\ e = primary[1]
        /\ Len(primary) \in Nat \ {0}
        /\ Len(primary') = Len(primary) - 1
        /\ 1 \in 1..Len(primary)
        /\ \A i \in 1..Len(primary') : /\ i + 1 \in 1..Len(primary)
                                       /\ i + 1 # 1
                                       /\ primary'[i] = primary[i + 1]
    BY <1>1, <1>6, TailOfQueue
  <2>2. Waiting(primary)'
    BY <1>3, <1>4, <2>1 DEF QueueInv, Waiting, OneEach
  <2>3. Waiting(retained)'
    BY <1>1, <1>3, <1>4, <1>6, <2>1 DEF QueueInv, Waiting, Apart
  <2>4. OneEach(primary)'
    BY <2>1 DEF QueueInv, OneEach
  <2>5. Apart'
    <3> SUFFICES ASSUME NEW i \in 1..Len(primary'), NEW j \in 1..Len(retained),
                        primary'[i].n = 0, retained[j].n = 0
                 PROVE  primary'[i].req # retained[j].req
      BY <1>6 DEF Apart
    <3>1. i + 1 \in 1..Len(primary) /\ primary'[i] = primary[i + 1]
      BY <2>1
    <3> QED
      BY <3>1 DEF QueueInv, Apart
  <2> QED
    BY <1>5, <1>6, <2>2, <2>3, <2>4, <2>5 DEF QueueInv
<1>7. CASE /\ retained # <<>> /\ e = Head(retained)
           /\ retained' = Tail(retained) /\ UNCHANGED primary
  <2>1. /\ e = retained[1]
        /\ Len(retained) \in Nat \ {0}
        /\ Len(retained') = Len(retained) - 1
        /\ 1 \in 1..Len(retained)
        /\ \A i \in 1..Len(retained') : /\ i + 1 \in 1..Len(retained)
                                        /\ i + 1 # 1
                                        /\ retained'[i] = retained[i + 1]
    BY <1>1, <1>7, TailOfQueue
  <2>2. Waiting(retained)'
    BY <1>3, <1>4, <2>1 DEF QueueInv, Waiting, OneEach
  <2>3. Waiting(primary)'
    BY <1>1, <1>3, <1>4, <1>7, <2>1 DEF QueueInv, Waiting, Apart
  <2>4. OneEach(retained)'
    BY <2>1 DEF QueueInv, OneEach
  <2>6. \A j \in 1..Len(retained') : retained'[j].n = 0
    BY <2>1 DEF QueueInv
  <2>5. Apart'
    BY <1>7, <2>1 DEF QueueInv, Apart
  <2> QED
    BY <1>5, <1>7, <2>2, <2>3, <2>4, <2>5, <2>6 DEF QueueInv
<1> QED
  BY <1>6, <1>7

\* A panic is remembered: no step takes it back.
LEMMA PanicStays ==
    ASSUME TypeInv, [Next]_vars, Panicked PROVE Panicked'
<1>1. ASSUME NEW r \in Requests, NEW who \in {"worker", "deadline"}, Claim(r, who)
      PROVE  \A q \in Requests : claimed[q] = "panic" => claimed'[q] = "panic"
  BY <1>1 DEF Claim, TypeInv, TypeOK
<1>2. ASSUME NEW r \in Requests, TailPanics(r) \/ ColumnFails(r)
      PROVE  \A q \in Requests : claimed[q] = "panic" => claimed'[q] = "panic"
  BY <1>2 DEF TailPanics, ColumnFails, TypeInv, TypeOK
<1>3. \/ UNCHANGED claimed
      \/ \E r \in Requests, who \in {"worker", "deadline"} : Claim(r, who)
      \/ \E r \in Requests : TailPanics(r) \/ ColumnFails(r)
  BY DEF vars, Next, Submit, Work, Start, BatchCheck, BatchSend, BatchSpill,
         JobEnds, TailEnds, Deadline, DeadlineElapses, DeadlineStandsDown,
         Publish, TermCheck, TermSend, TermSpill, Receive, RecvRetainedFirst,
         RecvPrimary, RecvRetained, RecvFallback, Unreceived
<1> QED
  BY <1>1, <1>2, <1>3 DEF Panicked

\* Every step of a lane of terminals keeps DropInv.
LEMMA DropInvNext ==
    ASSUME TerminalsOnly, TypeInv, DropInv, [Next]_vars
    PROVE  DropInv'
<1> SUFFICES ASSUME ~Panicked'
             PROVE  Slots' /\ QueueInv' /\ fallback' = {} /\ dropped' = {}
  BY DEF DropInv
<1>0. Slots /\ QueueInv /\ fallback = {} /\ dropped = {}
  BY PanicStays DEF DropInv
<1>1. \A r \in Requests : Kind[r] \in {"plain", "navigation"} /\ deadline[r] = "off"
  BY DEF TerminalsOnly, TypeInv, Breadcrumb
<1>a. CASE UNCHANGED vars
  BY <1>0, <1>a DEF vars, Slots, QueueInv, Waiting, OneEach, Apart
<1>b. ASSUME NEW r \in Requests, Submit(r)
      PROVE  Slots' /\ QueueInv' /\ fallback' = {} /\ dropped' = {}
  <2>1. IsFiniteSet(active)
    BY LaneAssumption, FS_Subset DEF TypeInv, TypeOK
  <2>2. worker[r] = "idle" /\ r \notin active
    BY <1>0, <1>b DEF Submit, Slots
  <2>3. Cardinality(active') = Cardinality(active) + 1 /\ Cardinality(active) \in Nat
    BY <1>b, <2>1, <2>2, FS_AddElement, FS_CardinalityType DEF Submit
  <2>4. Slots'
    BY <1>0, <1>b, <2>2, <2>3, LaneAssumption DEF Submit, Slots, TypeInv, TypeOK
  <2>5. Waiting(primary)' /\ Waiting(retained)'
    BY <1>0, <1>b, <2>2 DEF Submit, QueueInv, Waiting, TypeInv, TypeOK
  <2> QED
    BY <1>0, <1>b, <2>4, <2>5 DEF Submit, QueueInv, OneEach, Apart
<1>c. ASSUME NEW r \in Requests, Start(r)
      PROVE  Slots' /\ QueueInv' /\ fallback' = {} /\ dropped' = {}
  <2>1. worker' = [worker EXCEPT ![r] = "run"]
    BY <1>1, <1>c DEF Start, Breadcrumb
  <2> QED
    BY <1>0, <1>c, <2>1, MoveKeepsQueues DEF Start, WorkerPC
<1>d. ASSUME NEW r \in Requests, BatchCheck(r)
      PROVE  Slots' /\ QueueInv' /\ fallback' = {} /\ dropped' = {}
  BY <1>0, <1>1, <1>d, MoveKeepsQueues DEF BatchCheck, WorkerPC
<1>e. ASSUME NEW r \in Requests, BatchSend(r)
      PROVE  Slots' /\ QueueInv' /\ fallback' = {} /\ dropped' = {}
  <2>1. CASE Len(primary) < PrimaryCap
    <3> DEFINE b == Event(r, sent[r] + 1)
    <3>1. /\ primary' = Append(primary, b)
          /\ worker' = [worker EXCEPT ![r] = "run"]
          /\ worker[r] = "batchSend"
          /\ UNCHANGED <<retained, active, submitted, fallback, dropped>>
      BY <1>e, <2>1 DEF BatchSend
    <3>2. b \in Events /\ b.n # 0
      BY <1>e, EventTypes, LaneAssumption DEF BatchSend, Event, TypeInv, TypeOK
    <3> HIDE DEF b
    <3>3. /\ Len(primary') = Len(primary) + 1
          /\ \A i \in 1..Len(primary') :
                primary'[i].n = 0 => i \in 1..Len(primary) /\ primary'[i] = primary[i]
      BY <3>1, <3>2 DEF TypeInv, TypeOK
    <3>4. Slots'
      BY <1>0, <3>1 DEF Slots, TypeInv, TypeOK
    <3>5. Waiting(primary)' /\ Waiting(retained)'
      BY <1>0, <3>1, <3>3 DEF QueueInv, Waiting, TypeInv, TypeOK
    <3>6. OneEach(primary)' /\ OneEach(retained)' /\ Apart'
      BY <1>0, <3>1, <3>3 DEF QueueInv, OneEach, Apart
    <3> QED
      BY <1>0, <3>1, <3>4, <3>5, <3>6 DEF QueueInv
  <2>2. CASE ~(Len(primary) < PrimaryCap)
    BY <1>0, <1>e, <2>2, MoveKeepsQueues DEF BatchSend, Slots, WorkerPC
  <2> QED
    BY <2>1, <2>2
<1>f. ASSUME NEW r \in Requests, BatchSpill(r)
      PROVE  FALSE
  BY <1>0, <1>f DEF BatchSpill, Slots
<1>g. ASSUME NEW r \in Requests, JobEnds(r)
      PROVE  Slots' /\ QueueInv' /\ fallback' = {} /\ dropped' = {}
  BY <1>0, <1>g, MoveKeepsQueues DEF JobEnds, WorkerPC
<1>h. ASSUME NEW r \in Requests, TailEnds(r)
      PROVE  Slots' /\ QueueInv' /\ fallback' = {} /\ dropped' = {}
  <2>1. Slots'
    BY <1>0, <1>h DEF TailEnds, Slots, TypeInv, TypeOK
  <2>2. Waiting(primary)' /\ Waiting(retained)'
    BY <1>0, <1>h DEF TailEnds, QueueInv, Waiting, TypeInv, TypeOK
  <2> QED
    BY <1>0, <1>h, <2>1, <2>2 DEF TailEnds, QueueInv, OneEach, Apart
<1>i. ASSUME NEW r \in Requests, TailPanics(r) \/ ColumnFails(r) PROVE FALSE
  BY <1>1, <1>i DEF TailPanics, ColumnFails, Panicked, TypeInv, TypeOK
<1>j. ASSUME NEW r \in Requests, Deadline(r) PROVE FALSE
  BY <1>1, <1>j DEF Deadline, DeadlineElapses, DeadlineStandsDown
<1>k. ASSUME NEW r \in Requests, NEW who \in {"worker", "deadline"},
             Publish(r, who)
      PROVE  Slots' /\ QueueInv' /\ fallback' = {} /\ dropped' = {}
  <2>0. AfterTerminal(r) \in {"tail", "done"}
    BY DEF AfterTerminal
  <2>1. ASSUME RetainTerminal(r), worker[r] \in {"termCheck", "termSpill"}
        PROVE  /\ retained' = Append(retained, Event(r, 0))
               /\ fallback' = {} /\ dropped' = {}
    <3>1. Len(retained) < RetainedCap
      BY <1>0, <2>1, RoomForTerminal
    <3>2. \A i \in 1..Len(retained) : retained[i] # Event(r, 0)
      BY <1>0, <2>1 DEF QueueInv, Waiting, Event
    <3> QED
      BY <1>0, <2>1, <3>1, <3>2 DEF RetainTerminal
  <2>2. CASE Claim(r, who)
    <3>1. /\ worker[r] = "claim"
          /\ \/ worker' = [worker EXCEPT ![r] = "termCheck"]
             \/ worker' = [worker EXCEPT ![r] = "done"]
          /\ UNCHANGED <<primary, retained, active, submitted, fallback, dropped>>
      BY <1>1, <2>2 DEF Claim, At, Goto
    <3> QED
      BY <1>0, <3>1, MoveKeepsQueues DEF WorkerPC
  <2>3. CASE TermCheck(r, who)
    <3>1. worker[r] = "termCheck" /\ UNCHANGED <<primary, active, submitted>>
      BY <1>1, <2>3 DEF TermCheck, At
    <3>2. CASE Ordered /\ retained # <<>>
      <4>1. RetainTerminal(r) /\ worker' = [worker EXCEPT ![r] = AfterTerminal(r)]
        BY <1>1, <2>3, <3>2 DEF TermCheck, At, Goto
      <4> QED
        BY <1>0, <2>0, <2>1, <3>1, <4>1, PublishKeepsQueues
    <3>3. CASE ~(Ordered /\ retained # <<>>)
      <4>1. /\ worker' = [worker EXCEPT ![r] = "termSend"]
            /\ UNCHANGED <<retained, fallback, dropped>>
        BY <1>1, <2>3, <3>3 DEF TermCheck, At, Goto
      <4> QED
        BY <1>0, <3>1, <4>1, MoveKeepsQueues DEF WorkerPC
    <3> QED
      BY <3>2, <3>3
  <2>4. CASE TermSend(r, who)
    <3>1. /\ worker[r] = "termSend"
          /\ UNCHANGED <<retained, active, submitted, fallback, dropped>>
      BY <1>1, <2>4 DEF TermSend, At
    <3>2. CASE Len(primary) < PrimaryCap
      <4>1. /\ primary' = Append(primary, Event(r, 0))
            /\ worker' = [worker EXCEPT ![r] = AfterTerminal(r)]
        BY <1>1, <2>4, <3>2 DEF TermSend, At, Goto
      <4> QED
        BY <1>0, <2>0, <3>1, <4>1, PublishKeepsQueues
    <3>3. CASE ~(Len(primary) < PrimaryCap)
      <4>1. worker' = [worker EXCEPT ![r] = "termSpill"] /\ UNCHANGED primary
        BY <1>1, <2>4, <3>3 DEF TermSend, At, Goto
      <4> QED
        BY <1>0, <3>1, <4>1, MoveKeepsQueues DEF WorkerPC
    <3> QED
      BY <3>2, <3>3
  <2>5. CASE TermSpill(r, who)
    <3>1. /\ worker[r] = "termSpill"
          /\ RetainTerminal(r)
          /\ worker' = [worker EXCEPT ![r] = AfterTerminal(r)]
          /\ UNCHANGED <<primary, active, submitted>>
      BY <1>1, <2>5 DEF TermSpill, At, Goto
    <3> QED
      BY <1>0, <2>0, <2>1, <3>1, PublishKeepsQueues
  <2> QED
    BY <1>k, <2>2, <2>3, <2>4, <2>5 DEF Publish
<1>l. CASE Receive
  <2>1. primary \in Seq(Events) /\ retained \in Seq(Events)
    BY DEF TypeInv, TypeOK
  <2>2. CASE UNCHANGED <<primary, retained, active, submitted, worker, fallback, dropped>>
    BY <1>0, <2>2 DEF Slots, QueueInv, Waiting, OneEach, Apart
  <2>3. CASE /\ primary # <<>> /\ Deliver(Head(primary))
             /\ primary' = Tail(primary) /\ UNCHANGED retained
             /\ UNCHANGED <<worker, submitted, fallback, dropped>>
    BY <1>0, <2>1, <2>3, TailOfQueue, ReceiveKeepsQueues
  <2>4. CASE /\ retained # <<>> /\ Deliver(Head(retained))
             /\ retained' = Tail(retained) /\ UNCHANGED primary
             /\ UNCHANGED <<worker, submitted, fallback, dropped>>
    BY <1>0, <2>1, <2>4, TailOfQueue, ReceiveKeepsQueues
  <2> QED
    BY <1>0, <1>l, <2>2, <2>3, <2>4
       DEF Receive, RecvRetainedFirst, RecvPrimary, RecvRetained, RecvFallback,
           Unreceived
<1> QED
  BY <1>a, <1>b, <1>c, <1>d, <1>e, <1>f, <1>g, <1>h, <1>i, <1>j, <1>k, <1>l
     DEF Next, Work

\* The admission test of submit suffices for every capacity and every number
\* of requests: on the operation, typed and navigation lanes enqueue_terminal
\* never finds the retained queue full, however workers, receiver and
\* submissions interleave.
THEOREM NoTerminalIsDropped ==
    ASSUME TerminalsOnly PROVE Spec => []NoTerminalDropped
<1>1. Init => TypeInv /\ DropInv
  <2> SUFFICES ASSUME Init PROVE TypeInv /\ DropInv
    OBVIOUS
  <2>1. TypeInv
    BY LaneAssumption DEF Init, TypeInv, TypeOK, WorkerPC, DeadlinePC
  <2>2. Cardinality({}) = 0
    BY FS_EmptySet
  <2>3. Slots
    BY <2>2, LaneAssumption DEF Init, Slots
  <2>4. QueueInv
    BY DEF Init, QueueInv, Waiting, OneEach, Apart
  <2> QED
    BY <2>1, <2>3, <2>4 DEF Init, DropInv
<1>2. TypeInv /\ DropInv /\ [Next]_vars => (TypeInv /\ DropInv)'
  BY TypeInvNext, DropInvNext
<1>3. DropInv => NoTerminalDropped
  BY DEF DropInv, NoTerminalDropped
<1> QED
  BY <1>1, <1>2, <1>3, PTL DEF Spec

-----------------------------------------------------------------------------
(* One terminal per request                                                *)

\* The positions of a sequence are finitely many, and so are those of e in it.
LEMMA OccurrencesType ==
    ASSUME NEW U, NEW s \in Seq(U), NEW e
    PROVE  /\ IsFiniteSet({i \in 1..Len(s) : s[i] = e})
           /\ Occurrences(s, e) \in Nat
           /\ Occurrences(s, e) = 0 <=> \A i \in 1..Len(s) : s[i] # e
<1> DEFINE K == {i \in 1..Len(s) : s[i] = e}
<1>1. Len(s) \in Nat
  OBVIOUS
<1>2. IsFiniteSet(1..Len(s))
  BY <1>1, FS_Interval
<1>3. K \in SUBSET (1..Len(s))
  OBVIOUS
<1>4. \A i : i \in K <=> i \in 1..Len(s) /\ s[i] = e
  OBVIOUS
<1>5. Occurrences(s, e) = Cardinality(K)
  BY DEF Occurrences
<1> HIDE DEF K
<1>6. IsFiniteSet(K)
  BY <1>2, <1>3, FS_Subset
<1>7. Cardinality(K) \in Nat
  BY <1>6, FS_CardinalityType
<1>8. Cardinality(K) = 0 <=> K = {}
  BY <1>6, FS_EmptySet
<1>9. K = {} <=> \A i \in 1..Len(s) : s[i] # e
  BY <1>4
<1>10. IsFiniteSet({i \in 1..Len(s) : s[i] = e})
  BY <1>6 DEF K
<1> QED
  BY <1>5, <1>7, <1>8, <1>9, <1>10

\* Appending an element adds one occurrence of it.
LEMMA OccurrencesAppend ==
    ASSUME NEW U, NEW s \in Seq(U), NEW x \in U, NEW e
    PROVE  Occurrences(Append(s, x), e)
             = Occurrences(s, e) + (IF x = e THEN 1 ELSE 0)
<1> DEFINE t == Append(s, x)
           K == {i \in 1..Len(s) : s[i] = e}
           L == {i \in 1..Len(t) : t[i] = e}
           n == Len(s) + 1
<1>1. /\ t \in Seq(U) /\ Len(s) \in Nat /\ Len(t) = n /\ n \notin 1..Len(s)
      /\ \A i \in 1..Len(s) : t[i] = s[i]
      /\ t[n] = x
      /\ \A i : i \in 1..n <=> i \in 1..Len(s) \/ i = n
  OBVIOUS
<1>2. Occurrences(s, e) = Cardinality(K) /\ Occurrences(t, e) = Cardinality(L)
  BY DEF Occurrences
<1>3. IsFiniteSet(K) /\ Cardinality(K) \in Nat
  BY <1>2, OccurrencesType
<1>4. /\ \A i : i \in K <=> i \in 1..Len(s) /\ s[i] = e
      /\ \A i : i \in L <=> i \in 1..Len(t) /\ t[i] = e
  OBVIOUS
<1> HIDE DEF t, K, L, n
<1>5. CASE x = e
  <2>1. L = K \cup {n} /\ n \notin K
    BY <1>1, <1>4, <1>5
  <2>2. Cardinality(L) = Cardinality(K) + 1
    BY <1>3, <2>1, FS_AddElement
  <2>3. Occurrences(t, e) = Occurrences(s, e) + (IF x = e THEN 1 ELSE 0)
    BY <1>2, <1>5, <2>2
  <2> QED
    BY <2>3 DEF t
<1>6. CASE x # e
  <2>1. L = K
    BY <1>1, <1>4, <1>6
  <2>2. Occurrences(t, e) = Occurrences(s, e) + (IF x = e THEN 1 ELSE 0)
    BY <1>2, <1>3, <1>6, <2>1
  <2> QED
    BY <2>2 DEF t
<1> QED
  BY <1>5, <1>6

\* Removing the head takes one occurrence of it away.
LEMMA OccurrencesTail ==
    ASSUME NEW U, NEW s \in Seq(U), s # <<>>, NEW e
    PROVE  Occurrences(s, e)
             = Occurrences(Tail(s), e) + (IF Head(s) = e THEN 1 ELSE 0)
<1> DEFINE t == Tail(s)
           K == {i \in 1..Len(s) : s[i] = e}
           L == {i \in 1..Len(t) : t[i] = e}
           M == K \ {1}
           f == [i \in L |-> i + 1]
<1>1. /\ t \in Seq(U) /\ Len(s) \in Nat \ {0} /\ Len(t) = Len(s) - 1
      /\ Head(s) = s[1]
      /\ \A i \in 1..Len(t) : i + 1 \in 1..Len(s) /\ i + 1 # 1 /\ t[i] = s[i + 1]
  OBVIOUS
<1>2. Occurrences(s, e) = Cardinality(K) /\ Occurrences(t, e) = Cardinality(L)
  BY DEF Occurrences
<1>3. /\ IsFiniteSet(K) /\ Cardinality(K) \in Nat
      /\ IsFiniteSet(L) /\ Cardinality(L) \in Nat
  <2>1. IsFiniteSet(K) /\ Cardinality(K) \in Nat
    BY <1>2, OccurrencesType
  <2>2. t \in Seq(U)
    BY <1>1
  <2> HIDE DEF t
  <2>3. IsFiniteSet(L) /\ Cardinality(L) \in Nat
    BY <1>2, <2>2, OccurrencesType
  <2> QED
    BY <2>1, <2>3
<1>4. /\ \A i : i \in K <=> i \in 1..Len(s) /\ s[i] = e
      /\ \A i : i \in L <=> i \in 1..Len(t) /\ t[i] = e
  OBVIOUS
<1>5. \A i \in L : i \in Nat
  OBVIOUS
<1>6. \A i \in 1..Len(s) : i # 1 => i - 1 \in 1..Len(t) /\ (i - 1) + 1 = i
  BY <1>1
<1> HIDE DEF t, K, L
<1>7. \A i \in L : i + 1 \in M
  BY <1>1, <1>4
<1>8. \A j \in M : \E i \in L : i + 1 = j
  <2> SUFFICES ASSUME NEW j \in M PROVE \E i \in L : i + 1 = j
    OBVIOUS
  <2>1. j \in 1..Len(s) /\ s[j] = e /\ j # 1
    BY <1>4
  <2>2. j - 1 \in 1..Len(t) /\ (j - 1) + 1 = j
    BY <1>6, <2>1
  <2>3. t[j - 1] = s[j]
    BY <1>1, <2>2
  <2>4. j - 1 \in L
    BY <1>4, <2>1, <2>2, <2>3
  <2> QED
    BY <2>2, <2>4
<1>9. \A i, j \in L : i + 1 = j + 1 => i = j
  BY <1>5
<1>10. f \in Bijection(L, M)
  <2>1. f \in [L -> M] /\ \A i \in L : f[i] = i + 1
    BY <1>7
  <2> HIDE DEF f, M
  <2>2. f \in Injection(L, M)
    BY <1>9, <2>1 DEF Injection, IsInjective
  <2>3. f \in Surjection(L, M)
    BY <1>8, <2>1 DEF Surjection
  <2> QED
    BY <2>2, <2>3 DEF Bijection
<1>11. Cardinality(M) = Cardinality(L)
  BY <1>3, <1>10, FS_Bijection DEF ExistsBijection
<1>12. 1 \in K <=> Head(s) = e
  BY <1>1, <1>4
<1>13. Cardinality(M) = IF 1 \in K THEN Cardinality(K) - 1 ELSE Cardinality(K)
  BY <1>3, FS_RemoveElement
<1> HIDE DEF M
<1>14. Occurrences(s, e) = Occurrences(t, e) + (IF Head(s) = e THEN 1 ELSE 0)
  BY <1>2, <1>3, <1>11, <1>12, <1>13
<1> QED
  BY <1>14 DEF t

\* The positions of a thread that has claimed the terminal and not yet queued it.
TermPC == {"termCheck", "termSend", "termSpill"}

\* The terminal_sent gate of r: who holds the claim, and who may still ask.
Gate(r) ==
    /\ worker[r] \in TermPC => claimed[r] \in {"worker", "panic"}
    /\ deadline[r] \in TermPC => claimed[r] = "deadline"
    /\ worker[r] = "tail" => claimed[r] = "worker"
    /\ worker[r] \in {"idle", "queued"} => deadline[r] = "off"
    /\ worker[r] \in WorkerPC \ (TermPC \cup {"tail", "done"})
         => claimed[r] \in {"none", "deadline"}

\* Terminals of r that a thread holds and has not yet queued.
InHand(r) == (IF worker[r] \in TermPC THEN 1 ELSE 0)
               + (IF deadline[r] \in TermPC THEN 1 ELSE 0)

\* Terminals that the claims made on r allow.
Allowed(r) ==
    IF claimed[r] = "none" THEN 0 ELSE IF claimed[r] = "panic" THEN 2 ELSE 1

\* A request that was never submitted has no thread.
Fresh == \A r \in Requests : r \notin submitted => worker[r] = "idle"

\* The strengthening of AtMostOneTerminal.
Gated ==
    /\ Fresh
    /\ \A r \in Requests : Gate(r) /\ Terminals(r) + InHand(r) <= Allowed(r)

\* A step that moves only the threads of r keeps every gate that it keeps r's.
LEMMA GateMoves ==
    ASSUME NEW r \in Requests, \A q \in Requests : Gate(q),
           \A q \in Requests \ {r} : /\ worker'[q] = worker[q]
                                     /\ deadline'[q] = deadline[q]
                                     /\ claimed'[q] = claimed[q],
           Gate(r)'
    PROVE  \A q \in Requests : Gate(q)'
  BY DEF Gate

\* Only a submission gives a request its thread.
LEMMA FreshNext == ASSUME TypeInv, Fresh, [Next]_vars PROVE Fresh'
<1>1. worker \in [Requests -> WorkerPC]
  BY DEF TypeInv, TypeOK
<1>2. CASE UNCHANGED <<submitted, worker>>
  BY <1>2 DEF Fresh
<1>3. ASSUME NEW r \in Requests, Submit(r) PROVE Fresh'
  BY <1>1, <1>3 DEF Submit, Fresh
<1>4. ASSUME NEW r \in Requests, NEW pc, worker[r] # "idle",
             worker' = [worker EXCEPT ![r] = pc], submitted' = submitted
      PROVE  Fresh'
  BY <1>1, <1>4 DEF Fresh
<1>5. ASSUME NEW r \in Requests, Work(r) PROVE Fresh'
  <2>1. submitted' = submitted /\ worker[r] # "idle"
    BY <1>5 DEF Work, Start, BatchCheck, BatchSend, BatchSpill, JobEnds,
                ColumnFails, TailEnds, TailPanics
  <2>2. \E pc : worker' = [worker EXCEPT ![r] = pc]
    <3>1. RetainBatch(r) => \E pc : worker' = [worker EXCEPT ![r] = pc]
      BY DEF RetainBatch
    <3> QED
      BY <1>5, <3>1 DEF Work, Start, BatchCheck, BatchSend, BatchSpill, JobEnds,
                  ColumnFails, TailEnds, TailPanics
  <2> QED
    BY <1>4, <2>1, <2>2
<1>6. ASSUME NEW r \in Requests, NEW who \in {"worker", "deadline"}, Publish(r, who)
      PROVE  Fresh'
  <2>1. submitted' = submitted
    BY <1>6 DEF Publish, Claim, TermCheck, TermSend, TermSpill
  <2>2. \E pc : Goto(r, who, pc)
    BY <1>6 DEF Publish, Claim, TermCheck, TermSend, TermSpill
  <2>3. who = "worker" => worker[r] # "idle"
    BY <1>6 DEF Publish, Claim, TermCheck, TermSend, TermSpill, At
  <2> QED
    BY <1>2, <1>4, <2>1, <2>2, <2>3 DEF Goto
<1>7. CASE Receive
  BY <1>2, <1>7 DEF Receive, RecvRetainedFirst, RecvPrimary, RecvRetained,
                    RecvFallback, Unreceived
<1>8. ASSUME NEW r \in Requests, Deadline(r) PROVE Fresh'
  BY <1>2, <1>8 DEF Deadline, DeadlineElapses, DeadlineStandsDown
<1> QED
  BY <1>2, <1>3, <1>5, <1>6, <1>7, <1>8 DEF Next, vars

\* No step opens a gate to a second thread.
LEMMA GateNext ==
    ASSUME TypeInv, Fresh, \A q \in Requests : Gate(q), [Next]_vars
    PROVE  \A q \in Requests : Gate(q)'
<1> DEFINE Others(r) == \A q \in Requests \ {r} : /\ worker'[q] = worker[q]
                                                  /\ deadline'[q] = deadline[q]
                                                  /\ claimed'[q] = claimed[q]
<1>1. /\ worker \in [Requests -> WorkerPC]
      /\ deadline \in [Requests -> DeadlinePC]
      /\ claimed \in [Requests -> {"none", "worker", "deadline", "panic"}]
  BY DEF TypeInv, TypeOK
<1>2. CASE UNCHANGED <<worker, deadline, claimed>>
  BY <1>2 DEF Gate
<1>3. ASSUME NEW r \in Requests, Submit(r) \/ Work(r) \/ Deadline(r)
      PROVE  \A q \in Requests : Gate(q)'
  <2>2. CASE Submit(r)
    BY <1>1, <2>2 DEF Submit, Fresh, Gate, TermPC, WorkerPC
  <2>3. CASE Start(r)
    BY <1>1, <2>3 DEF Start, Gate, TermPC, WorkerPC
  <2>4. CASE BatchCheck(r)
    BY <1>1, <2>4 DEF BatchCheck, RetainBatch, AfterRefusedBatch, Gate, TermPC, WorkerPC
  <2>5. CASE BatchSend(r)
    BY <1>1, <2>5 DEF BatchSend, Gate, TermPC, WorkerPC
  <2>6. CASE BatchSpill(r)
    BY <1>1, <2>6 DEF BatchSpill, RetainBatch, AfterRefusedBatch, Gate, TermPC, WorkerPC
  <2>7. CASE JobEnds(r)
    BY <1>1, <2>7 DEF JobEnds, Gate, TermPC, WorkerPC
  <2>8. CASE ColumnFails(r)
    <3>1. /\ worker'[r] = "done" /\ claimed'[r] = "worker" /\ deadline'[r] = deadline[r]
          /\ Others(r)
      BY <1>1, <2>8 DEF ColumnFails
    <3>2. deadline[r] \notin TermPC
      BY <2>8 DEF ColumnFails, Gate
    <3> QED
      BY <3>1, <3>2, GateMoves DEF Gate, TermPC
  <2>9. CASE TailEnds(r)
    BY <1>1, <2>9 DEF TailEnds, Gate, TermPC, WorkerPC
  <2>10. CASE TailPanics(r)
    <3>1. /\ worker'[r] = "termCheck" /\ claimed'[r] = "panic" /\ deadline'[r] = deadline[r]
          /\ Others(r)
      BY <1>1, <2>10 DEF TailPanics
    <3>2. deadline[r] \notin TermPC
      BY <2>10 DEF TailPanics, Gate
    <3> QED
      BY <3>1, <3>2, GateMoves DEF Gate, TermPC
  <2>11. CASE Deadline(r)
    BY <1>1, <2>11 DEF Deadline, DeadlineElapses, DeadlineStandsDown, Gate, TermPC, WorkerPC
  <2> QED
    BY <1>3, <2>2, <2>3, <2>4, <2>5, <2>6, <2>7, <2>8, <2>9, <2>10, <2>11 DEF Work
<1>4. ASSUME NEW r \in Requests, NEW who \in {"worker", "deadline"}, Publish(r, who)
      PROVE  \A q \in Requests : Gate(q)'
  <2>1. PICK pc \in {"termCheck", "termSend", "termSpill", "tail", "done"} : Goto(r, who, pc)
    BY <1>4 DEF Publish, Claim, TermCheck, TermSend, TermSpill, AfterTerminal
  <2>2. CASE Claim(r, who) /\ claimed[r] = "none"
    <3>1. claimed' = [claimed EXCEPT ![r] = who] /\ Goto(r, who, "termCheck")
      BY <2>2 DEF Claim
    <3>2. Others(r) /\ claimed'[r] = who
      BY <1>1, <3>1 DEF Goto
    <3>3. Gate(r)
      OBVIOUS
    <3>4. CASE who = "worker"
      <4>1. worker'[r] = "termCheck" /\ deadline'[r] = deadline[r]
        BY <1>1, <3>1, <3>4 DEF Goto
      <4>2. Gate(r)'
        BY <2>2, <3>2, <3>3, <3>4, <4>1 DEF Gate, TermPC, WorkerPC
      <4> QED
        BY <3>2, <4>2, GateMoves
    <3>5. CASE who = "deadline"
      <4>1. /\ worker'[r] = worker[r] /\ deadline'[r] = "termCheck"
            /\ deadline[r] = "claim"
        BY <1>1, <2>2, <3>1, <3>5 DEF Goto, At, Claim
      <4>2. Gate(r)'
        BY <2>2, <3>2, <3>3, <3>5, <4>1 DEF Gate, TermPC, WorkerPC
      <4> QED
        BY <3>2, <4>2, GateMoves
    <3> QED
      BY <3>4, <3>5
  <2>3. CASE Claim(r, who) /\ claimed[r] # "none"
    <3>1. claimed' = claimed /\ Goto(r, who, "done") /\ At(r, who, "claim")
      BY <2>3 DEF Claim
    <3> QED
      BY <1>1, <3>1 DEF Goto, At, Gate, TermPC, WorkerPC
  <2>4. CASE ~Claim(r, who)
    <3>1. /\ claimed' = claimed
          /\ \E p \in TermPC : At(r, who, p)
          /\ \E p \in {"termSend", "termSpill", AfterTerminal(r)} : Goto(r, who, p)
      BY <1>4, <2>4 DEF Publish, TermCheck, TermSend, TermSpill, TermPC
    <3>2. PICK p \in {"termSend", "termSpill", AfterTerminal(r)} : Goto(r, who, p)
      BY <3>1
    <3>3. p = "tail" => claimed[r] = "worker" /\ who = "worker"
      BY <3>1 DEF AfterTerminal, At, Gate
    <3>4. p \in {"termSend", "termSpill", "tail", "done"}
      BY DEF AfterTerminal
    <3> QED
      BY <1>1, <3>1, <3>2, <3>3, <3>4 DEF Goto, At, Gate, TermPC, WorkerPC
  <2> QED
    BY <2>2, <2>3, <2>4
<1>5. CASE Receive
  BY <1>2, <1>5 DEF Receive, RecvRetainedFirst, RecvPrimary, RecvRetained,
                    RecvFallback, Unreceived
<1> QED
  BY <1>2, <1>3, <1>4, <1>5 DEF Next, vars

\* A terminal is an event with number 0 of its request.
LEMMA TerminalEvents ==
    /\ \A r, q, n : Event(r, n) = Event(q, 0) <=> r = q /\ n = 0
    /\ \A e \in Events : \A q : e = Event(q, 0) <=> e.req = q /\ e.n = 0
  BY DEF Event, Events

\* A queue gains a terminal of q exactly when one is appended to it.
LEMMA QueueGains ==
    ASSUME NEW s \in Seq(Events), NEW r \in Requests, NEW n \in 0..MaxBatches, NEW q
    PROVE  Occurrences(Append(s, Event(r, n)), Event(q, 0))
             = Occurrences(s, Event(q, 0)) + (IF q = r /\ n = 0 THEN 1 ELSE 0)
<1>1. Event(r, n) \in Events
  BY EventTypes
<1>2. Occurrences(Append(s, Event(r, n)), Event(q, 0))
        = Occurrences(s, Event(q, 0)) + (IF Event(r, n) = Event(q, 0) THEN 1 ELSE 0)
  BY <1>1, OccurrencesAppend
<1>3. Event(r, n) = Event(q, 0) <=> q = r /\ n = 0
  BY TerminalEvents
<1> QED
  BY <1>2, <1>3

\* It loses one exactly when one is received from it.
LEMMA QueueLoses ==
    ASSUME NEW s \in Seq(Events), s # <<>>, NEW q
    PROVE  /\ Head(s) \in Events
           /\ Occurrences(s, Event(q, 0))
                = Occurrences(Tail(s), Event(q, 0))
                    + (IF q = Head(s).req /\ Head(s).n = 0 THEN 1 ELSE 0)
<1>1. Head(s) \in Events
  OBVIOUS
<1>2. Occurrences(s, Event(q, 0))
        = Occurrences(Tail(s), Event(q, 0)) + (IF Head(s) = Event(q, 0) THEN 1 ELSE 0)
  BY OccurrencesTail
<1>3. Head(s) = Event(q, 0) <=> q = Head(s).req /\ Head(s).n = 0
  BY <1>1, TerminalEvents
<1> QED
  BY <1>1, <1>2, <1>3

\* What the UI receives.
LEMMA DeliveryGains ==
    ASSUME TypeInv, NEW e \in Events, Deliver(e), NEW q \in Requests
    PROVE  Occurrences(delivered'[q], 0)
             = Occurrences(delivered[q], 0) + (IF q = e.req /\ e.n = 0 THEN 1 ELSE 0)
<1>1. e.req \in Requests /\ e.n \in 0..MaxBatches
  BY EventTypes
<1>2. delivered[q] \in Seq(0..MaxBatches) /\ delivered \in [Requests -> Seq(0..MaxBatches)]
  BY DEF TypeInv, TypeOK
<1>3. CASE q = e.req
  <2>1. delivered'[q] = Append(delivered[q], e.n)
    <3> DEFINE x == Append(delivered[e.req], e.n)
    <3>1. delivered' = [delivered EXCEPT ![e.req] = x]
      BY DEF Deliver
    <3> HIDE DEF x
    <3>2. delivered'[e.req] = x
      BY <1>1, <1>2, <3>1
    <3> QED
      BY <1>3, <3>2 DEF x
  <2>2. Occurrences(Append(delivered[q], e.n), 0)
          = Occurrences(delivered[q], 0) + (IF e.n = 0 THEN 1 ELSE 0)
    <3> DEFINE U == 0..MaxBatches
               d == delivered[q]
    <3>1. d \in Seq(U) /\ e.n \in U
      BY <1>1, <1>2
    <3> HIDE DEF U, d
    <3>2. Occurrences(Append(d, e.n), 0) = Occurrences(d, 0) + (IF e.n = 0 THEN 1 ELSE 0)
      BY <3>1, OccurrencesAppend
    <3> QED
      BY <3>2 DEF d
  <2> QED
    BY <1>3, <2>1, <2>2
<1>4. CASE q # e.req
  <2>1. delivered'[q] = delivered[q]
    <3>1. delivered' = [delivered EXCEPT ![e.req] = Append(@, e.n)]
      BY DEF Deliver
    <3> QED
      BY <1>1, <1>2, <1>4, <3>1
  <2>2. Occurrences(delivered[q], 0) \in Nat
    BY <1>2, OccurrencesType
  <2> QED
    BY <1>4, <2>1, <2>2
<1> QED
  BY <1>3, <1>4

\* The terminals of q are counted where they are.
LEMMA TerminalsType ==
    ASSUME TypeInv, NEW q \in Requests
    PROVE  /\ Occurrences(primary, Event(q, 0)) \in Nat
           /\ Occurrences(retained, Event(q, 0)) \in Nat
           /\ Occurrences(delivered[q], 0) \in Nat
           /\ Terminals(q) \in Nat
           /\ InHand(q) \in 0..2
<1>1. /\ primary \in Seq(Events) /\ retained \in Seq(Events)
      /\ delivered[q] \in Seq(0..MaxBatches)
  BY DEF TypeInv, TypeOK
<1>2. /\ Occurrences(primary, Event(q, 0)) \in Nat
      /\ Occurrences(retained, Event(q, 0)) \in Nat
      /\ Occurrences(delivered[q], 0) \in Nat
  BY <1>1, OccurrencesType
<1>3. InHand(q) \in 0..2
  BY DEF InHand
<1> QED
  BY <1>2, <1>3 DEF Terminals

\* A thread takes a terminal in hand or lets go of it.
LEMMA HandMoves ==
    ASSUME TypeInv, NEW r \in Requests, NEW who \in {"worker", "deadline"}, NEW p, NEW pc,
           At(r, who, p), Goto(r, who, pc), NEW q \in Requests
    PROVE  InHand(q)' + (IF q = r /\ p \in TermPC THEN 1 ELSE 0)
             = InHand(q) + (IF q = r /\ pc \in TermPC THEN 1 ELSE 0)
<1>1. /\ worker \in [Requests -> WorkerPC]
      /\ deadline \in [Requests -> DeadlinePC]
  BY DEF TypeInv, TypeOK
<1>2. CASE q # r
  BY <1>1, <1>2 DEF Goto, InHand
<1>3. CASE q = r
  BY <1>1, <1>3 DEF Goto, At, InHand
<1> QED
  BY <1>2, <1>3

\* A step that moves no thread into or out of these positions.
LEMMA HandStays ==
    ASSUME NEW q \in Requests,
           worker'[q] \in TermPC <=> worker[q] \in TermPC,
           deadline'[q] \in TermPC <=> deadline[q] \in TermPC
    PROVE  InHand(q)' = InHand(q)
  BY DEF InHand

\* retain_terminal adds the terminal in hand to one of the lane's places, or
\* finds it there already, or drops it.
LEMMA RetainCounts ==
    ASSUME TypeInv, NEW r \in Requests, RetainTerminal(r), UNCHANGED <<primary, delivered>>,
           NEW q \in Requests
    PROVE  /\ q # r => Terminals(q)' = Terminals(q)
           /\ \/ Terminals(r)' = Terminals(r) + 1
              \/ Terminals(r)' = Terminals(r) /\ (Terminals(r) # 0 \/ r \in dropped')
<1> DEFINE R(x) == Occurrences(retained, Event(x, 0))
           T(x) == Occurrences(primary, Event(x, 0)) + Occurrences(delivered[x], 0)
<1>1. \A x \in Requests : R(x) \in Nat /\ T(x) \in Nat
  BY TerminalsType
<1>2. \A x \in Requests : Terminals(x) = T(x) + R(x) + (IF x \in fallback THEN 1 ELSE 0)
  BY TerminalsType DEF Terminals
<1>3. \A x \in Requests : Terminals(x)'
         = T(x) + Occurrences(retained', Event(x, 0)) + (IF x \in fallback' THEN 1 ELSE 0)
  <2> SUFFICES ASSUME NEW x \in Requests
               PROVE  Terminals(x)' = T(x) + Occurrences(retained', Event(x, 0))
                                        + (IF x \in fallback' THEN 1 ELSE 0)
    OBVIOUS
  <2>1. retained' \in Seq(Events)
    <3>1. retained \in Seq(Events) /\ Event(r, 0) \in Events
      BY EventTypes, LaneAssumption DEF TypeInv, TypeOK
    <3>2. retained' = retained \/ retained' = Append(retained, Event(r, 0))
      BY DEF RetainTerminal
    <3> QED
      BY <3>1, <3>2
  <2>2. Occurrences(retained', Event(x, 0)) \in Nat
    BY <2>1, OccurrencesType
  <2> QED
    BY <2>2, TerminalsType DEF Terminals
<1> HIDE DEF T
<1>4. CASE \E i \in 1..Len(retained) : retained[i] = Event(r, 0)
  <2>1. retained' = retained /\ fallback' = fallback
    BY <1>4 DEF RetainTerminal
  <2>2. R(r) # 0
    <3>1. retained \in Seq(Events)
      BY DEF TypeInv, TypeOK
    <3> QED
      BY <1>4, <3>1, OccurrencesType
  <2>3. \A x \in Requests : Terminals(x)' = Terminals(x)
    BY <1>2, <1>3, <2>1
  <2>4. Terminals(r) # 0
    BY <1>1, <1>2, <2>2
  <2> QED
    BY <2>3, <2>4
<1>5. CASE /\ \A i \in 1..Len(retained) : retained[i] # Event(r, 0)
           /\ Len(retained) < RetainedCap
  <2>1. retained' = Append(retained, Event(r, 0)) /\ fallback' = fallback
    BY <1>5 DEF RetainTerminal
  <2>2. \A x \in Requests :
           Occurrences(retained', Event(x, 0)) = R(x) + (IF x = r THEN 1 ELSE 0)
    <3>1. retained \in Seq(Events) /\ 0 \in 0..MaxBatches
      BY LaneAssumption DEF TypeInv, TypeOK
    <3> QED
      BY <2>1, <3>1, QueueGains
  <2> HIDE DEF R
  <2>3. Terminals(r)' = Terminals(r) + 1
    BY <1>1, <1>2, <1>3, <2>1, <2>2
  <2>4. q # r => Terminals(q)' = Terminals(q)
    BY <1>1, <1>2, <1>3, <2>1, <2>2
  <2> QED
    BY <2>3, <2>4
<1>6. CASE /\ \A i \in 1..Len(retained) : retained[i] # Event(r, 0)
           /\ ~(Len(retained) < RetainedCap)
  <2>1. retained' = retained
    BY <1>6 DEF RetainTerminal
  <2>2. CASE Kind[r] = "column"
    <3>1. fallback' = fallback \cup {r}
      BY <1>6, <2>2 DEF RetainTerminal
    <3> HIDE DEF R
    <3>2. q # r => Terminals(q)' = Terminals(q)
      BY <1>2, <1>3, <2>1, <3>1 DEF R
    <3>3. CASE r \in fallback
      <4>1. Terminals(r)' = Terminals(r)
        BY <1>2, <1>3, <2>1, <3>1, <3>3 DEF R
      <4>2. Terminals(r) # 0
        BY <1>1, <1>2, <3>3
      <4> QED
        BY <3>2, <4>1, <4>2
    <3>4. CASE r \notin fallback
      <4>1. Terminals(r)' = T(r) + R(r) + 1 /\ Terminals(r) = T(r) + R(r) + 0
        BY <1>2, <1>3, <2>1, <3>1, <3>4 DEF R
      <4> QED
        BY <1>1, <3>2, <4>1
    <3> QED
      BY <3>3, <3>4
  <2>3. CASE Kind[r] # "column"
    <3>1. fallback' = fallback /\ r \in dropped'
      BY <1>6, <2>3 DEF RetainTerminal
    <3>2. \A x \in Requests : Terminals(x)' = Terminals(x)
      BY <1>2, <1>3, <2>1, <3>1
    <3> QED
      BY <3>1, <3>2
  <2> QED
    BY <2>2, <2>3
<1> QED
  BY <1>4, <1>5, <1>6

\* What a step does to the terminals of q, queued or in hand, and to its claim.
Total(q) == Terminals(q) + InHand(q)

Keeps(q) == Total(q)' = Total(q) /\ claimed'[q] = claimed[q]

Claims(q) ==
    /\ claimed[q] = "none" /\ claimed'[q] \in {"worker", "deadline"}
    /\ Total(q)' = Total(q) + 1

Fails(q) ==
    /\ claimed[q] = "none" /\ claimed'[q] = "worker" /\ Kind[q] = "column"
    /\ Total(q)' <= Total(q) + 1

Panics(q) ==
    /\ claimed[q] = "worker" /\ claimed'[q] = "panic"
    /\ Total(q)' = Total(q) + 1

Loses(q) ==
    /\ claimed'[q] = claimed[q]
    /\ Total(q)' <= Total(q)
    /\ InHand(q) # 0
    /\ Terminals(q) # 0 \/ q \in dropped'

Effect(q) == Keeps(q) \/ Claims(q) \/ Fails(q) \/ Panics(q) \/ Loses(q)

\* Steps that touch no queue.
LEMMA TerminalsStay ==
    ASSUME UNCHANGED <<primary, retained, delivered, fallback>>, NEW q \in Requests
    PROVE  Terminals(q)' = Terminals(q)
  BY DEF Terminals

\* A batch is not a terminal.
LEMMA BatchCounts ==
    ASSUME TypeInv, NEW r \in Requests, NEW n \in 1..MaxBatches,
           \/ primary' = Append(primary, Event(r, n)) /\ retained' = retained
           \/ retained' = Append(retained, Event(r, n)) /\ primary' = primary,
           UNCHANGED <<delivered, fallback>>, NEW q \in Requests
    PROVE  Terminals(q)' = Terminals(q)
<1>1. primary \in Seq(Events) /\ retained \in Seq(Events) /\ n \in 0..MaxBatches /\ n # 0
  BY DEF TypeInv, TypeOK
<1>2. \A s \in Seq(Events) : Occurrences(Append(s, Event(r, n)), Event(q, 0))
        = Occurrences(s, Event(q, 0)) + 0
  BY <1>1, QueueGains
<1>3. /\ Occurrences(primary', Event(q, 0)) = Occurrences(primary, Event(q, 0))
      /\ Occurrences(retained', Event(q, 0)) = Occurrences(retained, Event(q, 0))
  <2>1. /\ Occurrences(primary, Event(q, 0)) \in Nat
        /\ Occurrences(retained, Event(q, 0)) \in Nat
    BY TerminalsType
  <2>2. /\ Occurrences(Append(primary, Event(r, n)), Event(q, 0))
             = Occurrences(primary, Event(q, 0))
        /\ Occurrences(Append(retained, Event(r, n)), Event(q, 0))
             = Occurrences(retained, Event(q, 0))
    BY <1>1, <1>2, <2>1
  <2> QED
    BY <2>2, Zenon
<1> QED
  BY <1>3 DEF Terminals

\* Receiving moves a terminal from the lane to what the UI has received.
LEMMA ReceiveCounts ==
    ASSUME TypeInv, Receive, NEW q \in Requests
    PROVE  Terminals(q)' = Terminals(q)
<1>1. primary \in Seq(Events) /\ retained \in Seq(Events)
  BY DEF TypeInv, TypeOK
<1>2. \/ UNCHANGED <<primary, retained, delivered, fallback>>
      \/ /\ primary # <<>> /\ Deliver(Head(primary)) /\ primary' = Tail(primary)
         /\ UNCHANGED <<retained, fallback>>
      \/ /\ retained # <<>> /\ Deliver(Head(retained)) /\ retained' = Tail(retained)
         /\ UNCHANGED <<primary, fallback>>
      \/ \E r \in Requests : RecvFallback(r)
  BY DEF Receive, RecvRetainedFirst, RecvPrimary, RecvRetained
<1>3. CASE UNCHANGED <<primary, retained, delivered, fallback>>
  BY <1>3, TerminalsStay
<1>4. CASE /\ primary # <<>> /\ Deliver(Head(primary)) /\ primary' = Tail(primary)
           /\ UNCHANGED <<retained, fallback>>
  <2>1. /\ Head(primary) \in Events
        /\ Occurrences(primary, Event(q, 0)) = Occurrences(primary', Event(q, 0))
             + (IF q = Head(primary).req /\ Head(primary).n = 0 THEN 1 ELSE 0)
    BY <1>1, <1>4, QueueLoses
  <2>2. Occurrences(delivered'[q], 0) = Occurrences(delivered[q], 0)
          + (IF q = Head(primary).req /\ Head(primary).n = 0 THEN 1 ELSE 0)
    BY <1>4, <2>1, DeliveryGains
  <2>4. primary' \in Seq(Events)
    BY <1>1, <1>4
  <2>3. Occurrences(primary', Event(q, 0)) \in Nat
    BY <2>4, OccurrencesType
  <2> QED
    BY <1>4, <2>1, <2>2, <2>3, TerminalsType DEF Terminals
<1>5. CASE /\ retained # <<>> /\ Deliver(Head(retained)) /\ retained' = Tail(retained)
           /\ UNCHANGED <<primary, fallback>>
  <2>1. /\ Head(retained) \in Events
        /\ Occurrences(retained, Event(q, 0)) = Occurrences(retained', Event(q, 0))
             + (IF q = Head(retained).req /\ Head(retained).n = 0 THEN 1 ELSE 0)
    BY <1>1, <1>5, QueueLoses
  <2>2. Occurrences(delivered'[q], 0) = Occurrences(delivered[q], 0)
          + (IF q = Head(retained).req /\ Head(retained).n = 0 THEN 1 ELSE 0)
    BY <1>5, <2>1, DeliveryGains
  <2>4. retained' \in Seq(Events)
    BY <1>1, <1>5
  <2>3. Occurrences(retained', Event(q, 0)) \in Nat
    BY <2>4, OccurrencesType
  <2> QED
    BY <1>5, <2>1, <2>2, <2>3, TerminalsType DEF Terminals
<1>6. ASSUME NEW r \in Requests, RecvFallback(r)
      PROVE  Terminals(q)' = Terminals(q)
  <2>1. Event(r, 0) \in Events /\ Event(r, 0).req = r /\ Event(r, 0).n = 0
    BY EventTypes, LaneAssumption DEF Event
  <2>2. Occurrences(delivered'[q], 0)
          = Occurrences(delivered[q], 0) + (IF q = r THEN 1 ELSE 0)
    BY <1>6, <2>1, DeliveryGains DEF RecvFallback
  <2>3. /\ r \in fallback /\ fallback' = fallback \ {r}
        /\ UNCHANGED <<primary, retained>>
    BY <1>6 DEF RecvFallback
  <2> QED
    BY <2>2, <2>3, TerminalsType DEF Terminals
<1> QED
  BY <1>2, <1>3, <1>4, <1>5, <1>6

\* What a worker does before it publishes a terminal.
LEMMA WorkEffect ==
    ASSUME TypeInv, \A x \in Requests : Gate(x), NEW r \in Requests, Work(r), NEW q \in Requests
    PROVE  Effect(q)
<1>1. /\ worker \in [Requests -> WorkerPC] /\ deadline \in [Requests -> DeadlinePC]
      /\ claimed \in [Requests -> {"none", "worker", "deadline", "panic"}]
  BY DEF TypeInv, TypeOK
<1>2. ASSUME UNCHANGED claimed, Terminals(q)' = Terminals(q),
             worker'[q] \in TermPC <=> worker[q] \in TermPC,
             deadline'[q] \in TermPC <=> deadline[q] \in TermPC
      PROVE  Effect(q)
  BY <1>2, HandStays DEF Effect, Keeps, Total
<1>3. sent[r] < MaxBatches => sent[r] + 1 \in 1..MaxBatches
  BY LaneAssumption DEF TypeInv, TypeOK
<1>4. CASE Start(r)
  <2>1. UNCHANGED <<primary, retained, delivered, fallback, claimed>>
    BY <1>4 DEF Start
  <2>2. /\ worker'[q] \in TermPC <=> worker[q] \in TermPC
        /\ deadline'[q] \in TermPC <=> deadline[q] \in TermPC
    <3>1. PICK pc \in {"run", "claim"} : worker' = [worker EXCEPT ![r] = pc]
      BY <1>4 DEF Start
    <3>2. PICK pd \in {"armed", deadline[r]} : deadline' = [deadline EXCEPT ![r] = pd]
      BY <1>4 DEF Start
    <3>3. worker[r] = "queued"
      BY <1>4 DEF Start
    <3> QED
      BY <1>1, <3>1, <3>2, <3>3 DEF TermPC, Gate
  <2> QED
    BY <1>2, <2>1, <2>2, TerminalsStay
<1>5. ASSUME RetainBatch(r), sent[r] < MaxBatches, worker[r] \notin TermPC,
             UNCHANGED <<primary, delivered, fallback, claimed, deadline>>
      PROVE  Effect(q)
  <2>1. worker'[q] \in TermPC <=> worker[q] \in TermPC
    BY <1>1, <1>5 DEF RetainBatch, AfterRefusedBatch, TermPC
  <2>2. CASE retained' = retained
    BY <1>2, <1>5, <2>1, <2>2, TerminalsStay
  <2>3. CASE retained' = Append(retained, Event(r, sent[r] + 1))
    <3> DEFINE n == sent[r] + 1
    <3>1. n \in 1..MaxBatches /\ retained' = Append(retained, Event(r, n))
      BY <1>3, <1>5, <2>3
    <3> HIDE DEF n
    <3>2. Terminals(q)' = Terminals(q)
      BY <1>5, <3>1, BatchCounts
    <3> QED
      BY <1>2, <1>5, <2>1, <3>2
  <2> QED
    BY <1>5, <2>2, <2>3 DEF RetainBatch
<1>6. CASE BatchCheck(r)
  <2>1. CASE retained # <<>> /\ Kind[r] # "navigation"
    BY <1>5, <1>6, <2>1 DEF BatchCheck, TermPC
  <2>2. CASE ~(retained # <<>> /\ Kind[r] # "navigation")
    <3>1. UNCHANGED <<primary, retained, delivered, fallback, claimed, deadline>>
      BY <1>6, <2>2 DEF BatchCheck
    <3>2. worker'[q] \in TermPC <=> worker[q] \in TermPC
      BY <1>1, <1>6, <2>2 DEF BatchCheck, TermPC
    <3> QED
      BY <1>2, <3>1, <3>2, TerminalsStay
  <2> QED
    BY <2>1, <2>2
<1>7. CASE BatchSend(r)
  <2>1. worker'[q] \in TermPC <=> worker[q] \in TermPC
    BY <1>1, <1>7 DEF BatchSend, TermPC
  <2>2. UNCHANGED <<retained, delivered, fallback, claimed, deadline>>
    BY <1>7 DEF BatchSend
  <2>3. CASE primary' = primary
    BY <1>2, <2>1, <2>2, <2>3, TerminalsStay
  <2>4. CASE primary' = Append(primary, Event(r, sent[r] + 1))
    <3> DEFINE n == sent[r] + 1
    <3>0. sent[r] < MaxBatches
      BY <1>7 DEF BatchSend, TypeInv
    <3>1. n \in 1..MaxBatches /\ primary' = Append(primary, Event(r, n))
      BY <1>3, <2>4, <3>0
    <3> HIDE DEF n
    <3>2. Terminals(q)' = Terminals(q)
      BY <2>2, <3>1, BatchCounts
    <3> QED
      BY <1>2, <2>1, <2>2, <3>2
  <2> QED
    BY <1>7, <2>3, <2>4 DEF BatchSend
<1>8. CASE BatchSpill(r)
  <2>1. worker[r] = "batchSpill" /\ sent[r] < MaxBatches
    BY <1>8 DEF BatchSpill, TypeInv
  <2> QED
    BY <1>5, <1>8, <2>1 DEF BatchSpill, TermPC
<1>9. CASE JobEnds(r) \/ TailEnds(r)
  <2>1. UNCHANGED <<primary, retained, delivered, fallback, claimed, deadline>>
    BY <1>9 DEF JobEnds, TailEnds
  <2>2. worker'[q] \in TermPC <=> worker[q] \in TermPC
    BY <1>1, <1>9 DEF JobEnds, TailEnds, TermPC
  <2> QED
    BY <1>2, <2>1, <2>2, TerminalsStay
<1>10. CASE ColumnFails(r)
  <2>1. /\ UNCHANGED <<primary, retained, delivered, deadline>>
        /\ fallback' = fallback \cup {r}
        /\ claimed[r] = "none" /\ Kind[r] = "column"
    BY <1>10 DEF ColumnFails
  <2>2. worker'[q] \in TermPC <=> worker[q] \in TermPC
    BY <1>1, <1>10 DEF ColumnFails, TermPC
  <2>3. InHand(q)' = InHand(q)
    BY <2>1, <2>2, HandStays
  <2>4. q # r => claimed'[q] = claimed[q] /\ Terminals(q)' = Terminals(q)
    BY <1>1, <1>10, <2>1 DEF ColumnFails, Terminals
  <2>5. claimed'[r] = "worker"
    BY <1>1, <1>10 DEF ColumnFails
  <2>6. q = r => Terminals(q)' <= Terminals(q) + 1 /\ Terminals(q)' \in Nat
    BY <2>1, TerminalsType DEF Terminals
  <2>7. CASE q = r
    BY <2>1, <2>3, <2>5, <2>6, <2>7, TerminalsType DEF Effect, Fails, Total
  <2>8. CASE q # r
    BY <2>3, <2>4, <2>8 DEF Effect, Keeps, Total
  <2> QED
    BY <2>7, <2>8
<1>11. CASE TailPanics(r)
  <2>1. /\ UNCHANGED <<primary, retained, delivered, fallback, deadline>>
        /\ claimed[r] = "worker" /\ claimed'[r] = "panic"
    BY <1>1, <1>11 DEF TailPanics, Gate
  <2>2. Terminals(q)' = Terminals(q)
    BY <2>1, TerminalsStay
  <2>3. CASE q # r
    BY <1>1, <1>2, <1>11, <2>1, <2>2, <2>3, HandStays DEF TailPanics, Effect, Keeps, Total
  <2>4. CASE q = r
    <3>1. worker[r] \notin TermPC /\ worker'[r] \in TermPC /\ deadline'[r] = deadline[r]
      BY <1>1, <1>11 DEF TailPanics, TermPC
    <3>2. InHand(r)' = InHand(r) + 1
      BY <3>1 DEF InHand
    <3> QED
      BY <2>1, <2>2, <2>4, <3>2, TerminalsType DEF Effect, Panics, Total
  <2> QED
    BY <2>3, <2>4
<1> QED
  BY <1>4, <1>6, <1>7, <1>8, <1>9, <1>10, <1>11 DEF Work

\* What a thread does when it claims a terminal and queues it.
LEMMA PublishEffect ==
    ASSUME TypeInv, NEW r \in Requests, NEW who \in {"worker", "deadline"}, Publish(r, who),
           NEW q \in Requests
    PROVE  Effect(q)
<1>1. claimed \in [Requests -> {"none", "worker", "deadline", "panic"}]
  BY DEF TypeInv, TypeOK
<1>2. AfterTerminal(r) \notin TermPC
  BY DEF AfterTerminal, TermPC
<1>3. Terminals(q) \in Nat /\ InHand(q) \in 0..2
  BY TerminalsType
<1>4. ASSUME NEW p \in TermPC, At(r, who, p), RetainTerminal(r),
             Goto(r, who, AfterTerminal(r)),
             UNCHANGED <<primary, delivered, claimed>>
      PROVE  Effect(q)
  <2>1. InHand(q)' + (IF q = r THEN 1 ELSE 0) = InHand(q)
    BY <1>2, <1>3, <1>4, HandMoves
  <2>2. InHand(q)' \in 0..2
    BY DEF InHand
  <2>3. /\ q # r => Terminals(q)' = Terminals(q)
        /\ \/ Terminals(r)' = Terminals(r) + 1
           \/ Terminals(r)' = Terminals(r) /\ (Terminals(r) # 0 \/ r \in dropped')
    BY <1>4, RetainCounts
  <2>4. CASE q # r
    BY <1>3, <1>4, <2>1, <2>2, <2>3, <2>4 DEF Effect, Keeps, Total
  <2>5. CASE q = r /\ Terminals(r)' = Terminals(r) + 1
    BY <1>3, <1>4, <2>1, <2>2, <2>5 DEF Effect, Keeps, Total
  <2>6. CASE /\ q = r /\ Terminals(r)' = Terminals(r)
             /\ Terminals(r) # 0 \/ r \in dropped'
    BY <1>3, <1>4, <2>1, <2>2, <2>6 DEF Effect, Loses, Total
  <2> QED
    BY <2>3, <2>4, <2>5, <2>6
<1>5. ASSUME NEW p, At(r, who, p), NEW pc, Goto(r, who, pc), p \in TermPC <=> pc \in TermPC,
             UNCHANGED <<primary, retained, delivered, fallback, claimed>>
      PROVE  Effect(q)
  <2>1. InHand(q)' + (IF q = r /\ p \in TermPC THEN 1 ELSE 0)
          = InHand(q) + (IF q = r /\ pc \in TermPC THEN 1 ELSE 0)
    BY <1>5, HandMoves
  <2>2. InHand(q)' \in 0..2
    BY DEF InHand
  <2>3. InHand(q)' = InHand(q)
    BY <1>3, <1>5, <2>1, <2>2
  <2>4. Terminals(q)' = Terminals(q)
    BY <1>5, TerminalsStay
  <2> QED
    BY <1>5, <2>3, <2>4 DEF Effect, Keeps, Total
<1>6. CASE Claim(r, who)
  <2>1. At(r, who, "claim") /\ UNCHANGED <<primary, retained, delivered, fallback>>
    BY <1>6 DEF Claim
  <2>2. CASE claimed[r] # "none"
    <3>1. Goto(r, who, "done") /\ UNCHANGED claimed
      BY <1>6, <2>2 DEF Claim
    <3> QED
      BY <1>5, <2>1, <3>1 DEF TermPC
  <2>3. CASE claimed[r] = "none"
    <3>1. Goto(r, who, "termCheck") /\ claimed' = [claimed EXCEPT ![r] = who]
      BY <1>6, <2>3 DEF Claim
    <3>2. InHand(q)' + (IF q = r /\ "claim" \in TermPC THEN 1 ELSE 0)
            = InHand(q) + (IF q = r /\ "termCheck" \in TermPC THEN 1 ELSE 0)
      BY <2>1, <3>1, HandMoves
    <3>3. InHand(q)' \in 0..2
      BY DEF InHand
    <3>4. "claim" \notin TermPC /\ "termCheck" \in TermPC
      BY DEF TermPC
    <3>5. InHand(q)' = InHand(q) + (IF q = r THEN 1 ELSE 0)
      BY <1>3, <3>2, <3>3, <3>4
    <3>6. Terminals(q)' = Terminals(q)
      BY <2>1, TerminalsStay
    <3>7. CASE q = r
      <4>1. claimed'[q] \in {"worker", "deadline"}
        BY <1>1, <3>1, <3>7
      <4>2. Total(q)' = Total(q) + 1
        BY <1>3, <3>5, <3>6, <3>7 DEF Total
      <4> QED
        BY <2>3, <3>7, <4>1, <4>2 DEF Effect, Claims
    <3>8. CASE q # r
      <4>1. claimed'[q] = claimed[q]
        BY <1>1, <3>1, <3>8
      <4>2. Total(q)' = Total(q)
        BY <1>3, <3>5, <3>6, <3>8 DEF Total
      <4> QED
        BY <4>1, <4>2 DEF Effect, Keeps
    <3> QED
      BY <3>7, <3>8
  <2> QED
    BY <2>2, <2>3
<1>7. CASE TermCheck(r, who)
  <2>1. At(r, who, "termCheck") /\ UNCHANGED <<primary, delivered, claimed>>
    BY <1>7 DEF TermCheck
  <2>2. CASE Ordered /\ retained # <<>>
    <3>1. RetainTerminal(r) /\ Goto(r, who, AfterTerminal(r))
      BY <1>7, <2>2 DEF TermCheck
    <3> QED
      BY <1>4, <2>1, <3>1 DEF TermPC
  <2>3. CASE ~(Ordered /\ retained # <<>>)
    <3>1. Goto(r, who, "termSend") /\ UNCHANGED <<retained, fallback>>
      BY <1>7, <2>3 DEF TermCheck
    <3> QED
      BY <1>5, <2>1, <3>1 DEF TermPC
  <2> QED
    BY <2>2, <2>3
<1>8. CASE TermSend(r, who)
  <2>1. /\ At(r, who, "termSend")
        /\ UNCHANGED <<retained, delivered, fallback, claimed>>
    BY <1>8 DEF TermSend
  <2>2. CASE Len(primary) < PrimaryCap
    <3>1. Goto(r, who, AfterTerminal(r)) /\ primary' = Append(primary, Event(r, 0))
      BY <1>8, <2>2 DEF TermSend
    <3>2. InHand(q)' + (IF q = r THEN 1 ELSE 0) = InHand(q)
      BY <1>2, <1>3, <2>1, <3>1, HandMoves DEF TermPC
    <3>3. InHand(q)' \in 0..2
      BY DEF InHand
    <3>4. Occurrences(primary', Event(q, 0))
            = Occurrences(primary, Event(q, 0)) + (IF q = r THEN 1 ELSE 0)
      <4>1. primary \in Seq(Events) /\ 0 \in 0..MaxBatches
        BY LaneAssumption DEF TypeInv, TypeOK
      <4>2. Occurrences(Append(primary, Event(r, 0)), Event(q, 0))
              = Occurrences(primary, Event(q, 0)) + (IF q = r /\ 0 = 0 THEN 1 ELSE 0)
        BY <4>1, QueueGains
      <4> QED
        BY <3>1, <4>2
    <3>5. Terminals(q)' = Terminals(q) + (IF q = r THEN 1 ELSE 0)
      BY <2>1, <3>4, TerminalsType DEF Terminals
    <3> QED
      BY <1>3, <2>1, <3>2, <3>3, <3>5 DEF Effect, Keeps, Total
  <2>3. CASE ~(Len(primary) < PrimaryCap)
    <3>1. Goto(r, who, "termSpill") /\ UNCHANGED primary
      BY <1>8, <2>3 DEF TermSend
    <3> QED
      BY <1>5, <2>1, <3>1 DEF TermPC
  <2> QED
    BY <2>2, <2>3
<1>9. CASE TermSpill(r, who)
  <2>1. /\ At(r, who, "termSpill") /\ RetainTerminal(r) /\ Goto(r, who, AfterTerminal(r))
        /\ UNCHANGED <<primary, delivered, claimed>>
    BY <1>9 DEF TermSpill
  <2> QED
    BY <1>4, <2>1 DEF TermPC
<1> QED
  BY <1>6, <1>7, <1>8, <1>9 DEF Publish

\* What any step does.
LEMMA EffectNext ==
    ASSUME TypeInv, Fresh, \A x \in Requests : Gate(x), [Next]_vars, NEW q \in Requests
    PROVE  Effect(q)
<1>1. ASSUME UNCHANGED <<worker, deadline, claimed>>, Terminals(q)' = Terminals(q)
      PROVE  Effect(q)
  BY <1>1, HandStays DEF Effect, Keeps, Total
<1>2. CASE UNCHANGED vars
  <2>1. /\ UNCHANGED <<worker, deadline, claimed>>
        /\ UNCHANGED <<primary, retained, delivered, fallback>>
    BY <1>2 DEF vars
  <2> QED
    BY <1>1, <2>1, TerminalsStay
<1>3. ASSUME NEW r \in Requests, Submit(r) \/ Deadline(r)
      PROVE  Effect(q)
  <2>1. UNCHANGED <<primary, retained, delivered, fallback, claimed>>
    BY <1>3 DEF Submit, Deadline, DeadlineElapses, DeadlineStandsDown
  <2>2. worker \in [Requests -> WorkerPC] /\ deadline \in [Requests -> DeadlinePC]
    BY DEF TypeInv, TypeOK
  <2>3. deadline'[q] \in TermPC <=> deadline[q] \in TermPC
    BY <1>3, <2>2 DEF Submit, Deadline, DeadlineElapses, DeadlineStandsDown, TermPC
  <2>4. CASE worker'[q] \in TermPC <=> worker[q] \in TermPC
    BY <2>1, <2>3, <2>4, HandStays, TerminalsStay DEF Effect, Keeps, Total
  <2>5. CASE Deadline(r)
    BY <2>4, <2>5 DEF Deadline, DeadlineElapses, DeadlineStandsDown
  <2>6. CASE Submit(r)
    <3>1. /\ worker[r] = "idle" /\ worker' = [worker EXCEPT ![r] = "queued"]
          /\ deadline' = deadline
      BY <2>6 DEF Submit, Fresh
    <3> QED
      BY <2>2, <2>4, <3>1 DEF TermPC
  <2> QED
    BY <1>3, <2>5, <2>6
<1>4. CASE Receive
  <2>1. UNCHANGED <<worker, deadline, claimed>>
    BY <1>4 DEF Receive, RecvRetainedFirst, RecvPrimary, RecvRetained,
                RecvFallback, Unreceived
  <2> QED
    BY <1>1, <1>4, <2>1, ReceiveCounts
<1> QED
  BY <1>2, <1>3, <1>4, WorkEffect, PublishEffect DEF Next

\* Every step of every lane keeps Gated.
LEMMA GatedNext == ASSUME TypeInv, Gated, [Next]_vars PROVE Gated'
<1>0. TypeInv'
  BY TypeInvNext
<1>1. Fresh' /\ \A q \in Requests : Gate(q)'
  BY FreshNext, GateNext DEF Gated
<1>2. ASSUME NEW q \in Requests PROVE Total(q)' <= Allowed(q)'
  <2>1. Effect(q)
    BY <1>2, EffectNext DEF Gated
  <2>2. Total(q) \in Nat /\ Total(q) <= Allowed(q) /\ Allowed(q) \in 0..2
    BY TerminalsType DEF Total, Gated, Allowed
  <2>3. claimed'[q] = claimed[q] => Allowed(q)' = Allowed(q)
    BY DEF Allowed
  <2>4. CASE Keeps(q)
    BY <2>2, <2>3, <2>4 DEF Keeps
  <2>5. CASE Claims(q) \/ Fails(q)
    <3>1. Allowed(q) = 0 /\ Allowed(q)' = 1
      BY <2>5 DEF Claims, Fails, Allowed
    <3>2. Total(q)' <= Total(q) + 1
      BY <2>2, <2>5 DEF Claims, Fails
    <3>3. Total(q) = 0
      BY <2>2, <3>1
    <3> QED
      BY <3>1, <3>2, <3>3
  <2>6. CASE Panics(q)
    <3>1. Allowed(q) = 1 /\ Allowed(q)' = 2
      BY <2>6 DEF Panics, Allowed
    <3> QED
      BY <2>2, <2>6, <3>1 DEF Panics
  <2>7. CASE Loses(q)
    <3>1. Total(q)' \in Nat
      <4>1. /\ primary' \in Seq(Events) /\ retained' \in Seq(Events)
            /\ delivered'[q] \in Seq(0..MaxBatches)
        BY <1>0 DEF TypeInv, TypeOK
      <4>2. /\ Occurrences(primary', Event(q, 0)) \in Nat
            /\ Occurrences(retained', Event(q, 0)) \in Nat
            /\ Occurrences(delivered'[q], 0) \in Nat
        BY <4>1, OccurrencesType
      <4>3. Terminals(q)' \in Nat
        BY <4>2 DEF Terminals
      <4>4. InHand(q)' \in Nat
        BY DEF InHand
      <4> QED
        BY <4>3, <4>4 DEF Total
    <3> QED
      BY <2>2, <2>3, <2>7, <3>1 DEF Loses
  <2> QED
    BY <2>1, <2>4, <2>5, <2>6, <2>7 DEF Effect
<1> QED
  BY <1>1, <1>2 DEF Gated, Total

\* No terminal is counted in the first state.
LEMMA GatedInit == Init => TypeInv /\ Gated
<1> SUFFICES ASSUME Init PROVE TypeInv /\ Gated
  OBVIOUS
<1>1. TypeInv
  BY LaneAssumption DEF Init, TypeInv, TypeOK, WorkerPC, DeadlinePC
<1>2. \A e : Occurrences(<<>>, e) = 0
  <2> SUFFICES ASSUME NEW e PROVE Occurrences(<<>>, e) = 0
    OBVIOUS
  <2> DEFINE s == <<>>
  <2>1. s \in Seq(Events) /\ Len(s) = 0 /\ 1..Len(s) = {}
    OBVIOUS
  <2> HIDE DEF s
  <2>2. Occurrences(s, e) = 0
    BY <2>1, OccurrencesType
  <2> QED
    BY <2>2 DEF s
<1>3. ASSUME NEW r \in Requests PROVE Terminals(r) = 0 /\ InHand(r) = 0
  BY <1>2, <1>3 DEF Init, Terminals, InHand, TermPC
<1>4. \A r \in Requests : Gate(r) /\ Allowed(r) = 0
  BY DEF Init, Gate, Allowed, TermPC, WorkerPC
<1>5. Fresh
  BY DEF Init, Fresh
<1> QED
  BY <1>1, <1>3, <1>4, <1>5 DEF Gated

\* One terminal per request: the terminal_sent gate holds across the worker, the
\* deadline thread, both queues, the typed lane and the receiver, on every lane.
THEOREM TerminalsAreUnique == Spec => []AtMostOneTerminal
<1>1. Init => TypeInv /\ Gated
  BY GatedInit
<1>2. TypeInv /\ Gated /\ [Next]_vars => (TypeInv /\ Gated)'
  BY TypeInvNext, GatedNext
<1>3. TypeInv /\ Gated => AtMostOneTerminal
  <2> SUFFICES ASSUME TypeInv, Gated, NEW r \in Requests
               PROVE  Terminals(r) <= IF claimed[r] = "panic" THEN 2 ELSE 1
    BY DEF AtMostOneTerminal
  <2>1. Terminals(r) + InHand(r) <= Allowed(r) /\ Terminals(r) \in Nat /\ InHand(r) \in Nat
    BY TerminalsType DEF Gated
  <2> QED
    BY <2>1 DEF Allowed
<1> QED
  BY <1>1, <1>2, <1>3, PTL DEF Spec

-----------------------------------------------------------------------------
(* Admission slots                                                         *)

\* The strengthening of SlotMatchesTerminal on a lane of terminals: every
\* terminal that was claimed is queued, received or in hand, and a slot is held
\* from the submission to the receipt of the terminal.
SlotInv ==
    ~Panicked =>
        \A r \in Requests :
            /\ Total(r) = Allowed(r)
            /\ claimed[r] # "deadline"
            /\ worker[r] = "done" => claimed[r] = "worker"
            /\ r \in active <=> r \in submitted /\ Occurrences(delivered[r], 0) = 0

\* A worker that is done has claimed its terminal, and no deadline ever does.
LEMMA DoneNext ==
    ASSUME TerminalsOnly, TypeInv, Gated, Slots, ~Panicked, [Next]_vars,
           \A r \in Requests : /\ claimed[r] # "deadline"
                               /\ worker[r] = "done" => claimed[r] = "worker",
           NEW q \in Requests
    PROVE  /\ claimed'[q] # "deadline"
           /\ worker'[q] = "done" => claimed'[q] \in {"worker", "panic"}
<1>1. /\ worker \in [Requests -> WorkerPC]
      /\ claimed \in [Requests -> {"none", "worker", "deadline", "panic"}]
  BY DEF TypeInv, TypeOK
<1>2. \A r \in Requests : Kind[r] \in {"plain", "navigation"} /\ deadline[r] = "off"
  BY DEF TerminalsOnly, TypeInv, Breadcrumb
<1>3. Gate(q) /\ claimed[q] # "panic"
  BY DEF Gated, Panicked
<1>4. CASE UNCHANGED <<worker, claimed>>
  BY <1>4
<1>5. ASSUME NEW r \in Requests, UNCHANGED claimed, NEW pc, pc # "done",
             worker' = [worker EXCEPT ![r] = pc]
      PROVE  /\ claimed'[q] # "deadline"
             /\ worker'[q] = "done" => claimed'[q] \in {"worker", "panic"}
  BY <1>1, <1>5
<1>6. ASSUME NEW r \in Requests, Submit(r) \/ JobEnds(r)
      PROVE  /\ claimed'[q] # "deadline"
             /\ worker'[q] = "done" => claimed'[q] \in {"worker", "panic"}
  BY <1>5, <1>6 DEF Submit, JobEnds
<1>7. ASSUME NEW r \in Requests, Start(r)
      PROVE  /\ claimed'[q] # "deadline"
             /\ worker'[q] = "done" => claimed'[q] \in {"worker", "panic"}
  <2>1. \E pc \in {"run", "claim"} : worker' = [worker EXCEPT ![r] = pc]
    BY <1>7 DEF Start
  <2>2. UNCHANGED claimed
    BY <1>7 DEF Start
  <2> QED
    BY <1>5, <2>1, <2>2
<1>8. ASSUME NEW r \in Requests, BatchCheck(r)
      PROVE  /\ claimed'[q] # "deadline"
             /\ worker'[q] = "done" => claimed'[q] \in {"worker", "panic"}
  <2>1. Kind[r] = "navigation"
    BY <1>2, <1>8 DEF BatchCheck
  <2>2. worker' = [worker EXCEPT ![r] = "batchSend"] /\ UNCHANGED claimed
    BY <1>8, <2>1 DEF BatchCheck
  <2> QED
    BY <1>5, <2>2
<1>9. ASSUME NEW r \in Requests, BatchSend(r)
      PROVE  /\ claimed'[q] # "deadline"
             /\ worker'[q] = "done" => claimed'[q] \in {"worker", "panic"}
  <2>1. \E pc \in {"run", "claim", "batchSpill"} : worker' = [worker EXCEPT ![r] = pc]
    BY <1>9 DEF BatchSend
  <2>2. UNCHANGED claimed
    BY <1>9 DEF BatchSend
  <2> QED
    BY <1>5, <2>1, <2>2
<1>10. ASSUME NEW r \in Requests, BatchSpill(r) PROVE FALSE
  BY <1>10 DEF BatchSpill, Slots
<1>11. ASSUME NEW r \in Requests, ColumnFails(r) PROVE FALSE
  BY <1>2, <1>11 DEF ColumnFails
<1>12. ASSUME NEW r \in Requests, TailEnds(r) \/ TailPanics(r)
      PROVE  /\ claimed'[q] # "deadline"
             /\ worker'[q] = "done" => claimed'[q] \in {"worker", "panic"}
  BY <1>1, <1>3, <1>12 DEF TailEnds, TailPanics, Gate
<1>13. ASSUME NEW r \in Requests, Deadline(r) PROVE FALSE
  BY <1>2, <1>13 DEF Deadline, DeadlineElapses, DeadlineStandsDown
<1>14. ASSUME NEW r \in Requests, NEW who \in {"worker", "deadline"}, Publish(r, who)
      PROVE  /\ claimed'[q] # "deadline"
             /\ worker'[q] = "done" => claimed'[q] \in {"worker", "panic"}
  <2>1. who = "worker"
    BY <1>2, <1>14 DEF Publish, Claim, TermCheck, TermSend, TermSpill, At
  <2>2. CASE Claim(r, who)
    <3>1. worker[r] = "claim"
      BY <2>1, <2>2 DEF Claim, At
    <3>2. claimed[r] = "none"
      BY <1>1, <3>1 DEF Gated, Gate, WorkerPC, TermPC
    <3>3. claimed' = [claimed EXCEPT ![r] = "worker"]
      BY <2>1, <2>2, <3>2 DEF Claim
    <3>4. worker' = [worker EXCEPT ![r] = "termCheck"]
      BY <2>1, <2>2, <3>2 DEF Claim, Goto
    <3> QED
      BY <1>1, <3>3, <3>4
  <2>3. CASE ~Claim(r, who)
    <3>1. worker[r] \in TermPC /\ UNCHANGED claimed
      BY <1>14, <2>1, <2>3 DEF Publish, TermCheck, TermSend, TermSpill, At, TermPC
    <3>2. \E pc : worker' = [worker EXCEPT ![r] = pc]
      BY <1>14, <2>1, <2>3 DEF Publish, TermCheck, TermSend, TermSpill, Goto
    <3>3. claimed[r] \in {"worker", "panic"}
      BY <3>1 DEF Gated, Gate
    <3> QED
      BY <1>1, <3>1, <3>2, <3>3
  <2> QED
    BY <2>2, <2>3
<1>15. CASE Receive
  BY <1>4, <1>15 DEF Receive, RecvRetainedFirst, RecvPrimary, RecvRetained,
                     RecvFallback, Unreceived
<1>16. CASE UNCHANGED vars
  BY <1>4, <1>16 DEF vars
<1> QED
  BY <1>6, <1>7, <1>8, <1>9, <1>10, <1>11, <1>12, <1>13, <1>14, <1>15, <1>16
     DEF Next, Work

\* An admission slot is held from the submission until the terminal is received.
LEMMA HeldNext ==
    ASSUME TypeInv, Gated, [Next]_vars,
           \A r \in Requests : claimed[r] # "deadline",
           \A r \in Requests :
              r \in active <=> r \in submitted /\ Occurrences(delivered[r], 0) = 0,
           NEW q \in Requests
    PROVE  q \in active' <=> q \in submitted' /\ Occurrences(delivered'[q], 0) = 0
<1>1. Occurrences(delivered[q], 0) \in Nat
  BY TerminalsType
<1>2. CASE UNCHANGED <<active, submitted, delivered>>
  BY <1>2
<1>3. ASSUME NEW r \in Requests, Submit(r)
      PROVE  q \in active' <=> q \in submitted' /\ Occurrences(delivered'[q], 0) = 0
  <2>1. /\ active' = active \cup {r} /\ submitted' = submitted \cup {r}
        /\ delivered' = delivered /\ r \notin submitted
    BY <1>3 DEF Submit
  <2>2. worker[r] = "idle" /\ claimed[r] = "none"
    BY <2>1 DEF Gated, Fresh, Gate, WorkerPC, TermPC
  <2>3. Terminals(r) + InHand(r) <= 0
    BY <2>2 DEF Gated, Allowed
  <2>4. Occurrences(delivered[r], 0) = 0
    BY <2>3, TerminalsType DEF Terminals
  <2> QED
    BY <2>1, <2>4
<1>4. ASSUME NEW e \in Events, Deliver(e), UNCHANGED submitted
      PROVE  q \in active' <=> q \in submitted' /\ Occurrences(delivered'[q], 0) = 0
  <2>1. Occurrences(delivered'[q], 0)
          = Occurrences(delivered[q], 0) + (IF q = e.req /\ e.n = 0 THEN 1 ELSE 0)
    BY <1>4, DeliveryGains
  <2>2. active' = IF e.n = 0 THEN active \ {e.req} ELSE active
    BY <1>4 DEF Deliver
  <2>3. CASE q = e.req /\ e.n = 0
    BY <1>1, <2>1, <2>2, <2>3
  <2>4. CASE ~(q = e.req /\ e.n = 0)
    <3>1. Occurrences(delivered'[q], 0) = Occurrences(delivered[q], 0)
      BY <1>1, <2>1, <2>4
    <3>2. q \in active' <=> q \in active
      BY <2>2, <2>4
    <3> QED
      BY <1>4, <3>1, <3>2
  <2> QED
    BY <2>3, <2>4
<1>5. CASE Receive
  <2>1. primary \in Seq(Events) /\ retained \in Seq(Events)
    BY DEF TypeInv, TypeOK
  <2>2. \A s \in Seq(Events) : s # <<>> => Head(s) \in Events
    OBVIOUS
  <2>3. \A r \in Requests : Event(r, 0) \in Events
    BY EventTypes, LaneAssumption
  <2>4. UNCHANGED submitted
    BY <1>5 DEF Receive, RecvRetainedFirst, RecvPrimary, RecvRetained,
                RecvFallback, Unreceived
  <2>5. \/ UNCHANGED <<active, delivered>>
        \/ primary # <<>> /\ Deliver(Head(primary))
        \/ retained # <<>> /\ Deliver(Head(retained))
        \/ \E r \in Requests : Deliver(Event(r, 0))
    BY <1>5 DEF Receive, RecvRetainedFirst, RecvPrimary, RecvRetained, RecvFallback
  <2> QED
    BY <1>2, <1>4, <2>1, <2>2, <2>3, <2>4, <2>5
<1>6. \/ UNCHANGED <<active, submitted, delivered>>
      \/ \E r \in Requests : Submit(r)
      \/ Receive
  BY DEF Next, vars, Work, Start, BatchCheck, BatchSend, BatchSpill, JobEnds,
         ColumnFails, TailEnds, TailPanics, Deadline, DeadlineElapses,
         DeadlineStandsDown, Publish, Claim, TermCheck, TermSend, TermSpill
<1> QED
  BY <1>2, <1>3, <1>5, <1>6

\* Every step of a lane of terminals keeps SlotInv.
LEMMA SlotInvNext ==
    ASSUME TerminalsOnly, TypeInv, Gated, DropInv, SlotInv, [Next]_vars
    PROVE  SlotInv'
<1> SUFFICES ASSUME ~Panicked', NEW q \in Requests
             PROVE  /\ Total(q)' = Allowed(q)'
                    /\ claimed'[q] # "deadline"
                    /\ worker'[q] = "done" => claimed'[q] = "worker"
                    /\ q \in active' <=> q \in submitted' /\ Occurrences(delivered'[q], 0) = 0
  BY DEF SlotInv
<1>1. ~Panicked
  BY PanicStays
<1>2. Slots /\ dropped' = {} /\ claimed'[q] # "panic"
  BY <1>1, DropInvNext DEF DropInv, Panicked
<1>3. \A r \in Requests : /\ Total(r) = Allowed(r)
                          /\ claimed[r] # "deadline"
                          /\ worker[r] = "done" => claimed[r] = "worker"
  BY <1>1 DEF SlotInv
<1>4. claimed'[q] # "deadline" /\ (worker'[q] = "done" => claimed'[q] = "worker")
  BY <1>1, <1>2, <1>3, DoneNext
<1>5. q \in active' <=> q \in submitted' /\ Occurrences(delivered'[q], 0) = 0
  BY <1>1, HeldNext DEF SlotInv
<1>6. Total(q)' = Allowed(q)'
  <2>1. Effect(q)
    BY EffectNext DEF Gated
  <2>2. Kind[q] # "column"
    BY DEF TerminalsOnly
  <2>3. claimed'[q] = claimed[q] => Allowed(q)' = Allowed(q)
    BY DEF Allowed
  <2>4. CASE Keeps(q)
    BY <1>3, <2>3, <2>4 DEF Keeps
  <2>5. CASE Claims(q)
    <3>1. Allowed(q) = 0 /\ Allowed(q)' = 1
      BY <2>5 DEF Claims, Allowed
    <3> QED
      BY <1>3, <2>5, <3>1 DEF Claims
  <2>6. ~Fails(q) /\ ~Panics(q)
    BY <1>2, <2>2 DEF Fails, Panics
  <2>7. ~Loses(q)
    <3>1. Allowed(q) \in {0, 1}
      BY <1>1 DEF Allowed, Panicked
    <3>2. Terminals(q) \in Nat /\ InHand(q) \in Nat /\ Terminals(q) + InHand(q) = Allowed(q)
      BY <1>3, TerminalsType DEF Total
    <3>3. Terminals(q) = 0 \/ InHand(q) = 0
      BY <3>1, <3>2
    <3> QED
      BY <1>2, <3>3 DEF Loses
  <2> QED
    BY <2>1, <2>4, <2>5, <2>6, <2>7 DEF Effect
<1> QED
  BY <1>4, <1>5, <1>6

\* What the UI sees of a slot follows from the count.
LEMMA SlotInvSuffices ==
    ASSUME TypeInv, SlotInv, ~Panicked PROVE SlotMatchesTerminal
<1> SUFFICES ASSUME NEW r \in submitted
             PROVE  /\ r \notin active <=> \E i \in 1..Len(delivered[r]) : delivered[r][i] = 0
                    /\ (r \in active /\ worker[r] = "done" /\ deadline[r] \in {"off", "done"})
                          => Terminals(r) = 1
  BY DEF SlotMatchesTerminal
<1>1. r \in Requests /\ delivered[r] \in Seq(0..MaxBatches)
  BY DEF TypeInv, TypeOK
<1>2. Occurrences(delivered[r], 0) = 0 <=> \A i \in 1..Len(delivered[r]) : delivered[r][i] # 0
  BY <1>1, OccurrencesType
<1>3. /\ Total(r) = Allowed(r)
      /\ worker[r] = "done" => claimed[r] = "worker"
      /\ r \in active <=> r \in submitted /\ Occurrences(delivered[r], 0) = 0
  BY <1>1 DEF SlotInv
<1>4. ASSUME worker[r] = "done", deadline[r] \in {"off", "done"}
      PROVE  Terminals(r) = 1
  <2>1. Allowed(r) = 1 /\ InHand(r) = 0
    BY <1>3, <1>4 DEF Allowed, InHand, TermPC
  <2>2. Terminals(r) \in Nat
    BY <1>1, TerminalsType
  <2> QED
    BY <1>3, <2>1, <2>2 DEF Total
<1> QED
  BY <1>2, <1>3, <1>4

\* The first state of a lane of terminals.
LEMMA SlotInvInit ==
    ASSUME Init PROVE TypeInv /\ Gated /\ DropInv /\ SlotInv
<1>1. TypeInv /\ Gated
  BY GatedInit
<1>2. \A r \in Requests : claimed[r] = "none" /\ worker[r] = "idle"
  BY DEF Init
<1>3. \A r \in Requests : /\ Terminals(r) \in Nat /\ InHand(r) \in Nat
                          /\ Occurrences(delivered[r], 0) \in Nat
                          /\ Terminals(r) + InHand(r) <= 0
  BY <1>1, <1>2, TerminalsType DEF Gated, Allowed
<1>4. \A r \in Requests : Total(r) = 0 /\ Allowed(r) = 0
  BY <1>2, <1>3 DEF Total, Allowed
<1>5. DropInv
  <2>1. Cardinality({}) = 0
    BY FS_EmptySet
  <2>2. Slots
    BY <2>1, LaneAssumption DEF Init, Slots
  <2>3. QueueInv
    BY DEF Init, QueueInv, Waiting, OneEach, Apart
  <2> QED
    BY <2>2, <2>3 DEF Init, DropInv
<1>6. SlotInv
  BY <1>2, <1>4 DEF Init, SlotInv
<1> QED
  BY <1>1, <1>5, <1>6

\* On the operation, typed and navigation lanes the admission table agrees with
\* what was received and with what is still on its way, whatever the number of
\* requests and the capacities, as long as no folder listing panics.
THEOREM SlotsFollowTerminals ==
    ASSUME TerminalsOnly PROVE Spec => [](~Panicked => SlotMatchesTerminal)
<1> DEFINE Inv == TypeInv /\ Gated /\ DropInv /\ SlotInv
<1>1. Init => Inv
  BY SlotInvInit
<1>2. Inv /\ [Next]_vars => Inv'
  BY TypeInvNext, GatedNext, DropInvNext, SlotInvNext
<1>3. Inv => (~Panicked => SlotMatchesTerminal)
  BY SlotInvSuffices
<1> QED
  BY <1>1, <1>2, <1>3, PTL DEF Spec

\* Only a folder listing has a tail in which to panic.
Calm == \A r \in Requests : worker[r] # "tail" /\ claimed[r] # "panic"

\* No step of a lane of plain commands leads into a tail or a panic.
LEMMA CalmNext ==
    ASSUME \A r \in Requests : Kind[r] = "plain", TypeInv, Calm, [Next]_vars PROVE Calm'
<1>1. /\ worker \in [Requests -> WorkerPC]
      /\ claimed \in [Requests -> {"none", "worker", "deadline", "panic"}]
  BY DEF TypeInv, TypeOK
<1>2. ASSUME UNCHANGED <<worker, claimed>> PROVE Calm'
  BY <1>2 DEF Calm
<1>3. ASSUME NEW r \in Requests, Submit(r) \/ Start(r) \/ BatchSend(r) \/ JobEnds(r) \/ TailEnds(r)
      PROVE  Calm'
  <2>1. \E pc \in WorkerPC \ {"tail"} : worker' = [worker EXCEPT ![r] = pc]
    BY <1>3 DEF Submit, Start, BatchSend, JobEnds, TailEnds, WorkerPC
  <2>2. UNCHANGED claimed
    BY <1>3 DEF Submit, Start, BatchSend, JobEnds, TailEnds
  <2> QED
    BY <1>1, <2>1, <2>2 DEF Calm
<1>4. ASSUME NEW r \in Requests, BatchSpill(r) PROVE Calm'
  <2>1. \E pc \in WorkerPC \ {"tail"} : worker' = [worker EXCEPT ![r] = pc]
    BY <1>4 DEF BatchSpill, RetainBatch, AfterRefusedBatch, WorkerPC
  <2>2. UNCHANGED claimed
    BY <1>4 DEF BatchSpill
  <2> QED
    BY <1>1, <2>1, <2>2 DEF Calm
<1>5. ASSUME NEW r \in Requests, BatchCheck(r) PROVE FALSE
  BY <1>5 DEF BatchCheck
<1>6. ASSUME NEW r \in Requests, ColumnFails(r) \/ TailPanics(r) PROVE FALSE
  BY <1>6 DEF ColumnFails, TailPanics, Calm
<1>7. ASSUME NEW r \in Requests, Deadline(r) PROVE Calm'
  BY <1>2, <1>7 DEF Deadline, DeadlineElapses, DeadlineStandsDown
<1>8. ASSUME NEW r \in Requests, NEW who \in {"worker", "deadline"}, Publish(r, who)
      PROVE  Calm'
  <2>1. PICK pc \in {"termCheck", "termSend", "termSpill", "done"} : Goto(r, who, pc)
    BY <1>8 DEF Publish, Claim, TermCheck, TermSend, TermSpill, AfterTerminal
  <2>2. claimed' = claimed \/ claimed' = [claimed EXCEPT ![r] = who]
    BY <1>8 DEF Publish, Claim, TermCheck, TermSend, TermSpill
  <2> QED
    BY <1>1, <2>1, <2>2 DEF Goto, Calm
<1>9. CASE Receive
  BY <1>2, <1>9 DEF Receive, RecvRetainedFirst, RecvPrimary, RecvRetained,
                    RecvFallback, Unreceived
<1>10. CASE UNCHANGED vars
  BY <1>2, <1>10 DEF vars
<1> QED
  BY <1>3, <1>4, <1>5, <1>6, <1>7, <1>8, <1>9, <1>10 DEF Next, Work

\* A lane whose requests publish a terminal and nothing else has no panic after
\* a terminal: there SlotMatchesTerminal holds in every state.
THEOREM SlotsAreReturned ==
    ASSUME \A r \in Requests : Kind[r] = "plain" PROVE Spec => []SlotMatchesTerminal
<1>1. TerminalsOnly
  BY DEF TerminalsOnly
<1> DEFINE Inv == TypeInv /\ Gated /\ DropInv /\ SlotInv /\ Calm
<1>2. Init => Inv
  BY SlotInvInit DEF Init, Calm
<1>3. Inv /\ [Next]_vars => Inv'
  BY <1>1, TypeInvNext, GatedNext, DropInvNext, SlotInvNext, CalmNext
<1>4. Inv => SlotMatchesTerminal
  BY SlotInvSuffices DEF Calm, Panicked
<1> QED
  BY <1>2, <1>3, <1>4, PTL DEF Spec

-----------------------------------------------------------------------------
(* The order of the events in the lane                                     *)

\* x may stand in front of y when c says who claimed each terminal: batches of
\* a request in publication order, and nothing behind its worker's terminal.
May(c, x, y) ==
    (x.req = y.req /\ y.n # 0) => IF x.n = 0 THEN c[x.req] # "worker" ELSE x.n < y.n

Stands(c, s) == \A i, j \in 1..Len(s) : i < j => May(c, s[i], s[j])

Across(c, s, t) == \A i \in 1..Len(s), j \in 1..Len(t) : May(c, s[i], t[j])

\* No event of s has a number that its request did not reach.
Within(n, s) == \A i \in 1..Len(s) : s[i].n <= n[s[i].req]

NoBatch(s, r) == \A i \in 1..Len(s) : s[i].req = r => s[i].n = 0

\* Requests of which the retained queue holds no batch: those that never spill
\* one, and those whose worker is about to send to the primary channel.
SendsFirst(r) ==
    /\ Kind[r] \in {"plain", "navigation"} \/ worker[r] \in {"batchSend", "batchSpill", "termSend"}
         => NoBatch(retained, r)
    /\ Kind[r] \in {"plain", "navigation"} => worker[r] # "batchSpill"
    /\ Kind[r] = "plain" => worker[r] # "batchSend"

\* The strengthening of QueueOrder and TerminalBehindBatches.
OrderInv ==
    /\ Stands(claimed, primary)
    /\ Stands(claimed, retained)
    /\ Across(claimed, primary, retained)
    /\ Within(sent, primary)
    /\ Within(sent, retained)
    /\ \A r \in Requests : SendsFirst(r)

\* What is at the positions of a queue after it gained an event.
LEMMA AppendPositions ==
    ASSUME NEW s \in Seq(Events), NEW e \in Events
    PROVE  /\ Len(s) \in Nat
           /\ Len(Append(s, e)) = Len(s) + 1
           /\ \A i \in 1..Len(s) : Append(s, e)[i] = s[i]
           /\ Append(s, e)[Len(s) + 1] = e
           /\ \A i \in 1..Len(s) + 1 : i # Len(s) + 1 => i \in 1..Len(s)
  OBVIOUS

\* An event that may stand behind all others is appended.
LEMMA StandsAppend ==
    ASSUME NEW c, NEW s \in Seq(Events), NEW e \in Events,
           Stands(c, s), \A i \in 1..Len(s) : May(c, s[i], e)
    PROVE  Stands(c, Append(s, e))
<1> DEFINE t == Append(s, e)
<1>1. /\ Len(s) \in Nat /\ Len(t) = Len(s) + 1
      /\ \A i \in 1..Len(s) : t[i] = s[i]
      /\ t[Len(s) + 1] = e
      /\ \A i \in 1..Len(s) + 1 : i # Len(s) + 1 => i \in 1..Len(s)
  BY AppendPositions
<1> HIDE DEF t
<1>2. ASSUME NEW i \in 1..Len(t), NEW j \in 1..Len(t), i < j
      PROVE  May(c, t[i], t[j])
  <2>1. i # Len(s) + 1 /\ i \in 1..Len(s)
    BY <1>1, <1>2
  <2>2. CASE j = Len(s) + 1
    BY <1>1, <2>1, <2>2
  <2>3. CASE j # Len(s) + 1
    <3>1. j \in 1..Len(s)
      BY <1>1, <2>3
    <3> QED
      BY <1>1, <1>2, <2>1, <3>1 DEF Stands
  <2> QED
    BY <2>2, <2>3
<1>3. Stands(c, t)
  BY <1>2 DEF Stands
<1> QED
  BY <1>3 DEF t

\* Across two queues, an event appended to the first or to the second.
LEMMA AcrossAppend ==
    ASSUME NEW c, NEW s \in Seq(Events), NEW t \in Seq(Events), NEW e \in Events,
           Across(c, s, t)
    PROVE  /\ (\A j \in 1..Len(t) : May(c, e, t[j])) => Across(c, Append(s, e), t)
           /\ (\A i \in 1..Len(s) : May(c, s[i], e)) => Across(c, s, Append(t, e))
<1>1. ASSUME \A j \in 1..Len(t) : May(c, e, t[j]) PROVE Across(c, Append(s, e), t)
  <2> DEFINE u == Append(s, e)
  <2>1. /\ Len(s) \in Nat /\ Len(u) = Len(s) + 1
        /\ \A i \in 1..Len(s) : u[i] = s[i]
        /\ u[Len(s) + 1] = e
        /\ \A i \in 1..Len(s) + 1 : i # Len(s) + 1 => i \in 1..Len(s)
    BY AppendPositions
  <2> HIDE DEF u
  <2>2. Across(c, u, t)
    BY <1>1, <2>1 DEF Across
  <2> QED
    BY <2>2 DEF u
<1>2. ASSUME \A i \in 1..Len(s) : May(c, s[i], e) PROVE Across(c, s, Append(t, e))
  <2> DEFINE u == Append(t, e)
  <2>1. /\ Len(t) \in Nat /\ Len(u) = Len(t) + 1
        /\ \A i \in 1..Len(t) : u[i] = t[i]
        /\ u[Len(t) + 1] = e
        /\ \A i \in 1..Len(t) + 1 : i # Len(t) + 1 => i \in 1..Len(t)
    BY AppendPositions
  <2> HIDE DEF u
  <2>2. Across(c, s, u)
    BY <1>2, <2>1 DEF Across
  <2> QED
    BY <2>2 DEF u
<1> QED
  BY <1>1, <1>2

\* Numbers and absent batches when an event is appended.
LEMMA WithinAppend ==
    ASSUME NEW n, NEW s \in Seq(Events), NEW e \in Events
    PROVE  /\ Within(n, s) /\ e.n <= n[e.req] => Within(n, Append(s, e))
           /\ \A r : NoBatch(s, r) /\ (e.req = r => e.n = 0) => NoBatch(Append(s, e), r)
<1> DEFINE u == Append(s, e)
<1>1. /\ Len(s) \in Nat /\ Len(u) = Len(s) + 1
      /\ \A i \in 1..Len(s) : u[i] = s[i]
      /\ u[Len(s) + 1] = e
      /\ \A i \in 1..Len(s) + 1 : i # Len(s) + 1 => i \in 1..Len(s)
  BY AppendPositions
<1> HIDE DEF u
<1>2. /\ Within(n, s) /\ e.n <= n[e.req] => Within(n, u)
      /\ \A r : NoBatch(s, r) /\ (e.req = r => e.n = 0) => NoBatch(u, r)
  BY <1>1 DEF Within, NoBatch
<1> QED
  BY <1>2 DEF u

\* Receiving the head of either queue disturbs no order.
LEMMA OrderOfTail ==
    ASSUME NEW c, NEW n, NEW s \in Seq(Events), s # <<>>, NEW t
    PROVE  /\ Stands(c, s) => Stands(c, Tail(s))
           /\ Across(c, s, t) => Across(c, Tail(s), t)
           /\ Across(c, t, s) => Across(c, t, Tail(s))
           /\ Within(n, s) => Within(n, Tail(s))
           /\ \A r : NoBatch(s, r) => NoBatch(Tail(s), r)
<1> DEFINE u == Tail(s)
<1>1. /\ Len(u) \in Nat
      /\ \A i \in 1..Len(u) : i + 1 \in 1..Len(s) /\ u[i] = s[i + 1]
      /\ \A i, j \in 1..Len(u) : i < j => i + 1 < j + 1
  OBVIOUS
<1> HIDE DEF u
<1>2. Stands(c, s) => Stands(c, u)
  BY <1>1 DEF Stands
<1>3. /\ Across(c, s, t) => Across(c, u, t)
      /\ Across(c, t, s) => Across(c, t, u)
  BY <1>1 DEF Across
<1>4. Within(n, s) => Within(n, u)
  BY <1>1 DEF Within
<1>5. \A r : NoBatch(s, r) => NoBatch(u, r)
  BY <1>1 DEF NoBatch
<1> QED
  BY <1>2, <1>3, <1>4, <1>5 DEF u

\* The two orders as they read over the whole lane.
LEMMA LaneOrder ==
    ASSUME NEW c, NEW s \in Seq(Events), NEW t \in Seq(Events),
           Stands(c, s), Stands(c, t), Across(c, s, t)
    PROVE  Stands(c, s \o t)
<1> DEFINE u == s \o t
           a == Len(s)
           b == Len(t)
<1>1. /\ a \in Nat /\ b \in Nat /\ Len(u) = a + b
      /\ \A i \in 1..a : u[i] = s[i]
  OBVIOUS
<1>2. \A i \in 1..(a + b) : i \notin 1..a => i - a \in 1..b /\ u[i] = t[i - a]
  OBVIOUS
<1>3. (\A i : i \in 1..Len(s) <=> i \in 1..a) /\ (\A i : i \in 1..Len(t) <=> i \in 1..b)
  OBVIOUS
<1> HIDE DEF u, a, b
<1>4. ASSUME NEW i \in 1..Len(u), NEW j \in 1..Len(u), i < j
      PROVE  May(c, u[i], u[j])
  <2>1. i \in 1..(a + b) /\ j \in 1..(a + b) /\ i \in Nat /\ j \in Nat
    BY <1>1
  <2>2. CASE j \in 1..a
    <3>1. i \in 1..a
      BY <1>1, <1>4, <2>1, <2>2
    <3> QED
      BY <1>1, <1>3, <1>4, <2>2, <3>1 DEF Stands
  <2>3. CASE i \in 1..a /\ j \notin 1..a
    BY <1>1, <1>2, <1>3, <2>1, <2>3 DEF Across
  <2>4. CASE i \notin 1..a /\ j \notin 1..a
    <3>1. i - a < j - a
      BY <1>1, <1>4, <2>1
    <3>2. i - a \in 1..b /\ j - a \in 1..b /\ u[i] = t[i - a] /\ u[j] = t[j - a]
      BY <1>2, <2>1, <2>4
    <3> QED
      BY <1>3, <3>1, <3>2 DEF Stands
  <2> QED
    BY <2>2, <2>3, <2>4
<1>5. Stands(c, u)
  BY <1>4 DEF Stands
<1> QED
  BY <1>5 DEF u

\* What the two properties say of the whole lane.
LEMMA OrderInvSuffices ==
    ASSUME TypeInv, OrderInv PROVE QueueOrder /\ TerminalBehindBatches
<1> DEFINE lane == primary \o retained
<1>1. primary \in Seq(Events) /\ retained \in Seq(Events)
  BY DEF TypeInv, TypeOK
<1>2. Stands(claimed, lane)
  BY <1>1, LaneOrder DEF OrderInv
<1>3. Len(lane) \in Nat
  BY <1>1
<1>4. QueueOrder <=> \A i, j \in 1..Len(lane) :
          ( /\ i < j
            /\ lane[i].req = lane[j].req
            /\ lane[i].n # 0
            /\ lane[j].n # 0 ) => lane[i].n < lane[j].n
  BY DEF QueueOrder
<1>5. TerminalBehindBatches <=> \A i, j \in 1..Len(lane) :
          ( /\ lane[i].n = 0
            /\ claimed[lane[i].req] = "worker"
            /\ lane[j].req = lane[i].req
            /\ lane[j].n # 0 ) => j < i
  BY DEF TerminalBehindBatches
<1> HIDE DEF lane
<1>6. QueueOrder
  BY <1>2, <1>4 DEF Stands, May
<1>7. ASSUME NEW i \in 1..Len(lane), NEW j \in 1..Len(lane),
             lane[i].n = 0, claimed[lane[i].req] = "worker",
             lane[j].req = lane[i].req, lane[j].n # 0
      PROVE  j < i
  <2>1. i # j /\ ~(i < j)
    BY <1>2, <1>7 DEF Stands, May
  <2> QED
    BY <1>3, <2>1
<1> QED
  BY <1>5, <1>6, <1>7

\* A step that leaves both queues as they are.
LEMMA OrderMoves ==
    ASSUME OrderInv, UNCHANGED <<primary, retained, sent, claimed>>,
           \A q \in Requests : SendsFirst(q)'
    PROVE  OrderInv'
  BY DEF OrderInv

\* Claiming the terminal of a request that has none in the lane.
LEMMA OrderClaims ==
    ASSUME TypeInv, OrderInv, UNCHANGED <<primary, retained, sent>>,
           \A q \in Requests : claimed'[q] = "worker" =>
              \/ claimed[q] = "worker"
              \/ /\ \A i \in 1..Len(primary) : primary[i] # Event(q, 0)
                 /\ \A i \in 1..Len(retained) : retained[i] # Event(q, 0),
           \A q \in Requests : SendsFirst(q)'
    PROVE  OrderInv'
<1>1. /\ primary \in Seq(Events) /\ retained \in Seq(Events)
      /\ \A i \in 1..Len(primary) : primary[i] \in Events
      /\ \A i \in 1..Len(retained) : retained[i] \in Events
  BY DEF TypeInv, TypeOK
<1>2. \A x \in Events : x.req \in Requests
  BY EventTypes
<1>3. ASSUME NEW x \in Events, NEW y, May(claimed, x, y),
             \/ \E i \in 1..Len(primary) : x = primary[i]
             \/ \E i \in 1..Len(retained) : x = retained[i]
      PROVE  May(claimed', x, y)
  <2>1. CASE x.n # 0
    BY <1>3, <2>1 DEF May
  <2>2. CASE x.n = 0
    <3>1. x = Event(x.req, 0)
      BY <1>3, <2>2, TerminalEvents
    <3>2. claimed'[x.req] = "worker" => claimed[x.req] = "worker"
      BY <1>2, <1>3, <3>1
    <3> QED
      BY <1>3, <2>2, <3>2 DEF May
  <2> QED
    BY <2>1, <2>2
<1>4. Stands(claimed', primary) /\ Stands(claimed', retained)
  BY <1>1, <1>3 DEF OrderInv, Stands
<1>5. Across(claimed', primary, retained)
  BY <1>1, <1>3 DEF OrderInv, Across
<1> QED
  BY <1>4, <1>5 DEF OrderInv

\* A batch of r is appended to one of the queues, and the worker of r runs on.
LEMMA OrderBatches ==
    ASSUME TypeInv, OrderInv, NEW r \in Requests, claimed[r] # "worker", sent[r] < MaxBatches,
           Kind[r] # "plain",
           UNCHANGED claimed, sent' = [sent EXCEPT ![r] = sent[r] + 1],
           worker' = [worker EXCEPT ![r] = "run"],
           \/ /\ retained' = Append(retained, Event(r, sent[r] + 1)) /\ UNCHANGED primary
              /\ Kind[r] # "navigation"
           \/ /\ primary' = Append(primary, Event(r, sent[r] + 1)) /\ UNCHANGED retained
              /\ NoBatch(retained, r)
    PROVE  OrderInv'
<1> DEFINE k == sent[r] + 1
           e == Event(r, k)
<1>1. /\ primary \in Seq(Events) /\ retained \in Seq(Events)
      /\ worker \in [Requests -> WorkerPC] /\ sent \in [Requests -> 0..MaxBatches]
      /\ \A i \in 1..Len(primary) : primary[i] \in Events
      /\ \A i \in 1..Len(retained) : retained[i] \in Events
  BY DEF TypeInv, TypeOK
<1>2. k \in 0..MaxBatches /\ k # 0 /\ sent[r] < k
  BY <1>1, LaneAssumption
<1>3. /\ sent' = [sent EXCEPT ![r] = k]
      /\ \/ /\ retained' = Append(retained, e) /\ UNCHANGED primary
            /\ Kind[r] # "navigation"
         \/ /\ primary' = Append(primary, e) /\ UNCHANGED retained
            /\ NoBatch(retained, r)
  OBVIOUS
<1> HIDE DEF k
<1>4. e \in Events /\ e.req = r /\ e.n = k
  BY <1>2, EventTypes DEF Event
<1>5. /\ sent'[r] = k /\ \A q \in Requests : q # r => sent'[q] = sent[q]
      /\ worker'[r] = "run" /\ \A q \in Requests : q # r => worker'[q] = worker[q]
  BY <1>1, <1>3
<1> HIDE DEF e
<1>6. \A x \in Events : x.req \in Requests /\ x.n \in Nat
  BY EventTypes, LaneAssumption
<1>7. \A q \in Requests : sent[q] \in Nat /\ sent[q] <= sent'[q] /\ sent'[q] \in Nat
  BY <1>1, <1>2, <1>5
<1>8. ASSUME NEW s \in Seq(Events), Within(sent, s), \A i \in 1..Len(s) : s[i] \in Events
      PROVE  /\ Within(sent', s)
             /\ \A i \in 1..Len(s) : May(claimed, s[i], e)
  <2>1. \A i \in 1..Len(s) : s[i].n <= sent[s[i].req] /\ s[i].n \in Nat /\ s[i].req \in Requests
    BY <1>6, <1>8 DEF Within
  <2>2. Within(sent', s)
    <3>1. \A a, b, d \in Nat : a <= b /\ b <= d => a <= d
      OBVIOUS
    <3> QED
      BY <1>7, <2>1, <3>1 DEF Within
  <2>3. ASSUME NEW i \in 1..Len(s) PROVE May(claimed, s[i], e)
    <3>1. s[i].req = r => s[i].n < k
      BY <1>2, <1>7, <2>1
    <3> QED
      BY <1>4, <3>1 DEF May
  <2> QED
    BY <2>2, <2>3
<1>9. /\ Within(sent', primary) /\ \A i \in 1..Len(primary) : May(claimed, primary[i], e)
      /\ Within(sent', retained) /\ \A i \in 1..Len(retained) : May(claimed, retained[i], e)
  BY <1>1, <1>8 DEF OrderInv
<1>10. e.n <= sent'[e.req]
  BY <1>4, <1>5, <1>7
<1>11. CASE /\ retained' = Append(retained, e) /\ UNCHANGED primary
            /\ Kind[r] # "navigation"
  <2>1. Stands(claimed, retained')
    BY <1>1, <1>4, <1>9, <1>11, StandsAppend DEF OrderInv
  <2>2. Across(claimed, primary, retained')
    BY <1>1, <1>4, <1>9, <1>11, AcrossAppend DEF OrderInv
  <2>3. Within(sent', retained')
    BY <1>1, <1>4, <1>9, <1>10, <1>11, WithinAppend
  <2>4. \A q \in Requests : q # r /\ NoBatch(retained, q) => NoBatch(retained', q)
    BY <1>1, <1>4, <1>11, WithinAppend
  <2>5. ASSUME NEW q \in Requests PROVE SendsFirst(q)'
    BY <1>5, <1>11, <2>4 DEF OrderInv, SendsFirst
  <2> QED
    BY <1>9, <1>11, <2>1, <2>2, <2>3, <2>5 DEF OrderInv
<1>12. CASE /\ primary' = Append(primary, e) /\ UNCHANGED retained
            /\ NoBatch(retained, r)
  <2>1. \A j \in 1..Len(retained) : May(claimed, e, retained[j])
    BY <1>4, <1>12 DEF NoBatch, May
  <2>2. Stands(claimed, primary')
    BY <1>1, <1>4, <1>9, <1>12, StandsAppend DEF OrderInv
  <2>3. Across(claimed, primary', retained)
    BY <1>1, <1>4, <1>12, <2>1, AcrossAppend DEF OrderInv
  <2>4. Within(sent', primary')
    BY <1>1, <1>4, <1>9, <1>10, <1>12, WithinAppend
  <2>5. ASSUME NEW q \in Requests PROVE SendsFirst(q)'
    BY <1>5, <1>12 DEF OrderInv, SendsFirst
  <2> QED
    BY <1>9, <1>12, <2>2, <2>3, <2>4, <2>5 DEF OrderInv
<1> QED
  BY <1>3, <1>11, <1>12

\* The terminal of r is appended to one of the queues.
LEMMA OrderTerminals ==
    ASSUME TypeInv, OrderInv, NEW r \in Requests, UNCHANGED <<claimed, sent>>,
           \/ retained' = Append(retained, Event(r, 0)) /\ UNCHANGED primary
           \/ /\ primary' = Append(primary, Event(r, 0)) /\ UNCHANGED retained
              /\ NoBatch(retained, r) \/ claimed[r] # "worker",
           \A q \in Requests : worker'[q] = worker[q] \/ worker'[q] \in {"tail", "done"}
    PROVE  OrderInv'
<1> DEFINE e == Event(r, 0)
<1>1. /\ primary \in Seq(Events) /\ retained \in Seq(Events)
      /\ sent[r] \in Nat
  BY LaneAssumption DEF TypeInv, TypeOK
<1>2. e \in Events /\ e.req = r /\ e.n = 0
  BY EventTypes, LaneAssumption DEF Event
<1>3. \/ retained' = Append(retained, e) /\ UNCHANGED primary
      \/ /\ primary' = Append(primary, e) /\ UNCHANGED retained
         /\ NoBatch(retained, r) \/ claimed[r] # "worker"
  OBVIOUS
<1> HIDE DEF e
<1>4. \A x : May(claimed, x, e)
  BY <1>2 DEF May
<1>5. e.n <= sent[e.req]
  BY <1>1, <1>2
<1>6. CASE retained' = Append(retained, e) /\ UNCHANGED primary
  <2>1. Stands(claimed, retained')
    BY <1>1, <1>2, <1>4, <1>6, StandsAppend DEF OrderInv
  <2>2. Across(claimed, primary, retained')
    BY <1>1, <1>2, <1>4, <1>6, AcrossAppend DEF OrderInv
  <2>3. Within(sent, retained')
    BY <1>1, <1>2, <1>5, <1>6, WithinAppend DEF OrderInv
  <2>4. \A q \in Requests : NoBatch(retained, q) => NoBatch(retained', q)
    BY <1>1, <1>2, <1>6, WithinAppend
  <2>5. ASSUME NEW q \in Requests PROVE SendsFirst(q)'
    BY <2>4 DEF OrderInv, SendsFirst
  <2> QED
    BY <1>6, <2>1, <2>2, <2>3, <2>5 DEF OrderInv
<1>7. CASE /\ primary' = Append(primary, e) /\ UNCHANGED retained
           /\ NoBatch(retained, r) \/ claimed[r] # "worker"
  <2>1. \A j \in 1..Len(retained) : May(claimed, e, retained[j])
    BY <1>2, <1>7 DEF NoBatch, May
  <2>2. Stands(claimed, primary')
    BY <1>1, <1>2, <1>4, <1>7, StandsAppend DEF OrderInv
  <2>3. Across(claimed, primary', retained)
    BY <1>1, <1>2, <1>7, <2>1, AcrossAppend DEF OrderInv
  <2>4. Within(sent, primary')
    BY <1>1, <1>2, <1>5, <1>7, WithinAppend DEF OrderInv
  <2>5. ASSUME NEW q \in Requests PROVE SendsFirst(q)'
    BY <1>7 DEF OrderInv, SendsFirst
  <2> QED
    BY <1>7, <2>2, <2>3, <2>4, <2>5 DEF OrderInv
<1> QED
  BY <1>3, <1>6, <1>7

\* The receiver takes the head of a queue.
LEMMA OrderReceives ==
    ASSUME TypeInv, OrderInv, Receive PROVE OrderInv'
<1>1. primary \in Seq(Events) /\ retained \in Seq(Events)
  BY DEF TypeInv, TypeOK
<1>2. UNCHANGED <<claimed, sent, worker>>
  BY DEF Receive, RecvRetainedFirst, RecvPrimary, RecvRetained, RecvFallback, Unreceived
<1>3. \/ UNCHANGED <<primary, retained>>
      \/ primary # <<>> /\ primary' = Tail(primary) /\ UNCHANGED retained
      \/ retained # <<>> /\ retained' = Tail(retained) /\ UNCHANGED primary
  BY DEF Receive, RecvRetainedFirst, RecvPrimary, RecvRetained, RecvFallback
<1>4. CASE UNCHANGED <<primary, retained>>
  BY <1>2, <1>4 DEF OrderInv, SendsFirst
<1>5. CASE primary # <<>> /\ primary' = Tail(primary) /\ UNCHANGED retained
  <2>1. /\ Stands(claimed, primary') /\ Across(claimed, primary', retained)
        /\ Within(sent, primary')
    BY <1>1, <1>5, OrderOfTail DEF OrderInv
  <2> QED
    BY <1>2, <1>5, <2>1 DEF OrderInv, SendsFirst
<1>6. CASE retained # <<>> /\ retained' = Tail(retained) /\ UNCHANGED primary
  <2>1. /\ Stands(claimed, retained') /\ Across(claimed, primary, retained')
        /\ Within(sent, retained')
    BY <1>1, <1>6, OrderOfTail DEF OrderInv
  <2>2. \A r : NoBatch(retained, r) => NoBatch(retained', r)
    BY <1>1, <1>6, OrderOfTail
  <2> QED
    BY <1>2, <1>6, <2>1, <2>2 DEF OrderInv, SendsFirst
<1> QED
  BY <1>3, <1>4, <1>5, <1>6

\* A thread that goes to a place where it is not about to send first.
LEMMA SendsFirstMoves ==
    ASSUME TypeInv, OrderInv, UNCHANGED retained, NEW r \in Requests,
           NEW pc, worker' = [worker EXCEPT ![r] = pc],
           pc \in {"batchSend", "batchSpill", "termSend"} => NoBatch(retained, r),
           pc = "batchSpill" => Kind[r] \notin {"plain", "navigation"},
           pc = "batchSend" => Kind[r] # "plain"
    PROVE  \A q \in Requests : SendsFirst(q)'
<1> SUFFICES ASSUME NEW q \in Requests PROVE SendsFirst(q)'
  OBVIOUS
<1>1. worker'[q] = IF q = r THEN pc ELSE worker[q]
  BY DEF TypeInv, TypeOK
<1> QED
  BY <1>1 DEF OrderInv, SendsFirst

\* Nobody has claimed the terminal: there is none in the lane.
LEMMA NoneQueued ==
    ASSUME TypeInv, Gated, NEW r \in Requests, claimed[r] = "none"
    PROVE  /\ \A i \in 1..Len(primary) : primary[i] # Event(r, 0)
           /\ \A i \in 1..Len(retained) : retained[i] # Event(r, 0)
<1>1. Terminals(r) + InHand(r) <= 0
  BY DEF Gated, Allowed
<1>2. /\ Occurrences(primary, Event(r, 0)) = 0
      /\ Occurrences(retained, Event(r, 0)) = 0
  BY <1>1, TerminalsType DEF Terminals
<1>3. primary \in Seq(Events) /\ retained \in Seq(Events)
  BY DEF TypeInv, TypeOK
<1> QED
  BY <1>2, <1>3, OccurrencesType

\* A worker's own steps.
LEMMA OrderWork ==
    ASSUME TypeInv, Gated, OrderInv, NEW r \in Requests, Work(r) PROVE OrderInv'
<1>1. /\ worker \in [Requests -> WorkerPC]
      /\ claimed \in [Requests -> {"none", "worker", "deadline", "panic"}]
  BY DEF TypeInv, TypeOK
<1>2. Gate(r)
  BY DEF Gated
<1>3. ASSUME NEW pc, worker' = [worker EXCEPT ![r] = pc],
             pc \in {"batchSend", "batchSpill", "termSend"} => NoBatch(retained, r),
             pc = "batchSpill" => Kind[r] \notin {"plain", "navigation"},
             pc = "batchSend" => Kind[r] # "plain",
             UNCHANGED <<primary, retained, sent, claimed>>
      PROVE  OrderInv'
  BY <1>3, SendsFirstMoves, OrderMoves
<1>4. CASE Start(r)
  <2>1. \E pc \in {"run", "claim"} : worker' = [worker EXCEPT ![r] = pc]
    BY <1>4 DEF Start
  <2>2. UNCHANGED <<primary, retained, sent, claimed>>
    BY <1>4 DEF Start
  <2> QED
    BY <1>3, <2>1, <2>2
<1>5. ASSUME RetainBatch(r), UNCHANGED <<primary, claimed>>, sent[r] < MaxBatches,
             Kind[r] \notin {"plain", "navigation"}, claimed[r] # "worker"
      PROVE  OrderInv'
  <2>1. CASE Len(retained) < BatchLimit(r)
    <3>1. /\ retained' = Append(retained, Event(r, sent[r] + 1))
          /\ sent' = [sent EXCEPT ![r] = sent[r] + 1]
          /\ worker' = [worker EXCEPT ![r] = "run"]
      BY <1>5, <2>1 DEF RetainBatch
    <3> QED
      BY <1>5, <3>1, OrderBatches
  <2>2. CASE ~(Len(retained) < BatchLimit(r))
    <3>1. /\ worker' = [worker EXCEPT ![r] = AfterRefusedBatch(r)]
          /\ UNCHANGED <<retained, sent>>
      BY <1>5, <2>2 DEF RetainBatch
    <3>2. AfterRefusedBatch(r) \in {"done", "claim"}
      BY DEF AfterRefusedBatch
    <3> QED
      BY <1>3, <1>5, <3>1, <3>2
  <2> QED
    BY <2>1, <2>2
<1>6. CASE BatchCheck(r)
  <2>1. /\ worker[r] = "run" /\ Kind[r] # "plain" /\ sent[r] < MaxBatches
        /\ UNCHANGED <<primary, claimed>>
    BY <1>6 DEF BatchCheck
  <2>2. claimed[r] # "worker"
    BY <1>2, <2>1 DEF Gate, WorkerPC, TermPC
  <2>3. CASE retained # <<>> /\ Kind[r] # "navigation"
    <3>1. RetainBatch(r)
      BY <1>6, <2>3 DEF BatchCheck
    <3> QED
      BY <1>5, <2>1, <2>2, <2>3, <3>1
  <2>4. CASE ~(retained # <<>> /\ Kind[r] # "navigation")
    <3>1. worker' = [worker EXCEPT ![r] = "batchSend"] /\ UNCHANGED <<retained, sent>>
      BY <1>6, <2>4 DEF BatchCheck
    <3>2. NoBatch(retained, r)
      <4>1. CASE Kind[r] = "navigation"
        BY <4>1 DEF OrderInv, SendsFirst
      <4>2. CASE retained = <<>>
        BY <4>2 DEF NoBatch
      <4> QED
        BY <2>4, <4>1, <4>2
    <3> QED
      BY <1>3, <2>1, <3>1, <3>2
  <2> QED
    BY <2>3, <2>4
<1>7. CASE BatchSend(r)
  <2>1. worker[r] = "batchSend" /\ UNCHANGED <<retained, claimed>> /\ sent[r] < MaxBatches
    BY <1>7 DEF BatchSend, TypeInv
  <2>2. claimed[r] # "worker"
    BY <1>2, <2>1 DEF Gate, WorkerPC, TermPC
  <2>3. NoBatch(retained, r) /\ Kind[r] # "plain"
    BY <2>1 DEF OrderInv, SendsFirst
  <2>4. CASE Len(primary) < PrimaryCap
    <3>1. /\ primary' = Append(primary, Event(r, sent[r] + 1))
          /\ sent' = [sent EXCEPT ![r] = sent[r] + 1]
          /\ worker' = [worker EXCEPT ![r] = "run"]
      BY <1>7, <2>4 DEF BatchSend
    <3> QED
      BY <2>1, <2>2, <2>3, <3>1, OrderBatches
  <2>5. CASE ~(Len(primary) < PrimaryCap)
    <3> DEFINE pc == IF Kind[r] = "navigation" THEN "claim" ELSE "batchSpill"
    <3>1. worker' = [worker EXCEPT ![r] = pc] /\ UNCHANGED <<primary, sent>>
      BY <1>7, <2>5 DEF BatchSend
    <3>2. /\ pc \in {"claim", "batchSpill"}
          /\ pc = "batchSpill" => Kind[r] # "navigation"
      OBVIOUS
    <3> HIDE DEF pc
    <3> QED
      BY <1>3, <2>1, <2>3, <3>1, <3>2
  <2> QED
    BY <2>4, <2>5
<1>8. CASE BatchSpill(r)
  <2>1. /\ worker[r] = "batchSpill" /\ RetainBatch(r) /\ UNCHANGED <<primary, claimed>>
        /\ sent[r] < MaxBatches
    BY <1>8 DEF BatchSpill, TypeInv
  <2>2. claimed[r] # "worker" /\ Kind[r] \notin {"plain", "navigation"}
    BY <1>2, <2>1 DEF Gate, WorkerPC, TermPC, OrderInv, SendsFirst
  <2> QED
    BY <1>5, <2>1, <2>2
<1>9. CASE JobEnds(r) \/ TailEnds(r)
  <2>1. \E pc \in {"claim", "done"} : worker' = [worker EXCEPT ![r] = pc]
    BY <1>9 DEF JobEnds, TailEnds
  <2>2. UNCHANGED <<primary, retained, sent, claimed>>
    BY <1>9 DEF JobEnds, TailEnds
  <2> QED
    BY <1>3, <2>1, <2>2
<1>10. CASE ColumnFails(r)
  <2>1. /\ claimed[r] = "none" /\ worker' = [worker EXCEPT ![r] = "done"]
        /\ claimed' = [claimed EXCEPT ![r] = "worker"]
        /\ UNCHANGED <<primary, retained, sent>>
    BY <1>10 DEF ColumnFails
  <2>2. \A q \in Requests : SendsFirst(q)'
    BY <2>1, SendsFirstMoves
  <2>3. /\ \A i \in 1..Len(primary) : primary[i] # Event(r, 0)
        /\ \A i \in 1..Len(retained) : retained[i] # Event(r, 0)
    BY <2>1, NoneQueued
  <2> QED
    BY <1>1, <2>1, <2>2, <2>3, OrderClaims
<1>11. CASE TailPanics(r)
  <2>1. /\ worker' = [worker EXCEPT ![r] = "termCheck"]
        /\ claimed' = [claimed EXCEPT ![r] = "panic"]
        /\ UNCHANGED <<primary, retained, sent>>
    BY <1>11 DEF TailPanics
  <2>2. \A q \in Requests : SendsFirst(q)'
    BY <2>1, SendsFirstMoves
  <2> QED
    BY <1>1, <2>1, <2>2, OrderClaims
<1> QED
  BY <1>4, <1>6, <1>7, <1>8, <1>9, <1>10, <1>11 DEF Work

\* The steps of either thread that publish a terminal.
LEMMA OrderPublish ==
    ASSUME TypeInv, Gated, OrderInv, NEW r \in Requests, NEW who \in {"worker", "deadline"},
           Publish(r, who)
    PROVE  OrderInv'
<1>1. claimed \in [Requests -> {"none", "worker", "deadline", "panic"}]
  BY DEF TypeInv, TypeOK
<1>2. Gate(r)
  BY DEF Gated
<1>3. ASSUME NEW pc, Goto(r, who, pc), UNCHANGED retained,
             pc \notin {"batchSend", "batchSpill"},
             who = "worker" /\ pc = "termSend" => NoBatch(retained, r)
      PROVE  \A q \in Requests : SendsFirst(q)'
  <2>1. CASE who = "worker"
    <3>1. worker' = [worker EXCEPT ![r] = pc]
      BY <1>3, <2>1 DEF Goto
    <3> QED
      BY <1>3, <2>1, <3>1, SendsFirstMoves
  <2>2. CASE who = "deadline"
    <3>1. worker' = worker
      BY <1>3, <2>2 DEF Goto
    <3> QED
      BY <1>3, <3>1 DEF OrderInv, SendsFirst
  <2> QED
    BY <2>1, <2>2
<1>4. ASSUME NEW pc, Goto(r, who, pc), pc \notin {"batchSend", "batchSpill"},
             who = "worker" /\ pc = "termSend" => NoBatch(retained, r),
             UNCHANGED <<primary, retained, sent, claimed>>
      PROVE  OrderInv'
  BY <1>3, <1>4, OrderMoves
<1>5. AfterTerminal(r) \in {"tail", "done"}
  BY DEF AfterTerminal
<1>6. ASSUME Goto(r, who, AfterTerminal(r)), NEW q \in Requests
      PROVE  worker'[q] = worker[q] \/ worker'[q] \in {"tail", "done"}
  BY <1>5, <1>6 DEF Goto, TypeInv, TypeOK
<1>7. ASSUME RetainTerminal(r), Goto(r, who, AfterTerminal(r)), UNCHANGED <<primary, sent, claimed>>
      PROVE  OrderInv'
  <2>1. CASE retained' = retained
    BY <1>4, <1>5, <1>7, <2>1
  <2>2. CASE retained' = Append(retained, Event(r, 0))
    BY <1>6, <1>7, <2>2, OrderTerminals
  <2> QED
    BY <1>7, <2>1, <2>2 DEF RetainTerminal
<1>8. CASE Claim(r, who)
  <2>1. UNCHANGED <<primary, retained, sent>>
    BY <1>8 DEF Claim
  <2>2. CASE claimed[r] # "none"
    BY <1>4, <1>8, <2>1, <2>2 DEF Claim
  <2>3. CASE claimed[r] = "none"
    <3>1. Goto(r, who, "termCheck") /\ claimed' = [claimed EXCEPT ![r] = who]
      BY <1>8, <2>3 DEF Claim
    <3>2. \A q \in Requests : SendsFirst(q)'
      BY <1>3, <2>1, <3>1
    <3>3. /\ \A i \in 1..Len(primary) : primary[i] # Event(r, 0)
          /\ \A i \in 1..Len(retained) : retained[i] # Event(r, 0)
      BY <2>3, NoneQueued
    <3> QED
      BY <1>1, <2>1, <3>1, <3>2, <3>3, OrderClaims
  <2> QED
    BY <2>2, <2>3
<1>9. CASE TermCheck(r, who)
  <2>1. UNCHANGED <<primary, sent, claimed>>
    BY <1>9 DEF TermCheck
  <2>2. CASE Ordered /\ retained # <<>>
    BY <1>7, <1>9, <2>1, <2>2 DEF TermCheck
  <2>3. CASE ~(Ordered /\ retained # <<>>)
    <3>1. Goto(r, who, "termSend") /\ UNCHANGED retained
      BY <1>9, <2>3 DEF TermCheck
    <3>2. NoBatch(retained, r)
      <4>1. CASE ~Ordered
        <5>1. Kind[r] = "plain"
          BY <4>1, LaneAssumption
        <5> QED
          BY <5>1 DEF OrderInv, SendsFirst
      <4>2. CASE retained = <<>>
        BY <4>2 DEF NoBatch
      <4> QED
        BY <2>3, <4>1, <4>2
    <3> QED
      BY <1>4, <2>1, <3>1, <3>2
  <2> QED
    BY <2>2, <2>3
<1>10. CASE TermSend(r, who)
  <2>1. At(r, who, "termSend") /\ UNCHANGED <<retained, sent, claimed>>
    BY <1>10 DEF TermSend
  <2>2. NoBatch(retained, r) \/ claimed[r] # "worker"
    <3>1. CASE who = "worker"
      BY <2>1, <3>1 DEF At, OrderInv, SendsFirst
    <3>2. CASE who = "deadline"
      BY <1>2, <2>1, <3>2 DEF At, Gate, TermPC
    <3> QED
      BY <3>1, <3>2
  <2>3. CASE Len(primary) < PrimaryCap
    <3>1. primary' = Append(primary, Event(r, 0)) /\ Goto(r, who, AfterTerminal(r))
      BY <1>10, <2>3 DEF TermSend
    <3> QED
      BY <1>6, <2>1, <2>2, <3>1, OrderTerminals
  <2>4. CASE ~(Len(primary) < PrimaryCap)
    BY <1>4, <1>10, <2>1, <2>4 DEF TermSend
  <2> QED
    BY <2>3, <2>4
<1>11. CASE TermSpill(r, who)
  BY <1>7, <1>11 DEF TermSpill
<1> QED
  BY <1>8, <1>9, <1>10, <1>11 DEF Publish

\* Every step of every lane keeps the order.
LEMMA OrderInvNext ==
    ASSUME TypeInv, Gated, OrderInv, [Next]_vars PROVE OrderInv'
<1>1. CASE UNCHANGED vars
  <2>1. UNCHANGED <<primary, retained, sent, claimed, worker>>
    BY <1>1 DEF vars
  <2> QED
    BY <2>1 DEF OrderInv, SendsFirst
<1>2. ASSUME NEW r \in Requests, Submit(r) PROVE OrderInv'
  <2>1. worker' = [worker EXCEPT ![r] = "queued"] /\ UNCHANGED <<primary, retained, sent, claimed>>
    BY <1>2 DEF Submit
  <2> QED
    BY <2>1, SendsFirstMoves, OrderMoves
<1>3. ASSUME NEW r \in Requests, Deadline(r) PROVE OrderInv'
  <2>1. UNCHANGED <<primary, retained, sent, claimed, worker>>
    BY <1>3 DEF Deadline, DeadlineElapses, DeadlineStandsDown
  <2> QED
    BY <2>1 DEF OrderInv, SendsFirst
<1> QED
  BY <1>1, <1>2, <1>3, OrderWork, OrderPublish, OrderReceives DEF Next

\* The order holds in every reachable state.
LEMMA OrderHolds == Spec => [](TypeInv /\ OrderInv)
<1> DEFINE Inv == TypeInv /\ Gated /\ OrderInv
<1>1. Init => Inv
  <2> SUFFICES ASSUME Init PROVE OrderInv
    BY GatedInit
  <2>1. primary = <<>> /\ retained = <<>>
    BY DEF Init
  <2>2. \A r \in Requests : SendsFirst(r)
    BY <2>1 DEF Init, SendsFirst, NoBatch
  <2> QED
    BY <2>1, <2>2 DEF OrderInv, Stands, Across, Within
<1>2. Inv /\ [Next]_vars => Inv'
  BY TypeInvNext, GatedNext, OrderInvNext
<1> QED
  BY <1>1, <1>2, PTL DEF Spec

\* In every lane, with any mix of jobs and any capacities, the batches of a
\* request stand in publication order across the two queues: the checks under
\* the retained mutex and the sends outside it never let a later batch overtake
\* an earlier one.
THEOREM BatchesKeepOrder == Spec => []QueueOrder
<1>1. TypeInv /\ OrderInv => QueueOrder
  BY OrderInvSuffices
<1> QED
  BY <1>1, OrderHolds, PTL

\* In every lane a terminal that the worker published stands behind all of its
\* batches that are still queued.
THEOREM TerminalComesLast == Spec => []TerminalBehindBatches
<1>1. TypeInv /\ OrderInv => TerminalBehindBatches
  BY OrderInvSuffices
<1> QED
  BY <1>1, OrderHolds, PTL

=============================================================================
