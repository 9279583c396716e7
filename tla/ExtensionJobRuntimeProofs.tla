--------------------- MODULE ExtensionJobRuntimeProofs ---------------------
(* Theorems about one lock section of the job registry: what each operation  *)
(* does to the jobs, and that it keeps the invariant RegistryInv.  The host  *)
(* (ExtensionHostProofs) composes them.                                      *)
EXTENDS ExtensionJobRuntime, FiniteSetTheorems, TLAPS

-----------------------------------------------------------------------------
(* Types                                                                     *)

JobRecords ==
    [open : BOOLEAN, f : Features, e : Epochs, gen : Gens, control : Controls,
     terminal : Terminals \cup {"none"}, final : {"idle", "pending", "authorized"},
     active : BOOLEAN, fresh : BOOLEAN, next : Nat, queue : Seq(Nat)]

\* What an operation leaves alone of a job.
SameKey(k) == job'[k].f = job[k].f /\ job'[k].e = job[k].e
SameScope(k) == (job'[k].open <=> job[k].open) /\ (job'[k].active <=> job[k].active)
SameState(k) ==
    /\ job'[k].control = job[k].control /\ job'[k].terminal = job[k].terminal
    /\ job'[k].final = job[k].final
SameView(k) == job'[k].gen = job[k].gen /\ (job'[k].fresh <=> job[k].fresh)
SameQueue(k) == job'[k].queue = job[k].queue /\ job'[k].next = job[k].next

SameJobsBut(j) == \A k \in Jobs : k # j => job'[k] = job[k]

-----------------------------------------------------------------------------
(* What each operation does to the jobs                                      *)

\* The constants are sets, at least one feature and one epoch exist.
LEMMA ConstantTypes ==
    /\ IsFiniteSet(Jobs) /\ Features # {}
    /\ MaxQueue \in Nat /\ MaxRows \in Nat /\ MaxActive \in Nat /\ ReadyCap \in Nat
    /\ 1 \in Epochs /\ 1 \in Gens
  BY RuntimeAssumption DEF Epochs, Gens

\* Opening a job opens it and nothing else.
LEMMA OpenedJob ==
    ASSUME job \in [Jobs -> JobRecords], NEW j \in Jobs, OpenJob(j)
    PROVE  /\ job' \in [Jobs -> JobRecords] /\ SameJobsBut(j)
           /\ SameKey(j) /\ SameState(j) /\ SameView(j) /\ SameQueue(j)
           /\ (job'[j].active <=> job[j].active) /\ job'[j].open
           /\ OpenAllowed(j)
<1> DEFINE old == job[j]
           new == [old EXCEPT !.open = TRUE]
<1>1. job' = [job EXCEPT ![j] = new]
  BY DEF OpenJob
<1>2. /\ OpenAllowed(j)
  BY DEF OpenJob
<1>3. old \in JobRecords
  OBVIOUS
<1>4. old = job[j]
  OBVIOUS
<1> HIDE DEF old
<1>5. new \in JobRecords
  BY <1>3 DEF JobRecords
<1>6. /\ new.f = old.f /\ new.e = old.e /\ (new.active <=> old.active)
      /\ new.control = old.control /\ new.terminal = old.terminal
      /\ new.final = old.final /\ new.gen = old.gen
      /\ (new.fresh <=> old.fresh) /\ new.queue = old.queue
      /\ new.next = old.next /\ new.open
  BY <1>3 DEF JobRecords
<1> HIDE DEF new
<1>7. job'[j] = new /\ job' \in [Jobs -> JobRecords] /\ SameJobsBut(j)
  BY <1>1, <1>5 DEF SameJobsBut
<1> QED
  BY <1>2, <1>4, <1>6, <1>7
  DEF SameKey, SameState, SameView, SameQueue

\* Entering plugin code.
LEMMA EnteredJob ==
    ASSUME job \in [Jobs -> JobRecords], NEW j \in Jobs, EnterScope(j)
    PROVE  /\ job' \in [Jobs -> JobRecords] /\ SameJobsBut(j)
           /\ SameKey(j) /\ SameView(j) /\ SameQueue(j)
           /\ (job'[j].open <=> job[j].open)
           /\ job'[j].control = job[j].control
           /\ job'[j].terminal = job[j].terminal /\ job'[j].active
           /\ job'[j].final = "pending" /\ EnterAllowed(j)
<1> DEFINE old == job[j]
           new == [old EXCEPT !.active = TRUE, !.final = "pending"]
<1>1. job' = [job EXCEPT ![j] = new]
  BY DEF EnterScope
<1>2. /\ EnterAllowed(j)
  BY DEF EnterScope
<1>3. old \in JobRecords
  OBVIOUS
<1>4. old = job[j]
  OBVIOUS
<1> HIDE DEF old
<1>5. new \in JobRecords
  BY <1>3 DEF JobRecords
<1>6. /\ new.f = old.f /\ new.e = old.e /\ (new.open <=> old.open)
      /\ new.control = old.control /\ new.terminal = old.terminal
      /\ new.gen = old.gen /\ (new.fresh <=> old.fresh)
      /\ new.queue = old.queue /\ new.next = old.next /\ new.active
      /\ new.final = "pending"
  BY <1>3 DEF JobRecords
<1> HIDE DEF new
<1>7. job'[j] = new /\ job' \in [Jobs -> JobRecords] /\ SameJobsBut(j)
  BY <1>1, <1>5 DEF SameJobsBut
<1> QED
  BY <1>2, <1>4, <1>6, <1>7
  DEF SameKey, SameView, SameQueue

\* Leaving plugin code.
LEMMA LeftJob ==
    ASSUME job \in [Jobs -> JobRecords], NEW j \in Jobs, LeaveScope(j)
    PROVE  /\ job' \in [Jobs -> JobRecords] /\ SameJobsBut(j)
           /\ SameKey(j) /\ SameState(j) /\ SameView(j) /\ SameQueue(j)
           /\ (job'[j].open <=> job[j].open) /\ ~job'[j].active
           /\ job[j].active
<1> DEFINE old == job[j]
           new == [old EXCEPT !.active = FALSE]
<1>1. job' = [job EXCEPT ![j] = new]
  BY DEF LeaveScope
<1>2. /\ job[j].active
  BY DEF LeaveScope
<1>3. old \in JobRecords
  OBVIOUS
<1>4. old = job[j]
  OBVIOUS
<1> HIDE DEF old
<1>5. new \in JobRecords
  BY <1>3 DEF JobRecords
<1>6. /\ new.f = old.f /\ new.e = old.e /\ (new.open <=> old.open)
      /\ new.control = old.control /\ new.terminal = old.terminal
      /\ new.final = old.final /\ new.gen = old.gen
      /\ (new.fresh <=> old.fresh) /\ new.queue = old.queue
      /\ new.next = old.next /\ ~new.active
  BY <1>3 DEF JobRecords
<1> HIDE DEF new
<1>7. job'[j] = new /\ job' \in [Jobs -> JobRecords] /\ SameJobsBut(j)
  BY <1>1, <1>5 DEF SameJobsBut
<1> QED
  BY <1>2, <1>4, <1>6, <1>7
  DEF SameKey, SameState, SameView, SameQueue

\* A batch is appended to the queue of a job that runs.
LEMMA SubmittedJob ==
    ASSUME job \in [Jobs -> JobRecords], NEW j \in Jobs, Submit(j)
    PROVE  /\ job' \in [Jobs -> JobRecords] /\ SameJobsBut(j)
           /\ SameKey(j) /\ SameScope(j) /\ SameState(j) /\ SameView(j)
           /\ job'[j].queue = Append(job[j].queue, job[j].next)
           /\ job'[j].next = job[j].next + 1 /\ Submitting(j)
<1> DEFINE old == job[j]
           q == Append(old.queue, old.next)
           m == old.next + 1
           new == [old EXCEPT !.queue = q, !.next = m]
<1>1. job' = [job EXCEPT ![j] = new]
  BY DEF Submit
<1>2. /\ Submitting(j)
  BY DEF Submit
<1>3. old \in JobRecords
  OBVIOUS
<1>4. old = job[j]
  OBVIOUS
<1> HIDE DEF old
<1>8. old.queue \in Seq(Nat) /\ old.next \in Nat
  BY <1>3 DEF JobRecords
<1>9. q \in Seq(Nat) /\ m \in Nat
  BY <1>8
<1>10. q = Append(old.queue, old.next) /\ m = old.next + 1
  OBVIOUS
<1> HIDE DEF q, m
<1>5. new \in JobRecords
  BY <1>3, <1>9 DEF JobRecords
<1>6. /\ new.f = old.f /\ new.e = old.e /\ (new.open <=> old.open)
      /\ (new.active <=> old.active) /\ new.control = old.control
      /\ new.terminal = old.terminal /\ new.final = old.final
      /\ new.gen = old.gen /\ (new.fresh <=> old.fresh) /\ new.queue = q
      /\ new.next = m
  BY <1>3, <1>9 DEF JobRecords
<1> HIDE DEF new
<1>7. job'[j] = new /\ job' \in [Jobs -> JobRecords] /\ SameJobsBut(j)
  BY <1>1, <1>5 DEF SameJobsBut
<1> QED
  BY <1>2, <1>4, <1>6, <1>7, <1>10
  DEF SameKey, SameScope, SameState, SameView

\* A control request reaches a job without a terminal.
LEMMA ControlledJob ==
    ASSUME job \in [Jobs -> JobRecords], NEW j \in Jobs, NEW c \in Controls, RequestControl(j, c)
    PROVE  /\ job' \in [Jobs -> JobRecords] /\ SameJobsBut(j)
           /\ SameKey(j) /\ SameScope(j) /\ SameView(j) /\ SameQueue(j)
           /\ job'[j].terminal = job[j].terminal
           /\ job'[j].final = job[j].final /\ job'[j].control = c
           /\ job[j].open /\ job[j].terminal = "none"
<1> DEFINE old == job[j]
           new == [old EXCEPT !.control = c]
<1>1. job' = [job EXCEPT ![j] = new]
  BY DEF RequestControl
<1>2. /\ job[j].open /\ job[j].terminal = "none"
  BY DEF RequestControl
<1>3. old \in JobRecords
  OBVIOUS
<1>4. old = job[j]
  OBVIOUS
<1> HIDE DEF old
<1>5. new \in JobRecords
  BY <1>3 DEF JobRecords
<1>6. /\ new.f = old.f /\ new.e = old.e /\ (new.open <=> old.open)
      /\ (new.active <=> old.active) /\ new.terminal = old.terminal
      /\ new.final = old.final /\ new.gen = old.gen
      /\ (new.fresh <=> old.fresh) /\ new.queue = old.queue
      /\ new.next = old.next /\ new.control = c
  BY <1>3 DEF JobRecords
<1> HIDE DEF new
<1>7. job'[j] = new /\ job' \in [Jobs -> JobRecords] /\ SameJobsBut(j)
  BY <1>1, <1>5 DEF SameJobsBut
<1> QED
  BY <1>2, <1>4, <1>6, <1>7
  DEF SameKey, SameScope, SameView, SameQueue

\* The host's view of a job moves on.
LEMMA AdvancedJob ==
    ASSUME job \in [Jobs -> JobRecords], NEW j \in Jobs, AdvanceGeneration(j)
    PROVE  /\ job' \in [Jobs -> JobRecords] /\ SameJobsBut(j)
           /\ SameKey(j) /\ SameScope(j) /\ SameQueue(j)
           /\ job'[j].terminal = job[j].terminal
           /\ job'[j].final = job[j].final /\ job'[j].gen = job[j].gen + 1
           /\ job'[j].fresh
           /\ job'[j].control = IF job[j].terminal = "none" /\ job[j].control = "active"
              THEN "cancelled" ELSE job[j].control
           /\ job[j].open
<1> DEFINE old == job[j]
           new == [old EXCEPT !.gen = old.gen + 1, !.fresh = TRUE,
                             !.control = IF old.terminal = "none" /\ old.control = "active"
                                        THEN "cancelled" ELSE old.control]
<1>1. job' = [job EXCEPT ![j] = new]
  BY DEF AdvanceGeneration
<1>2. /\ job[j].open
  BY DEF AdvanceGeneration
<1>3. old \in JobRecords
  OBVIOUS
<1>4. old = job[j]
  OBVIOUS
<1> HIDE DEF old
<1>8. old.gen + 1 \in Gens
  BY <1>3, <1>4, RuntimeAssumption DEF AdvanceGeneration, JobRecords, Gens
<1>5. new \in JobRecords
  BY <1>3, <1>8 DEF JobRecords, Controls
<1>6. /\ new.f = old.f /\ new.e = old.e /\ (new.open <=> old.open)
      /\ (new.active <=> old.active) /\ new.terminal = old.terminal
      /\ new.final = old.final /\ new.queue = old.queue /\ new.next = old.next
      /\ new.gen = old.gen + 1 /\ new.fresh
      /\ new.control = IF old.terminal = "none" /\ old.control = "active"
                                        THEN "cancelled" ELSE old.control
  BY <1>3, <1>8 DEF JobRecords, Controls
<1> HIDE DEF new
<1>7. job'[j] = new /\ job' \in [Jobs -> JobRecords] /\ SameJobsBut(j)
  BY <1>1, <1>5 DEF SameJobsBut
<1> QED
  BY <1>2, <1>4, <1>6, <1>7
  DEF SameKey, SameScope, SameQueue

\* The file a job reads is replaced.
LEMMA ReplacedJob ==
    ASSUME job \in [Jobs -> JobRecords], NEW j \in Jobs, ReplaceSource(j)
    PROVE  /\ job' \in [Jobs -> JobRecords] /\ SameJobsBut(j)
           /\ SameKey(j) /\ SameScope(j) /\ SameState(j) /\ SameQueue(j)
           /\ job'[j].gen = job[j].gen /\ ~job'[j].fresh /\ job[j].fresh
<1> DEFINE old == job[j]
           new == [old EXCEPT !.fresh = FALSE]
<1>1. job' = [job EXCEPT ![j] = new]
  BY DEF ReplaceSource
<1>2. /\ job[j].fresh
  BY DEF ReplaceSource
<1>3. old \in JobRecords
  OBVIOUS
<1>4. old = job[j]
  OBVIOUS
<1> HIDE DEF old
<1>5. new \in JobRecords
  BY <1>3 DEF JobRecords
<1>6. /\ new.f = old.f /\ new.e = old.e /\ (new.open <=> old.open)
      /\ (new.active <=> old.active) /\ new.control = old.control
      /\ new.terminal = old.terminal /\ new.final = old.final
      /\ new.gen = old.gen /\ new.queue = old.queue /\ new.next = old.next
      /\ ~new.fresh
  BY <1>3 DEF JobRecords
<1> HIDE DEF new
<1>7. job'[j] = new /\ job' \in [Jobs -> JobRecords] /\ SameJobsBut(j)
  BY <1>1, <1>5 DEF SameJobsBut
<1> QED
  BY <1>2, <1>4, <1>6, <1>7
  DEF SameKey, SameScope, SameState, SameQueue

\* A finished job is allowed to retire.
LEMMA AuthorizedJob ==
    ASSUME job \in [Jobs -> JobRecords], NEW j \in Jobs, AuthorizeRetirement(j)
    PROVE  /\ job' \in [Jobs -> JobRecords] /\ SameJobsBut(j)
           /\ SameKey(j) /\ SameScope(j) /\ SameView(j) /\ SameQueue(j)
           /\ job'[j].control = job[j].control
           /\ job'[j].terminal = job[j].terminal
           /\ job'[j].final = "authorized" /\ job[j].open
           /\ job[j].terminal # "none"
<1> DEFINE old == job[j]
           new == [old EXCEPT !.final = "authorized"]
<1>1. job' = [job EXCEPT ![j] = new]
  BY DEF AuthorizeRetirement
<1>2. /\ job[j].open /\ job[j].terminal # "none"
  BY DEF AuthorizeRetirement
<1>3. old \in JobRecords
  OBVIOUS
<1>4. old = job[j]
  OBVIOUS
<1> HIDE DEF old
<1>5. new \in JobRecords
  BY <1>3 DEF JobRecords
<1>6. /\ new.f = old.f /\ new.e = old.e /\ (new.open <=> old.open)
      /\ (new.active <=> old.active) /\ new.control = old.control
      /\ new.terminal = old.terminal /\ new.gen = old.gen
      /\ (new.fresh <=> old.fresh) /\ new.queue = old.queue
      /\ new.next = old.next /\ new.final = "authorized"
  BY <1>3 DEF JobRecords
<1> HIDE DEF new
<1>7. job'[j] = new /\ job' \in [Jobs -> JobRecords] /\ SameJobsBut(j)
  BY <1>1, <1>5 DEF SameJobsBut
<1> QED
  BY <1>2, <1>4, <1>6, <1>7
  DEF SameKey, SameScope, SameView, SameQueue

\* The queue of a job is emptied.
LEMMA PurgedJob ==
    ASSUME job \in [Jobs -> JobRecords], NEW j \in Jobs, Purge(j)
    PROVE  /\ job' \in [Jobs -> JobRecords] /\ SameJobsBut(j)
           /\ SameKey(j) /\ SameScope(j) /\ SameState(j) /\ SameView(j)
           /\ job'[j].next = job[j].next /\ job'[j].queue = <<>>
           /\ job[j].open
<1> DEFINE old == job[j]
           q == <<>>
           new == [old EXCEPT !.queue = q]
<1>1. job' = [job EXCEPT ![j] = new]
  BY DEF Purge
<1>2. /\ job[j].open
  BY DEF Purge
<1>3. old \in JobRecords
  OBVIOUS
<1>4. old = job[j]
  OBVIOUS
<1> HIDE DEF old
<1>9. q \in Seq(Nat) /\ q = <<>>
  OBVIOUS
<1> HIDE DEF q
<1>5. new \in JobRecords
  BY <1>3, <1>9 DEF JobRecords
<1>6. /\ new.f = old.f /\ new.e = old.e /\ (new.open <=> old.open)
      /\ (new.active <=> old.active) /\ new.control = old.control
      /\ new.terminal = old.terminal /\ new.final = old.final
      /\ new.gen = old.gen /\ (new.fresh <=> old.fresh) /\ new.next = old.next
      /\ new.queue = q
  BY <1>3, <1>9 DEF JobRecords
<1> HIDE DEF new
<1>7. job'[j] = new /\ job' \in [Jobs -> JobRecords] /\ SameJobsBut(j)
  BY <1>1, <1>5 DEF SameJobsBut
<1> QED
  BY <1>2, <1>4, <1>6, <1>7, <1>9
  DEF SameKey, SameScope, SameState, SameView

\* Finishing a job settles its terminal once.
LEMMA FinishedJob ==
    ASSUME job \in [Jobs -> JobRecords], NEW j \in Jobs,
           NEW reported \in {"completed", "panicked"}, FinishJob(j, reported)
    PROVE  /\ job' \in [Jobs -> JobRecords] /\ SameJobsBut(j)
           /\ SameKey(j) /\ SameScope(j) /\ SameView(j) /\ SameQueue(j)
           /\ job'[j].final = job[j].final /\ job[j].open /\ job'[j].terminal # "none"
           /\ job[j].terminal # "none" => SameState(j)
           /\ job'[j].terminal = "completed" =>
                 \/ job[j].terminal = "completed"
                 \/ job[j].terminal = "none" /\ job[j].control = "active" /\ job[j].fresh
<1> DEFINE old == job[j]
           t == Precedence(old, reported)
           new == [old EXCEPT !.terminal = t, !.control = "closed"]
<1>1. old \in JobRecords /\ job[j].open
  BY DEF FinishJob
<1>2. /\ t \in Terminals
      /\ t = "completed" => old.control = "active" /\ old.fresh
  BY DEF Precedence, Terminals
<1>3. \/ old.terminal # "none" /\ job' = job
      \/ old.terminal = "none" /\ job' = [job EXCEPT ![j] = new]
  BY DEF FinishJob
<1>4. old = job[j]
  OBVIOUS
<1>5. CASE old.terminal # "none" /\ job' = job
  BY <1>1, <1>5 DEF SameJobsBut, SameKey, SameScope, SameState, SameView, SameQueue
<1>6. CASE old.terminal = "none" /\ job' = [job EXCEPT ![j] = new]
  <2> HIDE DEF old, t
  <2>1. new \in JobRecords
    BY <1>1, <1>2 DEF JobRecords, Controls
  <2>2. /\ new.f = old.f /\ new.e = old.e /\ (new.open <=> old.open)
        /\ (new.active <=> old.active) /\ new.terminal = t /\ new.final = old.final
        /\ new.gen = old.gen /\ (new.fresh <=> old.fresh) /\ new.queue = old.queue
        /\ new.next = old.next
    BY <1>1, <1>2 DEF JobRecords
  <2> HIDE DEF new
  <2>3. job'[j] = new /\ job' \in [Jobs -> JobRecords] /\ SameJobsBut(j)
    BY <1>6, <2>1 DEF SameJobsBut
  <2>4. t # "none"
    BY <1>2 DEF Terminals
  <2> QED
    BY <1>1, <1>2, <1>4, <1>6, <2>2, <2>3, <2>4
    DEF SameKey, SameScope, SameView, SameQueue
<1> QED
  BY <1>3, <1>5, <1>6

\* A retired job leaves nothing behind but its identity.
LEMMA RetiredJob ==
    ASSUME job \in [Jobs -> JobRecords], NEW j \in Jobs, Retire(j)
    PROVE  /\ job' \in [Jobs -> JobRecords] /\ SameJobsBut(j)
           /\ SameKey(j) /\ SameView(j) /\ Retirable(j)
           /\ ~job'[j].open /\ ~job'[j].active /\ job'[j].terminal = "none"
           /\ job'[j].queue = <<>>
<1> DEFINE old == job[j]
           empty == NoJob(old.f)
           new == [empty EXCEPT !.e = old.e, !.gen = old.gen, !.fresh = old.fresh]
<1>1. job' = [job EXCEPT ![j] = new] /\ Retirable(j)
  BY DEF Retire
<1>2. old \in JobRecords /\ old = job[j]
  OBVIOUS
<1> HIDE DEF old
<1>3. /\ empty \in JobRecords /\ empty.f = old.f /\ ~empty.open /\ ~empty.active
      /\ empty.terminal = "none" /\ empty.queue = <<>>
  BY <1>2, ConstantTypes DEF NoJob, JobRecords, Controls
<1> HIDE DEF empty
<1>4. new \in JobRecords
  BY <1>2, <1>3 DEF JobRecords
<1>5. /\ new.f = old.f /\ new.e = old.e /\ new.gen = old.gen
      /\ (new.fresh <=> old.fresh) /\ ~new.open /\ ~new.active
      /\ new.terminal = "none" /\ new.queue = <<>>
  BY <1>2, <1>3 DEF JobRecords
<1> HIDE DEF new
<1>6. job'[j] = new /\ job' \in [Jobs -> JobRecords] /\ SameJobsBut(j)
  BY <1>1, <1>4 DEF SameJobsBut
<1> QED
  BY <1>1, <1>2, <1>5, <1>6 DEF SameKey, SameView

\* Draining takes batches off the front of a queue.
LEMMA DrainedJob ==
    ASSUME job \in [Jobs -> JobRecords], NEW s \in Tokens, Drain(s)
    PROVE  /\ s[1] \in Jobs
           /\ job' \in [Jobs -> JobRecords] /\ SameJobsBut(s[1])
           /\ SameKey(s[1]) /\ SameScope(s[1]) /\ SameState(s[1]) /\ SameView(s[1])
           /\ job[s[1]].open
           /\ queuedCount' = queuedCount - (Len(job[s[1]].queue) - Len(job'[s[1]].queue))
           /\ Len(job'[s[1]].queue) <= Len(job[s[1]].queue)
<1> DEFINE j == s[1]
           old == job[j]
           n == IF Key(j) \in revoked THEN Len(old.queue)
                ELSE IF old.queue = <<>> THEN 0 ELSE 1
           rest == SubSeq(old.queue, n + 1, Len(old.queue))
           new == [old EXCEPT !.queue = rest]
<1>1. j \in Jobs /\ j = s[1]
  BY DEF Tokens
<1>2. old \in JobRecords /\ old = job[j]
  BY <1>1
<1>3. job' = [job EXCEPT ![j] = new] /\ job[j].open /\ queuedCount' = queuedCount - n
  BY DEF Drain
<1>4. old.queue \in Seq(Nat)
  BY <1>2 DEF JobRecords
<1>5. n \in 0..Len(old.queue)
  BY <1>4
<1> HIDE DEF j, old, n
<1>6. rest \in Seq(Nat) /\ Len(rest) = Len(old.queue) - n
  BY <1>4, <1>5
<1> HIDE DEF rest
<1>7. new \in JobRecords
  BY <1>2, <1>6 DEF JobRecords
<1>8. /\ new.f = old.f /\ new.e = old.e /\ (new.open <=> old.open)
      /\ (new.active <=> old.active) /\ new.control = old.control
      /\ new.terminal = old.terminal /\ new.final = old.final /\ new.gen = old.gen
      /\ (new.fresh <=> old.fresh) /\ new.queue = rest
  BY <1>2, <1>6 DEF JobRecords
<1> HIDE DEF new
<1>9. job'[j] = new /\ job' \in [Jobs -> JobRecords] /\ SameJobsBut(j)
  BY <1>1, <1>3, <1>7 DEF SameJobsBut
<1>10. Len(old.queue) - Len(rest) = n /\ Len(rest) <= Len(old.queue)
  BY <1>4, <1>5, <1>6
<1> QED
  BY <1>1, <1>2, <1>3, <1>8, <1>9, <1>10 DEF SameKey, SameScope, SameState, SameView

\* Revocation closes the open jobs of the revoked generations, and no other.
Hit(K, k) == job[k].open /\ Key(k) \in K

LEMMA RevokedJobs ==
    ASSUME job \in [Jobs -> JobRecords], NEW keys, NEW terminal \in Terminals,
           NEW authorize \in SUBSET Jobs, RevokeGenerations(keys, terminal, authorize)
    PROVE  /\ job' \in [Jobs -> JobRecords]
           /\ \A k \in Jobs :
                 /\ SameKey(k) /\ SameScope(k) /\ SameView(k)
                 /\ Hit(keys \ revoked, k) =>
                       /\ job'[k].terminal = terminal /\ job'[k].control = "closed"
                       /\ job'[k].queue = <<>>
                 /\ ~Hit(keys \ revoked, k) =>
                       /\ job'[k].terminal = job[k].terminal
                       /\ job'[k].control = job[k].control /\ SameQueue(k)
                 /\ job[k].final = "authorized" => job'[k].final = "authorized"
<1> DEFINE K == keys \ revoked
           hit == {j \in Jobs : job[j].open /\ Key(j) \in K}
           closed == [j \in Jobs |-> IF j \in hit THEN ClosedJob(job[j], terminal) ELSE job[j]]
<1>1. job' = [j \in Jobs |-> IF j \in authorize
                             THEN [closed[j] EXCEPT !.final = "authorized"] ELSE closed[j]]
  BY DEF RevokeGenerations
<1>2. ASSUME NEW k \in Jobs
      PROVE  LET c == IF Hit(K, k) THEN ClosedJob(job[k], terminal) ELSE job[k]
             IN  closed[k] = c
  BY DEF Hit
<1> HIDE DEF closed, hit
<1>3. ASSUME NEW r \in JobRecords
      PROVE  LET c == ClosedJob(r, terminal)
             IN  /\ c \in JobRecords
                 /\ c.f = r.f /\ c.e = r.e /\ (c.open <=> r.open)
                 /\ (c.active <=> r.active) /\ c.gen = r.gen /\ (c.fresh <=> r.fresh)
                 /\ c.terminal = terminal /\ c.control = "closed" /\ c.queue = <<>>
                 /\ r.final = "authorized" => c.final = "authorized"
  <2> DEFINE q == <<>>
             final == IF ~r.active /\ r.final = "idle" THEN "authorized" ELSE r.final
  <2>1. q \in Seq(Nat) /\ q = <<>>
    OBVIOUS
  <2>2. /\ final \in {"idle", "pending", "authorized"}
        /\ r.final = "authorized" => final = "authorized"
    BY <1>3 DEF JobRecords
  <2>3. ClosedJob(r, terminal) = [r EXCEPT !.terminal = terminal, !.control = "closed",
                                           !.queue = q, !.final = final]
    BY DEF ClosedJob
  <2> HIDE DEF q, final
  <2> DEFINE c == [r EXCEPT !.terminal = terminal, !.control = "closed",
                            !.queue = q, !.final = final]
  <2>4. c \in JobRecords
    BY <1>3, <2>1, <2>2 DEF JobRecords, Controls
  <2>5. /\ c.f = r.f /\ c.e = r.e /\ (c.open <=> r.open) /\ (c.active <=> r.active)
        /\ c.gen = r.gen /\ (c.fresh <=> r.fresh) /\ c.terminal = terminal
        /\ c.control = "closed" /\ c.queue = q /\ c.final = final
    BY <1>3 DEF JobRecords
  <2> HIDE DEF c
  <2>6. ClosedJob(r, terminal) = c
    BY <2>3 DEF c
  <2> QED
    BY <2>1, <2>2, <2>4, <2>5, <2>6
<1>4. ASSUME NEW r \in JobRecords
      PROVE  LET c == [r EXCEPT !.final = "authorized"]
             IN  /\ c \in JobRecords
                 /\ c.f = r.f /\ c.e = r.e /\ (c.open <=> r.open)
                 /\ (c.active <=> r.active) /\ c.gen = r.gen /\ (c.fresh <=> r.fresh)
                 /\ c.terminal = r.terminal /\ c.control = r.control
                 /\ c.queue = r.queue /\ c.next = r.next /\ c.final = "authorized"
  BY <1>4 DEF JobRecords
<1>5. ASSUME NEW k \in Jobs
      PROVE  /\ closed[k] \in JobRecords
             /\ closed[k].f = job[k].f /\ closed[k].e = job[k].e
             /\ (closed[k].open <=> job[k].open) /\ (closed[k].active <=> job[k].active)
             /\ closed[k].gen = job[k].gen /\ (closed[k].fresh <=> job[k].fresh)
             /\ Hit(K, k) => /\ closed[k].terminal = terminal /\ closed[k].control = "closed"
                             /\ closed[k].queue = <<>>
             /\ ~Hit(K, k) => closed[k] = job[k]
             /\ job[k].final = "authorized" => closed[k].final = "authorized"
  <2>1. job[k] \in JobRecords
    OBVIOUS
  <2>2. CASE Hit(K, k)
    <3>1. closed[k] = ClosedJob(job[k], terminal)
      BY <1>2, <2>2
    <3> QED
      BY <1>3, <2>1, <2>2, <3>1
  <2>3. CASE ~Hit(K, k)
    BY <1>2, <2>1, <2>3
  <2> QED
    BY <2>2, <2>3
<1>6. ASSUME NEW k \in Jobs
      PROVE  /\ job'[k] \in JobRecords
             /\ SameKey(k) /\ SameScope(k) /\ SameView(k)
             /\ job'[k].terminal = closed[k].terminal /\ job'[k].control = closed[k].control
             /\ job'[k].queue = closed[k].queue /\ job'[k].next = closed[k].next
             /\ closed[k].final = "authorized" => job'[k].final = "authorized"
  <2>1. CASE k \in authorize
    <3>1. job'[k] = [closed[k] EXCEPT !.final = "authorized"]
      BY <1>1, <2>1
    <3>2. closed[k] \in JobRecords
      BY <1>5
    <3> QED
      BY <1>4, <1>5, <3>1, <3>2 DEF SameKey, SameScope, SameView
  <2>2. CASE k \notin authorize
    <3>1. job'[k] = closed[k]
      BY <1>1, <2>2
    <3> QED
      BY <1>5, <3>1 DEF SameKey, SameScope, SameView
  <2> QED
    BY <2>1, <2>2
<1>7. job' \in [Jobs -> JobRecords]
  BY <1>1, <1>6
<1>8. ASSUME NEW k \in Jobs
      PROVE  /\ Hit(K, k) => /\ job'[k].terminal = terminal /\ job'[k].control = "closed"
                             /\ job'[k].queue = <<>>
             /\ ~Hit(K, k) => /\ job'[k].terminal = job[k].terminal
                              /\ job'[k].control = job[k].control /\ SameQueue(k)
  BY <1>5, <1>6 DEF SameQueue
<1> QED
  BY <1>5, <1>6, <1>7, <1>8

-----------------------------------------------------------------------------
(* The invariant of the registry, its mailbox and the UI                     *)

Batch == [job : Jobs, gen : Gens, seq : Nat]

RegistryTypes ==
    /\ setup \in Setups
    /\ job \in [Jobs -> JobRecords]
    /\ revoked \subseteq Keys /\ tombstones \subseteq Tokens /\ live \subseteq Tokens
    /\ applied \subseteq Jobs \X Nat
    /\ mail \in [ready : SUBSET Tokens, rescan : BOOLEAN, epoch : Nat, closed : BOOLEAN]
    /\ Cardinality(mail.ready) <= ReadyCap
    /\ sending \subseteq Tokens
    /\ ui \in [todo : SUBSET Tokens, seen : Nat, merged : BOOLEAN, held : SUBSET Batch,
               shown : SUBSET Tokens]

\* A handle that is not open has no job behind it.
Dormant ==
    \A k \in Jobs : ~job[k].open =>
       ~job[k].active /\ job[k].terminal = "none" /\ job[k].queue = <<>>

\* The counters count what they stand for.
OpenJobs == {k \in Jobs : job[k].open}

Credits ==
    /\ IsFiniteSet(applied) /\ rowCount = Cardinality(applied) /\ rowCount <= MaxRows
    /\ activeCount = Cardinality(OpenJobs) /\ activeCount <= MaxActive
    /\ IsFiniteSet(QueuedIn(Jobs))
    /\ queuedCount = QueuedOf(Jobs) /\ queuedCount <= MaxQueue

\* Every current value is remembered, so a revocation finds it; it is of its
\* job's present generation, and of no revoked one while it is the first.
Values ==
    /\ live \subseteq tombstones
    /\ \A t \in live : t[2] = job[t[1]].gen /\ (t[2] = 1 => Key(t[1]) \notin revoked)

\* Only open jobs of generations that stand have rows or batches, and the UI
\* was only ever given values of the first generation.
Contents ==
    /\ \A r \in applied : job[r[1]].open /\ Key(r[1]) \notin revoked
    /\ \A k \in Jobs : (job[k].open /\ Key(k) \in revoked) =>
                          job[k].terminal # "none" /\ job[k].queue = <<>>
    /\ \A t \in ui.shown : t[2] = 1
    /\ \A b \in ui.held : b.gen = 1

\* A rescan that is due has a number the UI has not seen, or a job the UI
\* could show is announced on its own.
Pending(k) ==
    job[k].open /\ job[k].queue # <<>> /\ UiCurrent(k) /\ job[k].gen = 1

Told(k) == Token(k) \in mail.ready \cup sending \cup ui.todo
RescanDue == mail.rescan /\ ((ui.seen # 0 /\ ui.merged) => mail.epoch # ui.seen)
RescanTaken == ui.seen # 0 /\ ~ui.merged

Signalled ==
    /\ mail.rescan => mail.epoch # 0
    /\ ui.seen <= mail.epoch
    /\ (setup.mailbox /\ ~mail.closed) =>
       \A k \in Jobs : Pending(k) => Told(k) \/ RescanDue \/ RescanTaken

RegistryInv == RegistryTypes /\ Dormant /\ Credits /\ Values /\ Contents /\ Signalled

-----------------------------------------------------------------------------
(* Counting                                                                  *)

LEMMA QueuedMembers ==
    ASSUME NEW S
    PROVE  \A x : x \in QueuedIn(S) <=>
                  \E k \in S : x \in {k} \X (1..Len(job[k].queue))
  BY DEF QueuedIn

\* The batches of one job are as many as its queue is long.
LEMMA SlotCount ==
    ASSUME NEW k, NEW n \in Nat
    PROVE  IsFiniteSet({k} \X (1..n)) /\ Cardinality({k} \X (1..n)) = n
<1>1. IsFiniteSet({k}) /\ Cardinality({k}) = 1
  BY FS_Singleton
<1>2. IsFiniteSet(1..n) /\ Cardinality(1..n) = n
  BY FS_Interval
<1>3. /\ IsFiniteSet({k} \X (1..n))
      /\ Cardinality({k} \X (1..n)) = Cardinality({k}) * Cardinality(1..n)
  BY <1>1, <1>2, FS_Product
<1> QED
  BY <1>1, <1>2, <1>3

\* Splitting the jobs splits the retained batches.
LEMMA QueuedSplit ==
    ASSUME IsFiniteSet(QueuedIn(Jobs)), NEW S \in SUBSET Jobs
    PROVE  /\ IsFiniteSet(QueuedIn(S)) /\ IsFiniteSet(QueuedIn(Jobs \ S))
           /\ QueuedOf(S) \in Nat /\ QueuedOf(Jobs \ S) \in Nat
           /\ QueuedOf(Jobs) = QueuedOf(S) + QueuedOf(Jobs \ S)
<1> DEFINE A == QueuedIn(S)
           B == QueuedIn(Jobs \ S)
<1>1. QueuedIn(Jobs) = A \cup B
  <2>1. \A x : x \in QueuedIn(Jobs) <=> x \in A \/ x \in B
    BY QueuedMembers
  <2> QED
    BY <2>1
<1>2. A \cap B = {}
  <2>1. \A x : ~(x \in A /\ x \in B)
    BY QueuedMembers
  <2> QED
    BY <2>1
<1>3. QueuedOf(S) = Cardinality(A) /\ QueuedOf(Jobs \ S) = Cardinality(B)
      /\ QueuedOf(Jobs) = Cardinality(A \cup B)
  BY <1>1 DEF QueuedOf
<1> HIDE DEF A, B
<1>4. IsFiniteSet(A) /\ IsFiniteSet(B)
  BY <1>1, FS_Subset
<1>5. Cardinality(A) \in Nat /\ Cardinality(B) \in Nat
  BY <1>4, FS_CardinalityType
<1>6. Cardinality(A \cup B) = Cardinality(A) + Cardinality(B) - Cardinality(A \cap B)
  BY <1>4, FS_Union
<1>7. Cardinality(A \cap B) = 0
  BY <1>2, FS_EmptySet
<1> QED
  BY <1>3, <1>4, <1>5, <1>6, <1>7 DEF A, B

\* Changing one queue changes the count by the change of its length.
LEMMA QueueChange ==
    ASSUME job \in [Jobs -> JobRecords], job' \in [Jobs -> JobRecords],
           IsFiniteSet(QueuedIn(Jobs)), NEW j \in Jobs,
           \A k \in Jobs : k # j => job'[k].queue = job[k].queue
    PROVE  /\ IsFiniteSet(QueuedIn(Jobs))'
           /\ QueuedOf(Jobs)' =
                 QueuedOf(Jobs) - Len(job[j].queue) + Len(job'[j].queue)
<1> DEFINE R == QueuedIn(Jobs \ {j})
           old == Len(job[j].queue)
           new == Len(job'[j].queue)
           N == {j} \X (1..new)
<1>1. old \in Nat /\ new \in Nat
  <2>1. job[j].queue \in Seq(Nat) /\ job'[j].queue \in Seq(Nat)
    BY DEF JobRecords
  <2> QED
    BY <2>1
<1>2. QueuedIn({j}) = {j} \X (1..old)
  <2>1. \A x : x \in QueuedIn({j}) <=> x \in {j} \X (1..old)
    BY QueuedMembers
  <2> QED
    BY <2>1
<1>3. /\ IsFiniteSet(R) /\ QueuedOf(Jobs) = QueuedOf({j}) + QueuedOf(Jobs \ {j})
      /\ QueuedOf(Jobs \ {j}) \in Nat
  BY QueuedSplit
<1>4. QueuedOf(Jobs) = old + Cardinality(R) /\ Cardinality(R) \in Nat
  BY <1>1, <1>2, <1>3, SlotCount DEF QueuedOf
<1>5. QueuedIn(Jobs)' = R \cup N
  <2>1. \A x : x \in QueuedIn(Jobs)' <=>
               \E k \in Jobs : x \in {k} \X (1..Len(job'[k].queue))
    BY DEF QueuedIn
  <2>2. \A x : x \in R <=>
               \E k \in Jobs \ {j} : x \in {k} \X (1..Len(job[k].queue))
    BY QueuedMembers
  <2>3. \A x : x \in QueuedIn(Jobs)' <=> x \in R \/ x \in N
    BY <2>1, <2>2
  <2> QED
    BY <2>3
<1>6. R \cap N = {}
  <2>1. \A x : ~(x \in R /\ x \in N)
    BY QueuedMembers
  <2> QED
    BY <2>1
<1>7. IsFiniteSet(N) /\ Cardinality(N) = new
  BY <1>1, SlotCount
<1>8. QueuedOf(Jobs)' = Cardinality(R \cup N)
  BY <1>5 DEF QueuedOf
<1> HIDE DEF R, N, old, new
<1>9. /\ IsFiniteSet(R \cup N)
      /\ Cardinality(R \cup N) = Cardinality(R) + Cardinality(N) - Cardinality(R \cap N)
  BY <1>3, <1>7, FS_Union
<1>10. Cardinality(R \cap N) = 0
  BY <1>6, FS_EmptySet
<1>11. QueuedOf(Jobs)' = QueuedOf(Jobs) - old + new
  BY <1>1, <1>4, <1>7, <1>8, <1>9, <1>10
<1> QED
  BY <1>5, <1>9, <1>11 DEF old, new

\* Forgetting rows forgets as many as there were.
LEMMA ForgetCount ==
    ASSUME IsFiniteSet(applied), rowCount = Cardinality(applied), rowCount <= MaxRows,
           NEW S, ForgetRows(S)
    PROVE  /\ IsFiniteSet(applied') /\ rowCount' = Cardinality(applied')
           /\ rowCount' <= MaxRows /\ applied' \subseteq applied
           /\ \A r \in applied' : r[1] \notin S
<1>1. applied' = applied \ AppliedOf(S) /\ rowCount' = rowCount - Cardinality(AppliedOf(S))
  BY DEF ForgetRows
<1>2. AppliedOf(S) \subseteq applied /\ \A r \in applied : r[1] \in S => r \in AppliedOf(S)
  BY DEF AppliedOf
<1>3. IsFiniteSet(AppliedOf(S)) /\ applied \cap AppliedOf(S) = AppliedOf(S)
  BY <1>2, FS_Subset
<1>4. /\ IsFiniteSet(applied')
      /\ Cardinality(applied') = Cardinality(applied) - Cardinality(applied \cap AppliedOf(S))
  BY <1>1, FS_Difference
<1>5. Cardinality(applied) \in Nat /\ Cardinality(AppliedOf(S)) \in Nat
  BY <1>3, FS_CardinalityType
<1> QED
  BY <1>1, <1>2, <1>3, <1>4, <1>5, ConstantTypes

\* The mailbox's signals are finitely many.
LEMMA TokensFinite == IsFiniteSet(Tokens)
<1>1. IsFiniteSet(Jobs) /\ IsFiniteSet(Gens)
  BY RuntimeAssumption, FS_Interval DEF Gens
<1> QED
  BY <1>1, FS_Product DEF Tokens

\* A step that makes no job pending and takes no announcement away keeps
\* every pending job announced.
LEMMA SignalledKept ==
    ASSUME Signalled, setup' = setup, mail' = mail, ui' = ui, sending \subseteq sending',
           \A k \in Jobs : Pending(k)' => Pending(k) /\ job'[k].gen = job[k].gen
    PROVE  Signalled'
  BY DEF Signalled, Told, Token, RescanDue, RescanTaken

\* The open jobs change by one.
LEMMA OpenCount ==
    ASSUME NEW j \in Jobs, \A k \in Jobs : k # j => job'[k] = job[k]
    PROVE  /\ IsFiniteSet(OpenJobs) /\ Cardinality(OpenJobs) \in Nat
           /\ (~job[j].open /\ job'[j].open) =>
                 Cardinality(OpenJobs') = Cardinality(OpenJobs) + 1
           /\ (job[j].open /\ ~job'[j].open) =>
                 Cardinality(OpenJobs') = Cardinality(OpenJobs) - 1
           /\ (job[j].open <=> job'[j].open) => OpenJobs' = OpenJobs
<1>1. IsFiniteSet(OpenJobs)
  BY ConstantTypes, FS_Subset DEF OpenJobs
<1>2. Cardinality(OpenJobs) \in Nat
  BY <1>1, FS_CardinalityType
<1>3. ASSUME ~job[j].open, job'[j].open
      PROVE  Cardinality(OpenJobs') = Cardinality(OpenJobs) + 1
  <2>1. OpenJobs' = OpenJobs \cup {j} /\ j \notin OpenJobs
    BY <1>3 DEF OpenJobs
  <2> QED
    BY <1>1, <2>1, FS_AddElement
<1>4. ASSUME job[j].open, ~job'[j].open
      PROVE  Cardinality(OpenJobs') = Cardinality(OpenJobs) - 1
  <2>1. OpenJobs' = OpenJobs \ {j} /\ j \in OpenJobs
    BY <1>4 DEF OpenJobs
  <2> QED
    BY <1>1, <2>1, FS_RemoveElement
<1>5. (job[j].open <=> job'[j].open) => OpenJobs' = OpenJobs
  BY DEF OpenJobs
<1> QED
  BY <1>1, <1>2, <1>3, <1>4, <1>5

-----------------------------------------------------------------------------
(* Every lock section keeps the invariant                                    *)

\* The counters hold while no queue and no job comes or goes.
LEMMA CreditsKept ==
    ASSUME Credits, \A k \in Jobs : job'[k].queue = job[k].queue,
           \A k \in Jobs : job'[k].open <=> job[k].open,
           queuedCount' = queuedCount, activeCount' = activeCount,
           IsFiniteSet(applied'), rowCount' = Cardinality(applied'), rowCount' <= MaxRows
    PROVE  Credits'
<1>1. QueuedIn(Jobs)' = QueuedIn(Jobs)
  <2>1. \A x : x \in QueuedIn(Jobs)' <=>
               \E k \in Jobs : x \in {k} \X (1..Len(job'[k].queue))
    BY DEF QueuedIn
  <2>2. \A x : x \in QueuedIn(Jobs)' <=> x \in QueuedIn(Jobs)
    BY <2>1, QueuedMembers
  <2> QED
    BY <2>2
<1>2. OpenJobs' = OpenJobs
  BY DEF OpenJobs
<1> QED
  BY <1>1, <1>2 DEF Credits, QueuedOf

\* The job of a token is a job.
LEMMA TokenOwner ==
    \A t \in Tokens : t[1] \in Jobs /\ t[2] \in Gens /\ t = <<t[1], t[2]>>
  BY DEF Tokens

\* A step that only changes how one open job ends or runs, and shows nothing
\* that was hidden.
LEMMA JobOnly ==
    ASSUME RegistryInv, NEW j \in Jobs, job' \in [Jobs -> JobRecords], SameJobsBut(j),
           SameKey(j), SameView(j), SameQueue(j), job'[j].open, job[j].open,
           job[j].terminal # "none" => job'[j].terminal # "none",
           UiCurrent(j)' => UiCurrent(j),
           UNCHANGED <<setup, revoked, tombstones, live, applied, rowCount, queuedCount,
                       activeCount, mail, sending, ui>>
    PROVE  RegistryInv'
<1>1. RegistryTypes'
  BY DEF RegistryInv, RegistryTypes
<1>2. ASSUME NEW k \in Jobs
      PROVE  /\ SameKey(k) /\ SameView(k) /\ SameQueue(k)
             /\ (job'[k].open <=> job[k].open)
             /\ job[k].terminal # "none" => job'[k].terminal # "none"
             /\ ~job[k].open => job'[k] = job[k]
             /\ k # j => job'[k] = job[k]
  <2>1. CASE k = j
    BY <2>1
  <2>2. CASE k # j
    BY <2>2 DEF SameJobsBut, SameKey, SameView, SameQueue
  <2> QED
    BY <2>1, <2>2
<1>3. Dormant'
  BY <1>2 DEF RegistryInv, Dormant
<1>4. Credits'
  <2>1. IsFiniteSet(applied') /\ rowCount' = Cardinality(applied') /\ rowCount' <= MaxRows
    BY DEF RegistryInv, Credits
  <2>2. (\A k \in Jobs : job'[k].queue = job[k].queue) /\ \A k \in Jobs : job'[k].open <=> job[k].open
    BY <1>2 DEF SameQueue
  <2> QED
    BY <2>1, <2>2, CreditsKept DEF RegistryInv
<1>5. \A k \in Jobs : Key(k)' = Key(k) /\ Token(k)' = Token(k)
  BY <1>2 DEF Key, Token, SameKey, SameView
<1>6. Values'
  <2>1. \A t \in live : t[1] \in Jobs
    BY TokenOwner DEF RegistryInv, RegistryTypes
  <2> QED
    BY <1>2, <1>5, <2>1 DEF RegistryInv, Values, SameView
<1>7. Contents'
  <2>1. \A r \in applied : r[1] \in Jobs
    BY DEF RegistryInv, RegistryTypes
  <2> QED
    BY <1>2, <1>5, <2>1 DEF RegistryInv, Contents, SameQueue
<1>8. ASSUME NEW k \in Jobs, Pending(k)'
      PROVE  Pending(k) /\ job'[k].gen = job[k].gen
  <2>1. UiCurrent(k)' => UiCurrent(k)
    <3>1. CASE k = j
      BY <3>1
    <3>2. CASE k # j
      BY <1>2, <1>5, <3>2 DEF UiCurrent
    <3> QED
      BY <3>1, <3>2
  <2> QED
    BY <1>2, <1>8, <2>1 DEF Pending, SameQueue, SameView
<1>9. Signalled'
  BY <1>8, SignalledKept DEF RegistryInv
<1> QED
  BY <1>1, <1>3, <1>4, <1>6, <1>7, <1>9 DEF RegistryInv

LEMMA EnterScopeKeeps ==
    ASSUME RegistryInv, NEW j \in Jobs, EnterScope(j)
    PROVE  RegistryInv'
<1>1. job \in [Jobs -> JobRecords]
  BY DEF RegistryInv, RegistryTypes
<1>2. job[j].open
  BY DEF EnterScope, EnterAllowed
<1>3. UNCHANGED <<setup, revoked, tombstones, live, applied, rowCount, queuedCount,
                  activeCount, mail, sending, ui>>
  BY DEF EnterScope
<1>4. UiCurrent(j)' => UiCurrent(j)
  BY <1>1, <1>3, EnteredJob DEF UiCurrent, Token, SameView
<1> QED
  BY <1>1, <1>2, <1>3, <1>4, EnteredJob, JobOnly

LEMMA LeaveScopeKeeps ==
    ASSUME RegistryInv, NEW j \in Jobs, LeaveScope(j)
    PROVE  RegistryInv'
<1>1. job \in [Jobs -> JobRecords]
  BY DEF RegistryInv, RegistryTypes
<1>2. job[j].open
  BY DEF LeaveScope, RegistryInv, Dormant
<1>3. UNCHANGED <<setup, revoked, tombstones, live, applied, rowCount, queuedCount,
                  activeCount, mail, sending, ui>>
  BY DEF LeaveScope
<1>4. UiCurrent(j)' => UiCurrent(j)
  BY <1>1, <1>3, LeftJob DEF UiCurrent, Token, SameView, SameState
<1>5. job[j].terminal # "none" => job'[j].terminal # "none"
  BY <1>1, LeftJob DEF SameState
<1> QED
  BY <1>1, <1>2, <1>3, <1>4, <1>5, LeftJob, JobOnly

LEMMA RequestControlKeeps ==
    ASSUME RegistryInv, NEW j \in Jobs, NEW c \in {"cancelled", "deadline"},
           RequestControl(j, c)
    PROVE  RegistryInv'
<1>1. job \in [Jobs -> JobRecords] /\ c \in Controls /\ c # "active"
  BY DEF RegistryInv, RegistryTypes, Controls
<1>2. UNCHANGED <<setup, revoked, tombstones, live, applied, rowCount, queuedCount,
                  activeCount, mail, sending, ui>>
  BY DEF RequestControl
<1>3. ~UiCurrent(j)'
  BY <1>1, ControlledJob DEF UiCurrent
<1>4. job'[j].open
  BY <1>1, ControlledJob DEF SameScope
<1> QED
  BY <1>1, <1>2, <1>3, <1>4, ControlledJob, JobOnly

LEMMA FinishJobKeeps ==
    ASSUME RegistryInv, NEW j \in Jobs, NEW reported \in {"completed", "panicked"},
           FinishJob(j, reported)
    PROVE  RegistryInv'
<1>1. job \in [Jobs -> JobRecords]
  BY DEF RegistryInv, RegistryTypes
<1>2. UNCHANGED <<setup, revoked, tombstones, live, applied, rowCount, queuedCount,
                  activeCount, mail, sending, ui>>
  BY DEF FinishJob
<1>3. UiCurrent(j)' => UiCurrent(j)
  BY <1>1, <1>2, FinishedJob DEF UiCurrent, Token, SameView
<1>4. job'[j].open
  BY <1>1, FinishedJob DEF SameScope
<1> QED
  BY <1>1, <1>2, <1>3, <1>4, FinishedJob, JobOnly

LEMMA AuthorizeRetirementKeeps ==
    ASSUME RegistryInv, NEW j \in Jobs, AuthorizeRetirement(j)
    PROVE  RegistryInv'
<1>1. job \in [Jobs -> JobRecords]
  BY DEF RegistryInv, RegistryTypes
<1>2. UNCHANGED <<setup, revoked, tombstones, live, applied, rowCount, queuedCount,
                  activeCount, mail, sending, ui>>
  BY DEF AuthorizeRetirement
<1>3. UiCurrent(j)' => UiCurrent(j)
  BY <1>1, <1>2, AuthorizedJob DEF UiCurrent, Token, SameView
<1>4. job'[j].open
  BY <1>1, AuthorizedJob DEF SameScope
<1> QED
  BY <1>1, <1>2, <1>3, <1>4, AuthorizedJob, JobOnly

\* A step that changes the queue of one open job that may have one.
LEMMA QueueOnly ==
    ASSUME RegistryInv, NEW j \in Jobs, job' \in [Jobs -> JobRecords], SameJobsBut(j),
           SameKey(j), SameView(j), SameScope(j), SameState(j), job[j].open,
           job'[j].queue = <<>> \/ Key(j) \notin revoked,
           queuedCount' = queuedCount - Len(job[j].queue) + Len(job'[j].queue),
           queuedCount' <= MaxQueue,
           UNCHANGED <<revoked, tombstones, live, applied, rowCount, activeCount>>,
           \A t \in ui'.shown : t[2] = 1, \A b \in ui'.held : b.gen = 1
    PROVE  /\ Dormant' /\ Credits' /\ Values' /\ Contents'
           /\ \A k \in Jobs : /\ UiCurrent(k)' <=> UiCurrent(k)
                              /\ Token(k)' = Token(k) /\ job'[k].gen = job[k].gen
<1>1. ASSUME NEW k \in Jobs
      PROVE  /\ SameKey(k) /\ SameView(k) /\ SameScope(k) /\ SameState(k)
             /\ k # j => job'[k] = job[k]
  <2>1. CASE k = j
    BY <2>1
  <2>2. CASE k # j
    BY <2>2 DEF SameJobsBut, SameKey, SameView, SameScope, SameState
  <2> QED
    BY <2>1, <2>2
<1>2. \A k \in Jobs : Key(k)' = Key(k) /\ Token(k)' = Token(k) /\ job'[k].gen = job[k].gen
  BY <1>1 DEF Key, Token, SameKey, SameView
<1>3. Dormant'
  <2>1. \A k \in Jobs : /\ job'[k].open <=> job[k].open
                        /\ job'[k].active <=> job[k].active
                        /\ job'[k].terminal = job[k].terminal
                        /\ ~job[k].open => job'[k] = job[k]
    BY <1>1 DEF SameScope, SameState
  <2> QED
    BY <2>1 DEF RegistryInv, Dormant
<1>4. Credits'
  <2>1. IsFiniteSet(QueuedIn(Jobs)) /\ queuedCount = QueuedOf(Jobs)
    BY DEF RegistryInv, Credits
  <2>2. job \in [Jobs -> JobRecords] /\ \A k \in Jobs : k # j => job'[k].queue = job[k].queue
    BY <1>1 DEF RegistryInv, RegistryTypes
  <2>3. /\ IsFiniteSet(QueuedIn(Jobs))'
        /\ QueuedOf(Jobs)' = QueuedOf(Jobs) - Len(job[j].queue) + Len(job'[j].queue)
    BY <2>1, <2>2, QueueChange
  <2>4. OpenJobs' = OpenJobs
    BY <1>1 DEF OpenJobs, SameScope
  <2> QED
    BY <2>1, <2>3, <2>4 DEF RegistryInv, Credits
<1>5. Values'
  <2>1. \A t \in live : t[1] \in Jobs
    BY TokenOwner DEF RegistryInv, RegistryTypes
  <2> QED
    BY <1>2, <2>1 DEF RegistryInv, Values
<1>6. Contents'
  <2>1. \A r \in applied : r[1] \in Jobs /\ job[r[1]].open /\ Key(r[1]) \notin revoked
    BY DEF RegistryInv, RegistryTypes, Contents
  <2>2. \A r \in applied' : job'[r[1]].open /\ Key(r[1])' \notin revoked'
    BY <1>1, <1>2, <2>1 DEF SameScope
  <2>3. ASSUME NEW k \in Jobs, job'[k].open, Key(k)' \in revoked'
        PROVE  job'[k].terminal # "none" /\ job'[k].queue = <<>>
    <3>1. job[k].open /\ Key(k) \in revoked /\ job'[k].terminal = job[k].terminal
      BY <1>1, <1>2, <2>3 DEF SameScope, SameState
    <3>2. job[k].terminal # "none" /\ job[k].queue = <<>>
      BY <3>1 DEF RegistryInv, Contents
    <3>3. job'[k].queue = <<>>
      BY <1>1, <3>1, <3>2
    <3> QED
      BY <3>1, <3>2, <3>3
  <2> QED
    BY <2>2, <2>3 DEF Contents
<1>7. ASSUME NEW k \in Jobs
      PROVE  UiCurrent(k)' <=> UiCurrent(k)
  BY <1>1, <1>2 DEF UiCurrent, SameState, SameView
<1> QED
  BY <1>2, <1>3, <1>4, <1>5, <1>6, <1>7

LEMMA PurgeKeeps ==
    ASSUME RegistryInv, NEW j \in Jobs, Purge(j)
    PROVE  RegistryInv'
<1>1. job \in [Jobs -> JobRecords]
  BY DEF RegistryInv, RegistryTypes
<1>2. /\ UNCHANGED <<setup, revoked, tombstones, live, applied, rowCount, activeCount, mail,
                     sending, ui>>
      /\ queuedCount' = queuedCount - Len(job[j].queue)
  BY DEF Purge
<1>3. queuedCount \in Nat /\ queuedCount <= MaxQueue
  BY FS_CardinalityType DEF RegistryInv, Credits, QueuedOf
<1>4. Len(job[j].queue) \in Nat /\ job'[j].queue = <<>> /\ Len(job'[j].queue) = 0
  <2>1. job[j].queue \in Seq(Nat)
    BY <1>1 DEF JobRecords
  <2>2. job'[j].queue = <<>>
    BY <1>1, PurgedJob
  <2> QED
    BY <2>1, <2>2
<1>5. /\ queuedCount' = queuedCount - Len(job[j].queue) + Len(job'[j].queue)
      /\ queuedCount' <= MaxQueue
  BY <1>2, <1>3, <1>4, ConstantTypes
<1>6. (\A t \in ui'.shown : t[2] = 1) /\ (\A b \in ui'.held : b.gen = 1)
  BY <1>2 DEF RegistryInv, Contents
<1>7. /\ Dormant' /\ Credits' /\ Values' /\ Contents'
      /\ \A k \in Jobs : /\ UiCurrent(k)' <=> UiCurrent(k)
                         /\ Token(k)' = Token(k) /\ job'[k].gen = job[k].gen
  BY <1>1, <1>2, <1>4, <1>5, <1>6, PurgedJob, QueueOnly
<1>8. RegistryTypes'
  BY <1>1, <1>2, PurgedJob DEF RegistryInv, RegistryTypes
<1>9. ASSUME NEW k \in Jobs, Pending(k)'
      PROVE  Pending(k) /\ job'[k].gen = job[k].gen
  <2>1. k # j
    BY <1>4, <1>9 DEF Pending
  <2>2. job'[k] = job[k]
    BY <1>1, <2>1, PurgedJob DEF SameJobsBut
  <2> QED
    BY <1>7, <1>9, <2>2 DEF Pending
<1>10. Signalled'
  BY <1>2, <1>9, SignalledKept DEF RegistryInv
<1> QED
  BY <1>7, <1>8, <1>10 DEF RegistryInv

LEMMA SubmitKeeps ==
    ASSUME RegistryInv, NEW j \in Jobs, Submit(j)
    PROVE  RegistryInv'
<1>1. job \in [Jobs -> JobRecords]
  BY DEF RegistryInv, RegistryTypes
<1>2. /\ UNCHANGED <<setup, revoked, tombstones, live, applied, rowCount, activeCount, mail, ui>>
      /\ queuedCount' = queuedCount + 1 /\ queuedCount < MaxQueue
      /\ sending' = sending \cup Announced({Token(j)})
  BY DEF Submit
<1>3. queuedCount \in Nat
  BY FS_CardinalityType DEF RegistryInv, Credits, QueuedOf
<1>4. /\ Len(job[j].queue) \in Nat
      /\ Len(job'[j].queue) = Len(job[j].queue) + 1
  <2>1. job[j].queue \in Seq(Nat) /\ job[j].next \in Nat
    BY <1>1 DEF JobRecords
  <2>2. job'[j].queue = Append(job[j].queue, job[j].next)
    BY <1>1, SubmittedJob
  <2> QED
    BY <2>1, <2>2
<1>5. /\ queuedCount' = queuedCount - Len(job[j].queue) + Len(job'[j].queue)
      /\ queuedCount' <= MaxQueue
  <2> DEFINE old == Len(job[j].queue)
             now == Len(job'[j].queue)
  <2>1. old \in Nat /\ now = old + 1
    BY <1>4
  <2>2. queuedCount' = queuedCount + 1 /\ queuedCount < MaxQueue
    BY <1>2
  <2>3. MaxQueue \in Nat
    BY ConstantTypes
  <2> HIDE DEF old, now
  <2>4. queuedCount' = queuedCount - old + now /\ queuedCount' <= MaxQueue
    BY <1>3, <2>1, <2>2, <2>3
  <2> QED
    BY <2>4 DEF old, now
<1>6. (\A t \in ui'.shown : t[2] = 1) /\ (\A b \in ui'.held : b.gen = 1)
  BY <1>2 DEF RegistryInv, Contents
<1>7. job[j].open /\ Key(j) \notin revoked
  <2>1. job[j].active /\ Key(j) \notin revoked
    BY DEF Submit, Submitting
  <2> QED
    BY <2>1 DEF RegistryInv, Dormant
<1>8. /\ Dormant' /\ Credits' /\ Values' /\ Contents'
      /\ \A k \in Jobs : /\ UiCurrent(k)' <=> UiCurrent(k)
                         /\ Token(k)' = Token(k) /\ job'[k].gen = job[k].gen
  BY <1>1, <1>2, <1>5, <1>6, <1>7, SubmittedJob, QueueOnly
<1>9. RegistryTypes'
  <2>1. Token(j) \in Tokens
    BY <1>1 DEF Token, Tokens, JobRecords
  <2>2. sending' \subseteq Tokens
    BY <1>2, <2>1 DEF Announced, RegistryInv, RegistryTypes
  <2> QED
    BY <1>1, <1>2, <2>2, SubmittedJob DEF RegistryInv, RegistryTypes
<1>10. ASSUME NEW k \in Jobs, Pending(k)', setup'.mailbox, ~mail'.closed
       PROVE  Told(k)' \/ RescanDue' \/ RescanTaken'
  <2>1. CASE k = j
    <3>1. Token(j) \in sending'
      BY <1>2, <1>10 DEF Announced
    <3> QED
      BY <1>8, <2>1, <3>1 DEF Told
  <2>2. CASE k # j
    <3>1. Pending(k)
      BY <1>1, <1>8, <1>10, <2>2, SubmittedJob DEF Pending, SameJobsBut
    <3>2. Told(k) \/ RescanDue \/ RescanTaken
      BY <1>2, <1>10, <3>1 DEF RegistryInv, Signalled
    <3> QED
      BY <1>2, <1>8, <3>2 DEF Told, RescanDue, RescanTaken
  <2> QED
    BY <2>1, <2>2
<1>11. Signalled'
  <2>1. (mail'.rescan => mail'.epoch # 0) /\ ui'.seen <= mail'.epoch
    BY <1>2 DEF RegistryInv, Signalled
  <2> QED
    BY <1>10, <2>1 DEF Signalled
<1> QED
  BY <1>8, <1>9, <1>11 DEF RegistryInv

LEMMA DrainKeeps ==
    ASSUME RegistryInv, NEW s \in Tokens, Drain(s)
    PROVE  RegistryInv'
<1> DEFINE j == s[1]
           n == IF Key(j) \in revoked THEN Len(job[j].queue)
                ELSE IF job[j].queue = <<>> THEN 0 ELSE 1
           new == IF Key(j) \notin revoked /\ UiCurrent(j) /\ s[2] = 1 /\ job[j].gen = 1
                  THEN Batches(s, n) ELSE {}
           again == {t \in {Token(j)} : job'[j].queue # <<>> /\ UiCurrent(j)}
<1>1. job \in [Jobs -> JobRecords]
  BY DEF RegistryInv, RegistryTypes
<1>2. /\ j \in Jobs /\ job' \in [Jobs -> JobRecords] /\ SameJobsBut(j)
      /\ SameKey(j) /\ SameScope(j) /\ SameState(j) /\ SameView(j) /\ job[j].open
      /\ queuedCount' = queuedCount - (Len(job[j].queue) - Len(job'[j].queue))
      /\ Len(job'[j].queue) <= Len(job[j].queue)
  BY <1>1, DrainedJob
<1>3. UNCHANGED <<setup, revoked, tombstones, live, applied, rowCount, activeCount, mail>>
  BY DEF Drain
<1>4. ui' = [ui EXCEPT !.todo = @ \ {s}, !.held = @ \cup new]
  BY DEF Drain
<1>5. sending' = sending \cup Announced(again)
  <2> DEFINE rest == SubSeq(job[j].queue, n + 1, Len(job[j].queue))
  <2>1. /\ job' = [job EXCEPT ![j].queue = rest]
        /\ sending' = sending \cup Announced({t \in {Token(j)} : rest # <<>> /\ UiCurrent(j)})
    BY DEF Drain
  <2>2. job[j] \in JobRecords
    BY <1>1, <1>2
  <2> HIDE DEF rest, n, j
  <2>3. job'[j] = [job[j] EXCEPT !.queue = rest]
    BY <1>1, <1>2, <2>1
  <2>4. job'[j].queue = rest
    BY <2>2, <2>3 DEF JobRecords
  <2> QED
    BY <2>1, <2>4
<1>6. queuedCount \in Nat /\ queuedCount <= MaxQueue
  BY FS_CardinalityType DEF RegistryInv, Credits, QueuedOf
<1>7. job[j].queue \in Seq(Nat) /\ job'[j].queue \in Seq(Nat)
  BY <1>1, <1>2 DEF JobRecords
<1>8. Len(job[j].queue) \in Nat /\ Len(job'[j].queue) \in Nat
  BY <1>7
<1>9. new \subseteq Batch /\ \A b \in new : b.gen = 1
  <2>1. CASE new = {}
    BY <2>1
  <2>2. CASE new # {}
    <3>1. new = Batches(s, n) /\ Key(j) \notin revoked
      BY <2>2
    <3>2. n \in Nat /\ n <= Len(job[j].queue)
      BY <1>7, <3>1
    <3> HIDE DEF n, new
    <3>3. ASSUME NEW i \in 1..n
          PROVE  [job |-> s[1], gen |-> 1, seq |-> job[s[1]].queue[i]] \in Batch
      <4>1. job[j].queue[i] \in Nat
        <5> DEFINE q == job[j].queue
        <5>1. q \in Seq(Nat) /\ i \in 1..Len(q)
          <6>1. Len(q) \in Nat
            BY <1>7
          <6> QED
            BY <1>7, <3>2, <6>1
        <5> HIDE DEF q
        <5>2. q[i] \in Nat
          BY <5>1
        <5> QED
          BY <5>2 DEF q
      <4> QED
        BY <1>2, <4>1, ConstantTypes DEF Batch
    <3> QED
      BY <3>1, <3>3 DEF Batches
  <2> QED
    BY <2>1, <2>2
<1>10. Token(j) \in Tokens
  BY <1>1, <1>2 DEF Token, Tokens, JobRecords
<1>11. Announced(again) \subseteq Tokens
  BY <1>10 DEF Announced
<1>12. ui \in [todo : SUBSET Tokens, seen : Nat, merged : BOOLEAN, held : SUBSET Batch,
               shown : SUBSET Tokens]
  BY DEF RegistryInv, RegistryTypes
<1>13. \A b \in ui.held : b.gen = 1
  BY DEF RegistryInv, Contents
<1>14. j = s[1]
  OBVIOUS
<1> HIDE DEF new, n, j
<1>15. /\ ui' \in [todo : SUBSET Tokens, seen : Nat, merged : BOOLEAN, held : SUBSET Batch,
                   shown : SUBSET Tokens]
       /\ ui'.todo = ui.todo \ {s} /\ ui'.held = ui.held \cup new /\ ui'.shown = ui.shown
       /\ ui'.seen = ui.seen /\ (ui'.merged <=> ui.merged)
  BY <1>4, <1>9, <1>12
<1>16. (\A t \in ui'.shown : t[2] = 1) /\ (\A b \in ui'.held : b.gen = 1)
  BY <1>9, <1>13, <1>15 DEF RegistryInv, Contents
<1>17. /\ queuedCount' = queuedCount - Len(job[j].queue) + Len(job'[j].queue)
       /\ queuedCount' <= MaxQueue
  BY <1>2, <1>6, <1>8, ConstantTypes
<1>18. job'[j].queue = <<>> \/ Key(j) \notin revoked
  <2>1. ASSUME Key(j) \in revoked
        PROVE  Len(job[j].queue) = 0
    BY <1>2, <2>1 DEF RegistryInv, Contents
  <2> QED
    BY <1>2, <1>7, <1>8, <2>1
<1>19. /\ Dormant' /\ Credits' /\ Values' /\ Contents'
       /\ \A k \in Jobs : /\ UiCurrent(k)' <=> UiCurrent(k)
                          /\ Token(k)' = Token(k) /\ job'[k].gen = job[k].gen
  BY <1>2, <1>3, <1>16, <1>17, <1>18, QueueOnly
<1>20. RegistryTypes'
  <2>1. sending' \subseteq Tokens
    BY <1>5, <1>11 DEF RegistryInv, RegistryTypes
  <2> QED
    BY <1>2, <1>3, <1>15, <2>1 DEF RegistryInv, RegistryTypes
<1>21. ASSUME NEW k \in Jobs, Pending(k)', setup'.mailbox, ~mail'.closed
       PROVE  Told(k)' \/ RescanDue' \/ RescanTaken'
  <2>1. CASE k = j
    <3>1. job'[j].queue # <<>> /\ UiCurrent(j)
      BY <1>19, <1>21, <2>1 DEF Pending
    <3>2. Token(j) \in again
      BY <3>1
    <3>3. Token(j) \in sending'
      BY <1>3, <1>5, <1>21, <3>2 DEF Announced
    <3> QED
      BY <1>19, <2>1, <3>3 DEF Told
  <2>2. CASE k # j
    <3>1. Pending(k)
      BY <1>2, <1>19, <1>21, <2>2 DEF Pending, SameJobsBut
    <3>2. Told(k) \/ RescanDue \/ RescanTaken
      BY <1>3, <1>21, <3>1 DEF RegistryInv, Signalled
    <3>3. Told(k) => Told(k)'
      <4>1. Token(k) # s
        BY <1>14, <2>2 DEF Token
      <4> QED
        BY <1>3, <1>5, <1>15, <1>19, <4>1 DEF Told
    <3> QED
      BY <1>3, <1>15, <3>2, <3>3 DEF RescanDue, RescanTaken
  <2> QED
    BY <2>1, <2>2
<1>22. Signalled'
  <2>1. (mail'.rescan => mail'.epoch # 0) /\ ui'.seen <= mail'.epoch
    BY <1>3, <1>15 DEF RegistryInv, Signalled
  <2> QED
    BY <1>21, <2>1 DEF Signalled
<1> QED
  BY <1>19, <1>20, <1>22 DEF RegistryInv

LEMMA RetireKeeps ==
    ASSUME RegistryInv, NEW j \in Jobs, Retire(j)
    PROVE  RegistryInv'
<1>1. job \in [Jobs -> JobRecords]
  BY DEF RegistryInv, RegistryTypes
<1>2. /\ job' \in [Jobs -> JobRecords] /\ SameJobsBut(j)
      /\ SameKey(j) /\ SameView(j) /\ job[j].open
      /\ ~job'[j].open /\ ~job'[j].active /\ job'[j].terminal = "none"
      /\ job'[j].queue = <<>>
  BY <1>1, RetiredJob DEF Retirable
<1>3. /\ UNCHANGED <<setup, revoked, tombstones, live, mail, sending, ui>>
      /\ ForgetRows({j})
      /\ queuedCount' = queuedCount - Len(job[j].queue)
      /\ activeCount' = activeCount - 1
  BY DEF Retire
<1>4. /\ IsFiniteSet(applied') /\ rowCount' = Cardinality(applied')
      /\ rowCount' <= MaxRows /\ applied' \subseteq applied
      /\ \A r \in applied' : r[1] # j
  BY <1>3, ForgetCount DEF RegistryInv, Credits
<1>5. ASSUME NEW k \in Jobs
      PROVE  /\ SameKey(k) /\ SameView(k)
             /\ k # j => job'[k] = job[k]
             /\ Key(k)' = Key(k) /\ Token(k)' = Token(k)
  <2>1. SameKey(k) /\ SameView(k) /\ (k # j => job'[k] = job[k])
    BY <1>2 DEF SameJobsBut, SameKey, SameView
  <2> QED
    BY <2>1 DEF Key, Token, SameKey, SameView
<1>6. RegistryTypes'
  BY <1>2, <1>3, <1>4 DEF RegistryInv, RegistryTypes
<1>7. Dormant'
  BY <1>2, <1>5 DEF RegistryInv, Dormant
<1>8. Credits'
  <2>1. /\ IsFiniteSet(QueuedIn(Jobs)) /\ queuedCount = QueuedOf(Jobs)
        /\ queuedCount <= MaxQueue
        /\ activeCount = Cardinality(OpenJobs) /\ activeCount <= MaxActive
    BY DEF RegistryInv, Credits
  <2>2. \A k \in Jobs : k # j => job'[k].queue = job[k].queue
    BY <1>5
  <2>3. /\ IsFiniteSet(QueuedIn(Jobs))'
        /\ QueuedOf(Jobs)' = QueuedOf(Jobs) - Len(job[j].queue) + Len(job'[j].queue)
    BY <1>1, <1>2, <2>1, <2>2, QueueChange
  <2>4. Len(job[j].queue) \in Nat /\ Len(job'[j].queue) = 0
    <3>1. job[j].queue \in Seq(Nat)
      BY <1>1 DEF JobRecords
    <3> QED
      BY <1>2, <3>1
  <2>5. queuedCount \in Nat
    BY <2>1, FS_CardinalityType DEF QueuedOf
  <2>6. queuedCount' = QueuedOf(Jobs)' /\ queuedCount' <= MaxQueue
    <3> DEFINE a == Len(job[j].queue)
               b == Len(job'[j].queue)
    <3>1. queuedCount' = queuedCount - a /\ a \in Nat /\ b = 0
      BY <1>3, <2>4
    <3>2. QueuedOf(Jobs)' = queuedCount - a + b
      BY <2>1, <2>3
    <3> HIDE DEF a, b
    <3> QED
      BY <2>1, <2>5, <3>1, <3>2, ConstantTypes
  <2>7. \A k \in Jobs : k # j => job'[k] = job[k]
    BY <1>5
  <2>8. Cardinality(OpenJobs') = Cardinality(OpenJobs) - 1 /\ Cardinality(OpenJobs) \in Nat
    BY <1>2, <2>7, OpenCount
  <2>9. activeCount' = Cardinality(OpenJobs') /\ activeCount' <= MaxActive
    BY <1>3, <2>1, <2>8, ConstantTypes
  <2> QED
    BY <1>4, <2>3, <2>6, <2>9 DEF Credits
<1>9. Values'
  <2>1. \A t \in live : t[1] \in Jobs
    BY TokenOwner DEF RegistryInv, RegistryTypes
  <2> QED
    BY <1>3, <1>5, <2>1 DEF RegistryInv, Values, SameView
<1>10. Contents'
  <2>1. \A r \in applied : r[1] \in Jobs
    BY DEF RegistryInv, RegistryTypes
  <2> QED
    BY <1>2, <1>3, <1>4, <1>5, <2>1 DEF RegistryInv, Contents
<1>11. ASSUME NEW k \in Jobs, Pending(k)'
       PROVE  Pending(k) /\ job'[k].gen = job[k].gen
  <2>1. k # j
    BY <1>2, <1>11 DEF Pending
  <2>2. job'[k] = job[k] /\ Token(k)' = Token(k)
    BY <1>5, <2>1
  <2> QED
    BY <1>3, <1>11, <2>2 DEF Pending, UiCurrent
<1>12. Signalled'
  BY <1>3, <1>11, SignalledKept DEF RegistryInv
<1> QED
  BY <1>6, <1>7, <1>8, <1>9, <1>10, <1>12 DEF RegistryInv

LEMMA OpenJobKeeps ==
    ASSUME RegistryInv, NEW j \in Jobs, OpenJob(j), ~job[j].open
    PROVE  RegistryInv'
<1>1. job \in [Jobs -> JobRecords]
  BY DEF RegistryInv, RegistryTypes
<1>2. /\ job' \in [Jobs -> JobRecords] /\ SameJobsBut(j)
      /\ SameKey(j) /\ SameState(j) /\ SameView(j) /\ SameQueue(j)
      /\ (job'[j].active <=> job[j].active) /\ job'[j].open
      /\ Key(j) \notin revoked /\ activeCount < MaxActive
  BY <1>1, OpenedJob DEF OpenAllowed
<1>3. /\ UNCHANGED <<setup, revoked, applied, rowCount, queuedCount, mail, sending, ui>>
      /\ activeCount' = activeCount + 1
      /\ live' = live \cup {Token(j)}
      /\ tombstones' = {x \in tombstones : Key(x[1]) = Key(Token(j)[1]) => x \in live}
                          \cup {Token(j)}
  BY DEF OpenJob, Remember
<1>4. job[j].queue = <<>> /\ ~job[j].active
  BY DEF RegistryInv, Dormant
<1>5. ASSUME NEW k \in Jobs
      PROVE  /\ SameKey(k) /\ SameView(k) /\ SameQueue(k) /\ SameState(k)
             /\ k # j => job'[k] = job[k]
             /\ Key(k)' = Key(k) /\ Token(k)' = Token(k)
  <2>1. /\ SameKey(k) /\ SameView(k) /\ SameQueue(k) /\ SameState(k)
        /\ k # j => job'[k] = job[k]
    BY <1>2 DEF SameJobsBut, SameKey, SameView, SameQueue, SameState
  <2> QED
    BY <2>1 DEF Key, Token, SameKey, SameView
<1>6. RegistryTypes'
  <2>1. Token(j) \in Tokens
    BY <1>1 DEF Token, Tokens, JobRecords
  <2>2. live' \subseteq Tokens /\ tombstones' \subseteq Tokens
    BY <1>3, <2>1 DEF RegistryInv, RegistryTypes
  <2> QED
    BY <1>2, <1>3, <2>2 DEF RegistryInv, RegistryTypes
<1>7. Dormant'
  BY <1>2, <1>5 DEF RegistryInv, Dormant
<1>8. Credits'
  <2>1. /\ IsFiniteSet(QueuedIn(Jobs)) /\ queuedCount = QueuedOf(Jobs)
        /\ queuedCount <= MaxQueue
        /\ activeCount = Cardinality(OpenJobs)
    BY DEF RegistryInv, Credits
  <2>2. \A k \in Jobs : k # j => job'[k].queue = job[k].queue
    BY <1>5
  <2>3. /\ IsFiniteSet(QueuedIn(Jobs))'
        /\ QueuedOf(Jobs)' = QueuedOf(Jobs) - Len(job[j].queue) + Len(job'[j].queue)
    BY <1>1, <1>2, <2>1, <2>2, QueueChange
  <2>4. Len(job[j].queue) = 0 /\ Len(job'[j].queue) = 0
    BY <1>2, <1>4 DEF SameQueue
  <2>5. QueuedOf(Jobs) \in Nat
    BY <2>1, FS_CardinalityType DEF QueuedOf
  <2>6. queuedCount' = QueuedOf(Jobs)' /\ queuedCount' <= MaxQueue
    BY <1>3, <2>1, <2>3, <2>4, <2>5
  <2>7. \A k \in Jobs : k # j => job'[k] = job[k]
    BY <1>5
  <2>8. Cardinality(OpenJobs') = Cardinality(OpenJobs) + 1 /\ Cardinality(OpenJobs) \in Nat
    BY <1>2, <2>7, OpenCount
  <2>9. activeCount' = Cardinality(OpenJobs') /\ activeCount' <= MaxActive
    BY <1>2, <1>3, <2>1, <2>8, ConstantTypes
  <2>10. IsFiniteSet(applied') /\ rowCount' = Cardinality(applied') /\ rowCount' <= MaxRows
    BY <1>3 DEF RegistryInv, Credits
  <2> QED
    BY <2>3, <2>6, <2>9, <2>10 DEF Credits
<1>9. Values'
  <2>1. \A t \in live : t[1] \in Jobs
    BY TokenOwner DEF RegistryInv, RegistryTypes
  <2>2. live' \subseteq tombstones'
    BY <1>3 DEF RegistryInv, Values
  <2>3. ASSUME NEW t \in live'
        PROVE  t[2] = job'[t[1]].gen /\ (t[2] = 1 => Key(t[1])' \notin revoked')
    <3>1. CASE t \in live
      BY <1>3, <1>5, <2>1, <3>1 DEF RegistryInv, Values, SameView
    <3>2. CASE t = Token(j)
      <4>1. t[1] = j /\ t[2] = job[j].gen
        BY <3>2 DEF Token
      <4> QED
        BY <1>2, <1>3, <1>5, <4>1 DEF SameView
    <3> QED
      BY <1>3, <3>1, <3>2
  <2> QED
    BY <2>2, <2>3 DEF Values
<1>10. Contents'
  <2>1. \A r \in applied : r[1] \in Jobs
    BY DEF RegistryInv, RegistryTypes
  <2> QED
    BY <1>2, <1>3, <1>5, <2>1 DEF RegistryInv, Contents
<1>11. ASSUME NEW k \in Jobs, Pending(k)'
       PROVE  Pending(k) /\ job'[k].gen = job[k].gen
  <2>1. k # j
    BY <1>2, <1>4, <1>11 DEF Pending, SameQueue
  <2>2. job'[k] = job[k] /\ Token(k)' = Token(k)
    BY <1>5, <2>1
  <2>3. Token(k) # Token(j)
    BY <2>1 DEF Token
  <2> QED
    BY <1>3, <1>11, <2>2, <2>3 DEF Pending, UiCurrent
<1>12. Signalled'
  BY <1>3, <1>11, SignalledKept DEF RegistryInv
<1> QED
  BY <1>6, <1>7, <1>8, <1>9, <1>10, <1>12 DEF RegistryInv

LEMMA AdvanceGenerationKeeps ==
    ASSUME RegistryInv, NEW j \in Jobs, AdvanceGeneration(j)
    PROVE  RegistryInv'
<1> DEFINE now == <<j, job[j].gen + 1>>
<1>1. job \in [Jobs -> JobRecords]
  BY DEF RegistryInv, RegistryTypes
<1>2. /\ job' \in [Jobs -> JobRecords] /\ SameJobsBut(j)
      /\ SameKey(j) /\ SameScope(j) /\ SameQueue(j)
      /\ job'[j].terminal = job[j].terminal /\ job'[j].gen = job[j].gen + 1
      /\ job[j].open
  BY <1>1, AdvancedJob
<1>3. /\ UNCHANGED <<setup, revoked, queuedCount, activeCount, mail, sending, ui>>
      /\ live' = (live \ {Token(j)}) \cup {now}
      /\ tombstones' = {x \in tombstones : Key(x[1]) = Key(now[1]) => x \in live \ {Token(j)}}
                          \cup {now}
      /\ ForgetRows({j})
  BY DEF AdvanceGeneration, Remember
<1>4. /\ IsFiniteSet(applied') /\ rowCount' = Cardinality(applied')
      /\ rowCount' <= MaxRows /\ applied' \subseteq applied
      /\ \A r \in applied' : r[1] # j
  BY <1>3, ForgetCount DEF RegistryInv, Credits
<1>5. ASSUME NEW k \in Jobs
      PROVE  /\ SameKey(k) /\ SameScope(k) /\ SameQueue(k)
             /\ job'[k].terminal = job[k].terminal
             /\ k # j => job'[k] = job[k] /\ Token(k)' = Token(k)
             /\ Key(k)' = Key(k)
  <2>1. /\ SameKey(k) /\ SameScope(k) /\ SameQueue(k)
        /\ job'[k].terminal = job[k].terminal
        /\ k # j => job'[k] = job[k]
    BY <1>2 DEF SameJobsBut, SameKey, SameScope, SameQueue
  <2> QED
    BY <2>1 DEF Key, Token, SameKey
<1>6. /\ now[1] = j /\ now[2] = job[j].gen + 1 /\ now[2] # 1 /\ now \in Tokens
  <2>1. job[j].gen \in Gens /\ job'[j].gen \in Gens
    BY <1>1, <1>2 DEF JobRecords
  <2>2. job[j].gen \in Nat \ {0}
    BY <2>1, RuntimeAssumption DEF Gens
  <2> QED
    BY <1>2, <2>1, <2>2 DEF Tokens
<1> HIDE DEF now
<1>7. RegistryTypes'
  <2>1. live' \subseteq Tokens /\ tombstones' \subseteq Tokens
    BY <1>3, <1>6 DEF RegistryInv, RegistryTypes
  <2> QED
    BY <1>2, <1>3, <1>4, <2>1 DEF RegistryInv, RegistryTypes
<1>8. Dormant'
  BY <1>5 DEF RegistryInv, Dormant, SameScope, SameQueue
<1>9. Credits'
  <2>1. (\A k \in Jobs : job'[k].queue = job[k].queue) /\ \A k \in Jobs : job'[k].open <=> job[k].open
    BY <1>5 DEF SameQueue, SameScope
  <2> QED
    BY <1>3, <1>4, <2>1, CreditsKept DEF RegistryInv
<1>10. Values'
  <2>1. \A t \in live : /\ t[1] \in Jobs /\ t = <<t[1], t[2]>>
                        /\ t[2] = job[t[1]].gen /\ (t[2] = 1 => Key(t[1]) \notin revoked)
                        /\ t \in tombstones
    BY TokenOwner DEF RegistryInv, RegistryTypes, Values
  <2>2. live' \subseteq tombstones'
    BY <1>3, <2>1
  <2>3. ASSUME NEW t \in live'
        PROVE  t[2] = job'[t[1]].gen /\ (t[2] = 1 => Key(t[1])' \notin revoked')
    <3>1. CASE t = now
      BY <1>2, <1>6, <3>1
    <3>2. CASE t \in live /\ t # Token(j)
      <4>1. t[1] # j
        BY <2>1, <3>2 DEF Token
      <4> QED
        BY <1>3, <1>5, <2>1, <3>2, <4>1
    <3> QED
      BY <1>3, <3>1, <3>2
  <2> QED
    BY <2>2, <2>3 DEF Values
<1>11. Contents'
  <2>1. \A r \in applied : r[1] \in Jobs
    BY DEF RegistryInv, RegistryTypes
  <2> QED
    BY <1>3, <1>4, <1>5, <2>1 DEF RegistryInv, Contents, SameScope, SameQueue
<1>12. ASSUME NEW k \in Jobs, Pending(k)'
       PROVE  Pending(k) /\ job'[k].gen = job[k].gen
  <2>1. k # j
    BY <1>2, <1>6, <1>12 DEF Pending
  <2>2. job'[k] = job[k] /\ Token(k)' = Token(k)
    BY <1>5, <2>1
  <2>3. Token(k) # now
    BY <1>6, <2>1 DEF Token
  <2> QED
    BY <1>3, <1>12, <2>2, <2>3 DEF Pending, UiCurrent
<1>13. Signalled'
  BY <1>3, <1>12, SignalledKept DEF RegistryInv
<1> QED
  BY <1>7, <1>8, <1>9, <1>10, <1>11, <1>13 DEF RegistryInv

LEMMA ReplaceSourceKeeps ==
    ASSUME RegistryInv, NEW j \in Jobs, ReplaceSource(j)
    PROVE  RegistryInv'
<1>1. job \in [Jobs -> JobRecords]
  BY DEF RegistryInv, RegistryTypes
<1>2. /\ job' \in [Jobs -> JobRecords] /\ SameJobsBut(j)
      /\ SameKey(j) /\ SameScope(j) /\ SameState(j) /\ SameQueue(j)
      /\ job'[j].gen = job[j].gen /\ ~job'[j].fresh
  BY <1>1, ReplacedJob
<1>3. /\ UNCHANGED <<setup, revoked, tombstones, applied, rowCount, queuedCount, activeCount,
                     mail, sending, ui>>
      /\ live' = {t \in live : t[1] # j}
  BY DEF ReplaceSource
<1>4. ASSUME NEW k \in Jobs
      PROVE  /\ SameKey(k) /\ SameScope(k) /\ SameState(k) /\ SameQueue(k)
             /\ job'[k].gen = job[k].gen /\ (k # j => job'[k] = job[k])
             /\ Key(k)' = Key(k) /\ Token(k)' = Token(k)
  <2>1. /\ SameKey(k) /\ SameScope(k) /\ SameState(k) /\ SameQueue(k)
        /\ job'[k].gen = job[k].gen /\ (k # j => job'[k] = job[k])
    BY <1>2 DEF SameJobsBut, SameKey, SameScope, SameState, SameQueue
  <2> QED
    BY <2>1 DEF Key, Token, SameKey
<1>5. RegistryTypes'
  <2>1. live' \subseteq Tokens
    BY <1>3 DEF RegistryInv, RegistryTypes
  <2> QED
    BY <1>2, <1>3, <2>1 DEF RegistryInv, RegistryTypes
<1>6. Dormant'
  BY <1>4 DEF RegistryInv, Dormant, SameScope, SameState, SameQueue
<1>7. Credits'
  <2>1. (\A k \in Jobs : job'[k].queue = job[k].queue) /\ \A k \in Jobs : job'[k].open <=> job[k].open
    BY <1>4 DEF SameQueue, SameScope
  <2>2. IsFiniteSet(applied') /\ rowCount' = Cardinality(applied') /\ rowCount' <= MaxRows
    BY <1>3 DEF RegistryInv, Credits
  <2> QED
    BY <1>3, <2>1, <2>2, CreditsKept DEF RegistryInv
<1>8. Values'
  <2>1. \A t \in live : t[1] \in Jobs
    BY TokenOwner DEF RegistryInv, RegistryTypes
  <2> QED
    BY <1>3, <1>4, <2>1 DEF RegistryInv, Values
<1>9. Contents'
  <2>1. \A r \in applied : r[1] \in Jobs
    BY DEF RegistryInv, RegistryTypes
  <2> QED
    BY <1>3, <1>4, <2>1 DEF RegistryInv, Contents, SameScope, SameState, SameQueue
<1>10. ASSUME NEW k \in Jobs, Pending(k)'
       PROVE  Pending(k) /\ job'[k].gen = job[k].gen
  <2>1. k # j
    BY <1>2, <1>10 DEF Pending, UiCurrent
  <2>2. job'[k] = job[k] /\ Token(k)' = Token(k)
    BY <1>4, <2>1
  <2> QED
    BY <1>3, <1>10, <2>2 DEF Pending, UiCurrent
<1>11. Signalled'
  BY <1>3, <1>10, SignalledKept DEF RegistryInv
<1> QED
  BY <1>5, <1>6, <1>7, <1>8, <1>9, <1>11 DEF RegistryInv

\* Revoking generations: their jobs close, their values and rows go.
LEMMA RevokeGenerationsKeeps ==
    ASSUME RegistryInv, NEW keys \in SUBSET Keys, NEW terminal \in Terminals,
           NEW authorize \in SUBSET Jobs, RevokeGenerations(keys, terminal, authorize)
    PROVE  RegistryInv'
<1> DEFINE K == keys \ revoked
           hit == {j \in Jobs : job[j].open /\ Key(j) \in K}
<1>1. job \in [Jobs -> JobRecords]
  BY DEF RegistryInv, RegistryTypes
<1>2. /\ job' \in [Jobs -> JobRecords]
      /\ \A k \in Jobs :
            /\ SameKey(k) /\ SameScope(k) /\ SameView(k)
            /\ Hit(K, k) => /\ job'[k].terminal = terminal /\ job'[k].control = "closed"
                            /\ job'[k].queue = <<>>
            /\ ~Hit(K, k) => /\ job'[k].terminal = job[k].terminal
                             /\ job'[k].control = job[k].control /\ SameQueue(k)
  BY <1>1, RevokedJobs
<1>3. /\ UNCHANGED <<setup, activeCount, mail, sending, ui>>
      /\ revoked' = revoked \cup K
      /\ live' = live \ RevokedTokens(K)
      /\ tombstones' = tombstones \ Remembered(K)
      /\ ForgetRows(hit)
      /\ queuedCount' = queuedCount - QueuedOf(hit)
  BY DEF RevokeGenerations
<1>4. /\ IsFiniteSet(applied') /\ rowCount' = Cardinality(applied')
      /\ rowCount' <= MaxRows /\ applied' \subseteq applied
      /\ \A r \in applied' : r[1] \notin hit
  BY <1>3, ForgetCount DEF RegistryInv, Credits
<1>5. hit \subseteq Jobs /\ \A k \in Jobs : k \in hit <=> Hit(K, k)
  BY DEF Hit
<1>6. K \subseteq Keys
  OBVIOUS
<1> HIDE DEF hit, K
<1>7. ASSUME NEW k \in Jobs
      PROVE  Key(k)' = Key(k) /\ Token(k)' = Token(k)
  BY <1>2 DEF Key, Token, SameKey, SameView
<1>8. RegistryTypes'
  <2>1. /\ revoked' \subseteq Keys /\ live' \subseteq Tokens /\ tombstones' \subseteq Tokens
        /\ applied' \subseteq Jobs \X Nat
    BY <1>3, <1>4, <1>6 DEF RegistryInv, RegistryTypes
  <2> QED
    BY <1>2, <1>3, <2>1 DEF RegistryInv, RegistryTypes
<1>9. Dormant'
  <2>1. ASSUME NEW k \in Jobs, ~job'[k].open
        PROVE  ~job'[k].active /\ job'[k].terminal = "none" /\ job'[k].queue = <<>>
    <3>1. ~job[k].open
      BY <1>2, <2>1 DEF SameScope
    <3>2. ~job[k].active /\ job[k].terminal = "none" /\ job[k].queue = <<>>
      BY <3>1 DEF RegistryInv, Dormant
    <3> QED
      BY <1>2, <3>1, <3>2 DEF Hit, SameScope, SameQueue
  <2> QED
    BY <2>1 DEF Dormant
<1>10. Credits'
  <2>1. /\ IsFiniteSet(QueuedIn(Jobs)) /\ queuedCount = QueuedOf(Jobs)
        /\ queuedCount <= MaxQueue
        /\ activeCount = Cardinality(OpenJobs) /\ activeCount <= MaxActive
    BY DEF RegistryInv, Credits
  <2>2. /\ IsFiniteSet(QueuedIn(Jobs \ hit))
        /\ QueuedOf(hit) \in Nat /\ QueuedOf(Jobs \ hit) \in Nat
        /\ QueuedOf(Jobs) = QueuedOf(hit) + QueuedOf(Jobs \ hit)
    BY <1>5, <2>1, QueuedSplit
  <2>3. QueuedIn(Jobs)' = QueuedIn(Jobs \ hit)
    <3>1. \A x : x \in QueuedIn(Jobs)' <=>
                 \E k \in Jobs : x \in {k} \X (1..Len(job'[k].queue))
      BY DEF QueuedIn
    <3>2. \A x : x \in QueuedIn(Jobs \ hit) <=>
                 \E k \in Jobs \ hit : x \in {k} \X (1..Len(job[k].queue))
      BY QueuedMembers
    <3>3. ASSUME NEW k \in Jobs
          PROVE  IF k \in hit THEN {k} \X (1..Len(job'[k].queue)) = {}
                              ELSE job'[k].queue = job[k].queue
      <4>1. CASE k \in hit
        <5>1. job'[k].queue = <<>>
          BY <1>2, <1>5, <4>1
        <5>2. Len(job'[k].queue) = 0
          BY <5>1
        <5>3. 1..Len(job'[k].queue) = {}
          BY <5>2
        <5> QED
          BY <4>1, <5>3
      <4>2. CASE k \notin hit
        BY <1>2, <1>5, <4>2 DEF SameQueue
      <4> QED
        BY <4>1, <4>2
    <3>4. \A x : x \in QueuedIn(Jobs)' <=> x \in QueuedIn(Jobs \ hit)
      BY <3>1, <3>2, <3>3
    <3> QED
      BY <3>4
  <2>4. QueuedOf(Jobs)' = QueuedOf(Jobs \ hit)
    BY <2>3 DEF QueuedOf
  <2>5. queuedCount' = QueuedOf(Jobs)' /\ queuedCount' <= MaxQueue
    <3> DEFINE a == QueuedOf(hit)
               b == QueuedOf(Jobs \ hit)
    <3>1. a \in Nat /\ b \in Nat /\ queuedCount = a + b /\ queuedCount' = queuedCount - a
      BY <1>3, <2>1, <2>2
    <3>2. MaxQueue \in Nat
      BY ConstantTypes
    <3> HIDE DEF a, b
    <3>3. queuedCount' = b /\ b <= MaxQueue
      BY <2>1, <3>1, <3>2
    <3> QED
      BY <2>4, <3>3 DEF b
  <2>6. OpenJobs' = OpenJobs
    BY <1>2 DEF OpenJobs, SameScope
  <2> QED
    BY <1>3, <1>4, <2>1, <2>2, <2>3, <2>5, <2>6 DEF Credits
<1>11. Values'
  <2>1. \A t \in live : /\ t[1] \in Jobs /\ t[2] = job[t[1]].gen
                        /\ (t[2] = 1 => Key(t[1]) \notin revoked) /\ t \in tombstones
    BY TokenOwner DEF RegistryInv, RegistryTypes, Values
  <2>2. ASSUME NEW t \in live'
        PROVE  t \in live /\ t \in tombstones' /\ Key(t[1]) \notin K
    <3>1. t \in live /\ t \notin Remembered(K)
      BY <1>3 DEF RevokedTokens
    <3> QED
      BY <1>3, <2>1, <3>1 DEF Remembered
  <2>3. ASSUME NEW t \in live'
        PROVE  t[2] = job'[t[1]].gen /\ (t[2] = 1 => Key(t[1])' \notin revoked')
    BY <1>2, <1>3, <1>7, <2>1, <2>2 DEF SameView
  <2> QED
    BY <2>2, <2>3 DEF Values
<1>12. Contents'
  <2>1. \A r \in applied : r[1] \in Jobs /\ job[r[1]].open /\ Key(r[1]) \notin revoked
    BY DEF RegistryInv, RegistryTypes, Contents
  <2>2. ASSUME NEW r \in applied'
        PROVE  job'[r[1]].open /\ Key(r[1])' \notin revoked'
    <3>1. /\ r[1] \in Jobs /\ job[r[1]].open /\ Key(r[1]) \notin revoked
          /\ ~Hit(K, r[1])
      BY <1>4, <1>5, <2>1
    <3>2. Key(r[1]) \notin K
      BY <3>1 DEF Hit
    <3> QED
      BY <1>2, <1>3, <1>7, <3>1, <3>2 DEF SameScope
  <2>3. ASSUME NEW k \in Jobs, job'[k].open, Key(k)' \in revoked'
        PROVE  job'[k].terminal # "none" /\ job'[k].queue = <<>>
    <3>1. job[k].open
      BY <1>2, <2>3 DEF SameScope
    <3>2. CASE Hit(K, k)
      BY <1>2, <3>2 DEF Terminals
    <3>3. CASE ~Hit(K, k)
      <4>1. Key(k) \in revoked
        BY <1>3, <1>7, <2>3, <3>1, <3>3 DEF Hit
      <4>2. job[k].terminal # "none" /\ job[k].queue = <<>>
        BY <3>1, <4>1 DEF RegistryInv, Contents
      <4> QED
        BY <1>2, <3>3, <4>2 DEF SameQueue
    <3> QED
      BY <3>2, <3>3
  <2> QED
    BY <1>3, <2>2, <2>3 DEF RegistryInv, Contents
<1>13. ASSUME NEW k \in Jobs, Pending(k)'
       PROVE  Pending(k) /\ job'[k].gen = job[k].gen
  <2>1. ~Hit(K, k)
    BY <1>2, <1>13 DEF Pending
  <2>2. /\ SameScope(k) /\ SameView(k) /\ SameQueue(k)
        /\ job'[k].terminal = job[k].terminal /\ job'[k].control = job[k].control
        /\ Token(k)' = Token(k)
    BY <1>2, <1>7, <2>1
  <2>3. UiCurrent(k)' => UiCurrent(k)
    BY <1>3, <2>2 DEF UiCurrent, SameView
  <2> QED
    BY <1>13, <2>2, <2>3 DEF Pending, SameScope, SameView, SameQueue
<1>14. Signalled'
  BY <1>3, <1>13, SignalledKept DEF RegistryInv
<1> QED
  BY <1>8, <1>9, <1>10, <1>11, <1>12, <1>14 DEF RegistryInv

\* The key of a job is a key.
LEMMA KeyType ==
    ASSUME RegistryInv, NEW j \in Jobs
    PROVE  Key(j) \in Keys
<1>1. job[j] \in JobRecords
  BY DEF RegistryInv, RegistryTypes
<1> QED
  BY <1>1 DEF Key, Keys, JobRecords

LEMMA RevokeFeatureKeeps ==
    ASSUME RegistryInv, NEW key \in Keys, RevokeFeature(key)
    PROVE  RegistryInv'
<1> DEFINE keys == {k \in {key} : \/ Remembered({k}) # {}
                                  \/ \E j \in Jobs : job[j].open /\ Key(j) = k}
<1>1. RevokeGenerations(keys, "cancelled", {})
  BY DEF RevokeFeature
<1>2. keys \in SUBSET Keys /\ "cancelled" \in Terminals /\ {} \in SUBSET Jobs
  BY DEF Terminals
<1> HIDE DEF keys
<1> QED
  BY <1>1, <1>2, RevokeGenerationsKeeps

LEMMA RevokeAllKeeps ==
    ASSUME RegistryInv, RevokeAll
    PROVE  RegistryInv'
<1> DEFINE keys == {Key(j) : j \in {k \in Jobs : job[k].open}}
<1>1. RevokeGenerations(keys, "cancelled", {})
  BY DEF RevokeAll
<1>2. keys \in SUBSET Keys /\ "cancelled" \in Terminals /\ {} \in SUBSET Jobs
  BY KeyType DEF Terminals
<1> HIDE DEF keys
<1> QED
  BY <1>1, <1>2, RevokeGenerationsKeeps

LEMMA FailCloseKeeps ==
    ASSUME RegistryInv, NEW j \in Jobs, NEW terminal \in {"cancelled", "incompatible"},
           FailClose(j, terminal)
    PROVE  RegistryInv'
<1>1. CASE RevokeGenerations({Key(j)}, terminal, {j})
  <2>1. {Key(j)} \in SUBSET Keys /\ terminal \in Terminals /\ {j} \in SUBSET Jobs
    BY KeyType DEF Terminals
  <2> QED
    BY <1>1, <2>1, RevokeGenerationsKeeps
<1>2. CASE UNCHANGED rtVars
  BY <1>2 DEF rtVars, RegistryInv, RegistryTypes, Dormant, Credits, Values, Contents,
     Signalled, OpenJobs, QueuedIn, QueuedOf, Key, Token, Pending, UiCurrent, Told,
     RescanDue, RescanTaken
<1> QED
  BY <1>1, <1>2 DEF FailClose

LEMMA SubmitMalformedKeeps ==
    ASSUME RegistryInv, NEW j \in Jobs, SubmitMalformed(j)
    PROVE  RegistryInv'
<1>1. RevokeGenerations({Key(j)}, "incompatible", {})
  BY DEF SubmitMalformed
<1>2. {Key(j)} \in SUBSET Keys /\ "incompatible" \in Terminals /\ {} \in SUBSET Jobs
  BY KeyType DEF Terminals
<1> QED
  BY <1>1, <1>2, RevokeGenerationsKeeps

\* A step of the mailbox or the UI leaves the jobs and their values alone.
LEMMA RegistryStands ==
    ASSUME RegistryInv,
           UNCHANGED <<job, revoked, tombstones, live, applied, rowCount, queuedCount,
                       activeCount>>,
           \A t \in ui'.shown : t[2] = 1, \A b \in ui'.held : b.gen = 1
    PROVE  /\ Dormant' /\ Credits' /\ Values' /\ Contents'
           /\ \A k \in Jobs : (Pending(k)' <=> Pending(k)) /\ Token(k)' = Token(k)
<1>1. Dormant'
  BY DEF RegistryInv, Dormant
<1>2. Credits'
  BY DEF RegistryInv, Credits, OpenJobs, QueuedIn, QueuedOf
<1>3. Values'
  BY DEF RegistryInv, Values, Key
<1>4. Contents'
  BY DEF RegistryInv, Contents, Key
<1>5. \A k \in Jobs : (Pending(k)' <=> Pending(k)) /\ Token(k)' = Token(k)
  BY DEF Pending, UiCurrent, Token
<1> QED
  BY <1>1, <1>2, <1>3, <1>4, <1>5

Views == [todo : SUBSET Tokens, seen : Nat, merged : BOOLEAN, held : SUBSET Batch,
          shown : SUBSET Tokens]
Mails == [ready : SUBSET Tokens, rescan : BOOLEAN, epoch : Nat, closed : BOOLEAN]

LEMMA SignalKeeps ==
    ASSUME RegistryInv, NEW s \in Tokens, Signal(s)
    PROVE  RegistryInv'
<1>1. /\ UNCHANGED <<setup, job, revoked, tombstones, live, applied, rowCount, queuedCount,
                     activeCount, ui>>
      /\ sending' = sending \ {s} /\ mail' = Delivered(mail, s)
  BY DEF Signal
<1>2. mail \in Mails /\ Cardinality(mail.ready) <= ReadyCap
  BY DEF RegistryInv, RegistryTypes, Mails
<1>3. IsFiniteSet(mail.ready) /\ Cardinality(mail.ready) \in Nat
  <2>1. mail.ready \subseteq Tokens
    BY <1>2 DEF Mails
  <2> QED
    BY <2>1, TokensFinite, FS_Subset, FS_CardinalityType
<1>4. /\ mail' \in Mails /\ Cardinality(mail'.ready) <= ReadyCap
      /\ mail'.closed <=> mail.closed
      /\ mail.ready \subseteq mail'.ready
      /\ \/ mail.closed /\ mail' = mail
         \/ s \in mail'.ready /\ (mail'.rescan <=> mail.rescan) /\ mail'.epoch = mail.epoch
         \/ mail'.rescan /\ mail'.epoch = mail.epoch + 1
  <2>1. CASE mail.closed \/ s \in mail.ready
    <3>1. mail' = mail
      BY <1>1, <2>1 DEF Delivered
    <3> QED
      BY <1>2, <2>1, <3>1
  <2>2. CASE ~(mail.closed \/ s \in mail.ready) /\ Cardinality(mail.ready) = ReadyCap
    <3> DEFINE more == mail.epoch + 1
    <3>1. mail' = [mail EXCEPT !.rescan = TRUE, !.epoch = more]
      BY <1>1, <2>2 DEF Delivered
    <3>5. mail.epoch \in Nat
      BY <1>2 DEF Mails
    <3>6. more \in Nat /\ more = mail.epoch + 1
      BY <3>5
    <3> HIDE DEF more
    <3>7. mail' \in Mails /\ mail'.ready = mail.ready /\ (mail'.closed <=> mail.closed)
          /\ mail'.rescan /\ mail'.epoch = more
      BY <1>2, <3>1, <3>6 DEF Mails
    <3>2. mail' \in Mails /\ mail'.ready = mail.ready /\ (mail'.closed <=> mail.closed)
          /\ mail'.rescan /\ mail'.epoch = mail.epoch + 1
      BY <3>6, <3>7
    <3>3. Cardinality(mail'.ready) <= ReadyCap
      BY <1>2, <3>2
    <3>4. mail.ready \subseteq mail'.ready
      BY <3>2
    <3> QED
      BY <3>2, <3>3, <3>4
  <2>3. CASE ~(mail.closed \/ s \in mail.ready) /\ Cardinality(mail.ready) # ReadyCap
    <3>1. mail' = [mail EXCEPT !.ready = mail.ready \cup {s}]
      BY <1>1, <2>3 DEF Delivered
    <3>2. /\ mail' \in Mails /\ mail'.ready = mail.ready \cup {s}
          /\ (mail'.closed <=> mail.closed)
          /\ (mail'.rescan <=> mail.rescan) /\ mail'.epoch = mail.epoch
      BY <1>2, <3>1 DEF Mails
    <3>3. Cardinality(mail.ready \cup {s}) = Cardinality(mail.ready) + 1
      BY <1>3, <2>3, FS_AddElement
    <3>4. Cardinality(mail'.ready) <= ReadyCap
      BY <1>2, <1>3, <2>3, <3>2, <3>3, ConstantTypes
    <3> QED
      BY <3>2, <3>4
  <2> QED
    BY <2>1, <2>2, <2>3
<1>5. (\A t \in ui'.shown : t[2] = 1) /\ (\A b \in ui'.held : b.gen = 1)
  BY <1>1 DEF RegistryInv, Contents
<1>6. /\ Dormant' /\ Credits' /\ Values' /\ Contents'
      /\ \A k \in Jobs : (Pending(k)' <=> Pending(k)) /\ Token(k)' = Token(k)
  BY <1>1, <1>5, RegistryStands
<1>7. RegistryTypes'
  BY <1>1, <1>4 DEF RegistryInv, RegistryTypes, Mails
<1>8. ui.seen \in Nat /\ mail.epoch \in Nat
  BY <1>2 DEF RegistryInv, RegistryTypes, Mails
<1>9. (mail'.rescan => mail'.epoch # 0) /\ ui'.seen <= mail'.epoch
  <2>1. (mail.rescan => mail.epoch # 0) /\ ui.seen <= mail.epoch
    BY DEF RegistryInv, Signalled
  <2> QED
    BY <1>1, <1>4, <1>8, <2>1
<1>10. ASSUME NEW k \in Jobs, Pending(k)', setup'.mailbox, ~mail'.closed
       PROVE  Told(k)' \/ RescanDue' \/ RescanTaken'
  <2>1. Told(k) \/ RescanDue \/ RescanTaken
    BY <1>1, <1>4, <1>6, <1>10 DEF RegistryInv, Signalled
  <2>2. ui.seen <= mail.epoch
    BY DEF RegistryInv, Signalled
  <2>3. CASE mail'.rescan /\ mail'.epoch = mail.epoch + 1
    BY <1>1, <1>8, <2>2, <2>3 DEF RescanDue
  <2>4. CASE s \in mail'.ready /\ (mail'.rescan <=> mail.rescan) /\ mail'.epoch = mail.epoch
    <3>1. Told(k) => Told(k)'
      BY <1>1, <1>4, <1>6, <2>4 DEF Told
    <3> QED
      BY <1>1, <2>1, <2>4, <3>1 DEF RescanDue, RescanTaken
  <2> QED
    BY <1>4, <1>10, <2>3, <2>4
<1>11. Signalled'
  BY <1>9, <1>10 DEF Signalled
<1> QED
  BY <1>6, <1>7, <1>11 DEF RegistryInv

LEMMA TakeReadyKeeps ==
    ASSUME RegistryInv, TakeReady
    PROVE  RegistryInv'
<1>1. /\ UNCHANGED <<setup, job, revoked, tombstones, live, applied, rowCount, queuedCount,
                     activeCount, sending>>
      /\ ui.seen = 0 /\ mail' = [mail EXCEPT !.ready = {}]
      /\ ui' = [ui EXCEPT !.todo = ui.todo \cup mail.ready,
                          !.seen = IF mail.rescan THEN mail.epoch ELSE 0, !.merged = FALSE]
  BY DEF TakeReady
<1>2. mail \in Mails /\ ui \in Views
  BY DEF RegistryInv, RegistryTypes, Mails, Views
<1>3. /\ mail' \in Mails /\ mail'.ready = {} /\ (mail'.rescan <=> mail.rescan)
      /\ mail'.epoch = mail.epoch /\ (mail'.closed <=> mail.closed)
  BY <1>1, <1>2 DEF Mails
<1>4. /\ ui' \in Views /\ ui'.todo = ui.todo \cup mail.ready
      /\ ui'.seen = (IF mail.rescan THEN mail.epoch ELSE 0) /\ ~ui'.merged
      /\ ui'.held = ui.held /\ ui'.shown = ui.shown
  BY <1>1, <1>2 DEF Mails, Views
<1>5. /\ Dormant' /\ Credits' /\ Values' /\ Contents'
      /\ \A k \in Jobs : (Pending(k)' <=> Pending(k)) /\ Token(k)' = Token(k)
  BY <1>1, <1>4, RegistryStands DEF RegistryInv, Contents
<1>6. RegistryTypes'
  <2>1. Cardinality({}) = 0
    BY FS_EmptySet
  <2>2. Cardinality(mail'.ready) <= ReadyCap
    BY <1>3, <2>1, ConstantTypes
  <2> QED
    BY <1>1, <1>3, <1>4, <2>2 DEF RegistryInv, RegistryTypes, Mails, Views
<1>7. (mail'.rescan => mail'.epoch # 0) /\ ui'.seen <= mail'.epoch
  <2>1. (mail.rescan => mail.epoch # 0) /\ mail.epoch \in Nat
    BY <1>2 DEF RegistryInv, Signalled, Mails
  <2> QED
    BY <1>3, <1>4, <2>1
<1>8. ASSUME NEW k \in Jobs, Pending(k)', setup'.mailbox, ~mail'.closed
      PROVE  Told(k)' \/ RescanDue' \/ RescanTaken'
  <2>1. Told(k) \/ RescanDue \/ RescanTaken
    BY <1>1, <1>3, <1>5, <1>8 DEF RegistryInv, Signalled
  <2>2. CASE Told(k)
    BY <1>1, <1>4, <1>5, <2>2 DEF Told
  <2>3. CASE RescanDue
    BY <1>3, <1>4, <1>7, <2>3 DEF RescanDue, RescanTaken
  <2> QED
    BY <1>1, <2>1, <2>2, <2>3 DEF RescanTaken
<1>9. Signalled'
  BY <1>7, <1>8 DEF Signalled
<1> QED
  BY <1>5, <1>6, <1>9 DEF RegistryInv

LEMMA RescanKeeps ==
    ASSUME RegistryInv, Rescan
    PROVE  RegistryInv'
<1>1. /\ UNCHANGED <<setup, job, revoked, tombstones, live, applied, rowCount, queuedCount,
                     activeCount, mail, sending>>
      /\ ui' = [ui EXCEPT !.todo = ui.todo \cup ReadyJobs, !.merged = TRUE]
  BY DEF Rescan
<1>2. mail \in Mails /\ ui \in Views
  BY DEF RegistryInv, RegistryTypes, Mails, Views
<1>3. ReadyJobs \subseteq Tokens
  <2>1. \A k \in Jobs : Token(k) \in Tokens
    BY DEF RegistryInv, RegistryTypes, Token, Tokens, JobRecords
  <2> QED
    BY <2>1 DEF ReadyJobs
<1>4. /\ ui' \in Views /\ ui'.todo = ui.todo \cup ReadyJobs
      /\ ui'.seen = ui.seen /\ ui'.merged
      /\ ui'.held = ui.held /\ ui'.shown = ui.shown
  BY <1>1, <1>2, <1>3 DEF Views
<1>5. /\ Dormant' /\ Credits' /\ Values' /\ Contents'
      /\ \A k \in Jobs : (Pending(k)' <=> Pending(k)) /\ Token(k)' = Token(k)
  BY <1>1, <1>4, RegistryStands DEF RegistryInv, Contents
<1>6. RegistryTypes'
  BY <1>1, <1>4 DEF RegistryInv, RegistryTypes, Views
<1>7. (mail'.rescan => mail'.epoch # 0) /\ ui'.seen <= mail'.epoch
  BY <1>1, <1>4 DEF RegistryInv, Signalled
<1>8. ASSUME NEW k \in Jobs, Pending(k)'
      PROVE  Told(k)'
  <2>1. Token(k) \in ReadyJobs
    BY <1>5, <1>8 DEF Pending, ReadyJobs
  <2> QED
    BY <1>4, <1>5, <2>1 DEF Told
<1>9. Signalled'
  BY <1>7, <1>8 DEF Signalled
<1> QED
  BY <1>5, <1>6, <1>9 DEF RegistryInv

LEMMA AcknowledgeRescanKeeps ==
    ASSUME RegistryInv, AcknowledgeRescan
    PROVE  RegistryInv'
<1>1. /\ UNCHANGED <<setup, job, revoked, tombstones, live, applied, rowCount, queuedCount,
                     activeCount, sending>>
      /\ ui.seen # 0 /\ ui.merged
      /\ mail' = [mail EXCEPT !.rescan = mail.rescan /\ mail.epoch # ui.seen]
      /\ ui' = [ui EXCEPT !.seen = 0, !.merged = FALSE]
  BY DEF AcknowledgeRescan
<1>2. mail \in Mails /\ ui \in Views
  BY DEF RegistryInv, RegistryTypes, Mails, Views
<1>3. /\ mail' \in Mails /\ mail'.ready = mail.ready
      /\ (mail'.rescan <=> mail.rescan /\ mail.epoch # ui.seen)
      /\ mail'.epoch = mail.epoch /\ (mail'.closed <=> mail.closed)
  BY <1>1, <1>2 DEF Mails
<1>4. /\ ui' \in Views /\ ui'.todo = ui.todo /\ ui'.seen = 0 /\ ~ui'.merged
      /\ ui'.held = ui.held /\ ui'.shown = ui.shown
  BY <1>1, <1>2 DEF Views
<1>5. /\ Dormant' /\ Credits' /\ Values' /\ Contents'
      /\ \A k \in Jobs : (Pending(k)' <=> Pending(k)) /\ Token(k)' = Token(k)
  BY <1>1, <1>4, RegistryStands DEF RegistryInv, Contents
<1>6. RegistryTypes'
  BY <1>1, <1>3, <1>4 DEF RegistryInv, RegistryTypes, Mails, Views
<1>7. (mail'.rescan => mail'.epoch # 0) /\ ui'.seen <= mail'.epoch
  <2>1. (mail.rescan => mail.epoch # 0) /\ mail.epoch \in Nat
    BY <1>2 DEF RegistryInv, Signalled, Mails
  <2> QED
    BY <1>3, <1>4, <2>1
<1>8. ASSUME NEW k \in Jobs, Pending(k)', setup'.mailbox, ~mail'.closed
      PROVE  Told(k)' \/ RescanDue'
  <2>1. Told(k) \/ RescanDue
    BY <1>1, <1>3, <1>5, <1>8 DEF RegistryInv, Signalled, RescanTaken
  <2>2. CASE Told(k)
    BY <1>1, <1>3, <1>4, <1>5, <2>2 DEF Told
  <2>3. CASE RescanDue
    BY <1>1, <1>3, <1>4, <2>3 DEF RescanDue
  <2> QED
    BY <2>1, <2>2, <2>3
<1>9. Signalled'
  BY <1>7, <1>8 DEF Signalled
<1> QED
  BY <1>5, <1>6, <1>9 DEF RegistryInv

LEMMA DrainNothingKeeps ==
    ASSUME RegistryInv, NEW s \in Tokens, DrainNothing(s)
    PROVE  RegistryInv'
<1>1. /\ UNCHANGED <<setup, job, revoked, tombstones, live, applied, rowCount, queuedCount,
                     activeCount, mail, sending>>
      /\ ~job[s[1]].open /\ ui' = [ui EXCEPT !.todo = ui.todo \ {s}]
  BY DEF DrainNothing
<1>2. ui \in Views
  BY DEF RegistryInv, RegistryTypes, Views
<1>3. /\ ui' \in Views /\ ui'.todo = ui.todo \ {s}
      /\ ui'.seen = ui.seen /\ (ui'.merged <=> ui.merged)
      /\ ui'.held = ui.held /\ ui'.shown = ui.shown
  BY <1>1, <1>2 DEF Views
<1>4. /\ Dormant' /\ Credits' /\ Values' /\ Contents'
      /\ \A k \in Jobs : (Pending(k)' <=> Pending(k)) /\ Token(k)' = Token(k)
  BY <1>1, <1>3, RegistryStands DEF RegistryInv, Contents
<1>5. RegistryTypes'
  BY <1>1, <1>3 DEF RegistryInv, RegistryTypes, Views
<1>6. (mail'.rescan => mail'.epoch # 0) /\ ui'.seen <= mail'.epoch
  BY <1>1, <1>3 DEF RegistryInv, Signalled
<1>7. ASSUME NEW k \in Jobs, Pending(k)', setup'.mailbox, ~mail'.closed
      PROVE  Told(k)' \/ RescanDue' \/ RescanTaken'
  <2>1. Told(k) \/ RescanDue \/ RescanTaken
    BY <1>1, <1>4, <1>7 DEF RegistryInv, Signalled
  <2>2. Token(k) # s
    <3>1. job[k].open /\ Token(k)[1] = k
      BY <1>4, <1>7 DEF Pending, Token
    <3> QED
      BY <1>1, <3>1
  <2>3. Told(k) => Told(k)'
    BY <1>1, <1>3, <1>4, <2>2 DEF Told
  <2> QED
    BY <1>1, <1>3, <2>1, <2>3 DEF RescanDue, RescanTaken
<1>8. Signalled'
  BY <1>6, <1>7 DEF Signalled
<1> QED
  BY <1>4, <1>5, <1>8 DEF RegistryInv

\* A step that only changes what the UI holds and shows.
LEMMA ShownOnly ==
    ASSUME RegistryInv, ui' \in Views, ui'.todo = ui.todo, ui'.seen = ui.seen,
           ui'.merged <=> ui.merged,
           UNCHANGED <<setup, job, live, mail, sending>>
    PROVE  Signalled'
<1>1. (mail'.rescan => mail'.epoch # 0) /\ ui'.seen <= mail'.epoch
  BY DEF RegistryInv, Signalled
<1>2. ASSUME NEW k \in Jobs, Pending(k)', setup'.mailbox, ~mail'.closed
      PROVE  Told(k)' \/ RescanDue' \/ RescanTaken'
  <2>1. Pending(k)
    BY <1>2 DEF Pending, UiCurrent, Token
  <2>2. Told(k) \/ RescanDue \/ RescanTaken
    BY <1>2, <2>1 DEF RegistryInv, Signalled
  <2> QED
    BY <2>2 DEF Told, RescanDue, RescanTaken, Token
<1> QED
  BY <1>1, <1>2 DEF Signalled

LEMMA ApplyKeeps ==
    ASSUME RegistryInv, NEW b \in ui.held, Apply(b)
    PROVE  RegistryInv'
<1> DEFINE row == <<b.job, b.seq>>
           value == <<b.job, b.gen>>
<1>1. /\ UNCHANGED <<setup, job, revoked, tombstones, live, queuedCount, activeCount, mail,
                     sending>>
      /\ row \notin applied /\ rowCount < MaxRows
      /\ applied' = applied \cup {row} /\ rowCount' = rowCount + 1
      /\ ui' = [ui EXCEPT !.shown = ui.shown \cup {value}]
  BY DEF Apply
<1>2. job[b.job].open /\ Key(b.job) \notin revoked
  BY DEF Apply, BatchCurrent
<1>3. ui \in Views
  BY DEF RegistryInv, RegistryTypes, Views
<1>4. b \in Batch /\ b.gen = 1
  BY <1>3 DEF Views, RegistryInv, Contents
<1>5. /\ row \in Jobs \X Nat /\ row[1] = b.job
      /\ value \in Tokens /\ value[2] = 1
  BY <1>4 DEF Batch, Tokens
<1> HIDE DEF row, value
<1>6. /\ ui' \in Views /\ ui'.shown = ui.shown \cup {value} /\ ui'.todo = ui.todo
      /\ ui'.seen = ui.seen /\ (ui'.merged <=> ui.merged) /\ ui'.held = ui.held
  BY <1>1, <1>3, <1>5 DEF Views
<1>7. RegistryTypes'
  <2>1. applied' \subseteq Jobs \X Nat
    BY <1>1, <1>5 DEF RegistryInv, RegistryTypes
  <2> QED
    BY <1>1, <1>6, <2>1 DEF RegistryInv, RegistryTypes, Views
<1>8. Dormant'
  BY <1>1 DEF RegistryInv, Dormant
<1>9. Credits'
  <2>1. IsFiniteSet(applied) /\ rowCount = Cardinality(applied)
    BY DEF RegistryInv, Credits
  <2>2. /\ IsFiniteSet(applied') /\ Cardinality(applied') = Cardinality(applied) + 1
        /\ Cardinality(applied) \in Nat
    BY <1>1, <2>1, FS_AddElement, FS_CardinalityType
  <2>3. rowCount' = Cardinality(applied') /\ rowCount' <= MaxRows
    BY <1>1, <2>1, <2>2, ConstantTypes
  <2> QED
    BY <1>1, <2>2, <2>3, CreditsKept DEF RegistryInv
<1>10. Values'
  BY <1>1 DEF RegistryInv, Values, Key
<1>11. Contents'
  BY <1>1, <1>2, <1>5, <1>6 DEF RegistryInv, Contents, Key
<1>12. Signalled'
  BY <1>1, <1>6, ShownOnly
<1> QED
  BY <1>7, <1>8, <1>9, <1>10, <1>11, <1>12 DEF RegistryInv

LEMMA ApplyRefusedKeeps ==
    ASSUME RegistryInv, NEW b \in ui.held, ApplyRefused(b)
    PROVE  RegistryInv'
<1>1. /\ UNCHANGED <<setup, job, revoked, tombstones, live, applied, rowCount, queuedCount,
                     activeCount, mail, sending>>
      /\ ui' = [ui EXCEPT !.held = ui.held \ {b}]
  BY DEF ApplyRefused
<1>2. ui \in Views
  BY DEF RegistryInv, RegistryTypes, Views
<1>3. /\ ui' \in Views /\ ui'.held = ui.held \ {b} /\ ui'.shown = ui.shown
      /\ ui'.todo = ui.todo /\ ui'.seen = ui.seen /\ (ui'.merged <=> ui.merged)
  BY <1>1, <1>2 DEF Views
<1>4. Dormant' /\ Credits' /\ Values' /\ Contents'
  BY <1>1, <1>3, RegistryStands DEF RegistryInv, Contents
<1>5. RegistryTypes'
  BY <1>1, <1>3 DEF RegistryInv, RegistryTypes, Views
<1>6. Signalled'
  BY <1>1, <1>3, ShownOnly
<1> QED
  BY <1>4, <1>5, <1>6 DEF RegistryInv

LEMMA CloseMailboxKeeps ==
    ASSUME RegistryInv, CloseMailbox
    PROVE  RegistryInv'
<1>1. /\ UNCHANGED <<setup, job, revoked, tombstones, live, applied, rowCount, queuedCount,
                     activeCount, sending, ui>>
      /\ mail' = [mail EXCEPT !.closed = TRUE, !.ready = {}, !.rescan = FALSE]
  BY DEF CloseMailbox
<1>2. mail \in Mails
  BY DEF RegistryInv, RegistryTypes, Mails
<1>3. mail' \in Mails /\ mail'.ready = {} /\ ~mail'.rescan /\ mail'.closed
      /\ mail'.epoch = mail.epoch
  BY <1>1, <1>2 DEF Mails
<1>4. Dormant' /\ Credits' /\ Values' /\ Contents'
  BY <1>1, RegistryStands DEF RegistryInv, Contents
<1>5. RegistryTypes'
  <2>1. Cardinality({}) = 0
    BY FS_EmptySet
  <2>2. Cardinality(mail'.ready) <= ReadyCap
    BY <1>3, <2>1, ConstantTypes
  <2> QED
    BY <1>1, <1>3, <2>2 DEF RegistryInv, RegistryTypes, Mails
<1>6. Signalled'
  BY <1>1, <1>3 DEF RegistryInv, Signalled
<1> QED
  BY <1>4, <1>5, <1>6 DEF RegistryInv

\* Nothing is registered at first.
LEMMA RegistryInvInit ==
    ASSUME RuntimeInit
    PROVE  RegistryInv
<1> DEFINE f0 == CHOOSE f \in Features : TRUE
           r0 == NoJob(f0)
<1>1. f0 \in Features
  BY ConstantTypes
<1>2. /\ setup \in Setups /\ job \in [Jobs -> {r0}]
      /\ revoked = {} /\ tombstones = {} /\ live = {} /\ applied = {}
      /\ rowCount = 0 /\ queuedCount = 0 /\ activeCount = 0
      /\ mail = Open /\ sending = {}
      /\ ui = [todo |-> {}, seen |-> 0, merged |-> FALSE, held |-> {}, shown |-> {}]
  BY DEF RuntimeInit
<1> HIDE DEF f0
<1>3. /\ r0 \in JobRecords /\ ~r0.open /\ ~r0.active /\ r0.terminal = "none"
      /\ r0.queue = <<>> /\ Len(r0.queue) = 0
  BY <1>1, ConstantTypes DEF NoJob, JobRecords, Controls
<1> HIDE DEF r0
<1>4. job \in [Jobs -> JobRecords] /\ \A k \in Jobs : job[k] = r0
  BY <1>2, <1>3
<1>5. Cardinality({}) = 0 /\ IsFiniteSet({})
  BY FS_EmptySet
<1>6. RegistryTypes
  <2>1. mail \in [ready : SUBSET Tokens, rescan : BOOLEAN, epoch : Nat, closed : BOOLEAN]
        /\ mail.ready = {}
    BY <1>2 DEF Open
  <2>2. ui \in [todo : SUBSET Tokens, seen : Nat, merged : BOOLEAN, held : SUBSET Batch,
                shown : SUBSET Tokens]
    BY <1>2
  <2>3. Cardinality(mail.ready) <= ReadyCap
    BY <1>5, <2>1, ConstantTypes
  <2> QED
    BY <1>2, <1>4, <2>1, <2>2, <2>3 DEF RegistryTypes
<1>7. Dormant
  BY <1>3, <1>4 DEF Dormant
<1>8. Credits
  <2>1. OpenJobs = {}
    BY <1>3, <1>4 DEF OpenJobs
  <2>2. QueuedIn(Jobs) = {}
    <3>1. 1..0 = {}
      OBVIOUS
    <3>2. \A x : x \notin QueuedIn(Jobs)
      <4>1. ASSUME NEW k \in Jobs
            PROVE  {k} \X (1..Len(job[k].queue)) = {}
        <5>1. 1..Len(job[k].queue) = {}
          BY <1>3, <1>4, <3>1
        <5> QED
          BY <5>1
      <4> QED
        BY <4>1, QueuedMembers
    <3> QED
      BY <3>2
  <2> QED
    BY <1>2, <1>5, <2>1, <2>2, ConstantTypes DEF Credits, QueuedOf
<1>9. Values /\ Contents
  BY <1>2, <1>3, <1>4 DEF Values, Contents
<1>10. Signalled
  BY <1>2, <1>3, <1>4 DEF Signalled, Pending, Open
<1> QED
  BY <1>6, <1>7, <1>8, <1>9, <1>10 DEF RegistryInv

-----------------------------------------------------------------------------
(* What the host relies on: no operation but opening a job opens one or      *)
(* makes a value current again, and none of them takes back that a job may   *)
(* retire.                                                                   *)

FinalKept(k) ==
    /\ (Retirable(k) /\ job'[k].open) => Retirable(k)'
    /\ (job'[k].open /\ job[k].terminal # "none" /\ job'[k].terminal # job[k].terminal) =>
          /\ Key(k) \in revoked' \ revoked
          /\ job'[k].terminal \in {"cancelled", "incompatible"}

CalmFor(k) ==
    /\ SameKey(k) /\ (job'[k].open => job[k].open)
    /\ job'[k].active <=> job[k].active
    /\ <<k, 1>> \in live' => <<k, 1>> \in live
    /\ FinalKept(k)

Calm ==
    /\ \A k \in Jobs : CalmFor(k)
    /\ \A t \in tombstones' : t \in tombstones \/ job[t[1]].open

\* A job that is left alone keeps its terminal.
LEMMA FinalSame ==
    ASSUME NEW k \in Jobs, job'[k] = job[k]
    PROVE  FinalKept(k) /\ SameKey(k) /\ SameScope(k)
  BY DEF FinalKept, Retirable, SameKey, SameScope

LEMMA CalmStutter ==
    ASSUME UNCHANGED rtVars
    PROVE  Calm
  BY FinalSame DEF rtVars, Calm, CalmFor, SameScope

\* A step on one job that keeps its scope, with no new value of generation 1.
LEMMA CalmOne ==
    ASSUME NEW j \in Jobs, SameJobsBut(j), SameKey(j), job'[j].open => job[j].open,
           job'[j].active <=> job[j].active, FinalKept(j),
           \A k \in Jobs : <<k, 1>> \in live' => <<k, 1>> \in live,
           \A t \in tombstones' : t \in tombstones \/ job[t[1]].open
    PROVE  Calm
<1>1. ASSUME NEW k \in Jobs
      PROVE  CalmFor(k)
  <2>1. CASE k = j
    BY <2>1 DEF CalmFor
  <2>2. CASE k # j
    BY <2>2, FinalSame DEF CalmFor, SameJobsBut, SameScope
  <2> QED
    BY <2>1, <2>2
<1> QED
  BY <1>1 DEF Calm

LEMMA RequestControlCalm ==
    ASSUME RegistryInv, NEW j \in Jobs, NEW c \in {"cancelled", "deadline"},
           RequestControl(j, c)
    PROVE  Calm
<1>1. job \in [Jobs -> JobRecords] /\ c \in Controls
  BY DEF RegistryInv, RegistryTypes, Controls
<1>2. live' = live /\ tombstones' = tombstones
  BY DEF RequestControl
<1>3. FinalKept(j)
  BY <1>1, ControlledJob DEF FinalKept, Retirable
<1> QED
  BY <1>1, <1>2, <1>3, ControlledJob, CalmOne DEF SameScope

LEMMA FinishJobCalm ==
    ASSUME RegistryInv, NEW j \in Jobs, NEW reported \in {"completed", "panicked"},
           FinishJob(j, reported)
    PROVE  Calm
<1>1. job \in [Jobs -> JobRecords]
  BY DEF RegistryInv, RegistryTypes
<1>2. live' = live /\ tombstones' = tombstones
  BY DEF FinishJob
<1>3. FinalKept(j)
  BY <1>1, FinishedJob DEF FinalKept, Retirable, SameScope, SameState
<1> QED
  BY <1>1, <1>2, <1>3, FinishedJob, CalmOne DEF SameScope

LEMMA AuthorizeRetirementCalm ==
    ASSUME RegistryInv, NEW j \in Jobs, AuthorizeRetirement(j)
    PROVE  Calm
<1>1. job \in [Jobs -> JobRecords]
  BY DEF RegistryInv, RegistryTypes
<1>2. live' = live /\ tombstones' = tombstones
  BY DEF AuthorizeRetirement
<1>3. FinalKept(j)
  BY <1>1, AuthorizedJob DEF FinalKept, Retirable, SameScope
<1> QED
  BY <1>1, <1>2, <1>3, AuthorizedJob, CalmOne DEF SameScope

LEMMA SubmitCalm ==
    ASSUME RegistryInv, NEW j \in Jobs, Submit(j)
    PROVE  Calm
<1>1. job \in [Jobs -> JobRecords]
  BY DEF RegistryInv, RegistryTypes
<1>2. live' = live /\ tombstones' = tombstones
  BY DEF Submit
<1>3. FinalKept(j)
  BY <1>1, SubmittedJob DEF FinalKept, Retirable, SameScope, SameState
<1> QED
  BY <1>1, <1>2, <1>3, SubmittedJob, CalmOne DEF SameScope

LEMMA PurgeCalm ==
    ASSUME RegistryInv, NEW j \in Jobs, Purge(j)
    PROVE  Calm
<1>1. job \in [Jobs -> JobRecords]
  BY DEF RegistryInv, RegistryTypes
<1>2. live' = live /\ tombstones' = tombstones
  BY DEF Purge
<1>3. FinalKept(j)
  BY <1>1, PurgedJob DEF FinalKept, Retirable, SameScope, SameState
<1> QED
  BY <1>1, <1>2, <1>3, PurgedJob, CalmOne DEF SameScope

LEMMA DrainCalm ==
    ASSUME RegistryInv, NEW s \in Tokens, Drain(s)
    PROVE  Calm
<1>1. job \in [Jobs -> JobRecords]
  BY DEF RegistryInv, RegistryTypes
<1>2. live' = live /\ tombstones' = tombstones
  BY DEF Drain
<1>3. /\ s[1] \in Jobs /\ SameJobsBut(s[1])
      /\ SameKey(s[1]) /\ SameScope(s[1]) /\ SameState(s[1])
  BY <1>1, DrainedJob
<1>4. FinalKept(s[1])
  BY <1>3 DEF FinalKept, Retirable, SameScope, SameState
<1> QED
  BY <1>2, <1>3, <1>4, CalmOne DEF SameScope

LEMMA RetireCalm ==
    ASSUME RegistryInv, NEW j \in Jobs, Retire(j)
    PROVE  Calm /\ Retirable(j)
<1>1. job \in [Jobs -> JobRecords]
  BY DEF RegistryInv, RegistryTypes
<1>2. live' = live /\ tombstones' = tombstones
  BY DEF Retire
<1>3. FinalKept(j)
  BY <1>1, RetiredJob DEF FinalKept
<1>4. ~job[j].active
  BY <1>1, RetiredJob DEF Retirable
<1> QED
  BY <1>1, <1>2, <1>3, <1>4, RetiredJob, CalmOne

LEMMA ReplaceSourceCalm ==
    ASSUME RegistryInv, NEW j \in Jobs, ReplaceSource(j)
    PROVE  Calm
<1>1. job \in [Jobs -> JobRecords]
  BY DEF RegistryInv, RegistryTypes
<1>2. live' \subseteq live /\ tombstones' = tombstones
  BY DEF ReplaceSource
<1>3. FinalKept(j)
  BY <1>1, ReplacedJob DEF FinalKept, Retirable, SameScope, SameState
<1> QED
  BY <1>1, <1>2, <1>3, ReplacedJob, CalmOne DEF SameScope

LEMMA AdvanceGenerationCalm ==
    ASSUME RegistryInv, NEW j \in Jobs, AdvanceGeneration(j)
    PROVE  Calm
<1> DEFINE now == <<j, job[j].gen + 1>>
<1>1. job \in [Jobs -> JobRecords]
  BY DEF RegistryInv, RegistryTypes
<1>2. /\ \A t \in live' : t \in live \/ t = now
      /\ \A t \in tombstones' : t \in tombstones \/ t = now
      /\ job[j].open
  BY DEF AdvanceGeneration, Remember
<1>3. now[1] = j /\ now[2] # 1
  <2>1. job[j].gen \in Gens
    BY <1>1 DEF JobRecords
  <2>2. job[j].gen \in Nat \ {0}
    BY <2>1, RuntimeAssumption DEF Gens
  <2> QED
    BY <2>2
<1> HIDE DEF now
<1>4. FinalKept(j)
  BY <1>1, AdvancedJob DEF FinalKept, Retirable, SameScope
<1>5. \A k \in Jobs : <<k, 1>> \in live' => <<k, 1>> \in live
  BY <1>2, <1>3
<1>6. \A t \in tombstones' : t \in tombstones \/ job[t[1]].open
  BY <1>2, <1>3
<1> QED
  BY <1>1, <1>4, <1>5, <1>6, AdvancedJob, CalmOne DEF SameScope

LEMMA RevokeGenerationsCalm ==
    ASSUME RegistryInv, NEW keys \in SUBSET Keys,
           NEW terminal \in {"cancelled", "incompatible"},
           NEW authorize \in SUBSET Jobs, RevokeGenerations(keys, terminal, authorize)
    PROVE  Calm
<1> DEFINE K == keys \ revoked
<1>1. job \in [Jobs -> JobRecords] /\ terminal \in Terminals
  BY DEF RegistryInv, RegistryTypes, Terminals
<1>2. /\ live' \subseteq live /\ tombstones' \subseteq tombstones /\ revoked' = revoked \cup K
  BY DEF RevokeGenerations
<1>3. \A k \in Jobs :
         /\ SameKey(k) /\ SameScope(k)
         /\ Hit(K, k) => job'[k].terminal = terminal
         /\ ~Hit(K, k) => job'[k].terminal = job[k].terminal
         /\ job[k].final = "authorized" => job'[k].final = "authorized"
  BY <1>1, RevokedJobs
<1>4. ASSUME NEW k \in Jobs, Hit(K, k)
      PROVE  Key(k) \in revoked' \ revoked
  BY <1>2, <1>4 DEF Hit
<1> HIDE DEF K
<1>5. ASSUME NEW k \in Jobs
      PROVE  FinalKept(k)
  <2>1. CASE Hit(K, k)
    BY <1>1, <1>3, <1>4, <2>1 DEF FinalKept, Retirable, SameScope, Terminals
  <2>2. CASE ~Hit(K, k)
    BY <1>3, <2>2 DEF FinalKept, Retirable, SameScope
  <2> QED
    BY <2>1, <2>2
<1> QED
  BY <1>2, <1>3, <1>5 DEF Calm, CalmFor, SameScope

LEMMA RevokeFeatureCalm ==
    ASSUME RegistryInv, NEW key \in Keys, RevokeFeature(key)
    PROVE  /\ Calm
           /\ \A t \in live' : t[2] = 1 => Key(t[1]) # key
<1> DEFINE keys == {k \in {key} : \/ Remembered({k}) # {}
                                  \/ \E j \in Jobs : job[j].open /\ Key(j) = k}
<1>1. RevokeGenerations(keys, "cancelled", {})
  BY DEF RevokeFeature
<1>2. keys \in SUBSET Keys /\ {} \in SUBSET Jobs
  OBVIOUS
<1>3. ASSUME NEW t \in live', key \notin revoked
      PROVE  t \in live /\ Key(t[1]) # key
  <2>1. t \in live /\ t \notin Remembered(keys \ revoked) /\ t \in tombstones
    BY <1>1 DEF RevokeGenerations, RevokedTokens, RegistryInv, Values
  <2>2. ASSUME Key(t[1]) = key
        PROVE  t \in Remembered(keys \ revoked)
    <3>1. t \in Remembered({key})
      BY <2>1, <2>2 DEF Remembered
    <3>2. key \in keys \ revoked
      BY <1>3, <3>1
    <3> QED
      BY <2>1, <2>2, <3>2 DEF Remembered
  <2> QED
    BY <2>1, <2>2
<1>4. \A t \in live' : t \in live /\ (t[2] = 1 => Key(t[1]) \notin revoked)
  BY <1>1 DEF RevokeGenerations, RegistryInv, Values
<1>5. \A t \in live' : t[2] = 1 => Key(t[1]) # key
  BY <1>3, <1>4
<1> HIDE DEF keys
<1> QED
  BY <1>1, <1>2, <1>5, RevokeGenerationsCalm

LEMMA RevokeAllCalm ==
    ASSUME RegistryInv, RevokeAll
    PROVE  Calm
<1> DEFINE keys == {Key(j) : j \in {k \in Jobs : job[k].open}}
<1>1. RevokeGenerations(keys, "cancelled", {})
  BY DEF RevokeAll
<1>2. keys \in SUBSET Keys /\ {} \in SUBSET Jobs
  BY KeyType
<1> HIDE DEF keys
<1> QED
  BY <1>1, <1>2, RevokeGenerationsCalm

LEMMA FailCloseCalm ==
    ASSUME RegistryInv, NEW j \in Jobs, NEW terminal \in {"cancelled", "incompatible"},
           FailClose(j, terminal)
    PROVE  Calm
<1>1. CASE RevokeGenerations({Key(j)}, terminal, {j})
  <2>1. {Key(j)} \in SUBSET Keys /\ {j} \in SUBSET Jobs
    BY KeyType
  <2> QED
    BY <1>1, <2>1, RevokeGenerationsCalm
<1>2. CASE UNCHANGED rtVars
  BY <1>2, CalmStutter
<1> QED
  BY <1>1, <1>2 DEF FailClose

LEMMA SubmitMalformedCalm ==
    ASSUME RegistryInv, NEW j \in Jobs, SubmitMalformed(j)
    PROVE  Calm
<1>1. RevokeGenerations({Key(j)}, "incompatible", {})
  BY DEF SubmitMalformed
<1>2. {Key(j)} \in SUBSET Keys /\ {} \in SUBSET Jobs
  BY KeyType
<1> QED
  BY <1>1, <1>2, RevokeGenerationsCalm

\* Steps of the mailbox and the UI do not touch the jobs.
LEMMA ViewCalm ==
    ASSUME UNCHANGED <<job, live, tombstones>>
    PROVE  Calm
  BY FinalSame DEF Calm, CalmFor, SameScope
=============================================================================
