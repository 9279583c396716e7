---------------------- MODULE ExtensionSchedulerProofs ----------------------
(***************************************************************************)
(* Safety of the admission scheduler for any jobs, packages, requests and  *)
(* limits.  SchedulerInv is inductive:                                     *)
(*   - Apart, QueueAgrees and RunAgrees are the parts of CountersAgree;    *)
(*   - Placed says where the queued jobs stand; the counters rest on it,   *)
(*     since what a scan drops or starts is found in the lanes;            *)
(*   - Told: a running job whose cancellation was requested has its token  *)
(*     set or in the hands of the host; without it, closing a scope over a *)
(*     job that was cancelled before would not imply ClosedWorkIsStopping. *)
(***************************************************************************)
EXTENDS ExtensionScheduler, SequenceFilterProofs

QueueAgrees ==
    \A c \in Classes :
        /\ nQueued[c] = Cardinality(Of(queued, c)) /\ nQueued[c] <= Limits[c].queued
        /\ \A p \in Packages : /\ perQueued[c][p] = Cardinality(OfPackage(queued, c, p))
                               /\ perQueued[c][p] <= Limits[c].queuedPer

RunAgrees ==
    \A c \in Classes :
        /\ nRunning[c] = Cardinality(Of(running, c)) /\ nRunning[c] <= Limits[c].running
        /\ \A p \in Packages : /\ perRunning[c][p] = Cardinality(OfPackage(running, c, p))
                               /\ perRunning[c][p] <= Limits[c].runningPer

Apart == queued \cap running = {}

\* The queued jobs of one class and priority.
Waiting(c, p) == {j \in queued : req[j].class = c /\ req[j].priority = p}

Placed ==
    \A c \in Classes, p \in Priorities :
        Members(lanes[c][p]) = Waiting(c, p) /\ NoRepeat(lanes[c][p])

Told == requested \subseteq pending \cup cancelled

SchedulerInv ==
    /\ TypeOK
    /\ Apart
    /\ QueueAgrees
    /\ RunAgrees
    /\ Placed
    /\ Told
    /\ ClosedWorkIsStopping

-----------------------------------------------------------------------------
(* Constants and sets of jobs                                              *)

LEMMA Requests ==
    /\ Shapes # {} /\ Blank \in Shapes
    /\ \A s \in Shapes : /\ s.owner \in Owners /\ s.owner.package \in Packages
                         /\ s.epoch \in Nat /\ s.epoch >= 1
                         /\ s.class \in Classes /\ s.priority \in Priorities
<1>1. Shapes # {}
  BY SchedulerAssumption
<1>2. Blank \in Shapes
  BY <1>1 DEF Blank
<1>3. ASSUME NEW s \in Shapes
      PROVE  /\ s.owner \in Owners /\ s.owner.package \in Packages
             /\ s.epoch \in Nat /\ s.epoch >= 1
             /\ s.class \in Classes /\ s.priority \in Priorities
  <2>1. s.owner \in Owners /\ s.epoch \in Nat \ {0} /\ s.class \in Classes
        /\ s.priority \in Priorities
    BY SchedulerAssumption
  <2>2. \A o \in Owners : o.package \in Packages
    BY SchedulerAssumption
  <2>3. s.epoch >= 1
    BY <2>1
  <2> QED
    BY <2>1, <2>2, <2>3
<1> QED
  BY <1>1, <1>2, <1>3

LEMMA LimitTypes ==
    ASSUME NEW c \in Classes
    PROVE  /\ Limits[c].queued \in Nat /\ Limits[c].queuedPer \in Nat
           /\ Limits[c].running \in Nat /\ Limits[c].runningPer \in Nat
BY SchedulerAssumption DEF ValidLimits

LEMMA FiniteJobs ==
    ASSUME NEW S \in SUBSET Jobs
    PROVE  IsFiniteSet(S) /\ Cardinality(S) \in Nat
<1>1. IsFiniteSet(S)
  BY SchedulerAssumption, FS_Subset
<1> QED
  BY <1>1, FS_CardinalityType

LEMMA TypeFacts ==
    ASSUME TypeOK
    PROVE  /\ lanes \in [Classes -> [Priorities -> Seq(Jobs)]]
           /\ queued \subseteq Jobs /\ running \subseteq Jobs
           /\ req \in [Jobs -> Shapes]
           /\ requested \subseteq running
           /\ nQueued \in [Classes -> Nat] /\ nRunning \in [Classes -> Nat]
           /\ perQueued \in [Classes -> [Packages -> Nat]]
           /\ perRunning \in [Classes -> [Packages -> Nat]]
           /\ closed \in [Owners -> Nat]
           /\ visible \in [Classes -> 0..Burst]
           /\ nextLower \in [Classes -> 1..3]
           /\ cancelled \subseteq Live
           /\ elapsed \subseteq Live
           /\ pending \subseteq Jobs
BY DEF TypeOK, Live

\* What the request of a job names.
LEMMA ReqFacts ==
    ASSUME req \in [Jobs -> Shapes]
    PROVE  \A j \in Jobs : /\ req[j] \in Shapes /\ Pkg(j) \in Packages
                           /\ req[j].class \in Classes /\ req[j].priority \in Priorities
                           /\ req[j].owner \in Owners /\ req[j].epoch \in Nat
BY Requests DEF Pkg

-----------------------------------------------------------------------------
(* Counters of a set of jobs.  S is queued or running, T what it becomes;  *)
(* r and t are the requests before and after.                              *)

ByClass(S, r, c) == {j \in S : r[j].class = c}
ByPackage(S, r, c, p) == {j \in S : r[j].class = c /\ r[j].owner.package = p}

\* The counters of S: by class and by class and package.
LEMMA Counted ==
    /\ \A c : Of(queued, c) = ByClass(queued, req, c)
    /\ \A c : Of(running, c) = ByClass(running, req, c)
    /\ \A c, p : OfPackage(queued, c, p) = ByPackage(queued, req, c, p)
    /\ \A c, p : OfPackage(running, c, p) = ByPackage(running, req, c, p)
BY DEF Of, OfPackage, ByClass, ByPackage, Pkg

LEMMA CountedNext ==
    /\ \A c : Of(queued, c)' = ByClass(queued', req', c)
    /\ \A c : Of(running, c)' = ByClass(running', req', c)
    /\ \A c, p : OfPackage(queued, c, p)' = ByPackage(queued', req', c, p)
    /\ \A c, p : OfPackage(running, c, p)' = ByPackage(running', req', c, p)
BY DEF Of, OfPackage, ByClass, ByPackage, Pkg

LEMMA SetMinus ==
    ASSUME NEW A \in SUBSET Jobs, NEW B \in SUBSET A
    PROVE  /\ Cardinality(A \ B) = Minus(Cardinality(A), Cardinality(B))
           /\ Cardinality(A \ B) \in Nat /\ Cardinality(A \ B) <= Cardinality(A)
<1>1. IsFiniteSet(A) /\ IsFiniteSet(B)
  BY FiniteJobs
<1>2. Cardinality(A) \in Nat /\ Cardinality(B) \in Nat /\ Cardinality(A \ B) \in Nat
  BY FiniteJobs
<1>3. A \cap B = B
  OBVIOUS
<1>4. Cardinality(A \ B) = Cardinality(A) - Cardinality(A \cap B)
  BY <1>1, FS_Difference
<1>5. Cardinality(A \ B) = Cardinality(A) - Cardinality(B)
  BY <1>3, <1>4
<1> QED
  BY <1>2, <1>5 DEF Minus

\* n and m count the jobs of S by class and by package, within the limits a
\* and b.
Counts(n, m, S, r, a, b) ==
    /\ n \in [Classes -> Nat] /\ m \in [Classes -> [Packages -> Nat]]
    /\ \A d \in Classes : n[d] = Cardinality(ByClass(S, r, d)) /\ n[d] <= a[d]
    /\ \A d \in Classes, p \in Packages :
         m[d][p] = Cardinality(ByPackage(S, r, d, p)) /\ m[d][p] <= b[d]

\* Job j joins the jobs of S.
LEMMA OneMore ==
    ASSUME NEW S \in SUBSET Jobs, NEW j \in Jobs, j \notin S,
           NEW r, NEW t, \A x \in S : t[x] = r[x],
           NEW c \in Classes, NEW g \in Packages, t[j].class = c, t[j].owner.package = g,
           NEW n, NEW m, NEW a \in [Classes -> Nat], NEW b \in [Classes -> Nat],
           Counts(n, m, S, r, a, b), n[c] < a[c], m[c][g] < b[c],
           NEW N \in [Classes -> Nat], NEW M \in [Classes -> [Packages -> Nat]],
           N[c] = n[c] + 1, \A d \in Classes : d # c => N[d] = n[d],
           M[c][g] = m[c][g] + 1,
           \A d \in Classes, p \in Packages : ~(d = c /\ p = g) => M[d][p] = m[d][p]
    PROVE  Counts(N, M, S \cup {j}, t, a, b)
<1>0. /\ n \in [Classes -> Nat] /\ m \in [Classes -> [Packages -> Nat]]
      /\ \A d \in Classes : n[d] = Cardinality(ByClass(S, r, d)) /\ n[d] <= a[d]
      /\ \A d \in Classes, p \in Packages :
           m[d][p] = Cardinality(ByPackage(S, r, d, p)) /\ m[d][p] <= b[d]
  BY DEF Counts
<1>1. /\ N \in [Classes -> Nat] /\ N[c] = n[c] + 1
      /\ \A d \in Classes : d # c => N[d] = n[d]
  BY <1>0
<1>2. /\ M \in [Classes -> [Packages -> Nat]] /\ M[c][g] = m[c][g] + 1
      /\ \A d \in Classes, p \in Packages : ~(d = c /\ p = g) => M[d][p] = m[d][p]
  BY <1>0
<1>3. ASSUME NEW A \in SUBSET Jobs, j \notin A
      PROVE  Cardinality(A \cup {j}) = Cardinality(A) + 1
  BY <1>3, FiniteJobs, FS_AddElement
<1>4. ASSUME NEW d \in Classes
      PROVE  N[d] = Cardinality(ByClass(S \cup {j}, t, d)) /\ N[d] <= a[d]
  <2>1. CASE d = c
    <3>1. /\ ByClass(S, r, d) \in SUBSET Jobs /\ j \notin ByClass(S, r, d)
          /\ ByClass(S \cup {j}, t, d) = ByClass(S, r, d) \cup {j}
      BY <2>1 DEF ByClass
    <3>2. Cardinality(ByClass(S \cup {j}, t, d)) = Cardinality(ByClass(S, r, d)) + 1
      BY <1>3, <3>1
    <3>3. N[c] <= a[c]
      BY <1>0, <1>1
    <3> QED
      BY <1>0, <1>1, <2>1, <3>2, <3>3
  <2>2. CASE d # c
    <3>1. ByClass(S \cup {j}, t, d) = ByClass(S, r, d)
      BY <2>2 DEF ByClass
    <3> QED
      BY <1>0, <1>1, <2>2, <3>1
  <2> QED
    BY <2>1, <2>2
<1>5. ASSUME NEW d \in Classes, NEW p \in Packages
      PROVE  M[d][p] = Cardinality(ByPackage(S \cup {j}, t, d, p)) /\ M[d][p] <= b[d]
  <2>1. CASE d = c /\ p = g
    <3>1. /\ ByPackage(S, r, d, p) \in SUBSET Jobs /\ j \notin ByPackage(S, r, d, p)
          /\ ByPackage(S \cup {j}, t, d, p) = ByPackage(S, r, d, p) \cup {j}
      BY <2>1 DEF ByPackage
    <3>2. Cardinality(ByPackage(S \cup {j}, t, d, p)) = Cardinality(ByPackage(S, r, d, p)) + 1
      BY <1>3, <3>1
    <3>3. M[c][g] <= b[c]
      BY <1>0, <1>2
    <3> QED
      BY <1>0, <1>2, <2>1, <3>2, <3>3
  <2>2. CASE ~(d = c /\ p = g)
    <3>1. ByPackage(S \cup {j}, t, d, p) = ByPackage(S, r, d, p)
      BY <2>2 DEF ByPackage
    <3> QED
      BY <1>0, <1>2, <2>2, <3>1
  <2> QED
    BY <2>1, <2>2
<1> QED
  BY <1>1, <1>2, <1>4, <1>5 DEF Counts

\* Job j leaves the jobs of S.
LEMMA OneFewer ==
    ASSUME NEW S \in SUBSET Jobs, NEW j \in S,
           NEW r, NEW t, \A x \in S \ {j} : t[x] = r[x],
           NEW c \in Classes, NEW g \in Packages, r[j].class = c, r[j].owner.package = g,
           NEW n, NEW m, NEW a \in [Classes -> Nat], NEW b \in [Classes -> Nat],
           Counts(n, m, S, r, a, b),
           NEW N \in [Classes -> Nat], NEW M \in [Classes -> [Packages -> Nat]],
           N[c] = Minus(n[c], 1), \A d \in Classes : d # c => N[d] = n[d],
           M[c][g] = Minus(m[c][g], 1),
           \A d \in Classes, p \in Packages : ~(d = c /\ p = g) => M[d][p] = m[d][p]
    PROVE  Counts(N, M, S \ {j}, t, a, b)
<1>6. /\ n \in [Classes -> Nat] /\ m \in [Classes -> [Packages -> Nat]]
      /\ \A d \in Classes : n[d] = Cardinality(ByClass(S, r, d)) /\ n[d] <= a[d]
      /\ \A d \in Classes, p \in Packages :
           m[d][p] = Cardinality(ByPackage(S, r, d, p)) /\ m[d][p] <= b[d]
  BY DEF Counts
<1>0. \A k \in Nat : Minus(k, 1) \in Nat /\ Minus(k, 1) <= k
  BY DEF Minus
<1>1. /\ N \in [Classes -> Nat] /\ N[c] = Minus(n[c], 1)
      /\ \A d \in Classes : d # c => N[d] = n[d]
  BY <1>0, <1>6
<1>2. /\ M \in [Classes -> [Packages -> Nat]] /\ M[c][g] = Minus(m[c][g], 1)
      /\ \A d \in Classes, p \in Packages : ~(d = c /\ p = g) => M[d][p] = m[d][p]
  BY <1>0, <1>6
<1>3. ASSUME NEW A \in SUBSET Jobs, j \in A
      PROVE  Cardinality(A \ {j}) = Minus(Cardinality(A), 1)
  <2>1. {j} \in SUBSET A /\ Cardinality({j}) = 1
    BY <1>3, FS_Singleton
  <2> QED
    BY <2>1, SetMinus
<1>4. ASSUME NEW d \in Classes
      PROVE  N[d] = Cardinality(ByClass(S \ {j}, t, d)) /\ N[d] <= a[d]
  <2>1. CASE d = c
    <3>1. /\ ByClass(S, r, d) \in SUBSET Jobs /\ j \in ByClass(S, r, d)
          /\ ByClass(S \ {j}, t, d) = ByClass(S, r, d) \ {j}
      BY <2>1 DEF ByClass
    <3>2. Cardinality(ByClass(S \ {j}, t, d)) = Minus(Cardinality(ByClass(S, r, d)), 1)
      BY <1>3, <3>1
    <3>3. n[c] \in Nat /\ N[c] \in Nat /\ a[c] \in Nat /\ n[c] <= a[c] /\ N[c] <= n[c]
      BY <1>0, <1>1, <1>6
    <3>4. N[c] <= a[c]
      BY <3>3
    <3> QED
      BY <1>1, <1>6, <2>1, <3>2, <3>4
  <2>2. CASE d # c
    <3>1. ByClass(S \ {j}, t, d) = ByClass(S, r, d)
      BY <2>2 DEF ByClass
    <3> QED
      BY <1>1, <1>6, <2>2, <3>1
  <2> QED
    BY <2>1, <2>2
<1>5. ASSUME NEW d \in Classes, NEW p \in Packages
      PROVE  M[d][p] = Cardinality(ByPackage(S \ {j}, t, d, p)) /\ M[d][p] <= b[d]
  <2>1. CASE d = c /\ p = g
    <3>1. /\ ByPackage(S, r, d, p) \in SUBSET Jobs /\ j \in ByPackage(S, r, d, p)
          /\ ByPackage(S \ {j}, t, d, p) = ByPackage(S, r, d, p) \ {j}
      BY <2>1 DEF ByPackage
    <3>2. Cardinality(ByPackage(S \ {j}, t, d, p))
            = Minus(Cardinality(ByPackage(S, r, d, p)), 1)
      BY <1>3, <3>1
    <3>3. /\ m[c][g] \in Nat /\ M[c][g] \in Nat /\ b[c] \in Nat
          /\ m[c][g] <= b[c] /\ M[c][g] <= m[c][g]
      BY <1>0, <1>2, <1>6
    <3>4. M[c][g] <= b[c]
      BY <3>3
    <3> QED
      BY <1>2, <1>6, <2>1, <3>2, <3>4
  <2>2. CASE ~(d = c /\ p = g)
    <3>1. ByPackage(S \ {j}, t, d, p) = ByPackage(S, r, d, p)
      BY <2>2 DEF ByPackage
    <3> QED
      BY <1>2, <1>6, <2>2, <3>1
  <2> QED
    BY <2>1, <2>2
<1> QED
  BY <1>1, <1>2, <1>4, <1>5 DEF Counts

-----------------------------------------------------------------------------
(* The counters along a step                                               *)

\* What neither queues nor dequeues leaves the queued jobs counted.
LEMMA QueueKept ==
    ASSUME QueueAgrees, queued' = queued, nQueued' = nQueued, perQueued' = perQueued,
           \A x \in queued : req'[x] = req[x]
    PROVE  QueueAgrees'
<1>1. \A c : Of(queued, c)' = Of(queued, c)
  BY DEF Of
<1>2. \A c, p : OfPackage(queued, c, p)' = OfPackage(queued, c, p)
  BY DEF Of, OfPackage, Pkg
<1> QED
  BY <1>1, <1>2 DEF QueueAgrees

LEMMA RunKept ==
    ASSUME RunAgrees, running' = running, nRunning' = nRunning, perRunning' = perRunning,
           \A x \in running : req'[x] = req[x]
    PROVE  RunAgrees'
<1>1. \A c : Of(running, c)' = Of(running, c)
  BY DEF Of
<1>2. \A c, p : OfPackage(running, c, p)' = OfPackage(running, c, p)
  BY DEF Of, OfPackage, Pkg
<1> QED
  BY <1>1, <1>2 DEF RunAgrees

\* remove_queued_internal keeps the counters right, and takes them no lower
\* than zero.
LEMMA Dequeued ==
    ASSUME TypeOK, QueueAgrees, NEW S \in SUBSET queued, Dequeue(S),
           \A x \in queued \ S : req'[x] = req[x]
    PROVE  /\ QueueAgrees'
           /\ nQueued' \in [Classes -> Nat] /\ perQueued' \in [Classes -> [Packages -> Nat]]
<1>1. queued \subseteq Jobs /\ queued' = queued \ S
  BY TypeFacts DEF Dequeue
<1>2. ASSUME NEW c \in Classes
      PROVE  /\ nQueued'[c] = Minus(nQueued[c], Cardinality(ByClass(S, req, c)))
             /\ \A p \in Packages :
                  perQueued'[c][p] = Minus(perQueued[c][p], Cardinality(ByPackage(S, req, c, p)))
  BY DEF Dequeue, Of, OfPackage, ByClass, ByPackage, Pkg
<1>3. ASSUME NEW c \in Classes
      PROVE  /\ nQueued[c] = Cardinality(ByClass(queued, req, c))
             /\ nQueued[c] <= Limits[c].queued /\ nQueued[c] \in Nat
             /\ \A p \in Packages :
                  /\ perQueued[c][p] = Cardinality(ByPackage(queued, req, c, p))
                  /\ perQueued[c][p] <= Limits[c].queuedPer /\ perQueued[c][p] \in Nat
  <2>1. nQueued[c] \in Nat /\ \A p \in Packages : perQueued[c][p] \in Nat
    BY TypeFacts
  <2> QED
    BY <2>1, Counted DEF QueueAgrees
<1>4. ASSUME NEW c \in Classes
      PROVE  /\ nQueued'[c] = Cardinality(ByClass(queued', req', c))
             /\ nQueued'[c] <= Limits[c].queued /\ nQueued'[c] \in Nat
  <2>1. /\ Cardinality(ByClass(queued', req', c))
             = Minus(Cardinality(ByClass(queued, req, c)), Cardinality(ByClass(S, req, c)))
        /\ Cardinality(ByClass(queued', req', c)) \in Nat
        /\ Cardinality(ByClass(queued', req', c)) <= Cardinality(ByClass(queued, req, c))
    <3>1. /\ ByClass(queued, req, c) \in SUBSET Jobs
          /\ ByClass(S, req, c) \in SUBSET ByClass(queued, req, c)
      BY <1>1 DEF ByClass
    <3>2. ByClass(queued', req', c) = ByClass(queued, req, c) \ ByClass(S, req, c)
      BY <1>1 DEF ByClass
    <3> QED
      BY <3>1, <3>2, SetMinus
  <2>2. nQueued'[c] = Cardinality(ByClass(queued', req', c))
    BY <1>2, <1>3, <2>1
  <2>3. Limits[c].queued \in Nat
    BY LimitTypes
  <2>4. nQueued'[c] <= nQueued[c] /\ nQueued'[c] \in Nat
    BY <1>3, <2>1, <2>2
  <2>5. nQueued'[c] <= Limits[c].queued
    BY <1>3, <2>3, <2>4
  <2> QED
    BY <2>2, <2>4, <2>5
<1>5. ASSUME NEW c \in Classes, NEW p \in Packages
      PROVE  /\ perQueued'[c][p] = Cardinality(ByPackage(queued', req', c, p))
             /\ perQueued'[c][p] <= Limits[c].queuedPer /\ perQueued'[c][p] \in Nat
  <2>1. /\ Cardinality(ByPackage(queued', req', c, p))
             = Minus(Cardinality(ByPackage(queued, req, c, p)),
                     Cardinality(ByPackage(S, req, c, p)))
        /\ Cardinality(ByPackage(queued', req', c, p)) \in Nat
        /\ Cardinality(ByPackage(queued', req', c, p))
             <= Cardinality(ByPackage(queued, req, c, p))
    <3>1. /\ ByPackage(queued, req, c, p) \in SUBSET Jobs
          /\ ByPackage(S, req, c, p) \in SUBSET ByPackage(queued, req, c, p)
      BY <1>1 DEF ByPackage
    <3>2. ByPackage(queued', req', c, p)
            = ByPackage(queued, req, c, p) \ ByPackage(S, req, c, p)
      BY <1>1 DEF ByPackage
    <3> QED
      BY <3>1, <3>2, SetMinus
  <2>2. perQueued'[c][p] = Cardinality(ByPackage(queued', req', c, p))
    BY <1>2, <1>3, <2>1
  <2>3. Limits[c].queuedPer \in Nat
    BY LimitTypes
  <2>4. perQueued'[c][p] <= perQueued[c][p] /\ perQueued'[c][p] \in Nat
    BY <1>3, <2>1, <2>2
  <2>5. perQueued'[c][p] <= Limits[c].queuedPer
    BY <1>3, <2>3, <2>4
  <2> QED
    BY <2>2, <2>4, <2>5
<1>6. QueueAgrees'
  BY <1>4, <1>5, CountedNext DEF QueueAgrees
<1>7. \E f : nQueued' = [c \in Classes |-> f[c]]
  <2> DEFINE f == [c \in Classes |-> Minus(nQueued[c], Cardinality(Of(S, c)))]
  <2>1. nQueued' = [c \in Classes |-> f[c]]
    BY DEF Dequeue
  <2> QED
    BY <2>1
<1>8. nQueued' \in [Classes -> Nat]
  BY <1>4, <1>7
<1>9. perQueued' = [c \in Classes |-> [p \in Packages |-> perQueued'[c][p]]]
  BY DEF Dequeue
<1>10. perQueued' \in [Classes -> [Packages -> Nat]]
  BY <1>5, <1>9
<1> QED
  BY <1>6, <1>8, <1>10

\* The limits as functions of the class.
QueueLimit == [c \in Classes |-> Limits[c].queued]
QueuePerLimit == [c \in Classes |-> Limits[c].queuedPer]
RunLimit == [c \in Classes |-> Limits[c].running]
RunPerLimit == [c \in Classes |-> Limits[c].runningPer]

LEMMA LimitFunctions ==
    /\ QueueLimit \in [Classes -> Nat] /\ QueuePerLimit \in [Classes -> Nat]
    /\ RunLimit \in [Classes -> Nat] /\ RunPerLimit \in [Classes -> Nat]
    /\ \A c \in Classes : /\ QueueLimit[c] = Limits[c].queued
                          /\ QueuePerLimit[c] = Limits[c].queuedPer
                          /\ RunLimit[c] = Limits[c].running
                          /\ RunPerLimit[c] = Limits[c].runningPer
BY LimitTypes DEF QueueLimit, QueuePerLimit, RunLimit, RunPerLimit

LEMMA QueueCounts ==
    ASSUME TypeOK
    PROVE  QueueAgrees => Counts(nQueued, perQueued, queued, req, QueueLimit, QueuePerLimit)
BY TypeFacts, Counted, LimitFunctions DEF QueueAgrees, Counts

LEMMA QueueCountsNext ==
    ASSUME Counts(nQueued', perQueued', queued', req', QueueLimit, QueuePerLimit)
    PROVE  /\ QueueAgrees'
           /\ nQueued' \in [Classes -> Nat] /\ perQueued' \in [Classes -> [Packages -> Nat]]
BY CountedNext, LimitFunctions DEF QueueAgrees, Counts

LEMMA RunCounts ==
    ASSUME TypeOK
    PROVE  RunAgrees => Counts(nRunning, perRunning, running, req, RunLimit, RunPerLimit)
BY TypeFacts, Counted, LimitFunctions DEF RunAgrees, Counts

LEMMA RunCountsNext ==
    ASSUME Counts(nRunning', perRunning', running', req', RunLimit, RunPerLimit)
    PROVE  /\ RunAgrees'
           /\ nRunning' \in [Classes -> Nat] /\ perRunning' \in [Classes -> [Packages -> Nat]]
BY CountedNext, LimitFunctions DEF RunAgrees, Counts

-----------------------------------------------------------------------------
(* Lanes                                                                   *)

LEMMA LaneTypes ==
    ASSUME TypeOK, NEW c \in Classes, NEW p \in Priorities
    PROVE  lanes[c][p] \in Seq(Jobs)
BY TypeFacts

\* A filtered lane: what stays, each job once.
LEMMA FilteredLane ==
    ASSUME NEW q \in Seq(Jobs), NEW S
    PROVE  /\ Kept(q, S) \in Seq(Jobs) /\ Members(Kept(q, S)) = Members(q) \cap S
           /\ NoRepeat(q) => NoRepeat(Kept(q, S))
BY KeptMembers, KeptNoRepeat

LEMMA WithoutMembers ==
    ASSUME NEW q \in Seq(Jobs), NEW S
    PROVE  /\ Without(q, S) \in Seq(Jobs) /\ Members(Without(q, S)) = Members(q) \ S
           /\ NoRepeat(q) => NoRepeat(Without(q, S))
<1>1. /\ Without(q, S) \in Seq(Jobs) /\ Members(Without(q, S)) = Members(q) \cap (Jobs \ S)
      /\ NoRepeat(q) => NoRepeat(Without(q, S))
  BY FilteredLane DEF Without
<1>2. Members(q) \subseteq Jobs
  BY DEF Members
<1> QED
  BY <1>1, <1>2

LEMMA ScannedMembers ==
    ASSUME NEW q \in Seq(Jobs)
    PROVE  /\ Scanned(q) \in Seq(Jobs)
           /\ Members(Scanned(q)) = {j \in Members(q) : Blocked(j)}
           /\ NoRepeat(q) => NoRepeat(Scanned(q))
<1>1. /\ Scanned(q) \in Seq(Jobs)
      /\ Members(Scanned(q)) = Members(q) \cap {j \in Jobs : Blocked(j)}
      /\ NoRepeat(q) => NoRepeat(Scanned(q))
  BY FilteredLane DEF Scanned
<1>2. Members(q) \subseteq Jobs
  BY DEF Members
<1>3. Members(q) \cap {j \in Jobs : Blocked(j)} = {j \in Members(q) : Blocked(j)}
  BY <1>2
<1> QED
  BY <1>1, <1>3

\* The lane whose i-th job started: the jobs before it that are blocked, and
\* those behind it.
LEMMA StartedMembers ==
    ASSUME NEW q \in Seq(Jobs), NEW i \in 1..Len(q), NoRepeat(q)
    PROVE  LET front == SubSeq(q, 1, i - 1)
               back == SubSeq(q, i + 1, Len(q))
           IN  /\ front \in Seq(Jobs) /\ back \in Seq(Jobs)
               /\ Members(q) = Members(front) \cup Members(back) \cup {q[i]}
               /\ Members(front) \cap Members(back) = {}
               /\ q[i] \notin Members(front) \cup Members(back)
               /\ StartedAt(q, i) \in Seq(Jobs) /\ NoRepeat(StartedAt(q, i))
               /\ Members(StartedAt(q, i))
                    = Members(back) \cup {j \in Members(front) : Blocked(j)}
<1> DEFINE front == SubSeq(q, 1, i - 1)
           back == SubSeq(q, i + 1, Len(q))
           kept == Scanned(front)
<1>1. /\ front \in Seq(Jobs) /\ back \in Seq(Jobs)
      /\ Members(q) = Members(front) \cup Members(back) \cup {q[i]}
      /\ NoRepeat(front) /\ NoRepeat(back)
      /\ Members(front) \cap Members(back) = {}
      /\ q[i] \notin Members(front) \cup Members(back)
  BY CutAt
<1>2. StartedAt(q, i) = back \o kept
  BY DEF StartedAt
<1> HIDE DEF front, back, kept
<1>3. kept \in Seq(Jobs) /\ Members(kept) = {j \in Members(front) : Blocked(j)}
      /\ NoRepeat(kept)
  BY <1>1, ScannedMembers DEF kept
<1>4. Members(back) \cap Members(kept) = {}
  BY <1>1, <1>3
<1>5. /\ back \o kept \in Seq(Jobs) /\ NoRepeat(back \o kept)
      /\ Members(back \o kept) = Members(back) \cup Members(kept)
  BY <1>1, <1>3, <1>4, ConcatMembers
<1> QED
  BY <1>1, <1>2, <1>3, <1>5 DEF front, back

-----------------------------------------------------------------------------
(* The scheduler starts empty.                                             *)

LEMMA SchedulerInvInit ==
    ASSUME Init
    PROVE  SchedulerInv
<1>1. lanes \in [Classes -> [Priorities -> Seq(Jobs)]]
      /\ \A c \in Classes, p \in Priorities : lanes[c][p] = <<>>
  BY DEF Init
<1>2. queued = {} /\ running = {} /\ requested = {} /\ cancelled = {} /\ elapsed = {}
      /\ pending = {}
  BY DEF Init
<1>3. nQueued \in [Classes -> Nat] /\ nRunning \in [Classes -> Nat]
      /\ \A c \in Classes : nQueued[c] = 0 /\ nRunning[c] = 0
  BY DEF Init
<1>4. /\ perQueued \in [Classes -> [Packages -> Nat]]
      /\ perRunning \in [Classes -> [Packages -> Nat]]
      /\ \A c \in Classes, p \in Packages : perQueued[c][p] = 0 /\ perRunning[c][p] = 0
  BY DEF Init
<1>5. req \in [Jobs -> Shapes]
  BY Requests DEF Init
<1>6. closed \in [Owners -> Nat]
  BY DEF Init
<1>7. visible \in [Classes -> 0..Burst]
  <2>1. 0 \in 0..Burst
    BY SchedulerAssumption
  <2> QED
    BY <2>1 DEF Init
<1>8. nextLower \in [Classes -> 1..3]
  BY DEF Init
<1>9. TypeOK
  BY <1>1, <1>2, <1>3, <1>4, <1>5, <1>6, <1>7, <1>8 DEF TypeOK
<1>10. Apart /\ Told /\ ClosedWorkIsStopping
  BY <1>2 DEF Apart, Told, ClosedWorkIsStopping
<1>11. Cardinality({}) = 0
  BY FS_EmptySet
<1>12. QueueAgrees
  <2>1. \A c, p : ByClass(queued, req, c) = {} /\ ByPackage(queued, req, c, p) = {}
    BY <1>2 DEF ByClass, ByPackage
  <2>2. \A c \in Classes : 0 <= QueueLimit[c] /\ 0 <= QueuePerLimit[c]
    BY LimitFunctions
  <2> QED
    BY <1>3, <1>4, <1>11, <2>1, <2>2, Counted, LimitFunctions DEF QueueAgrees
<1>13. RunAgrees
  <2>1. \A c, p : ByClass(running, req, c) = {} /\ ByPackage(running, req, c, p) = {}
    BY <1>2 DEF ByClass, ByPackage
  <2>2. \A c \in Classes : 0 <= RunLimit[c] /\ 0 <= RunPerLimit[c]
    BY LimitFunctions
  <2> QED
    BY <1>3, <1>4, <1>11, <2>1, <2>2, Counted, LimitFunctions DEF RunAgrees
<1>14. Placed
  <2>1. \A c, p : Waiting(c, p) = {}
    BY <1>2 DEF Waiting
  <2>2. Members(<<>>) = {} /\ NoRepeat(<<>>)
    BY DEF Members, NoRepeat
  <2> QED
    BY <1>1, <2>1, <2>2 DEF Placed
<1> QED
  BY <1>9, <1>10, <1>12, <1>13, <1>14 DEF SchedulerInv

-----------------------------------------------------------------------------
(* Admission                                                               *)

LEMMA SubmitInv ==
    ASSUME SchedulerInv, NEW j \in Jobs, NEW s \in Shapes, Submit(j, s)
    PROVE  SchedulerInv'
<1> DEFINE q == lanes[s.class][s.priority]
           r == Append(q, j)
           g == s.owner.package
<1>1. TypeOK /\ Apart /\ QueueAgrees /\ RunAgrees /\ Placed /\ Told /\ ClosedWorkIsStopping
  BY DEF SchedulerInv
<1>2. s.class \in Classes /\ s.priority \in Priorities /\ g \in Packages
  BY Requests
<1>3. j \notin queued /\ j \notin running /\ ~ScopeIsClosed(s)
      /\ nQueued[s.class] < Limits[s.class].queued
      /\ perQueued[s.class][g] < Limits[s.class].queuedPer
  BY DEF Submit
<1>4. /\ queued' = queued \cup {j}
      /\ req' = [req EXCEPT ![j] = s]
      /\ nQueued' = [nQueued EXCEPT ![s.class] = @ + 1]
      /\ perQueued' = [perQueued EXCEPT ![s.class][g] = @ + 1]
  BY DEF Submit
<1>5. /\ running' = running /\ requested' = requested /\ nRunning' = nRunning
      /\ perRunning' = perRunning /\ closed' = closed /\ visible' = visible
      /\ nextLower' = nextLower /\ cancelled' = cancelled /\ elapsed' = elapsed
      /\ pending' = pending
  BY DEF Submit
<1>6. q \in Seq(Jobs) /\ Members(q) = Waiting(s.class, s.priority) /\ NoRepeat(q)
  BY <1>1, <1>2, LaneTypes DEF Placed
<1>7. lanes' = [lanes EXCEPT ![s.class][s.priority] = r]
  BY DEF Submit
<1> HIDE DEF q, r, g
<1>8. /\ req' \in [Jobs -> Shapes] /\ req'[j] = s
      /\ \A x \in Jobs : x # j => req'[x] = req[x]
  BY <1>1, <1>4, TypeFacts
<1>9. queued \subseteq Jobs /\ running \subseteq Jobs
  BY <1>1, TypeFacts
<1>10. \A x \in queued \cup running : req'[x] = req[x]
  BY <1>3, <1>8, <1>9
<1>11. /\ r \in Seq(Jobs) /\ Members(r) = Waiting(s.class, s.priority) \cup {j}
       /\ NoRepeat(r)
  <2>1. j \notin Members(q)
    BY <1>3, <1>6 DEF Waiting
  <2> QED
    BY <1>6, <2>1, AppendMembers DEF r
<1>12. /\ lanes' \in [Classes -> [Priorities -> Seq(Jobs)]]
       /\ lanes'[s.class][s.priority] = r
       /\ \A c \in Classes, p \in Priorities :
            ~(c = s.class /\ p = s.priority) => lanes'[c][p] = lanes[c][p]
  <2>1. lanes \in [Classes -> [Priorities -> Seq(Jobs)]]
    BY <1>1, TypeFacts
  <2> QED
    BY <1>2, <1>7, <1>11, <2>1
<1>13. /\ QueueAgrees'
       /\ nQueued' \in [Classes -> Nat] /\ perQueued' \in [Classes -> [Packages -> Nat]]
  <2>1. Counts(nQueued, perQueued, queued, req, QueueLimit, QueuePerLimit)
    BY <1>1, QueueCounts
  <2>2. nQueued[s.class] < QueueLimit[s.class] /\ perQueued[s.class][g] < QueuePerLimit[s.class]
    BY <1>2, <1>3, LimitFunctions DEF g
  <2>3. req'[j].class = s.class /\ req'[j].owner.package = g
    BY <1>8 DEF g
  <2>4. QueueLimit \in [Classes -> Nat] /\ QueuePerLimit \in [Classes -> Nat]
    BY LimitFunctions
  <2>5. queued \in SUBSET Jobs /\ j \notin queued /\ \A x \in queued : req'[x] = req[x]
    BY <1>3, <1>9, <1>10
  <2>7. /\ nQueued' \in [Classes -> Nat] /\ nQueued'[s.class] = nQueued[s.class] + 1
        /\ \A d \in Classes : d # s.class => nQueued'[d] = nQueued[d]
    BY <1>1, <1>2, <1>4, TypeFacts
  <2>8. /\ perQueued' \in [Classes -> [Packages -> Nat]]
        /\ perQueued'[s.class][g] = perQueued[s.class][g] + 1
        /\ \A d \in Classes, p \in Packages :
             ~(d = s.class /\ p = g) => perQueued'[d][p] = perQueued[d][p]
    BY <1>1, <1>2, <1>4, TypeFacts
  <2>6. Counts(nQueued', perQueued', queued \cup {j}, req', QueueLimit, QueuePerLimit)
    BY <1>2, <2>1, <2>2, <2>3, <2>4, <2>5, <2>7, <2>8, OneMore
  <2> QED
    BY <1>4, <2>6, QueueCountsNext
<1>14. RunAgrees'
  BY <1>1, <1>5, <1>10, RunKept
<1>15. Apart'
  BY <1>1, <1>3, <1>4, <1>5 DEF Apart
<1>16. Told'
  BY <1>1, <1>5 DEF Told
<1>17. Placed'
  <2> SUFFICES ASSUME NEW c \in Classes, NEW p \in Priorities
               PROVE  Members(lanes'[c][p]) = Waiting(c, p)' /\ NoRepeat(lanes'[c][p])
    BY DEF Placed
  <2>3. Waiting(c, p)' = {x \in queued' : req'[x].class = c /\ req'[x].priority = p}
    BY DEF Waiting
  <2>4. \A x : x \in queued' <=> x \in queued \/ x = j
    BY <1>4
  <2>1. CASE c = s.class /\ p = s.priority
    <3>1. Waiting(c, p)' = Waiting(c, p) \cup {j}
      BY <1>3, <1>8, <1>10, <2>1, <2>3, <2>4 DEF Waiting
    <3> QED
      BY <1>11, <1>12, <2>1, <3>1
  <2>2. CASE ~(c = s.class /\ p = s.priority)
    <3>1. Waiting(c, p)' = Waiting(c, p)
      BY <1>3, <1>8, <1>10, <2>2, <2>3, <2>4 DEF Waiting
    <3> QED
      BY <1>1, <1>12, <2>2, <3>1 DEF Placed
  <2> QED
    BY <2>1, <2>2
<1>18. ClosedWorkIsStopping'
  <2> SUFFICES ASSUME NEW x \in queued' \cup running', ScopeIsClosed(req[x])'
               PROVE  x \in running' /\ x \in pending' \cup cancelled'
    BY DEF ClosedWorkIsStopping
  <2>1. req'[x].epoch <= closed[req'[x].owner]
    BY <1>5 DEF ScopeIsClosed
  <2>2. x # j
    BY <1>3, <1>8, <2>1 DEF ScopeIsClosed
  <2>3. x \in queued \cup running
    BY <1>4, <1>5, <2>2
  <2>4. ScopeIsClosed(req[x])
    BY <1>10, <2>1, <2>3 DEF ScopeIsClosed
  <2> QED
    BY <1>1, <1>5, <2>3, <2>4 DEF ClosedWorkIsStopping
<1>19. TypeOK'
  <2>1. queued' \subseteq Jobs
    BY <1>4, <1>9
  <2>2. /\ running' \subseteq Jobs /\ requested' \subseteq running'
        /\ nRunning' \in [Classes -> Nat] /\ perRunning' \in [Classes -> [Packages -> Nat]]
        /\ closed' \in [Owners -> Nat] /\ visible' \in [Classes -> 0..Burst]
        /\ nextLower' \in [Classes -> 1..3] /\ pending' \subseteq Jobs
    BY <1>1, <1>5, TypeFacts
  <2>3. cancelled' \subseteq queued' \cup running' /\ elapsed' \subseteq queued' \cup running'
    <3>1. cancelled \subseteq queued \cup running /\ elapsed \subseteq queued \cup running
      BY <1>1 DEF TypeOK
    <3> QED
      BY <1>4, <1>5, <3>1
  <2> QED
    BY <1>8, <1>12, <1>13, <2>1, <2>2, <2>3 DEF TypeOK
<1> QED
  BY <1>13, <1>14, <1>15, <1>16, <1>17, <1>18, <1>19 DEF SchedulerInv

-----------------------------------------------------------------------------
(* Cancellation, deadlines and fences                                      *)

LEMMA Forgotten ==
    ASSUME TypeOK, NEW S, Forget(S)
    PROVE  /\ req' \in [Jobs -> Shapes]
           /\ \A x \in Jobs : x \notin S => req'[x] = req[x]
           /\ elapsed' = elapsed \ S /\ cancelled' = cancelled \ S
<1>1. req' = [j \in Jobs |-> IF j \in S THEN Blank ELSE req[j]]
  BY DEF Forget
<1>2. req \in [Jobs -> Shapes] /\ Blank \in Shapes
  BY TypeFacts, Requests
<1>3. req' \in [Jobs -> Shapes] /\ \A x \in Jobs : x \notin S => req'[x] = req[x]
  BY <1>1, <1>2
<1> QED
  BY <1>3 DEF Forget

\* Every cancelling method takes a set S of live jobs.  What it leaves may be
\* closed only if it was so before: a fence takes all it closes.
LEMMA CancelJobsInv ==
    ASSUME SchedulerInv, NEW S \in SUBSET Live, CancelJobs(S),
           closed' \in [Owners -> Nat],
           \A x \in Live \ S : req[x].epoch <= closed'[req[x].owner] => ScopeIsClosed(req[x])
    PROVE  SchedulerInv'
<1> DEFINE Q == S \cap queued
<1>1. TypeOK /\ Apart /\ QueueAgrees /\ RunAgrees /\ Placed /\ Told /\ ClosedWorkIsStopping
  BY DEF SchedulerInv
<1>2. /\ lanes' = [c \in Classes |-> [p \in Priorities |-> Without(lanes[c][p], S)]]
      /\ Dequeue(Q) /\ Forget(Q)
      /\ pending' = pending \cup Q \cup ToSignal(S)
      /\ requested' = requested \cup ToSignal(S)
  BY DEF CancelJobs
<1>3. /\ running' = running /\ nRunning' = nRunning /\ perRunning' = perRunning
      /\ visible' = visible /\ nextLower' = nextLower
  BY DEF CancelJobs
<1>4. /\ queued \subseteq Jobs /\ running \subseteq Jobs /\ requested \subseteq running
      /\ pending \subseteq Jobs /\ cancelled \subseteq Live /\ elapsed \subseteq Live
  BY <1>1, TypeFacts
<1>5. /\ req' \in [Jobs -> Shapes]
      /\ \A x \in Jobs : x \notin Q => req'[x] = req[x]
      /\ elapsed' = elapsed \ Q /\ cancelled' = cancelled \ Q
  BY <1>1, <1>2, Forgotten
<1>6. queued' = queued \ Q /\ queued' = queued \ S
  BY <1>2 DEF Dequeue
<1>7. \A x \in running : x \notin Q
  BY <1>1 DEF Apart
<1>8. \A x \in (queued \ Q) \cup running : req'[x] = req[x]
  BY <1>4, <1>5, <1>7
<1>9. /\ QueueAgrees'
      /\ nQueued' \in [Classes -> Nat] /\ perQueued' \in [Classes -> [Packages -> Nat]]
  <2>1. Q \in SUBSET queued /\ \A x \in queued \ Q : req'[x] = req[x]
    BY <1>8
  <2> QED
    BY <1>1, <1>2, <2>1, Dequeued
<1>10. RunAgrees'
  BY <1>1, <1>3, <1>8, RunKept
<1>11. Apart'
  BY <1>1, <1>3, <1>6 DEF Apart
<1>12. ToSignal(S) \subseteq running /\ ToSignal(S) \subseteq S
  BY DEF ToSignal
<1>13. Told'
  <2> SUFFICES ASSUME NEW x \in requested'
               PROVE  x \in pending' \/ x \in cancelled'
    BY DEF Told
  <2>1. CASE x \in ToSignal(S)
    BY <1>2, <2>1
  <2>2. CASE x \in requested
    <3>1. x \in pending \/ x \in cancelled
      BY <1>1, <2>2 DEF Told
    <3>2. x \notin Q
      BY <1>4, <1>7, <2>2
    <3> QED
      BY <1>2, <1>5, <3>1, <3>2
  <2> QED
    BY <1>2, <2>1, <2>2
<1>14. ASSUME NEW c \in Classes, NEW p \in Priorities
       PROVE  /\ lanes'[c][p] \in Seq(Jobs)
              /\ Members(lanes'[c][p]) = Waiting(c, p)' /\ NoRepeat(lanes'[c][p])
  <2>1. lanes'[c][p] = Without(lanes[c][p], S)
    BY <1>2
  <2>2. /\ lanes[c][p] \in Seq(Jobs) /\ Members(lanes[c][p]) = Waiting(c, p)
        /\ NoRepeat(lanes[c][p])
    BY <1>1, LaneTypes DEF Placed
  <2>3. /\ lanes'[c][p] \in Seq(Jobs) /\ Members(lanes'[c][p]) = Waiting(c, p) \ S
        /\ NoRepeat(lanes'[c][p])
    BY <2>1, <2>2, WithoutMembers
  <2>4. Waiting(c, p)' = {x \in queued' : req'[x].class = c /\ req'[x].priority = p}
    BY DEF Waiting
  <2>5. Waiting(c, p) \ S = {x \in queued \ S : req[x].class = c /\ req[x].priority = p}
    BY DEF Waiting
  <2>6. Waiting(c, p)' = Waiting(c, p) \ S
    BY <1>6, <1>8, <2>4, <2>5
  <2> QED
    BY <2>3, <2>6
<1>15. Placed'
  BY <1>14 DEF Placed
<1>16. lanes' \in [Classes -> [Priorities -> Seq(Jobs)]]
  <2>1. \A c \in Classes, p \in Priorities : Without(lanes[c][p], S) \in Seq(Jobs)
    BY <1>2, <1>14
  <2> QED
    BY <1>2, <2>1
<1>17. ClosedWorkIsStopping'
  <2> SUFFICES ASSUME NEW x \in queued' \cup running', ScopeIsClosed(req[x])'
               PROVE  x \in running' /\ (x \in pending' \/ x \in cancelled')
    BY DEF ClosedWorkIsStopping
  <2>1. x \in (queued \ Q) \cup running /\ x \in Live
    BY <1>3, <1>6 DEF Live
  <2>2. req'[x] = req[x] /\ req[x].epoch <= closed'[req[x].owner]
    BY <1>8, <2>1 DEF ScopeIsClosed
  <2>3. CASE x \in S
    <3>1. x \in running /\ x \notin Q
      BY <1>7, <2>1, <2>3
    <3>2. x \in ToSignal(S) \/ x \in requested \/ x \in cancelled
      BY <2>3, <3>1 DEF ToSignal
    <3>3. x \in ToSignal(S) \/ x \in pending \/ x \in cancelled
      BY <1>1, <3>2 DEF Told
    <3> QED
      BY <1>2, <1>3, <1>5, <3>1, <3>3
  <2>4. CASE x \notin S
    <3>1. ScopeIsClosed(req[x])
      BY <2>1, <2>2, <2>4
    <3>2. x \in running /\ (x \in pending \/ x \in cancelled)
      BY <1>1, <2>1, <3>1 DEF ClosedWorkIsStopping, Live
    <3> QED
      BY <1>2, <1>3, <1>5, <2>4, <3>2
  <2> QED
    BY <2>3, <2>4
<1>18. TypeOK'
  <2>1. queued' \subseteq Jobs /\ running' \subseteq Jobs
    BY <1>3, <1>4, <1>6
  <2>2. requested' \subseteq running' /\ pending' \subseteq Jobs
    BY <1>2, <1>3, <1>4, <1>12
  <2>3. cancelled' \subseteq queued' \cup running' /\ elapsed' \subseteq queued' \cup running'
    BY <1>3, <1>4, <1>5, <1>6 DEF Live
  <2>4. /\ nRunning' \in [Classes -> Nat] /\ perRunning' \in [Classes -> [Packages -> Nat]]
        /\ visible' \in [Classes -> 0..Burst] /\ nextLower' \in [Classes -> 1..3]
    BY <1>1, <1>3, TypeFacts
  <2> QED
    BY <1>5, <1>9, <1>16, <2>1, <2>2, <2>3, <2>4 DEF TypeOK
<1> QED
  BY <1>9, <1>10, <1>11, <1>13, <1>15, <1>17, <1>18 DEF SchedulerInv

\* Without a change of the fences nothing is closed by a cancellation.
LEMMA CancelInv ==
    ASSUME SchedulerInv, NEW S \in SUBSET Live, CancelJobs(S), closed' = closed
    PROVE  SchedulerInv'
<1>1. closed' \in [Owners -> Nat]
  BY TypeFacts DEF SchedulerInv
<1>2. \A x \in Live \ S : req[x].epoch <= closed'[req[x].owner] => ScopeIsClosed(req[x])
  BY DEF ScopeIsClosed
<1> QED
  BY <1>1, <1>2, CancelJobsInv

LEMMA CloseScopeInv ==
    ASSUME SchedulerInv, NEW o \in Owners, NEW e \in Nat, CloseScope(o, e)
    PROVE  SchedulerInv'
<1> DEFINE S == {j \in Live : req[j].owner = o /\ req[j].epoch <= closed'[o]}
<1>1. closed \in [Owners -> Nat]
  BY TypeFacts DEF SchedulerInv
<1>2. closed' = [closed EXCEPT ![o] = IF e > @ THEN e ELSE @]
  BY DEF CloseScope
<1>3. closed' \in [Owners -> Nat] /\ \A x \in Owners : x # o => closed'[x] = closed[x]
  BY <1>1, <1>2
<1>4. S \in SUBSET Live /\ CancelJobs(S)
  BY DEF CloseScope
<1>5. \A x \in Live : req[x].owner \in Owners
  BY TypeFacts, ReqFacts DEF SchedulerInv, Live
<1>6. \A x \in Live \ S : req[x].epoch <= closed'[req[x].owner] => ScopeIsClosed(req[x])
  BY <1>3, <1>5 DEF ScopeIsClosed
<1> HIDE DEF S
<1> QED
  BY <1>3, <1>4, <1>6, CancelJobsInv

-----------------------------------------------------------------------------
(* Completion                                                              *)

LEMMA CompleteInv ==
    ASSUME SchedulerInv, NEW j \in Jobs, Complete(j)
    PROVE  SchedulerInv'
<1> DEFINE c == req[j].class
           g == req[j].owner.package
<1>1. TypeOK /\ Apart /\ QueueAgrees /\ RunAgrees /\ Placed /\ Told /\ ClosedWorkIsStopping
  BY DEF SchedulerInv
<1>2. /\ j \in running /\ running' = running \ {j} /\ requested' = requested \ {j}
      /\ nRunning' = [nRunning EXCEPT ![c] = Minus(@, 1)]
      /\ perRunning' = [perRunning EXCEPT ![c][g] = Minus(@, 1)]
      /\ Forget({j})
  BY DEF Complete, Pkg
<1>3. /\ lanes' = lanes /\ queued' = queued /\ nQueued' = nQueued /\ perQueued' = perQueued
      /\ closed' = closed /\ visible' = visible /\ nextLower' = nextLower
  BY DEF Complete
<1>4. pending \subseteq pending' /\ pending' \subseteq pending \cup {j}
  BY DEF Complete
<1>5. /\ queued \subseteq Jobs /\ running \subseteq Jobs /\ requested \subseteq running
      /\ pending \subseteq Jobs /\ cancelled \subseteq Live /\ elapsed \subseteq Live
  BY <1>1, TypeFacts
<1>6. /\ req' \in [Jobs -> Shapes]
      /\ \A x \in Jobs : x \notin {j} => req'[x] = req[x]
      /\ elapsed' = elapsed \ {j} /\ cancelled' = cancelled \ {j}
  BY <1>1, <1>2, Forgotten
<1>7. j \notin queued
  BY <1>1, <1>2 DEF Apart
<1>8. /\ \A x \in queued : req'[x] = req[x]
      /\ \A x \in running \ {j} : req'[x] = req[x]
  BY <1>5, <1>6, <1>7
<1>9. c \in Classes /\ g \in Packages /\ req[j].class = c /\ req[j].owner.package = g
  <2>1. req \in [Jobs -> Shapes]
    BY <1>1, TypeFacts
  <2> QED
    BY <2>1, ReqFacts DEF Pkg
<1> HIDE DEF c, g
<1>10. QueueAgrees'
  BY <1>1, <1>3, <1>8, QueueKept
<1>11. /\ RunAgrees'
       /\ nRunning' \in [Classes -> Nat] /\ perRunning' \in [Classes -> [Packages -> Nat]]
  <2>0. \A k \in Nat : Minus(k, 1) \in Nat
    BY DEF Minus
  <2>1. Counts(nRunning, perRunning, running, req, RunLimit, RunPerLimit)
    BY <1>1, RunCounts
  <2>2. running \in SUBSET Jobs /\ j \in running
    BY <1>2, <1>5
  <2>3. RunLimit \in [Classes -> Nat] /\ RunPerLimit \in [Classes -> Nat]
    BY LimitFunctions
  <2>4. nRunning \in [Classes -> Nat] /\ perRunning \in [Classes -> [Packages -> Nat]]
    BY <1>1, TypeFacts
  <2>5. /\ nRunning' \in [Classes -> Nat] /\ nRunning'[c] = Minus(nRunning[c], 1)
        /\ \A d \in Classes : d # c => nRunning'[d] = nRunning[d]
    BY <1>2, <1>9, <2>0, <2>4
  <2>6. /\ perRunning' \in [Classes -> [Packages -> Nat]]
        /\ perRunning'[c][g] = Minus(perRunning[c][g], 1)
        /\ \A d \in Classes, p \in Packages :
             ~(d = c /\ p = g) => perRunning'[d][p] = perRunning[d][p]
    BY <1>2, <1>9, <2>0, <2>4
  <2>7. Counts(nRunning', perRunning', running \ {j}, req', RunLimit, RunPerLimit)
    BY <1>8, <1>9, <2>1, <2>2, <2>3, <2>5, <2>6, OneFewer
  <2> QED
    BY <1>2, <2>7, RunCountsNext
<1>12. Apart'
  BY <1>1, <1>2, <1>3 DEF Apart
<1>13. Told'
  <2>1. \A x \in requested : x \in pending \/ x \in cancelled
    BY <1>1 DEF Told
  <2> QED
    BY <1>2, <1>4, <1>6, <2>1 DEF Told
<1>14. Placed'
  <2>1. \A d, p : Waiting(d, p)' = Waiting(d, p)
    BY <1>3, <1>8 DEF Waiting
  <2> QED
    BY <1>1, <1>3, <2>1 DEF Placed
<1>15. ClosedWorkIsStopping'
  <2> SUFFICES ASSUME NEW x \in queued' \cup running', ScopeIsClosed(req[x])'
               PROVE  x \in running' /\ (x \in pending' \/ x \in cancelled')
    BY DEF ClosedWorkIsStopping
  <2>1. x \in queued \cup running /\ x # j
    BY <1>2, <1>3, <1>7
  <2>2. req'[x] = req[x] /\ ScopeIsClosed(req[x])
    BY <1>2, <1>3, <1>8, <2>1 DEF ScopeIsClosed
  <2>3. x \in running /\ (x \in pending \/ x \in cancelled)
    BY <1>1, <2>1, <2>2 DEF ClosedWorkIsStopping
  <2> QED
    BY <1>2, <1>4, <1>6, <2>1, <2>3
<1>16. TypeOK'
  <2>1. /\ queued' \subseteq Jobs /\ running' \subseteq Jobs /\ requested' \subseteq running'
        /\ pending' \subseteq Jobs
    BY <1>2, <1>3, <1>4, <1>5
  <2>2. cancelled' \subseteq queued' \cup running' /\ elapsed' \subseteq queued' \cup running'
    BY <1>2, <1>3, <1>5, <1>6 DEF Live
  <2>3. /\ lanes' \in [Classes -> [Priorities -> Seq(Jobs)]]
        /\ nQueued' \in [Classes -> Nat] /\ perQueued' \in [Classes -> [Packages -> Nat]]
        /\ closed' \in [Owners -> Nat]
        /\ visible' \in [Classes -> 0..Burst] /\ nextLower' \in [Classes -> 1..3]
    BY <1>1, <1>3, TypeFacts
  <2> QED
    BY <1>6, <1>11, <2>1, <2>2, <2>3 DEF TypeOK
<1> QED
  BY <1>10, <1>11, <1>12, <1>13, <1>14, <1>15, <1>16 DEF SchedulerInv

-----------------------------------------------------------------------------
(* Tokens and deadlines                                                    *)

\* A step that moves no job: tokens are set and signalled, deadlines elapse.
LEMMA TokenStepInv ==
    ASSUME SchedulerInv,
           lanes' = lanes, queued' = queued, running' = running, req' = req,
           requested' = requested, nQueued' = nQueued, nRunning' = nRunning,
           perQueued' = perQueued, perRunning' = perRunning, closed' = closed,
           visible' = visible, nextLower' = nextLower,
           cancelled' \subseteq Live, elapsed' \subseteq Live, pending' \subseteq Jobs,
           \A x \in Live : x \in pending \cup cancelled => x \in pending' \cup cancelled'
    PROVE  SchedulerInv'
<1>1. TypeOK /\ Apart /\ QueueAgrees /\ RunAgrees /\ Placed /\ Told /\ ClosedWorkIsStopping
  BY DEF SchedulerInv
<1>2. TypeOK'
  <2>1. cancelled' \subseteq queued' \cup running' /\ elapsed' \subseteq queued' \cup running'
    BY DEF Live
  <2> QED
    BY <1>1, <2>1 DEF TypeOK
<1>3. Apart'
  BY <1>1 DEF Apart
<1>4. QueueAgrees' /\ RunAgrees'
  BY <1>1, QueueKept, RunKept
<1>5. Placed'
  <2>1. \A d, p : Waiting(d, p)' = Waiting(d, p)
    BY DEF Waiting
  <2> QED
    BY <1>1, <2>1 DEF Placed
<1>6. Told'
  <2>1. requested \subseteq Live
    BY <1>1, TypeFacts DEF Live
  <2> QED
    BY <1>1, <2>1 DEF Told
<1>7. ClosedWorkIsStopping'
  <2> SUFFICES ASSUME NEW x \in queued' \cup running', ScopeIsClosed(req[x])'
               PROVE  x \in running' /\ x \in pending' \cup cancelled'
    BY DEF ClosedWorkIsStopping
  <2>1. x \in Live /\ ScopeIsClosed(req[x])
    BY DEF ScopeIsClosed, Live
  <2>2. x \in running /\ x \in pending \cup cancelled
    BY <1>1, <2>1 DEF ClosedWorkIsStopping, Live
  <2> QED
    BY <2>1, <2>2
<1> QED
  BY <1>2, <1>3, <1>4, <1>5, <1>6, <1>7 DEF SchedulerInv

LEMMA TokensInv ==
    ASSUME SchedulerInv, NEW j \in Jobs,
           SignalAll(j) \/ TokenCancelled(j) \/ DeadlineElapses(j)
    PROVE  SchedulerInv'
<1>1. cancelled \subseteq Live /\ elapsed \subseteq Live /\ pending \subseteq Jobs
  BY TypeFacts DEF SchedulerInv
<1>2. /\ lanes' = lanes /\ queued' = queued /\ running' = running /\ req' = req
      /\ requested' = requested /\ nQueued' = nQueued /\ nRunning' = nRunning
      /\ perQueued' = perQueued /\ perRunning' = perRunning /\ closed' = closed
      /\ visible' = visible /\ nextLower' = nextLower
  BY DEF SignalAll, TokenCancelled, DeadlineElapses, unscheduled
<1>3. /\ cancelled' \subseteq Live /\ elapsed' \subseteq Live /\ pending' \subseteq Jobs
      /\ \A x \in Live : x \in pending \cup cancelled => x \in pending' \cup cancelled'
  <2>1. CASE SignalAll(j)
    BY <1>1, <2>1 DEF SignalAll
  <2>2. CASE TokenCancelled(j)
    BY <1>1, <2>2 DEF TokenCancelled
  <2>3. CASE DeadlineElapses(j)
    BY <1>1, <2>3 DEF DeadlineElapses
  <2> QED
    BY <2>1, <2>2, <2>3
<1> QED
  BY <1>2, <1>3, TokenStepInv

-----------------------------------------------------------------------------
(* A scan of the lanes                                                     *)

\* What every scan does: D is dropped, G started (no job or one), and the
\* lanes lose just those.
LEMMA ScanInv ==
    ASSUME SchedulerInv, NEW D \in SUBSET queued, NEW G \in SUBSET queued,
           D \cap G = {}, Drop(D, G),
           running' = running \cup G, requested' = requested, closed' = closed,
           visible' \in [Classes -> 0..Burst], nextLower' \in [Classes -> 1..3],
           RunAgrees',
           nRunning' \in [Classes -> Nat], perRunning' \in [Classes -> [Packages -> Nat]],
           lanes' \in [Classes -> [Priorities -> Seq(Jobs)]],
           \A c \in Classes, p \in Priorities :
               /\ NoRepeat(lanes'[c][p])
               /\ Members(lanes'[c][p]) = Waiting(c, p) \ (D \cup G)
    PROVE  SchedulerInv'
<1>1. TypeOK /\ Apart /\ QueueAgrees /\ Placed /\ Told /\ ClosedWorkIsStopping
  BY DEF SchedulerInv
<1>2. /\ queued \subseteq Jobs /\ running \subseteq Jobs /\ requested \subseteq running
      /\ pending \subseteq Jobs /\ cancelled \subseteq Live /\ elapsed \subseteq Live
  BY <1>1, TypeFacts
<1>3. Dequeue(D \cup G) /\ pending' = pending \cup (D \ cancelled) /\ Forget(D)
  BY DEF Drop
<1>4. queued' = queued \ (D \cup G)
  BY <1>3 DEF Dequeue
<1>5. /\ req' \in [Jobs -> Shapes]
      /\ \A x \in Jobs : x \notin D => req'[x] = req[x]
      /\ elapsed' = elapsed \ D /\ cancelled' = cancelled \ D
  BY <1>1, <1>3, Forgotten
<1>6. \A x \in running : x \notin D
  BY <1>1 DEF Apart
<1>7. \A x \in queued' \cup running' : x \in Jobs /\ x \notin D /\ req'[x] = req[x]
  BY <1>2, <1>4, <1>5, <1>6
<1>8. /\ QueueAgrees'
      /\ nQueued' \in [Classes -> Nat] /\ perQueued' \in [Classes -> [Packages -> Nat]]
  <2>1. D \cup G \in SUBSET queued /\ \A x \in queued \ (D \cup G) : req'[x] = req[x]
    BY <1>4, <1>7
  <2> QED
    BY <1>1, <1>3, <2>1, Dequeued
<1>9. Apart'
  BY <1>1, <1>4 DEF Apart
<1>10. Told'
  <2>1. \A x \in requested : (x \in pending \/ x \in cancelled) /\ x \notin D
    BY <1>1, <1>2, <1>6 DEF Told
  <2> QED
    BY <1>3, <1>5, <2>1 DEF Told
<1>11. Placed'
  <2> SUFFICES ASSUME NEW c \in Classes, NEW p \in Priorities
               PROVE  Waiting(c, p)' = Waiting(c, p) \ (D \cup G)
    BY DEF Placed
  <2>1. Waiting(c, p)' = {x \in queued' : req'[x].class = c /\ req'[x].priority = p}
    BY DEF Waiting
  <2>2. Waiting(c, p) = {x \in queued : req[x].class = c /\ req[x].priority = p}
    BY DEF Waiting
  <2> QED
    BY <1>4, <1>7, <2>1, <2>2
<1>12. ClosedWorkIsStopping'
  <2> SUFFICES ASSUME NEW x \in queued' \cup running', ScopeIsClosed(req[x])'
               PROVE  x \in running' /\ (x \in pending' \/ x \in cancelled')
    BY DEF ClosedWorkIsStopping
  <2>1. x \in queued \cup running /\ x \notin D /\ req'[x] = req[x]
    BY <1>4, <1>7
  <2>2. ScopeIsClosed(req[x])
    BY <2>1 DEF ScopeIsClosed
  <2>3. x \in running /\ (x \in pending \/ x \in cancelled)
    BY <1>1, <2>1, <2>2 DEF ClosedWorkIsStopping
  <2> QED
    BY <1>3, <1>5, <2>1, <2>3
<1>13. TypeOK'
  <2>1. /\ queued' \subseteq Jobs /\ running' \subseteq Jobs /\ requested' \subseteq running'
        /\ pending' \subseteq Jobs
    BY <1>2, <1>3, <1>4
  <2>2. cancelled' \subseteq queued' \cup running' /\ elapsed' \subseteq queued' \cup running'
    BY <1>2, <1>4, <1>5 DEF Live
  <2>3. closed' \in [Owners -> Nat]
    BY <1>1, TypeFacts
  <2> QED
    BY <1>5, <1>8, <2>1, <2>2, <2>3 DEF TypeOK
<1> QED
  BY <1>8, <1>9, <1>10, <1>11, <1>12, <1>13 DEF SchedulerInv

\* A lane without an eligible job loses its dead and keeps the blocked.
LEMMA ScannedLane ==
    ASSUME NEW q \in Seq(Jobs), NoneEligible(q)
    PROVE  Members(Scanned(q)) = {x \in Members(q) : ~Dead(x)}
<1>1. \A x \in Members(q) : ~Eligible(x)
  BY DEF Members, NoneEligible
<1>2. \A x \in Members(q) : Blocked(x) <=> ~Dead(x)
  BY <1>1 DEF Eligible, Blocked
<1>3. Members(Scanned(q)) = {x \in Members(q) : Blocked(x)}
  BY ScannedMembers
<1> QED
  BY <1>2, <1>3

LEMMA TryStartNoneInv ==
    ASSUME SchedulerInv, NEW c \in Classes, TryStartNone(c)
    PROVE  SchedulerInv'
<1> DEFINE D == {d \in queued : req[d].class = c /\ Dead(d)}
<1>1. TypeOK /\ RunAgrees /\ Placed
  BY DEF SchedulerInv
<1>2. /\ \A p \in Priorities : NoneEligible(lanes[c][p])
      /\ lanes' = [lanes EXCEPT ![c] = [p \in Priorities |-> Scanned(lanes[c][p])]]
      /\ Drop(D, {})
      /\ running' = running /\ requested' = requested /\ nRunning' = nRunning
      /\ perRunning' = perRunning /\ closed' = closed /\ visible' = visible
      /\ nextLower' = nextLower
  BY DEF TryStartNone
<1>3. \A p \in Priorities : /\ lanes[c][p] \in Seq(Jobs) /\ NoRepeat(lanes[c][p])
                            /\ Members(lanes[c][p]) = Waiting(c, p)
  BY <1>1, LaneTypes DEF Placed
<1>4. \A p \in Priorities :
        /\ Scanned(lanes[c][p]) \in Seq(Jobs) /\ NoRepeat(Scanned(lanes[c][p]))
        /\ Members(Scanned(lanes[c][p])) = {x \in Waiting(c, p) : ~Dead(x)}
  <2> SUFFICES ASSUME NEW p \in Priorities
               PROVE  /\ Scanned(lanes[c][p]) \in Seq(Jobs) /\ NoRepeat(Scanned(lanes[c][p]))
                      /\ Members(Scanned(lanes[c][p])) = {x \in Waiting(c, p) : ~Dead(x)}
    OBVIOUS
  <2>1. /\ lanes[c][p] \in Seq(Jobs) /\ NoRepeat(lanes[c][p])
        /\ Members(lanes[c][p]) = Waiting(c, p) /\ NoneEligible(lanes[c][p])
    BY <1>2, <1>3
  <2>2. Members(Scanned(lanes[c][p])) = {x \in Members(lanes[c][p]) : ~Dead(x)}
    BY <2>1, ScannedLane
  <2>3. Scanned(lanes[c][p]) \in Seq(Jobs) /\ NoRepeat(Scanned(lanes[c][p]))
    BY <2>1, ScannedMembers
  <2> QED
    BY <2>1, <2>2, <2>3
<1>5. lanes \in [Classes -> [Priorities -> Seq(Jobs)]]
  BY <1>1, TypeFacts
<1> DEFINE L == [p \in Priorities |-> Scanned(lanes[c][p])]
<1>6. L \in [Priorities -> Seq(Jobs)] /\ \A p \in Priorities : L[p] = Scanned(lanes[c][p])
  BY <1>4
<1>7. lanes' = [lanes EXCEPT ![c] = L]
  BY <1>2
<1> HIDE DEF L
<1>8. /\ lanes' \in [Classes -> [Priorities -> Seq(Jobs)]] /\ lanes'[c] = L
      /\ \A d \in Classes : d # c => lanes'[d] = lanes[d]
  BY <1>5, <1>6, <1>7
<1>9. ASSUME NEW d \in Classes, NEW p \in Priorities
      PROVE  /\ NoRepeat(lanes'[d][p])
             /\ Members(lanes'[d][p]) = Waiting(d, p) \ (D \cup {})
  <2>1. CASE d = c
    <3>1. Waiting(c, p) \ (D \cup {}) = {x \in Waiting(c, p) : ~Dead(x)}
      BY DEF Waiting
    <3> QED
      BY <1>4, <1>6, <1>8, <2>1, <3>1
  <2>2. CASE d # c
    <3>1. Waiting(d, p) \ (D \cup {}) = Waiting(d, p)
      BY <2>2 DEF Waiting
    <3> QED
      BY <1>1, <1>8, <2>2, <3>1 DEF Placed
  <2> QED
    BY <2>1, <2>2
<1>10. D \in SUBSET queued /\ {} \in SUBSET queued /\ D \cap {} = {}
  OBVIOUS
<1>11. RunAgrees'
  <2>1. \A x \in running : req'[x] = req[x]
    <3>1. \A x \in running : x \in Jobs /\ x \notin D
      BY <1>1, TypeFacts DEF SchedulerInv, Apart
    <3>2. Forget(D)
      BY <1>2 DEF Drop
    <3> QED
      BY <1>1, <3>1, <3>2, Forgotten
  <2> QED
    BY <1>1, <1>2, <2>1, RunKept
<1>12. /\ visible' \in [Classes -> 0..Burst] /\ nextLower' \in [Classes -> 1..3]
       /\ nRunning' \in [Classes -> Nat] /\ perRunning' \in [Classes -> [Packages -> Nat]]
  BY <1>1, <1>2, TypeFacts
<1>13. running' = running \cup {}
  BY <1>2
<1> HIDE DEF D
<1> QED
  BY <1>2, <1>8, <1>9, <1>10, <1>11, <1>12, <1>13, ScanInv

LEMMA Indexed ==
    ASSUME NEW U, NEW n \in Nat, NEW s \in [1..n -> U]
    PROVE  s \in Seq(U) /\ Len(s) = n
OBVIOUS

\* One more member at the front or at the end of a sequence.
LEMMA AtEitherEnd ==
    ASSUME NEW U, NEW s \in Seq(U), NEW x \in U
    PROVE  /\ Append(s, x) \in Seq(U) /\ Len(Append(s, x)) = Len(s) + 1
           /\ <<x>> \o s \in Seq(U) /\ Len(<<x>> \o s) = 1 + Len(s)
<1>1. <<x>> \in Seq(U) /\ Len(<<x>>) = 1
  OBVIOUS
<1>2. \A t \in Seq(U) : t \o s \in Seq(U) /\ Len(t \o s) = Len(t) + Len(s)
  OBVIOUS
<1> QED
  BY <1>1, <1>2

\* try_start tries lanes that there are.
LEMMA LaneOrderTypes ==
    ASSUME TypeOK, NEW c \in Classes, NEW k \in 1..4
    PROVE  LaneOrder(c)[k] \in Priorities /\ Tried(c, k) \subseteq Priorities
<1> DEFINE lower == LowerOrder(c)
<1>1. nextLower[c] \in 1..3
  BY TypeFacts
<1>2. \A n \in 1..3 : 1 + ((nextLower[c] - 1 + (n - 1)) % 3) \in 1..3
  BY <1>1
<1>3. lower \in Seq(Priorities) /\ Len(lower) = 3
  <2>1. lower = [n \in 1..3 |-> 1 + ((nextLower[c] - 1 + (n - 1)) % 3)]
    BY DEF LowerOrder
  <2>2. \A n \in 1..3 : n \in Priorities
    BY DEF Priorities
  <2>3. lower \in [1..3 -> Priorities]
    BY <1>2, <2>1, <2>2
  <2> HIDE DEF lower
  <2> QED
    BY <2>3, Indexed
<1>4. 0 \in Priorities
  BY DEF Priorities
<1> HIDE DEF lower
<1>5. /\ Append(lower, 0) \in Seq(Priorities) /\ Len(Append(lower, 0)) = 4
      /\ <<0>> \o lower \in Seq(Priorities) /\ Len(<<0>> \o lower) = 4
  <2>1. /\ Append(lower, 0) \in Seq(Priorities) /\ Len(Append(lower, 0)) = Len(lower) + 1
        /\ <<0>> \o lower \in Seq(Priorities) /\ Len(<<0>> \o lower) = 1 + Len(lower)
    BY <1>3, <1>4, AtEitherEnd
  <2> QED
    BY <1>3, <2>1
<1>6. LaneOrder(c) \in Seq(Priorities) /\ Len(LaneOrder(c)) = 4
  BY <1>5 DEF LaneOrder, lower
<1> DEFINE order == LaneOrder(c)
<1>7. order \in Seq(Priorities) /\ Len(order) = 4
  BY <1>6
<1> HIDE DEF order
<1>8. \A n \in 1..4 : order[n] \in Priorities
  BY <1>7
<1>9. \A n \in 1..(k - 1) : n \in 1..4
  OBVIOUS
<1> QED
  BY <1>8, <1>9 DEF Tried, order

\* A start takes one slot of the class and one of the package.
LEMMA StartCounted ==
    ASSUME TypeOK, RunAgrees, NEW c \in Classes, NEW j \in Jobs, j \notin running,
           NEW g \in Packages, req'[j].class = c, req'[j].owner.package = g,
           \A x \in running : req'[x] = req[x],
           nRunning[c] < Limits[c].running, perRunning[c][g] < Limits[c].runningPer,
           running' = running \cup {j},
           nRunning' \in [Classes -> Nat], nRunning'[c] = nRunning[c] + 1,
           \A d \in Classes : d # c => nRunning'[d] = nRunning[d],
           perRunning' \in [Classes -> [Packages -> Nat]],
           perRunning'[c][g] = perRunning[c][g] + 1,
           \A d \in Classes, x \in Packages :
               ~(d = c /\ x = g) => perRunning'[d][x] = perRunning[d][x]
    PROVE  RunAgrees'
<1>1. running \in SUBSET Jobs
  BY TypeFacts
<1>2. Counts(nRunning, perRunning, running, req, RunLimit, RunPerLimit)
  BY RunCounts
<1>3. RunLimit \in [Classes -> Nat] /\ RunPerLimit \in [Classes -> Nat]
  BY LimitFunctions
<1>4. nRunning[c] < RunLimit[c] /\ perRunning[c][g] < RunPerLimit[c]
  BY LimitFunctions
<1>5. Counts(nRunning', perRunning', running \cup {j}, req', RunLimit, RunPerLimit)
  BY <1>1, <1>2, <1>3, <1>4, OneMore
<1> QED
  BY <1>5, RunCountsNext

\* A job waits in one lane.
LEMMA OneLane ==
    \A c, d, p, x : \A y \in Waiting(c, p) : y \in Waiting(d, x) => d = c /\ x = p
BY DEF Waiting

LEMMA TryStartInv ==
    ASSUME SchedulerInv, NEW c \in Classes, NEW k \in 1..4,
           NEW i \in 1..Len(lanes[c][LaneOrder(c)[k]]), TryStart(c, k, i)
    PROVE  SchedulerInv'
<1> DEFINE p == LaneOrder(c)[k]
           q == lanes[c][p]
           j == q[i]
           front == SubSeq(q, 1, i - 1)
           back == SubSeq(q, i + 1, Len(q))
           T == Tried(c, k)
           D == {d \in Members(front) : Dead(d)}
                  \cup UNION {{d \in Members(lanes[c][x]) : Dead(d)} : x \in T}
           L == [x \in Priorities |-> IF x = p THEN StartedAt(q, i)
                                      ELSE IF x \in T THEN Scanned(lanes[c][x])
                                      ELSE lanes[c][x]]
<1>1. TypeOK /\ Apart /\ RunAgrees /\ Placed
  BY DEF SchedulerInv
<1>2. /\ nRunning[c] < Limits[c].running
      /\ Eligible(j) /\ NoneEligible(front)
      /\ \A x \in T : NoneEligible(lanes[c][x])
  BY DEF TryStart
<1>3. lanes' = [lanes EXCEPT ![c] = L] /\ Drop(D, {j})
  BY DEF TryStart
<1>4. /\ running' = running \cup {j}
      /\ nRunning' = [nRunning EXCEPT ![c] = @ + 1]
      /\ perRunning' = [perRunning EXCEPT ![c][Pkg(j)] = @ + 1]
      /\ requested' = requested /\ closed' = closed
  BY DEF TryStart
<1>5. /\ visible' = [visible EXCEPT ![c] = IF p # 0 THEN 0
                                           ELSE IF @ < Burst THEN @ + 1 ELSE @]
      /\ nextLower' = [nextLower EXCEPT ![c] = IF p # 0 THEN NextLower(p) ELSE @]
  BY DEF TryStart
<1>6. p \in Priorities /\ T \subseteq Priorities
  BY <1>1, LaneOrderTypes
<1>7. \A x \in Priorities : /\ lanes[c][x] \in Seq(Jobs) /\ NoRepeat(lanes[c][x])
                            /\ Members(lanes[c][x]) = Waiting(c, x)
  BY <1>1, LaneTypes DEF Placed
<1>8. q \in Seq(Jobs) /\ NoRepeat(q) /\ Members(q) = Waiting(c, p) /\ i \in 1..Len(q)
  BY <1>6, <1>7
<1>9. /\ front \in Seq(Jobs) /\ back \in Seq(Jobs)
      /\ Members(q) = Members(front) \cup Members(back) \cup {j}
      /\ Members(front) \cap Members(back) = {}
      /\ j \notin Members(front) \cup Members(back)
      /\ StartedAt(q, i) \in Seq(Jobs) /\ NoRepeat(StartedAt(q, i))
      /\ Members(StartedAt(q, i)) = Members(back) \cup {x \in Members(front) : Blocked(x)}
  <2> HIDE DEF q
  <2> QED
    BY <1>8, StartedMembers
<1>10. \A x \in T : x # p
  <2>1. ~NoneEligible(lanes[c][p])
    BY <1>2, <1>8 DEF NoneEligible
  <2> QED
    BY <1>2, <2>1
<1>11. \A y : y \in D <=> \/ y \in Members(front) /\ Dead(y)
                          \/ \E x \in T : y \in Waiting(c, x) /\ Dead(y)
  <2>1. \A x \in T : Members(lanes[c][x]) = Waiting(c, x)
    BY <1>6, <1>7
  <2> HIDE DEF front, T
  <2> QED
    BY <2>1
<1>12. /\ L = [x \in Priorities |-> L[x]]
       /\ L[p] = StartedAt(q, i)
       /\ \A x \in T : L[x] = Scanned(lanes[c][x])
       /\ \A x \in Priorities : x # p /\ x \notin T => L[x] = lanes[c][x]
  <2> HIDE DEF p, q, T
  <2> QED
    BY <1>6, <1>10
<1>13. j \in Waiting(c, p) /\ ~Dead(j) /\ ~Blocked(j)
  BY <1>2, <1>8, <1>9 DEF Eligible
<1>14. p \in Priorities /\ \A y \in Waiting(c, p) : y \in queued /\ req[y].class = c
  BY <1>6 DEF Waiting
<1> HIDE DEF p, q, j, front, back, T, D, L
<1>15. \A y \in Members(front) : Blocked(y) <=> ~Dead(y)
  <2>1. \A y \in Members(front) : ~Eligible(y)
    BY <1>2 DEF NoneEligible, Members
  <2> QED
    BY <2>1 DEF Eligible, Blocked
<1>16. D \in SUBSET queued /\ {j} \in SUBSET queued /\ D \cap {j} = {}
  <2>1. \A y \in D : Dead(y)
    BY <1>11
  <2>2. \A y \in D : y \in queued
    BY <1>8, <1>9, <1>11 DEF Waiting
  <2> QED
    BY <1>13, <1>14, <2>1, <2>2
<1>17. ASSUME NEW x \in Priorities
       PROVE  /\ L[x] \in Seq(Jobs) /\ NoRepeat(L[x])
              /\ Members(L[x]) = Waiting(c, x) \ (D \cup {j})
  <2>1. CASE x = p
    <3>1. \A y \in Waiting(c, p) : ~\E z \in T : y \in Waiting(c, z)
      BY <1>10, OneLane
    <3>2. \A y \in Waiting(c, p) : y \in D <=> y \in Members(front) /\ Dead(y)
      BY <1>11, <3>1
    <3>3. \A y : y \in Members(StartedAt(q, i))
                   <=> y \in Members(back) \/ (y \in Members(front) /\ ~Dead(y))
      BY <1>9, <1>15
    <3>4. \A y : y \in Waiting(c, p) <=> \/ y \in Members(front) \/ y \in Members(back)
                                         \/ y = j
      BY <1>8, <1>9
    <3>5. \A y : ~(y \in Members(front) /\ y \in Members(back))
      BY <1>9
    <3>6. j \notin Members(front) /\ j \notin Members(back)
      BY <1>9
    <3>7. \A y : y \in Members(StartedAt(q, i))
                   <=> y \in Waiting(c, p) /\ y \notin D /\ y # j
      BY <3>2, <3>3, <3>4, <3>5, <3>6
    <3>8. Members(StartedAt(q, i)) = Waiting(c, p) \ (D \cup {j})
      BY <3>7
    <3> QED
      BY <1>9, <1>12, <2>1, <3>8
  <2>2. CASE x \in T
    <3>1. /\ lanes[c][x] \in Seq(Jobs) /\ NoRepeat(lanes[c][x])
          /\ Members(lanes[c][x]) = Waiting(c, x) /\ NoneEligible(lanes[c][x])
      BY <1>2, <1>7, <2>2
    <3>2. Members(Scanned(lanes[c][x])) = {y \in Waiting(c, x) : ~Dead(y)}
      BY <3>1, ScannedLane
    <3>3. Scanned(lanes[c][x]) \in Seq(Jobs) /\ NoRepeat(Scanned(lanes[c][x]))
      BY <3>1, ScannedMembers
    <3>4. \A y \in Waiting(c, x) : y \in D <=> Dead(y)
      BY <1>11, <2>2
    <3>5. j \notin Waiting(c, x)
      BY <1>10, <1>13, <2>2, OneLane
    <3>6. {y \in Waiting(c, x) : ~Dead(y)} = Waiting(c, x) \ (D \cup {j})
      BY <3>4, <3>5
    <3> QED
      BY <1>12, <2>2, <3>2, <3>3, <3>6
  <2>3. CASE x # p /\ x \notin T
    <3>1. \A y \in Waiting(c, x) : y \notin Waiting(c, p) /\ \A z \in T : y \notin Waiting(c, z)
      BY <2>3, OneLane
    <3>2. \A y \in Waiting(c, x) : y \notin Members(front) /\ y # j
      BY <1>8, <1>9, <3>1
    <3>3. \A y \in Waiting(c, x) : y \notin D
      BY <1>11, <3>1, <3>2
    <3>4. Waiting(c, x) \ (D \cup {j}) = Waiting(c, x)
      BY <3>2, <3>3
    <3>5. L[x] = lanes[c][x]
      BY <1>12, <2>3
    <3>6. lanes[c][x] \in Seq(Jobs) /\ NoRepeat(lanes[c][x])
          /\ Members(lanes[c][x]) = Waiting(c, x)
      BY <1>7
    <3> QED
      BY <3>4, <3>5, <3>6
  <2> QED
    BY <2>1, <2>2, <2>3
<1>18. lanes \in [Classes -> [Priorities -> Seq(Jobs)]]
  BY <1>1, TypeFacts
<1>19. L \in [Priorities -> Seq(Jobs)]
  BY <1>12, <1>17
<1>20. /\ lanes' \in [Classes -> [Priorities -> Seq(Jobs)]] /\ lanes'[c] = L
       /\ \A d \in Classes : d # c => lanes'[d] = lanes[d]
  BY <1>3, <1>18, <1>19
<1>21. ASSUME NEW d \in Classes, NEW x \in Priorities
       PROVE  /\ NoRepeat(lanes'[d][x])
              /\ Members(lanes'[d][x]) = Waiting(d, x) \ (D \cup {j})
  <2>1. CASE d = c
    BY <1>17, <1>20, <2>1
  <2>2. CASE d # c
    <3>1. \A y \in D \cup {j} : \E z : y \in Waiting(c, z)
      BY <1>8, <1>9, <1>11, <1>13
    <3>2. Waiting(d, x) \ (D \cup {j}) = Waiting(d, x)
      BY <2>2, <3>1, OneLane
    <3> QED
      BY <1>1, <1>20, <2>2, <3>2 DEF Placed
  <2> QED
    BY <2>1, <2>2
<1>22. /\ RunAgrees'
       /\ nRunning' \in [Classes -> Nat] /\ perRunning' \in [Classes -> [Packages -> Nat]]
  <2>1. running \subseteq Jobs /\ queued \subseteq Jobs /\ req \in [Jobs -> Shapes]
    BY <1>1, TypeFacts
  <2>2. j \in Jobs /\ j \notin running /\ j \notin D /\ req[j].class = c
    BY <1>1, <1>13, <1>14, <1>16, <2>1 DEF Apart
  <2>3. req'[j] = req[j] /\ \A x \in running : req'[x] = req[x]
    <3>1. \A x \in running : x \in Jobs /\ x \notin D
      BY <1>1, <1>16, <2>1 DEF Apart
    <3>2. Forget(D)
      BY <1>3 DEF Drop
    <3>3. \A x \in Jobs : x \notin D => req'[x] = req[x]
      BY <1>1, <3>2, Forgotten
    <3> QED
      BY <2>2, <3>1, <3>3
  <2>4. perRunning[c][Pkg(j)] < Limits[c].runningPer
    <3>1. ~(perRunning[c][Pkg(j)] >= Limits[c].runningPer)
      BY <1>13, <2>2 DEF Blocked
    <3>2. perRunning[c][Pkg(j)] \in Nat /\ Limits[c].runningPer \in Nat
      BY <1>1, <2>1, <2>2, TypeFacts, ReqFacts, LimitTypes
    <3> QED
      BY <3>1, <3>2
  <2> QED
    <3>1. /\ req \in [Jobs -> Shapes] /\ nRunning \in [Classes -> Nat]
          /\ perRunning \in [Classes -> [Packages -> Nat]]
      BY <1>1, TypeFacts
    <3> DEFINE g == Pkg(j)
    <3>2. g \in Packages /\ perRunning[c][g] < Limits[c].runningPer
          /\ req'[j].class = c /\ req'[j].owner.package = g
      BY <2>2, <2>3, <2>4, <3>1, ReqFacts DEF Pkg
    <3>3. perRunning' = [perRunning EXCEPT ![c][g] = @ + 1]
      BY <1>4
    <3> HIDE DEF g
    <3>4. /\ nRunning' \in [Classes -> Nat] /\ nRunning'[c] = nRunning[c] + 1
          /\ \A d \in Classes : d # c => nRunning'[d] = nRunning[d]
      BY <1>4, <3>1
    <3>5. /\ perRunning' \in [Classes -> [Packages -> Nat]]
          /\ perRunning'[c][g] = perRunning[c][g] + 1
          /\ \A d \in Classes, x \in Packages :
               ~(d = c /\ x = g) => perRunning'[d][x] = perRunning[d][x]
      BY <3>1, <3>2, <3>3
    <3>6. RunAgrees'
      BY <1>1, <1>2, <1>4, <2>2, <2>3, <3>2, <3>4, <3>5, StartCounted
    <3> QED
      BY <3>4, <3>5, <3>6
<1>23. visible' \in [Classes -> 0..Burst] /\ nextLower' \in [Classes -> 1..3]
  <2>1. visible \in [Classes -> 0..Burst] /\ nextLower \in [Classes -> 1..3]
    BY <1>1, TypeFacts
  <2>2. Burst \in Nat
    BY SchedulerAssumption
  <2> DEFINE v == IF p # 0 THEN 0 ELSE IF visible[c] < Burst THEN visible[c] + 1 ELSE visible[c]
             n == IF p # 0 THEN NextLower(p) ELSE nextLower[c]
  <2>3. visible[c] \in 0..Burst
    BY <2>1
  <2>4. v \in 0..Burst
    BY <2>2, <2>3
  <2>5. n \in 1..3
    <3>1. p % 3 \in 0..2
      BY <1>6 DEF Priorities
    <3>2. NextLower(p) \in 1..3
      BY <3>1 DEF NextLower
    <3> QED
      BY <2>1, <3>2
  <2>6. visible' = [visible EXCEPT ![c] = v] /\ nextLower' = [nextLower EXCEPT ![c] = n]
    BY <1>5
  <2> HIDE DEF v, n
  <2> QED
    BY <2>1, <2>4, <2>5, <2>6
<1> QED
  BY <1>3, <1>4, <1>16, <1>20, <1>21, <1>22, <1>23, ScanInv

-----------------------------------------------------------------------------
(* The theorems                                                            *)

LEMMA SchedulerInvNext ==
    ASSUME SchedulerInv, [Next]_vars
    PROVE  SchedulerInv'
<1>1. CASE UNCHANGED vars
  <2>1. /\ lanes' = lanes /\ queued' = queued /\ running' = running /\ req' = req
        /\ requested' = requested /\ nQueued' = nQueued /\ nRunning' = nRunning
        /\ perQueued' = perQueued /\ perRunning' = perRunning /\ closed' = closed
        /\ visible' = visible /\ nextLower' = nextLower
        /\ cancelled' = cancelled /\ elapsed' = elapsed /\ pending' = pending
    BY <1>1 DEF vars
  <2>2. cancelled \subseteq Live /\ elapsed \subseteq Live /\ pending \subseteq Jobs
    BY TypeFacts DEF SchedulerInv
  <2> QED
    BY <2>1, <2>2, TokenStepInv
<1>2. ASSUME NEW j \in Jobs, NEW s \in Shapes, Submit(j, s)
      PROVE  SchedulerInv'
  BY <1>2, SubmitInv
<1>3. ASSUME NEW c \in Classes, Poll(c)
      PROVE  SchedulerInv'
  BY <1>3, TryStartInv, TryStartNoneInv DEF Poll
<1>4. ASSUME NEW j \in Jobs, Cancel(j)
      PROVE  SchedulerInv'
  <2>1. {j} \in SUBSET Live /\ CancelJobs({j}) /\ closed' = closed
    BY <1>4 DEF Cancel, Live
  <2> QED
    BY <2>1, CancelInv
<1>5. ASSUME NEW j \in Jobs, Complete(j)
      PROVE  SchedulerInv'
  BY <1>5, CompleteInv
<1>6. ASSUME NEW j \in Jobs, SignalAll(j) \/ TokenCancelled(j) \/ DeadlineElapses(j)
      PROVE  SchedulerInv'
  BY <1>6, TokensInv
<1>7. ASSUME NEW o \in Owners, NEW e \in Epochs, CancelScope(o, e)
      PROVE  SchedulerInv'
  <2> DEFINE S == {j \in Live : req[j].owner = o /\ req[j].epoch = e}
  <2>1. S \in SUBSET Live /\ CancelJobs(S) /\ closed' = closed
    BY <1>7 DEF CancelScope
  <2> HIDE DEF S
  <2> QED
    BY <2>1, CancelInv
<1>8. ASSUME NEW o \in Owners, NEW e \in Epochs, CloseScope(o, e)
      PROVE  SchedulerInv'
  <2>1. e \in Nat
    BY Requests DEF Epochs
  <2> QED
    BY <1>8, <2>1, CloseScopeInv
<1>9. ASSUME NEW p \in Packages, CancelPackage(p)
      PROVE  SchedulerInv'
  <2> DEFINE S == {j \in Live : Pkg(j) = p}
  <2>1. S \in SUBSET Live /\ CancelJobs(S) /\ closed' = closed
    BY <1>9 DEF CancelPackage
  <2> HIDE DEF S
  <2> QED
    BY <2>1, CancelInv
<1>10. ASSUME Expire
       PROVE  SchedulerInv'
  <2>1. elapsed \in SUBSET Live
    BY TypeFacts DEF SchedulerInv
  <2>2. CancelJobs(elapsed) /\ closed' = closed
    BY <1>10 DEF Expire
  <2> QED
    BY <2>1, <2>2, CancelInv
<1> QED
  BY <1>1, <1>2, <1>3, <1>4, <1>5, <1>6, <1>7, <1>8, <1>9, <1>10 DEF Next

LEMMA SchedulerInvariant == Spec => []SchedulerInv
<1>1. Init => SchedulerInv
  BY SchedulerInvInit
<1>2. SchedulerInv /\ [Next]_vars => SchedulerInv'
  BY SchedulerInvNext
<1> QED
  BY <1>1, <1>2, PTL DEF Spec

-----------------------------------------------------------------------------
(* What a step may do to the live jobs and the fences                      *)

\* The live jobs after a step were live before, with the same request.
Steady == \A x \in Live' : x \in Live /\ req'[x] = req[x]

LEMMA CancelSteady ==
    ASSUME SchedulerInv, NEW S, CancelJobs(S)
    PROVE  Steady
<1>1. TypeOK /\ Apart
  BY DEF SchedulerInv
<1>2. Dequeue(S \cap queued) /\ Forget(S \cap queued) /\ running' = running
  BY DEF CancelJobs
<1>3. queued' = queued \ S
  BY <1>2 DEF Dequeue
<1>4. \A x \in Jobs : x \notin S \cap queued => req'[x] = req[x]
  BY <1>1, <1>2, Forgotten
<1>5. queued \subseteq Jobs /\ running \subseteq Jobs
  BY <1>1, TypeFacts
<1> QED
  BY <1>1, <1>2, <1>3, <1>4, <1>5 DEF Steady, Live, Apart

LEMMA CompleteSteady ==
    ASSUME SchedulerInv, NEW j, Complete(j)
    PROVE  Steady
<1>1. TypeOK /\ Apart
  BY DEF SchedulerInv
<1>2. Forget({j}) /\ queued' = queued /\ running' = running \ {j} /\ j \in running
  BY DEF Complete
<1>3. \A x \in Jobs : x \notin {j} => req'[x] = req[x]
  BY <1>1, <1>2, Forgotten
<1>4. queued \subseteq Jobs /\ running \subseteq Jobs
  BY <1>1, TypeFacts
<1> QED
  BY <1>1, <1>2, <1>3, <1>4 DEF Steady, Live, Apart

\* A scan starts what was waiting and forgets only what it drops.
LEMMA ScanSteady ==
    ASSUME SchedulerInv, NEW D, NEW G \in SUBSET queued, Drop(D, G),
           \A x \in D : x \notin running /\ x \notin G,
           running' = running \cup G
    PROVE  Steady
<1>1. TypeOK /\ Apart
  BY DEF SchedulerInv
<1>2. Forget(D) /\ queued' = queued \ (D \cup G)
  BY DEF Drop, Dequeue
<1>3. \A x \in Jobs : x \notin D => req'[x] = req[x]
  BY <1>1, <1>2, Forgotten
<1>4. queued \subseteq Jobs /\ running \subseteq Jobs
  BY <1>1, TypeFacts
<1> QED
  BY <1>2, <1>3, <1>4 DEF Steady, Live

LEMMA TryStartSteady ==
    ASSUME SchedulerInv, NEW c \in Classes, NEW k \in 1..4,
           NEW i \in 1..Len(lanes[c][LaneOrder(c)[k]]), TryStart(c, k, i)
    PROVE  Steady
<1> DEFINE p == LaneOrder(c)[k]
           q == lanes[c][p]
           j == q[i]
           front == SubSeq(q, 1, i - 1)
           T == Tried(c, k)
           D == {d \in Members(front) : Dead(d)}
                  \cup UNION {{d \in Members(lanes[c][x]) : Dead(d)} : x \in T}
<1>1. TypeOK /\ Apart /\ Placed
  BY DEF SchedulerInv
<1>2. Eligible(j) /\ Drop(D, {j}) /\ running' = running \cup {j}
  BY DEF TryStart
<1>3. p \in Priorities /\ T \subseteq Priorities
  BY <1>1, LaneOrderTypes
<1>4. \A x \in Priorities : /\ lanes[c][x] \in Seq(Jobs) /\ NoRepeat(lanes[c][x])
                            /\ \A y \in Members(lanes[c][x]) : y \in queued
  BY <1>1, LaneTypes DEF Placed, Waiting
<1>5. q \in Seq(Jobs) /\ NoRepeat(q) /\ i \in 1..Len(q) /\ \A y \in Members(q) : y \in queued
  BY <1>3, <1>4
<1>6. Members(front) \subseteq Members(q) /\ j \in Members(q)
  <2> HIDE DEF q
  <2> QED
    BY <1>5, StartedMembers
<1>7. \A y \in D : y \in queued /\ Dead(y)
  <2>1. \A x \in T : \A y \in Members(lanes[c][x]) : y \in queued
    BY <1>3, <1>4
  <2>2. \A y \in Members(front) : y \in queued
    BY <1>5, <1>6
  <2> HIDE DEF front, T
  <2> QED
    BY <2>1, <2>2
<1> HIDE DEF D, j, q
<1>8. {j} \in SUBSET queued /\ ~Dead(j)
  BY <1>2, <1>5, <1>6 DEF Eligible
<1>9. \A x \in D : x \notin running /\ x \notin {j}
  BY <1>1, <1>7, <1>8 DEF Apart
<1> QED
  BY <1>2, <1>8, <1>9, ScanSteady

LEMMA TryStartNoneSteady ==
    ASSUME SchedulerInv, NEW c, TryStartNone(c)
    PROVE  Steady
<1> DEFINE D == {d \in queued : req[d].class = c /\ Dead(d)}
<1>1. Drop(D, {}) /\ running' = running \cup {}
  BY DEF TryStartNone
<1>2. \A x \in D : x \notin running /\ x \notin {}
  BY DEF SchedulerInv, Apart
<1> HIDE DEF D
<1> QED
  BY <1>1, <1>2, ScanSteady

LEMMA DrainStep ==
    ASSUME SchedulerInv, [Next]_vars
    PROVE  \A o \in Owners :
             /\ closed'[o] >= closed[o]
             /\ (Drained(o) /\ closed'[o] = closed[o]) => Drained(o)'
<1>1. closed \in [Owners -> Nat]
  BY TypeFacts DEF SchedulerInv
<1>2. ASSUME Steady
      PROVE  \A o \in Owners : Drained(o) /\ closed'[o] = closed[o] => Drained(o)'
  <2> SUFFICES ASSUME NEW o \in Owners, Drained(o), closed'[o] = closed[o],
                      NEW x \in Live'
               PROVE  ~(req'[x].owner = o /\ req'[x].epoch <= closed'[req'[x].owner])
    BY DEF Drained, ScopeIsClosed
  <2>1. x \in Live /\ req'[x] = req[x]
    BY <1>2 DEF Steady
  <2>2. ~(req[x].owner = o /\ req[x].epoch <= closed[req[x].owner])
    BY <2>1 DEF Drained, ScopeIsClosed
  <2> QED
    BY <2>1, <2>2
<1>3. ASSUME closed' = closed
      PROVE  \A o \in Owners : closed'[o] >= closed[o]
  BY <1>1, <1>3
<1>4. CASE UNCHANGED vars
  <2>1. closed' = closed /\ queued' = queued /\ running' = running /\ req' = req
    BY <1>4 DEF vars
  <2>2. Steady
    BY <2>1 DEF Steady, Live
  <2> QED
    BY <1>2, <1>3, <2>1, <2>2
<1>5. ASSUME NEW j \in Jobs, NEW s \in Shapes, Submit(j, s)
      PROVE  \A o \in Owners :
               /\ closed'[o] >= closed[o]
               /\ (Drained(o) /\ closed'[o] = closed[o]) => Drained(o)'
  <2>1. /\ closed' = closed /\ running' = running /\ queued' = queued \cup {j}
        /\ req' = [req EXCEPT ![j] = s] /\ ~ScopeIsClosed(s)
    BY <1>5 DEF Submit
  <2>2. req \in [Jobs -> Shapes] /\ queued \subseteq Jobs /\ running \subseteq Jobs
    BY TypeFacts DEF SchedulerInv
  <2>3. req'[j] = s /\ \A x \in Jobs : x # j => req'[x] = req[x]
    BY <2>1, <2>2
  <2> SUFFICES ASSUME NEW o \in Owners, Drained(o), NEW x \in Live'
               PROVE  ~(req'[x].owner = o /\ req'[x].epoch <= closed'[req'[x].owner])
    BY <1>3, <2>1 DEF Drained, ScopeIsClosed
  <2>4. CASE x = j
    BY <2>1, <2>3, <2>4 DEF ScopeIsClosed
  <2>5. CASE x # j
    <3>1. x \in Live /\ req'[x] = req[x]
      BY <2>1, <2>2, <2>3, <2>5 DEF Live
    <3>2. ~(req[x].owner = o /\ req[x].epoch <= closed[req[x].owner])
      BY <3>1 DEF Drained, ScopeIsClosed
    <3> QED
      BY <2>1, <3>1, <3>2
  <2> QED
    BY <2>4, <2>5
<1>6. ASSUME NEW c \in Classes, Poll(c)
      PROVE  Steady /\ closed' = closed
  <2>1. Steady
    BY <1>6, TryStartSteady, TryStartNoneSteady DEF Poll
  <2>2. closed' = closed
    <3>1. CASE TryStartNone(c)
      BY <3>1 DEF TryStartNone
    <3>2. ASSUME NEW k \in 1..4, NEW i \in 1..Len(lanes[c][LaneOrder(c)[k]]),
                 TryStart(c, k, i)
          PROVE  closed' = closed
      BY <3>2 DEF TryStart
    <3> QED
      BY <1>6, <3>1, <3>2 DEF Poll
  <2> QED
    BY <2>1, <2>2
<1>7. ASSUME \/ \E j \in Jobs : Cancel(j)
             \/ \E o \in Owners, e \in Epochs : CancelScope(o, e)
             \/ \E p \in Packages : CancelPackage(p)
             \/ Expire
      PROVE  Steady /\ closed' = closed
  <2>1. \E S : CancelJobs(S) /\ closed' = closed
    BY <1>7 DEF Cancel, CancelScope, CancelPackage, Expire
  <2> QED
    BY <2>1, CancelSteady
<1>8. ASSUME NEW j \in Jobs, Complete(j)
      PROVE  Steady /\ closed' = closed
  BY <1>8, CompleteSteady DEF Complete
<1>9. ASSUME NEW j \in Jobs, SignalAll(j) \/ TokenCancelled(j) \/ DeadlineElapses(j)
      PROVE  Steady /\ closed' = closed
  <2>1. closed' = closed /\ queued' = queued /\ running' = running /\ req' = req
    BY <1>9 DEF SignalAll, TokenCancelled, DeadlineElapses, unscheduled
  <2> QED
    BY <2>1 DEF Steady, Live
<1>10. ASSUME NEW o \in Owners, NEW e \in Epochs, CloseScope(o, e)
       PROVE  Steady /\ \A x \in Owners : closed'[x] >= closed[x]
  <2>1. \E S : CancelJobs(S)
    BY <1>10 DEF CloseScope
  <2>2. Steady
    BY <2>1, CancelSteady
  <2>3. e \in Nat
    BY Requests DEF Epochs
  <2> DEFINE v == IF e > closed[o] THEN e ELSE closed[o]
  <2>4. v \in Nat /\ v >= closed[o]
    BY <1>1, <2>3
  <2>5. closed' = [closed EXCEPT ![o] = v]
    BY <1>10 DEF CloseScope
  <2> HIDE DEF v
  <2>6. \A x \in Owners : closed[x] \in Nat /\ closed'[x] = IF x = o THEN v ELSE closed[x]
    BY <1>1, <2>4, <2>5
  <2>7. \A x \in Owners : closed'[x] >= closed[x]
    BY <2>4, <2>6
  <2> QED
    BY <2>2, <2>7
<1> QED
  BY <1>2, <1>3, <1>4, <1>5, <1>6, <1>7, <1>8, <1>9, <1>10 DEF Next

-----------------------------------------------------------------------------
(* The theorems                                                            *)

\* Whatever is submitted, polled, cancelled, closed or completed, every
\* variable of the scheduler keeps a value of its type.
THEOREM SchedulerTypeCorrect == Spec => []TypeOK
<1>1. SchedulerInv => TypeOK
  BY DEF SchedulerInv
<1> QED
  BY <1>1, SchedulerInvariant, PTL

\* The counters of ExtensionJobScheduler agree with the jobs they count and
\* stay within the limits of try_new, for any limits and any mix of methods.
THEOREM SlotsAreAccounted == Spec => []CountersAgree
<1>1. SchedulerInv => CountersAgree
  BY DEF SchedulerInv, Apart, QueueAgrees, RunAgrees, CountersAgree
<1> QED
  BY <1>1, SchedulerInvariant, PTL

\* No rotation of try_start_priority and no removal loses a queued job or
\* leaves it twice in the lanes.
THEOREM LanesAreFaithful == Spec => []LanesHoldTheQueued
<1>1. SchedulerInv => LanesHoldTheQueued
  <2> SUFFICES ASSUME SchedulerInv, NEW c \in Classes, NEW p \in Priorities
               PROVE  /\ Members(lanes[c][p]) = Waiting(c, p)
                      /\ Len(lanes[c][p]) = Cardinality(Members(lanes[c][p]))
    BY DEF LanesHoldTheQueued, Waiting
  <2>1. /\ lanes[c][p] \in Seq(Jobs) /\ NoRepeat(lanes[c][p])
        /\ Members(lanes[c][p]) = Waiting(c, p)
    BY LaneTypes DEF SchedulerInv, Placed
  <2> QED
    BY <2>1, LengthCounts
<1> QED
  BY <1>1, SchedulerInvariant, PTL

\* After close_scope no work of the closed generation waits, and what runs of
\* it has its token set or about to be signalled.
THEOREM ClosedGenerationStops == Spec => []ClosedWorkIsStopping
<1>1. SchedulerInv => ClosedWorkIsStopping
  BY DEF SchedulerInv
<1> QED
  BY <1>1, SchedulerInvariant, PTL

\* is_fence_drained, once true, stays true until the fence rises, and
\* close_scope never lowers a fence.
THEOREM DrainStaysFinal == Spec => DrainIsFinal
<1>1. SchedulerInv /\ [Next]_vars
        => [\A o \in Owners :
              /\ closed'[o] >= closed[o]
              /\ (Drained(o) /\ closed'[o] = closed[o]) => Drained(o)']_vars
  BY DrainStep
<1> QED
  BY <1>1, SchedulerInvariant, PTL DEF Spec, DrainIsFinal
=============================================================================
