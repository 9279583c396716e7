----------------------- MODULE PluginCallGuardProofs -----------------------
(* Theorems about PluginCallGuard, for every number of launches, callbacks,  *)
(* calls and failing file operations.                                        *)
EXTENDS PluginCallGuard, TLAPS

-----------------------------------------------------------------------------
(* The inductive invariant                                                   *)

\* A process that has its owner file keeps it open until it drops its store;
\* before and after that its namespace has none.  So a namespace with an
\* owner file that nobody holds belongs to a process that is gone.
OwnNamespace ==
    \A n \in Launches :
       /\ proc[n].pc = "unborn" => ~ns[n].dir
       /\ proc[n].pc \in {"dir", "dropDir"} => ns[n].dir /\ ~ns[n].owner
       /\ proc[n].pc \in {"unborn", "dir", "dropDir"} => ns[n].marks = {}
       /\ proc[n].pc \in {"scan", "cleanOwner", "cleanDir", "run", "closing"} =>
             ns[n].owner /\ ns[n].holder = n
       /\ ns[n].holder = n => Alive(n)

\* The namespace a process is about to delete is empty and of a process that
\* is gone; the process holds it until it has deleted its owner file.
Cleans(l) == proc[l].pc \in {"cleanOwner", "cleanDir"}

CleansSafely(l) ==
    /\ proc[l].cleaning \in Launches
    /\ proc[proc[l].cleaning].pc = "gone"
    /\ ns[proc[l].cleaning].marks = {}
    /\ proc[l].pc = "cleanOwner" =>
          ns[proc[l].cleaning].owner /\ ns[proc[l].cleaning].holder = l
    /\ proc[l].pc = "cleanDir" => ~ns[proc[l].cleaning].owner

Cleaning == \A l \in Launches : Cleans(l) => CleansSafely(l)

\* Incidents are markers of processes that are gone, in namespaces held by
\* the process that offers them.
Offers(l) ==
    \A i \in overlay[l].set :
       ns[i[1]].holder = l /\ i[2] \in ns[i[1]].marks /\ proc[i[1]].pc = "gone"

Incidents ==
    \A l \in Launches :
       /\ Offers(l)
       /\ overlay[l].evidence # None => proc[overlay[l].evidence].pc = "gone"
       /\ proc[l].pc \in {"unborn", "closing", "dropDir", "gone"} => overlay[l].set = {}

\* Calls run only in a process that has finished its first scan, and none is
\* begun while a scan is under way.
Calls ==
    \A l \in Launches :
       /\ proc[l].pc = "run" => ~proc[l].first
       /\ \A cb \in Callbacks :
             /\ call[l][cb] # "idle" =>
                   /\ ~proc[l].first
                   /\ proc[l].pc \in {"scan", "cleanOwner", "cleanDir", "run"}
                   /\ <<l, MarkOf(cb)>> \notin owed
             /\ call[l][cb] = "writing" => proc[l].pc = "run"
             /\ call[l][cb] = "inside" => MarkOf(cb) \in ns[l].marks

\* What a scan owes to the processes that were gone when it began: each
\* interrupted call is still to be scanned, was in other hands, or is an
\* incident of the process.
Owing ==
    \A l \in Launches :
       /\ overlay[l].mode = "global" => proc[l].pc = "run"
       /\ \A n \in proc[l].before : proc[n].pc = "gone"
       /\ (proc[l].pc = "run" /\ overlay[l].mode # "global") => proc[l].todo = {}
       /\ (/\ proc[l].pc \in {"scan", "cleanOwner", "cleanDir", "run"}
           /\ overlay[l].mode # "global") =>
          \A i \in owed : i[1] \in proc[l].before =>
             i[1] \in proc[l].todo \/ i[1] \in proc[l].skipped \/ i \in overlay[l].set

GuardInv ==
    /\ TypeOK
    /\ OwnNamespace
    /\ Cleaning
    /\ Incidents
    /\ Calls
    /\ EvidenceSurvives
    /\ Owing

-----------------------------------------------------------------------------
(* Lemmas about the operators                                                *)

\* A callback's marker is a marker, and incidents pair a launch and a marker.
LEMMA MarkTypes ==
    /\ \A cb \in Callbacks : MarkOf(cb) \in Marks
    /\ \A cb \in Callbacks : [cb |-> cb, op |-> "rejected"] \in Marks
    /\ \A b, cb \in Callbacks : [cb |-> cb, op |-> "rejected"] # MarkOf(b)
    /\ \A b, cb \in Callbacks : MarkOf(b) = MarkOf(cb) => b = cb
  BY DEF MarkOf, Marks

\* No launch has the number that stands for nobody.
LEMMA NoLaunch == None \notin Launches
  BY DEF None, Launches

\* Releasing the handles of a process changes nothing but those handles, and
\* not the one of its own namespace.
LEMMA ReleasedFields ==
    ASSUME NEW space \in [Launches -> Namespaces], NEW l \in Launches
    PROVE  /\ Released(space, l) \in [Launches -> Namespaces]
           /\ \A n \in Launches :
                 /\ (Released(space, l)[n].dir <=> space[n].dir)
                 /\ (Released(space, l)[n].owner <=> space[n].owner)
                 /\ Released(space, l)[n].marks = space[n].marks
                 /\ (Released(space, l)[n].torn <=> space[n].torn)
                 /\ Released(space, l)[n].holder =
                       IF n # l /\ space[n].holder = l THEN None ELSE space[n].holder
  BY DEF Released, Namespaces

\* Removing an incident deletes its marker and closes the namespace with the
\* last one.
LEMMA WithoutIncidentFields ==
    ASSUME ns \in [Launches -> Namespaces], NEW l \in Launches,
           NEW i \in Launches \X Marks
    PROVE  /\ WithoutIncident(l, i) \in [Launches -> Namespaces]
           /\ \A k \in Launches :
                 /\ (WithoutIncident(l, i)[k].dir <=> ns[k].dir)
                 /\ (WithoutIncident(l, i)[k].owner <=> ns[k].owner)
                 /\ k # i[1] => WithoutIncident(l, i)[k].marks = ns[k].marks
                 /\ \/ WithoutIncident(l, i)[k].holder = ns[k].holder
                    \/ k = i[1] /\ WithoutIncident(l, i)[k].holder = None
           /\ WithoutIncident(l, i)[i[1]].marks = ns[i[1]].marks \ {i[2]}
           /\ \A j \in overlay[l].set \ {i} : j[1] = i[1] =>
                 WithoutIncident(l, i)[i[1]].holder = ns[i[1]].holder
<1> DEFINE n == i[1]
           gone == [ns EXCEPT ![n].marks = @ \ {i[2]}]
<1>1. n \in Launches /\ i[2] \in Marks
  OBVIOUS
<1>2. /\ gone \in [Launches -> Namespaces]
      /\ \A k \in Launches \ {n} : gone[k] = ns[k]
      /\ /\ (gone[n].dir <=> ns[n].dir) /\ (gone[n].owner <=> ns[n].owner)
         /\ gone[n].holder = ns[n].holder
         /\ gone[n].marks = ns[n].marks \ {i[2]}
  BY <1>1 DEF Namespaces
<1>3. CASE \E j \in overlay[l].set \ {i} : j[1] = n
  <2>1. WithoutIncident(l, i) = gone
    BY <1>3 DEF WithoutIncident
  <2> HIDE DEF gone, n
  <2>2. n = i[1]
    BY DEF n
  <2> QED
    BY <1>1, <1>2, <1>3, <2>1, <2>2
<1>4. CASE ~\E j \in overlay[l].set \ {i} : j[1] = n
  <2>1. WithoutIncident(l, i) = [gone EXCEPT ![n].holder = None]
    BY <1>4 DEF WithoutIncident
  <2> HIDE DEF gone, n
  <2>2. n = i[1]
    BY DEF n
  <2> DEFINE after == [gone EXCEPT ![n].holder = None]
  <2>3. /\ after \in [Launches -> Namespaces]
        /\ \A k \in Launches \ {n} : after[k] = gone[k]
        /\ (after[n].dir <=> gone[n].dir) /\ (after[n].owner <=> gone[n].owner)
        /\ after[n].marks = gone[n].marks /\ after[n].holder = None
    BY <1>1, <1>2 DEF Namespaces
  <2>4. WithoutIncident(l, i) = after
    BY <2>1
  <2> HIDE DEF after
  <2>5. ~\E j \in overlay[l].set \ {i} : j[1] = i[1]
    BY <1>4, <2>2
  <2>6. \A k \in Launches : k # n => after[k] = ns[k]
    BY <1>2, <2>3
  <2>7. /\ (after[n].dir <=> ns[n].dir) /\ (after[n].owner <=> ns[n].owner)
        /\ after[n].marks = ns[n].marks \ {i[2]} /\ after[n].holder = None
    BY <1>2, <2>3
  <2> QED
    BY <2>2, <2>3, <2>4, <2>5, <2>6, <2>7
<1> QED
  BY <1>3, <1>4

\* An owner file nobody holds is of a process that is gone.
LEMMA DeadIsGone ==
    ASSUME proc \in [Launches -> Processes], OwnNamespace, Shapes,
           NEW n \in Launches, ns[n].owner, ns[n].holder = None
    PROVE  proc[n].pc = "gone"
  BY NoLaunch DEF Processes, OwnNamespace, Shapes

\* Turning global leaves the store with no incidents and closes the handles
\* it had; the evidence it names is of a process that is gone.
LEMMA SetGlobalEffect ==
    ASSUME TypeOK, OwnNamespace, NEW l \in Launches, NEW n \in Launches \cup {None},
           NEW space, SetGlobal(l, n, space)
    PROVE  /\ ns' = Released(space, l)
           /\ overlay' \in [Launches -> Overlays]
           /\ \A k \in Launches \ {l} : overlay'[k] = overlay[k]
           /\ overlay'[l].mode = "global" /\ overlay'[l].set = {}
           /\ overlay'[l].evidence # None =>
                 overlay'[l].evidence \in Launches /\ proc[overlay'[l].evidence].pc = "gone"
<1>1. /\ Evidence(n) \in Launches \cup {None}
      /\ Evidence(n) # None => proc[Evidence(n)].pc = "gone"
  BY NoLaunch DEF Evidence, TypeOK, OwnNamespace, Alive
<1>2. /\ Global(Evidence(n)) \in Overlays
      /\ Global(Evidence(n)).mode = "global" /\ Global(Evidence(n)).set = {}
      /\ Global(Evidence(n)).evidence = Evidence(n)
  BY <1>1 DEF Global, Overlays
<1>3. overlay' = [overlay EXCEPT ![l] = Global(Evidence(n))] /\ ns' = Released(space, l)
  BY DEF SetGlobal
<1> QED
  BY <1>1, <1>2, <1>3 DEF TypeOK

\* A scan starts with every other namespace there is.
LEMMA ScanFromFields ==
    ASSUME proc \in [Launches -> Processes], NEW l \in Launches
    PROVE  /\ ScanFrom(proc, l) \in [Launches -> Processes]
           /\ \A k \in Launches \ {l} : ScanFrom(proc, l)[k] = proc[k]
           /\ LET p == ScanFrom(proc, l)[l]
              IN  /\ p.pc = "scan" /\ (p.first <=> proc[l].first)
                  /\ p.todo = {n \in Launches : ns[n].dir} \ {l}
                  /\ p.before = Gone /\ p.skipped = {}
                  /\ p.cleaning = proc[l].cleaning
<1> DEFINE todo == {n \in Launches : ns[n].dir} \ {l}
<1>1. todo \in SUBSET Launches /\ Gone \in SUBSET Launches /\ {} \in SUBSET Launches
  BY DEF Gone
<1>2. ScanFrom(proc, l) =
        [proc EXCEPT ![l] = [proc[l] EXCEPT !.pc = "scan", !.todo = todo,
                                            !.before = Gone, !.skipped = {}]]
  BY DEF ScanFrom
<1> DEFINE old == proc[l]
           new == [old EXCEPT !.pc = "scan", !.todo = todo,
                              !.before = Gone, !.skipped = {}]
<1>3. old \in Processes
  OBVIOUS
<1> HIDE DEF todo, old
<1>5. new \in Processes
  BY <1>1, <1>3 DEF Processes
<1>6. /\ new.pc = "scan" /\ (new.first <=> old.first) /\ new.todo = todo
      /\ new.before = Gone /\ new.skipped = {} /\ new.cleaning = old.cleaning
  BY <1>1, <1>3 DEF Processes
<1>7. old = proc[l]
  BY DEF old
<1>4. todo = {n \in Launches : ns[n].dir} \ {l}
  BY DEF todo
<1>8. ScanFrom(proc, l) = [proc EXCEPT ![l] = new]
  BY <1>2, <1>7
<1> HIDE DEF new
<1> QED
  BY <1>4, <1>5, <1>6, <1>7, <1>8

\* Every step keeps GuardInv.
LEMMA GuardInvNext == GuardInv /\ [Next]_vars => GuardInv'
<1> SUFFICES ASSUME TypeOK, OwnNamespace, Cleaning, Incidents, Calls,
                    EvidenceSurvives, Owing, [Next]_vars
             PROVE  GuardInv'
  BY DEF GuardInv
<1>1. ns \in [Launches -> Namespaces]
  BY DEF TypeOK
<1>2. proc \in [Launches -> Processes]
  BY DEF TypeOK
<1>3. overlay \in [Launches -> Overlays]
  BY DEF TypeOK
<1>4. call \in [Launches -> [Callbacks -> {"idle", "writing", "inside"}]]
  BY DEF TypeOK
<1>5. owed \in SUBSET (Launches \X Marks)
  BY DEF TypeOK
<1>6. \A k \in Launches : proc[k].before \subseteq Launches
  BY <1>2 DEF Processes
<1>7. \A k \in Launches :
        /\ \A i \in overlay[k].set : i[1] \in Launches /\ i = <<i[1], i[2]>>
        /\ overlay[k].evidence # None => overlay[k].evidence \in Launches
  BY <1>3 DEF Overlays
<1>8. \A i \in owed : i[1] \in Launches /\ i = <<i[1], i[2]>>
  BY <1>5
<1>9. \A k \in Launches : /\ ns[k].holder # None => ns[k].owner
                         /\ ns[k].owner => ns[k].dir
  BY DEF TypeOK, Shapes
<1>10. \A k \in Launches : overlay[k].set # {} => overlay[k].mode = "incidents"
  BY DEF TypeOK, Shapes
<1>11. Shapes
  BY DEF TypeOK
<1>0. CASE UNCHANGED vars
  <2>1. TypeOK'
    BY <1>0 DEF vars, TypeOK, Shapes
  <2>2. OwnNamespace' /\ Cleaning'
    BY <1>0 DEF vars, OwnNamespace, Cleaning, Cleans, CleansSafely, Alive
  <2>3. Incidents' /\ Calls'
    BY <1>0 DEF vars, Incidents, Offers, Calls
  <2>4. EvidenceSurvives' /\ Owing'
    BY <1>0 DEF vars, EvidenceSurvives, Owing
  <2> QED
    BY <2>1, <2>2, <2>3, <2>4 DEF GuardInv
<1>a. ASSUME NEW l \in Launches, CreateDir(l)
      PROVE  GuardInv'
  <2>g. /\ proc[l].pc = "unborn"
        /\ UNCHANGED <<overlay, call, owed, faults, calls>>
    BY <1>a DEF CreateDir
  <2>n. /\ ns' \in [Launches -> Namespaces]
        /\ \A k \in Launches : k # l => ns'[k] = ns[k]
        /\ ns'[l].dir /\ (ns'[l].owner <=> ns[l].owner)
        /\ ns'[l].holder = ns[l].holder /\ ns'[l].marks = ns[l].marks
        /\ (ns'[l].torn <=> ns[l].torn)
    <3>1. ns' = [ns EXCEPT ![l].dir = TRUE]
      BY <1>a DEF CreateDir
    <3>2. ns' \in [Launches -> Namespaces]
      BY <1>1, <3>1 DEF Namespaces
    <3> QED
      BY <1>1, <3>1 DEF Namespaces
  <2>p. /\ proc' \in [Launches -> Processes]
        /\ \A k \in Launches : k # l => proc'[k] = proc[k]
        /\ proc'[l].pc = "dir" /\ (proc'[l].first <=> proc[l].first)
        /\ proc'[l].todo = proc[l].todo /\ proc'[l].before = proc[l].before
        /\ proc'[l].skipped = proc[l].skipped
        /\ proc'[l].cleaning = proc[l].cleaning
    <3> DEFINE old == proc[l]
               new == [old EXCEPT !.pc = "dir"]
    <3>1. old \in Processes
      BY <1>2
    <3>2. proc' = [proc EXCEPT ![l] = new]
      BY <1>a DEF CreateDir
    <3>3. old = proc[l]
      OBVIOUS
    <3> HIDE DEF old
    <3>4. new \in Processes
      BY <3>1 DEF Processes
    <3>5. /\ new.pc = "dir" /\ (new.first <=> old.first)
          /\ new.todo = old.todo /\ new.before = old.before
          /\ new.skipped = old.skipped /\ new.cleaning = old.cleaning
      BY <3>1 DEF Processes
    <3> HIDE DEF new
    <3> QED
      BY <1>2, <3>2, <3>3, <3>4, <3>5
  <2>1. TypeOK'
    <3>1. ns' \in [Launches -> Namespaces] /\ proc' \in [Launches -> Processes]
      BY <2>n, <2>p
    <3>2. Shapes'
      BY <1>a, <1>11, <2>g, <2>n DEF Shapes
    <3> QED
      BY <2>g, <3>1, <3>2 DEF TypeOK
  <2>2. OwnNamespace'
    BY <1>a, <1>9, NoLaunch, <2>g, <2>n, <2>p DEF OwnNamespace, Alive
  <2>3. Cleaning'
    <3>1. SUFFICES ASSUME NEW k \in Launches, Cleans(k)'
                  PROVE  CleansSafely(k)'
      BY DEF Cleaning
    <3>2. k # l /\ proc'[k] = proc[k] /\ Cleans(k)
      BY <3>1, <2>g, <2>p DEF Cleans
    <3>3. CleansSafely(k) /\ proc[k].cleaning # l
      BY <3>2, <2>g DEF Cleaning, CleansSafely
    <3> QED
      BY <1>a, <2>g, <3>2, <3>3, <2>n, <2>p, NoLaunch DEF CleansSafely
  <2>4. Incidents'
    BY <1>a, <1>7, <2>g, <2>n, <2>p DEF Incidents, Offers
  <2>5. Calls'
    BY <1>a, <2>g, <2>n, <2>p DEF Calls
  <2>6. EvidenceSurvives'
    BY <1>a, <1>8, <2>g, <2>n DEF EvidenceSurvives
  <2>7. Owing'
    BY <1>a, <1>6, <1>8, <2>g, <2>p DEF Owing
  <2> QED
    BY <2>1, <2>2, <2>3, <2>4, <2>5, <2>6, <2>7 DEF GuardInv
<1>b. ASSUME NEW l \in Launches, CreateOwner(l)
      PROVE  GuardInv'
  <2>g. /\ proc[l].pc = "dir"
        /\ UNCHANGED <<overlay, call, owed, faults, calls>>
    BY <1>b DEF CreateOwner
  <2>n. /\ ns' \in [Launches -> Namespaces]
        /\ \A k \in Launches : k # l => ns'[k] = ns[k]
        /\ (ns'[l].dir <=> ns[l].dir) /\ ns'[l].owner /\ ns'[l].holder = l
        /\ ns'[l].marks = ns[l].marks /\ (ns'[l].torn <=> ns[l].torn)
    <3>1. ns' = [ns EXCEPT ![l].owner = TRUE, ![l].holder = l]
      BY <1>b DEF CreateOwner
    <3> QED
      BY <3>1, <1>1 DEF Namespaces
  <2>p. /\ proc' \in [Launches -> Processes]
        /\ \A k \in Launches : k # l => proc'[k] = proc[k]
        /\ proc'[l].pc = "scan" /\ (proc'[l].first <=> proc[l].first)
        /\ proc'[l].todo = {n \in Launches : ns[n].dir} \ {l}
        /\ proc'[l].before = Gone /\ proc'[l].skipped = {}
        /\ proc'[l].cleaning = proc[l].cleaning
    BY <1>b, <1>2, ScanFromFields DEF CreateOwner
  <2>1. TypeOK'
    <3>1. ns' \in [Launches -> Namespaces] /\ proc' \in [Launches -> Processes]
      BY <2>n, <2>p
    <3>2. Shapes'
      BY <1>b, <1>11, <2>g, <2>n DEF Shapes, OwnNamespace
    <3> QED
      BY <2>g, <3>1, <3>2 DEF TypeOK
  <2>2. OwnNamespace'
    BY <1>b, <1>9, NoLaunch, <2>g, <2>n, <2>p DEF OwnNamespace, Alive
  <2>3. Cleaning'
    <3>1. SUFFICES ASSUME NEW k \in Launches, Cleans(k)'
                  PROVE  CleansSafely(k)'
      BY DEF Cleaning
    <3>2. k # l /\ proc'[k] = proc[k] /\ Cleans(k)
      BY <3>1, <2>g, <2>p DEF Cleans
    <3>3. CleansSafely(k) /\ proc[k].cleaning # l
      BY <3>2, <2>g DEF Cleaning, CleansSafely
    <3> QED
      BY <1>b, <2>g, <3>2, <3>3, <2>n, <2>p, NoLaunch DEF CleansSafely
  <2>4. Incidents'
    BY <1>b, <1>7, <2>g, <2>n, <2>p DEF Incidents, Offers
  <2>5. Calls'
    BY <1>b, <2>g, <2>n, <2>p DEF Calls
  <2>6. EvidenceSurvives'
    BY <1>b, <1>8, <2>g, <2>n DEF EvidenceSurvives
  <2>7. Owing'
    BY <1>b, <1>6, <1>8, <2>g, <2>p DEF Owing, Gone, EvidenceSurvives
  <2> QED
    BY <2>1, <2>2, <2>3, <2>4, <2>5, <2>6, <2>7 DEF GuardInv
<1>c. ASSUME NEW l \in Launches, CleanOwner(l)
      PROVE  GuardInv'
  <2>c. /\ proc[l].cleaning \in Launches /\ proc[proc[l].cleaning].pc = "gone"
        /\ ns[proc[l].cleaning].marks = {} /\ ns[proc[l].cleaning].holder = l
    BY <1>c DEF CleanOwner, Cleaning, Cleans, CleansSafely
  <2>g. /\ proc[l].pc = "cleanOwner"
        /\ UNCHANGED <<overlay, call, owed, faults, calls>>
    BY <1>c DEF CleanOwner
  <2>n. /\ ns' \in [Launches -> Namespaces]
        /\ \A k \in Launches : k # proc[l].cleaning => ns'[k] = ns[k]
        /\ (ns'[proc[l].cleaning].dir <=> ns[proc[l].cleaning].dir)
        /\ ~ns'[proc[l].cleaning].owner /\ ns'[proc[l].cleaning].holder = None
        /\ ns'[proc[l].cleaning].marks = ns[proc[l].cleaning].marks
        /\ (ns'[proc[l].cleaning].torn <=> ns[proc[l].cleaning].torn)
    <3>1. ns' = [ns EXCEPT ![proc[l].cleaning].owner = FALSE, ![proc[l].cleaning].holder = None]
      BY <1>c DEF CleanOwner
    <3>2. ns' \in [Launches -> Namespaces]
      BY <1>1, <3>1, <2>c DEF Namespaces
    <3> QED
      BY <1>1, <3>1, <2>c DEF Namespaces
  <2>p. /\ proc' \in [Launches -> Processes]
        /\ \A k \in Launches : k # l => proc'[k] = proc[k]
        /\ proc'[l].pc = "cleanDir" /\ (proc'[l].first <=> proc[l].first)
        /\ proc'[l].todo = proc[l].todo /\ proc'[l].before = proc[l].before
        /\ proc'[l].skipped = proc[l].skipped
        /\ proc'[l].cleaning = proc[l].cleaning
    <3> DEFINE old == proc[l]
               new == [old EXCEPT !.pc = "cleanDir"]
    <3>1. old \in Processes
      BY <1>2
    <3>2. proc' = [proc EXCEPT ![l] = new]
      BY <1>c DEF CleanOwner
    <3>3. old = proc[l]
      OBVIOUS
    <3> HIDE DEF old
    <3>4. new \in Processes
      BY <3>1 DEF Processes
    <3>5. /\ new.pc = "cleanDir" /\ (new.first <=> old.first)
          /\ new.todo = old.todo /\ new.before = old.before
          /\ new.skipped = old.skipped /\ new.cleaning = old.cleaning
      BY <3>1 DEF Processes
    <3> HIDE DEF new
    <3> QED
      BY <1>2, <3>2, <3>3, <3>4, <3>5
  <2>h. \A k \in Launches : \A i \in overlay[k].set : i[1] # proc[l].cleaning
    BY <2>c DEF Incidents, Offers
  <2>1. TypeOK'
    <3>1. ns' \in [Launches -> Namespaces] /\ proc' \in [Launches -> Processes]
      BY <2>n, <2>p
    <3>2. Shapes'
      BY <1>c, <1>11, <2>g, <2>n, <2>h DEF Shapes
    <3> QED
      BY <2>g, <3>1, <3>2 DEF TypeOK
  <2>2. OwnNamespace'
    BY <1>c, <1>9, NoLaunch, <2>g, <2>n, <2>p, <2>h, <2>c
    DEF OwnNamespace, Alive
  <2>3. Cleaning'
    <3>1. SUFFICES ASSUME NEW k \in Launches, Cleans(k)'
                  PROVE  CleansSafely(k)'
      BY DEF Cleaning
    <3>2. CASE k = l
      BY <3>2, <2>g, <2>n, <2>p, <2>c, <1>c DEF CleansSafely, Cleaning, Cleans
    <3>3. CASE k # l
      <4>1. proc'[k] = proc[k] /\ Cleans(k)
        BY <3>1, <3>3, <2>p DEF Cleans
      <4>2. CleansSafely(k) /\ proc[k].cleaning # l
        BY <4>1, <2>g DEF Cleaning, CleansSafely
      <4> QED
        BY <1>c, <3>3, <4>1, <4>2, <2>g, <2>n, <2>p, <2>c, NoLaunch DEF CleansSafely
    <3> QED
      BY <3>2, <3>3
  <2>4. Incidents'
    BY <1>c, <1>7, <2>g, <2>n, <2>p, <2>h DEF Incidents, Offers
  <2>5. Calls'
    BY <1>c, <2>g, <2>n, <2>p, <2>h DEF Calls
  <2>6. EvidenceSurvives'
    BY <1>c, <1>8, <2>g, <2>n, <2>h DEF EvidenceSurvives
  <2>7. Owing'
    BY <1>c, <1>6, <1>8, <2>g, <2>p, <2>h DEF Owing
  <2> QED
    BY <2>1, <2>2, <2>3, <2>4, <2>5, <2>6, <2>7 DEF GuardInv
<1>d. ASSUME NEW l \in Launches, CleanDir(l)
      PROVE  GuardInv'
  <2>c. /\ proc[l].cleaning \in Launches /\ proc[proc[l].cleaning].pc = "gone"
        /\ ns[proc[l].cleaning].marks = {} /\ ~ns[proc[l].cleaning].owner
    BY <1>d DEF CleanDir, Cleaning, Cleans, CleansSafely
  <2>g. /\ proc[l].pc = "cleanDir"
        /\ UNCHANGED <<overlay, call, owed, faults, calls>>
    BY <1>d DEF CleanDir
  <2>n. /\ ns' \in [Launches -> Namespaces]
        /\ \A k \in Launches : k # proc[l].cleaning => ns'[k] = ns[k]
        /\ ~ns'[proc[l].cleaning].dir /\ ~ns'[proc[l].cleaning].owner
        /\ ns'[proc[l].cleaning].holder = None
        /\ ns'[proc[l].cleaning].marks = {} /\ ~ns'[proc[l].cleaning].torn
    <3>1. ns' = [ns EXCEPT ![proc[l].cleaning] = NoNamespace]
      BY <1>d DEF CleanDir
    <3>2. ns' \in [Launches -> Namespaces]
      BY <1>1, <3>1, <2>c DEF Namespaces, NoNamespace
    <3> QED
      BY <1>1, <3>1, <2>c DEF Namespaces, NoNamespace
  <2>p. /\ proc' \in [Launches -> Processes]
        /\ \A k \in Launches : k # l => proc'[k] = proc[k]
        /\ proc'[l].pc = "scan" /\ (proc'[l].first <=> proc[l].first)
        /\ proc'[l].todo = proc[l].todo \ {proc[l].cleaning}
        /\ proc'[l].before = proc[l].before
        /\ proc'[l].skipped = proc[l].skipped /\ proc'[l].cleaning = None
    <3> DEFINE old == proc[l]
               new == [old EXCEPT !.pc = "scan", !.cleaning = None, !.todo = @ \ {old.cleaning}]
    <3>1. old \in Processes
      BY <1>2
    <3>2. proc' = [proc EXCEPT ![l] = new]
      BY <1>d DEF CleanDir
    <3>3. old = proc[l]
      OBVIOUS
    <3> HIDE DEF old
    <3>4. new \in Processes
      BY <3>1 DEF Processes
    <3>5. /\ new.pc = "scan" /\ (new.first <=> old.first)
          /\ new.todo = old.todo \ {old.cleaning} /\ new.before = old.before
          /\ new.skipped = old.skipped /\ new.cleaning = None
      BY <3>1 DEF Processes
    <3> HIDE DEF new
    <3> QED
      BY <1>2, <3>2, <3>3, <3>4, <3>5
  <2>h. /\ \A k \in Launches : \A i \in overlay[k].set : i[1] # proc[l].cleaning
        /\ \A i \in owed : i[1] # proc[l].cleaning
    BY <2>c, <1>8 DEF Incidents, Offers, EvidenceSurvives
  <2>1. TypeOK'
    <3>1. ns' \in [Launches -> Namespaces] /\ proc' \in [Launches -> Processes]
      BY <2>n, <2>p
    <3>2. Shapes'
      BY <1>d, <1>11, <2>g, <2>n, <2>h, <2>c DEF Shapes
    <3> QED
      BY <2>g, <3>1, <3>2 DEF TypeOK
  <2>2. OwnNamespace'
    BY <1>d, <1>9, NoLaunch, <2>g, <2>n, <2>p, <2>h, <2>c
    DEF OwnNamespace, Alive
  <2>3. Cleaning'
    <3>1. SUFFICES ASSUME NEW k \in Launches, Cleans(k)'
                  PROVE  CleansSafely(k)'
      BY DEF Cleaning
    <3>2. k # l /\ proc'[k] = proc[k] /\ Cleans(k)
      BY <3>1, <2>g, <2>p DEF Cleans
    <3>3. CleansSafely(k) /\ proc[k].cleaning # l
      BY <3>2, <2>g DEF Cleaning, CleansSafely
    <3> QED
      BY <1>d, <2>g, <3>2, <3>3, <2>n, <2>p, <2>c, NoLaunch DEF CleansSafely
  <2>4. Incidents'
    BY <1>d, <1>7, <2>g, <2>n, <2>p, <2>h, <2>c DEF Incidents, Offers
  <2>5. Calls'
    BY <1>d, <2>g, <2>n, <2>p, <2>h, <2>c DEF Calls
  <2>6. EvidenceSurvives'
    BY <1>d, <1>8, <2>g, <2>n, <2>h, <2>c DEF EvidenceSurvives
  <2>7. Owing'
    BY <1>d, <1>6, <1>8, <2>g, <2>p, <2>h, <2>c DEF Owing
  <2> QED
    BY <2>1, <2>2, <2>3, <2>4, <2>5, <2>6, <2>7 DEF GuardInv
<1>e. ASSUME NEW l \in Launches, CleanFails(l)
      PROVE  GuardInv'
  <2>g. /\ proc[l].pc \in {"cleanOwner", "cleanDir"}
        /\ UNCHANGED <<call, owed, calls>>
    BY <1>e DEF CleanFails, Fault
  <2>n. /\ ns' \in [Launches -> Namespaces]
        /\ \A k \in Launches :
              /\ (ns'[k].dir <=> ns[k].dir) /\ (ns'[k].owner <=> ns[k].owner)
              /\ ns'[k].marks = ns[k].marks /\ (ns'[k].torn <=> ns[k].torn)
              /\ ns'[k].holder =
                    IF k # l /\ ns[k].holder = l THEN None ELSE ns[k].holder
    <3>1. ns' = Released(ns, l)
      BY <1>e DEF CleanFails, SetGlobal
    <3> QED
      BY <3>1, <1>1, ReleasedFields
  <2>p. /\ proc' \in [Launches -> Processes]
        /\ \A k \in Launches : k # l => proc'[k] = proc[k]
        /\ proc'[l].pc = "run" /\ ~proc'[l].first
        /\ proc'[l].todo = proc[l].todo /\ proc'[l].before = proc[l].before
        /\ proc'[l].skipped = proc[l].skipped /\ proc'[l].cleaning = None
    <3> DEFINE old == proc[l]
               new == [old EXCEPT !.pc = "run", !.first = FALSE, !.cleaning = None]
    <3>1. old \in Processes
      BY <1>2
    <3>2. proc' = [proc EXCEPT ![l] = new]
      BY <1>e DEF CleanFails, Fault
    <3>3. old = proc[l]
      OBVIOUS
    <3> HIDE DEF old
    <3>4. new \in Processes
      BY <3>1 DEF Processes
    <3>5. /\ new.pc = "run" /\ ~new.first /\ new.todo = old.todo
          /\ new.before = old.before /\ new.skipped = old.skipped
          /\ new.cleaning = None
      BY <3>1 DEF Processes
    <3> HIDE DEF new
    <3> QED
      BY <1>2, <3>2, <3>3, <3>4, <3>5
  <2>o. /\ overlay' \in [Launches -> Overlays]
        /\ \A k \in Launches \ {l} : overlay'[k] = overlay[k]
        /\ overlay'[l].mode = "global" /\ overlay'[l].set = {}
        /\ overlay'[l].evidence # None =>
              overlay'[l].evidence \in Launches /\ proc[overlay'[l].evidence].pc = "gone"
    BY <1>e, <1>1, SetGlobalEffect DEF CleanFails, Cleaning, Cleans, CleansSafely
  <2>1. TypeOK'
    <3>1. /\ ns' \in [Launches -> Namespaces] /\ proc' \in [Launches -> Processes]
           /\ overlay' \in [Launches -> Overlays]
      BY <2>n, <2>p, <2>o
    <3>2. Shapes'
      BY <1>e, <1>11, <2>g, <2>n, <2>o DEF Shapes
    <3>5. faults' \in 0..MaxFaults
      BY <1>e, LaunchAssumption DEF CleanFails, Fault, TypeOK
    <3> QED
      BY <2>g, <3>1, <3>2, <3>5 DEF TypeOK
  <2>2. OwnNamespace'
    BY <1>e, <1>9, NoLaunch, <2>g, <2>n, <2>p DEF OwnNamespace, Alive
  <2>3. Cleaning'
    <3>1. SUFFICES ASSUME NEW k \in Launches, Cleans(k)'
                  PROVE  CleansSafely(k)'
      BY DEF Cleaning
    <3>2. k # l /\ proc'[k] = proc[k] /\ Cleans(k)
      BY <3>1, <2>g, <2>p DEF Cleans
    <3>3. CleansSafely(k) /\ proc[k].cleaning # l
      BY <3>2, <2>g DEF Cleaning, CleansSafely
    <3> QED
      BY <1>e, <2>g, <3>2, <3>3, <2>n, <2>p, NoLaunch DEF CleansSafely
  <2>4. Incidents'
    <3>1. \A k \in Launches : k # l => Offers(k)'
      BY <1>e, <1>7, <2>g, <2>o, NoLaunch, <2>n, <2>p DEF Incidents, Offers
    <3>2. Offers(l)'
      BY <2>o DEF Offers
    <3>3. \A k \in Launches :
             /\ overlay'[k].evidence # None => proc'[overlay'[k].evidence].pc = "gone"
             /\ proc'[k].pc \in {"unborn", "closing", "dropDir", "gone"} => overlay'[k].set = {}
      BY <1>e, <1>7, <2>g, <2>o, <2>n, <2>p DEF Incidents
    <3> QED
      BY <3>1, <3>2, <3>3 DEF Incidents
  <2>5. Calls'
    BY <1>e, <2>g, <2>n, <2>p DEF Calls
  <2>6. EvidenceSurvives'
    BY <1>e, <1>8, <2>g, <2>n DEF EvidenceSurvives
  <2>7. Owing'
    BY <1>e, <1>6, <1>8, <2>g, <2>p, <2>o DEF Owing
  <2> QED
    BY <2>1, <2>2, <2>3, <2>4, <2>5, <2>6, <2>7 DEF GuardInv
<1>f. ASSUME NEW l \in Launches, ScanEnd(l)
      PROVE  GuardInv'
  <2>g. /\ proc[l].pc = "scan" /\ proc[l].todo = {}
        /\ UNCHANGED <<ns, overlay, call, owed, faults, calls>>
    BY <1>f DEF ScanEnd
  <2>p. /\ proc' \in [Launches -> Processes]
        /\ \A k \in Launches : k # l => proc'[k] = proc[k]
        /\ proc'[l].pc = "run" /\ ~proc'[l].first
        /\ proc'[l].todo = proc[l].todo /\ proc'[l].before = proc[l].before
        /\ proc'[l].skipped = proc[l].skipped
        /\ proc'[l].cleaning = proc[l].cleaning
    <3> DEFINE old == proc[l]
               new == [old EXCEPT !.pc = "run", !.first = FALSE]
    <3>1. old \in Processes
      BY <1>2
    <3>2. proc' = [proc EXCEPT ![l] = new]
      BY <1>f DEF ScanEnd
    <3>3. old = proc[l]
      OBVIOUS
    <3> HIDE DEF old
    <3>4. new \in Processes
      BY <3>1 DEF Processes
    <3>5. /\ new.pc = "run" /\ ~new.first /\ new.todo = old.todo
          /\ new.before = old.before /\ new.skipped = old.skipped
          /\ new.cleaning = old.cleaning
      BY <3>1 DEF Processes
    <3> HIDE DEF new
    <3> QED
      BY <1>2, <3>2, <3>3, <3>4, <3>5
  <2>1. TypeOK'
    <3>1. proc' \in [Launches -> Processes]
      BY <2>p
    <3>2. Shapes'
      BY <2>g DEF TypeOK, Shapes
    <3> QED
      BY <2>g, <3>1, <3>2 DEF TypeOK
  <2>2. OwnNamespace'
    BY <1>f, <1>9, NoLaunch, <2>g, <2>p DEF OwnNamespace, Alive
  <2>3. Cleaning'
    <3>1. SUFFICES ASSUME NEW k \in Launches, Cleans(k)'
                  PROVE  CleansSafely(k)'
      BY DEF Cleaning
    <3>2. k # l /\ proc'[k] = proc[k] /\ Cleans(k)
      BY <3>1, <2>g, <2>p DEF Cleans
    <3>3. CleansSafely(k) /\ proc[k].cleaning # l
      BY <3>2, <2>g DEF Cleaning, CleansSafely
    <3> QED
      BY <1>f, <2>g, <3>2, <3>3, <2>p, NoLaunch DEF CleansSafely
  <2>4. Incidents'
    BY <1>f, <1>7, <2>g, <2>p DEF Incidents, Offers
  <2>5. Calls'
    BY <1>f, <2>g, <2>p DEF Calls
  <2>6. EvidenceSurvives'
    BY <1>f, <1>8, <2>g DEF EvidenceSurvives
  <2>7. Owing'
    BY <1>f, <1>6, <1>8, <2>g, <2>p DEF Owing
  <2> QED
    BY <2>1, <2>2, <2>3, <2>4, <2>5, <2>6, <2>7 DEF GuardInv
<1>g. ASSUME NEW l \in Launches, ConfirmGlobal(l)
      PROVE  GuardInv'
  <2> DEFINE n == overlay[l].evidence
             moved == n # None /\ ns' # ns
  <2>g. /\ proc[l].pc = "run" /\ overlay[l].mode = "global"
        /\ UNCHANGED <<call, faults, calls>>
        /\ \A cb \in Callbacks : call[l][cb] # "writing"
    BY <1>g DEF ConfirmGlobal, Ready, Writing
  <2>e. /\ overlay[l].set = {}
        /\ n # None => n \in Launches /\ proc[n].pc = "gone"
    BY <1>7, <1>10, <2>g DEF Incidents
  <2>n. \/ ns' = ns /\ owed' = owed
        \/ /\ n \in Launches /\ ns[n].holder = None
           /\ ns' = [ns EXCEPT ![n] = NoNamespace]
           /\ owed' = {i \in owed : i[1] # n}
    BY <1>g, <2>e DEF ConfirmGlobal
  <2>m. /\ ns' \in [Launches -> Namespaces]
        /\ \A k \in Launches :
              \/ ns'[k] = ns[k]
              \/ /\ k = n /\ proc[k].pc = "gone" /\ ns[k].holder = None
                 /\ ~ns'[k].dir /\ ~ns'[k].owner /\ ns'[k].holder = None /\ ns'[k].marks = {}
    <3>1. /\ NoNamespace \in Namespaces /\ ~NoNamespace.dir /\ ~NoNamespace.owner
          /\ NoNamespace.holder = None /\ NoNamespace.marks = {}
      BY DEF NoNamespace, Namespaces
    <3> QED
      BY <1>1, <2>n, <2>e, <3>1, NoLaunch
  <2>q. /\ owed' \subseteq owed
        /\ \A i \in owed' : ns'[i[1]] = ns[i[1]]
    BY <1>1, <1>8, <2>n
  <2>p. /\ proc' \in [Launches -> Processes]
        /\ \A k \in Launches : k # l => proc'[k] = proc[k]
        /\ proc'[l].pc = "scan" /\ (proc'[l].first <=> proc[l].first)
        /\ proc'[l].before = Gone
        /\ \A k \in Launches : k # l /\ ns[k].dir /\ ns'[k] = ns[k] => k \in proc'[l].todo
    <3> DEFINE scan == ScanFrom(proc, l)
    <3>1. /\ scan \in [Launches -> Processes]
          /\ \A k \in Launches \ {l} : scan[k] = proc[k]
          /\ scan[l].pc = "scan" /\ (scan[l].first <=> proc[l].first)
          /\ scan[l].todo = {k \in Launches : ns[k].dir} \ {l} /\ scan[l].before = Gone
      BY <1>2, ScanFromFields
    <3>2. \/ proc' = scan
          \/ /\ proc' = [scan EXCEPT ![l].todo = @ \ {n}] /\ n \in Launches /\ ns[n].dir
             /\ ns' = [ns EXCEPT ![n] = NoNamespace]
      BY <1>g, <2>e DEF ConfirmGlobal
    <3> HIDE DEF scan, n
    <3>3. CASE proc' = scan
      BY <3>1, <3>3
    <3>4. CASE /\ proc' = [scan EXCEPT ![l].todo = @ \ {n}] /\ n \in Launches /\ ns[n].dir
               /\ ns' = [ns EXCEPT ![n] = NoNamespace]
      <4> DEFINE old == scan[l]
                 new == [old EXCEPT !.todo = @ \ {n}]
      <4>1. old \in Processes
        BY <3>1
      <4>2. proc' = [scan EXCEPT ![l] = new]
        BY <3>4
      <4>3. old = scan[l]
        OBVIOUS
      <4> HIDE DEF old
      <4>4. /\ new \in Processes /\ new.pc = old.pc /\ (new.first <=> old.first)
            /\ new.before = old.before /\ new.todo = old.todo \ {n}
        BY <4>1 DEF Processes
      <4> HIDE DEF new
      <4>5. ~NoNamespace.dir
        BY DEF NoNamespace
      <4>6. \A k \in Launches : ns[k].dir /\ ns'[k] = ns[k] => k # n
        BY <1>1, <3>4, <4>5
      <4>7. /\ proc' \in [Launches -> Processes] /\ proc'[l] = new
            /\ \A k \in Launches : k # l => proc'[k] = scan[k]
        BY <3>1, <4>2, <4>4
      <4> QED
        BY <3>1, <4>3, <4>4, <4>6, <4>7
    <3> QED
      BY <3>2, <3>3, <3>4
  <2>o. /\ overlay' \in [Launches -> Overlays]
        /\ \A k \in Launches \ {l} : overlay'[k] = overlay[k]
        /\ overlay'[l].set = {} /\ overlay'[l].evidence = None /\ overlay'[l].mode = "clean"
    BY <1>g, <1>3 DEF ConfirmGlobal, Clean, Overlays
  <2> HIDE DEF n
  <2>1. TypeOK'
    <3>1. owed' \in SUBSET (Launches \X Marks)
      BY <1>5, <2>q
    <3>2. Shapes'
      BY <1>11, <2>m, <2>o, NoLaunch DEF Shapes
    <3> QED
      BY <1>4, <2>g, <2>m, <2>p, <2>o, <3>1, <3>2 DEF TypeOK
  <2>2. OwnNamespace'
    BY <1>9, NoLaunch, <2>g, <2>m, <2>p DEF OwnNamespace, Alive
  <2>3. Cleaning'
    <3>1. SUFFICES ASSUME NEW k \in Launches, Cleans(k)'
                  PROVE  CleansSafely(k)'
      BY DEF Cleaning
    <3>2. k # l /\ proc'[k] = proc[k] /\ Cleans(k)
      BY <3>1, <2>p DEF Cleans
    <3>3. CleansSafely(k) /\ proc[k].cleaning # l
      BY <3>2, <2>g DEF Cleaning, CleansSafely
    <3> QED
      BY <2>m, <2>p, <3>2, <3>3, NoLaunch DEF CleansSafely
  <2>4. Incidents'
    <3>1. \A k \in Launches : k # l => Offers(k)'
      BY <1>7, <2>g, <2>o, NoLaunch, <2>m, <2>p DEF Incidents, Offers
    <3>2. Offers(l)'
      BY <2>o DEF Offers
    <3>3. \A k \in Launches :
             /\ overlay'[k].evidence # None => proc'[overlay'[k].evidence].pc = "gone"
             /\ proc'[k].pc \in {"unborn", "closing", "dropDir", "gone"} => overlay'[k].set = {}
      BY <1>7, <2>g, <2>o, <2>p DEF Incidents
    <3> QED
      BY <3>1, <3>2, <3>3 DEF Incidents
  <2>5. Calls'
    <3>1. \A k \in Launches : proc[k].pc # "gone" => ns'[k] = ns[k]
      BY <2>m
    <3> QED
      BY <2>g, <2>p, <2>q, <3>1 DEF Calls
  <2>6. EvidenceSurvives'
    BY <2>q DEF EvidenceSurvives
  <2>7. Owing'
    <3>1. \A i \in owed' : i[1] \in Gone => i[1] \in proc'[l].todo
      BY <1>8, <2>g, <2>p, <2>q DEF EvidenceSurvives, Gone
    <3>2. \A k \in Gone : k \in Launches /\ proc'[k].pc = "gone"
      BY <2>g, <2>p DEF Gone
    <3> QED
      BY <1>6, <2>g, <2>p, <2>q, <2>o, <3>1, <3>2 DEF Owing
  <2> QED
    BY <2>1, <2>2, <2>3, <2>4, <2>5, <2>6, <2>7 DEF GuardInv
<1>h. ASSUME NEW l \in Launches, Exit(l)
      PROVE  GuardInv'
  <2>g. /\ proc[l].pc = "run" /\ \A cb \in Callbacks : call[l][cb] = "idle"
        /\ UNCHANGED <<call, owed, faults, calls>>
    BY <1>h DEF Exit
  <2>n. /\ ns' \in [Launches -> Namespaces]
        /\ \A k \in Launches :
              /\ (ns'[k].dir <=> ns[k].dir) /\ (ns'[k].owner <=> ns[k].owner)
              /\ ns'[k].marks = ns[k].marks /\ (ns'[k].torn <=> ns[k].torn)
              /\ ns'[k].holder =
                    IF k # l /\ ns[k].holder = l THEN None ELSE ns[k].holder
    <3>1. ns' = Released(ns, l)
      BY <1>h DEF Exit
    <3> QED
      BY <3>1, <1>1, ReleasedFields
  <2>p. /\ proc' \in [Launches -> Processes]
        /\ \A k \in Launches : k # l => proc'[k] = proc[k]
        /\ proc'[l].pc = "closing" /\ (proc'[l].first <=> proc[l].first)
        /\ proc'[l].todo = proc[l].todo /\ proc'[l].before = proc[l].before
        /\ proc'[l].skipped = proc[l].skipped
        /\ proc'[l].cleaning = proc[l].cleaning
    <3> DEFINE old == proc[l]
               new == [old EXCEPT !.pc = "closing"]
    <3>1. old \in Processes
      BY <1>2
    <3>2. proc' = [proc EXCEPT ![l] = new]
      BY <1>h DEF Exit
    <3>3. old = proc[l]
      OBVIOUS
    <3> HIDE DEF old
    <3>4. new \in Processes
      BY <3>1 DEF Processes
    <3>5. /\ new.pc = "closing" /\ (new.first <=> old.first)
          /\ new.todo = old.todo /\ new.before = old.before
          /\ new.skipped = old.skipped /\ new.cleaning = old.cleaning
      BY <3>1 DEF Processes
    <3> HIDE DEF new
    <3> QED
      BY <1>2, <3>2, <3>3, <3>4, <3>5
  <2>o. /\ overlay' \in [Launches -> Overlays]
        /\ \A k \in Launches \ {l} : overlay'[k] = overlay[k]
        /\ overlay'[l].set = {} /\ overlay'[l].evidence = None /\ overlay'[l].mode = "clean"
    BY <1>h, <1>3 DEF Exit, Clean, Overlays
  <2>1. TypeOK'
    <3>1. /\ ns' \in [Launches -> Namespaces] /\ proc' \in [Launches -> Processes]
           /\ overlay' \in [Launches -> Overlays]
      BY <2>n, <2>p, <2>o
    <3>2. Shapes'
      BY <1>h, <1>11, <2>g, <2>n, <2>o DEF Shapes
    <3> QED
      BY <2>g, <3>1, <3>2 DEF TypeOK
  <2>2. OwnNamespace'
    BY <1>h, <1>9, NoLaunch, <2>g, <2>n, <2>p DEF OwnNamespace, Alive
  <2>3. Cleaning'
    <3>1. SUFFICES ASSUME NEW k \in Launches, Cleans(k)'
                  PROVE  CleansSafely(k)'
      BY DEF Cleaning
    <3>2. k # l /\ proc'[k] = proc[k] /\ Cleans(k)
      BY <3>1, <2>g, <2>p DEF Cleans
    <3>3. CleansSafely(k) /\ proc[k].cleaning # l
      BY <3>2, <2>g DEF Cleaning, CleansSafely
    <3> QED
      BY <1>h, <2>g, <3>2, <3>3, <2>n, <2>p, NoLaunch DEF CleansSafely
  <2>4. Incidents'
    <3>1. \A k \in Launches : k # l => Offers(k)'
      BY <1>h, <1>7, <2>g, <2>o, NoLaunch, <2>n, <2>p DEF Incidents, Offers
    <3>2. Offers(l)'
      BY <2>o DEF Offers
    <3>3. \A k \in Launches :
             /\ overlay'[k].evidence # None => proc'[overlay'[k].evidence].pc = "gone"
             /\ proc'[k].pc \in {"unborn", "closing", "dropDir", "gone"} => overlay'[k].set = {}
      BY <1>h, <1>7, <2>g, <2>o, <2>n, <2>p DEF Incidents
    <3> QED
      BY <3>1, <3>2, <3>3 DEF Incidents
  <2>5. Calls'
    BY <1>h, <2>g, <2>n, <2>p DEF Calls
  <2>6. EvidenceSurvives'
    BY <1>h, <1>8, <2>g, <2>n DEF EvidenceSurvives
  <2>7. Owing'
    BY <1>h, <1>6, <1>8, <2>g, <2>p, <2>o DEF Owing
  <2> QED
    BY <2>1, <2>2, <2>3, <2>4, <2>5, <2>6, <2>7 DEF GuardInv
<1>i. ASSUME NEW l \in Launches, DropKeeps(l)
      PROVE  GuardInv'
  <2>g. /\ proc[l].pc = "closing"
        /\ UNCHANGED <<overlay, call, owed, faults, calls>>
    BY <1>i DEF DropKeeps
  <2>n. /\ ns' \in [Launches -> Namespaces]
        /\ \A k \in Launches : k # l => ns'[k] = ns[k]
        /\ (ns'[l].dir <=> ns[l].dir) /\ (ns'[l].owner <=> ns[l].owner)
        /\ ns'[l].holder = None /\ ns'[l].marks = ns[l].marks
        /\ (ns'[l].torn <=> ns[l].torn)
    <3>1. ns' = [ns EXCEPT ![l].holder = None]
      BY <1>i DEF DropKeeps
    <3>2. ns' \in [Launches -> Namespaces]
      BY <1>1, <3>1 DEF Namespaces
    <3> QED
      BY <1>1, <3>1 DEF Namespaces
  <2>p. /\ proc' \in [Launches -> Processes]
        /\ \A k \in Launches : k # l => proc'[k] = proc[k]
        /\ proc'[l].pc = "gone" /\ proc'[l].first /\ proc'[l].todo = {}
        /\ proc'[l].before = {} /\ proc'[l].skipped = {}
        /\ proc'[l].cleaning = None
    <3> DEFINE old == proc[l]
               new == Ended
    <3>1. old \in Processes
      BY <1>2
    <3>2. proc' = [proc EXCEPT ![l] = new]
      BY <1>i DEF DropKeeps
    <3>3. old = proc[l]
      OBVIOUS
    <3> HIDE DEF old
    <3>4. new \in Processes
      BY <3>1 DEF Processes, Ended, Unborn
    <3>5. /\ new.pc = "gone" /\ new.first /\ new.todo = {} /\ new.before = {}
          /\ new.skipped = {} /\ new.cleaning = None
      BY <3>1 DEF Processes, Ended, Unborn
    <3> HIDE DEF new
    <3> QED
      BY <1>2, <3>2, <3>3, <3>4, <3>5
  <2>1. TypeOK'
    <3>1. ns' \in [Launches -> Namespaces] /\ proc' \in [Launches -> Processes]
      BY <2>n, <2>p
    <3>2. Shapes'
      BY <1>i, <1>11, <2>g, <2>n DEF Shapes
    <3> QED
      BY <2>g, <3>1, <3>2 DEF TypeOK
  <2>2. OwnNamespace'
    BY <1>i, <1>9, NoLaunch, <2>g, <2>n, <2>p DEF OwnNamespace, Alive
  <2>3. Cleaning'
    <3>1. SUFFICES ASSUME NEW k \in Launches, Cleans(k)'
                  PROVE  CleansSafely(k)'
      BY DEF Cleaning
    <3>2. k # l /\ proc'[k] = proc[k] /\ Cleans(k)
      BY <3>1, <2>g, <2>p DEF Cleans
    <3>3. CleansSafely(k) /\ proc[k].cleaning # l
      BY <3>2, <2>g DEF Cleaning, CleansSafely
    <3> QED
      BY <1>i, <2>g, <3>2, <3>3, <2>n, <2>p, NoLaunch DEF CleansSafely
  <2>4. Incidents'
    BY <1>i, <1>7, <2>g, <2>n, <2>p DEF Incidents, Offers
  <2>5. Calls'
    BY <1>i, <2>g, <2>n, <2>p DEF Calls
  <2>6. EvidenceSurvives'
    BY <1>i, <1>8, <2>g, <2>n DEF EvidenceSurvives, OwnNamespace
  <2>7. Owing'
    BY <1>i, <1>6, <1>8, <2>g, <2>p DEF Owing
  <2> QED
    BY <2>1, <2>2, <2>3, <2>4, <2>5, <2>6, <2>7 DEF GuardInv
<1>j. ASSUME NEW l \in Launches, DropOwner(l)
      PROVE  GuardInv'
  <2>g. /\ proc[l].pc = "closing" /\ ns[l].marks = {}
        /\ UNCHANGED <<overlay, call, owed, faults, calls>>
    BY <1>j DEF DropOwner
  <2>n. /\ ns' \in [Launches -> Namespaces]
        /\ \A k \in Launches : k # l => ns'[k] = ns[k]
        /\ (ns'[l].dir <=> ns[l].dir) /\ ~ns'[l].owner /\ ns'[l].holder = None
        /\ ns'[l].marks = ns[l].marks /\ (ns'[l].torn <=> ns[l].torn)
    <3>1. ns' = [ns EXCEPT ![l].owner = FALSE, ![l].holder = None]
      BY <1>j DEF DropOwner
    <3>2. ns' \in [Launches -> Namespaces]
      BY <1>1, <3>1 DEF Namespaces
    <3> QED
      BY <1>1, <3>1 DEF Namespaces
  <2>p. /\ proc' \in [Launches -> Processes]
        /\ \A k \in Launches : k # l => proc'[k] = proc[k]
        /\ proc'[l].pc = "dropDir" /\ (proc'[l].first <=> proc[l].first)
        /\ proc'[l].todo = proc[l].todo /\ proc'[l].before = proc[l].before
        /\ proc'[l].skipped = proc[l].skipped
        /\ proc'[l].cleaning = proc[l].cleaning
    <3> DEFINE old == proc[l]
               new == [old EXCEPT !.pc = "dropDir"]
    <3>1. old \in Processes
      BY <1>2
    <3>2. proc' = [proc EXCEPT ![l] = new]
      BY <1>j DEF DropOwner
    <3>3. old = proc[l]
      OBVIOUS
    <3> HIDE DEF old
    <3>4. new \in Processes
      BY <3>1 DEF Processes
    <3>5. /\ new.pc = "dropDir" /\ (new.first <=> old.first)
          /\ new.todo = old.todo /\ new.before = old.before
          /\ new.skipped = old.skipped /\ new.cleaning = old.cleaning
      BY <3>1 DEF Processes
    <3> HIDE DEF new
    <3> QED
      BY <1>2, <3>2, <3>3, <3>4, <3>5
  <2>1. TypeOK'
    <3>1. ns' \in [Launches -> Namespaces] /\ proc' \in [Launches -> Processes]
      BY <2>n, <2>p
    <3>2. Shapes'
      BY <1>j, <1>11, <2>g, <2>n DEF Shapes
    <3> QED
      BY <2>g, <3>1, <3>2 DEF TypeOK
  <2>2. OwnNamespace'
    BY <1>j, <1>9, NoLaunch, <2>g, <2>n, <2>p DEF OwnNamespace, Alive
  <2>3. Cleaning'
    <3>1. SUFFICES ASSUME NEW k \in Launches, Cleans(k)'
                  PROVE  CleansSafely(k)'
      BY DEF Cleaning
    <3>2. k # l /\ proc'[k] = proc[k] /\ Cleans(k)
      BY <3>1, <2>g, <2>p DEF Cleans
    <3>3. CleansSafely(k) /\ proc[k].cleaning # l
      BY <3>2, <2>g DEF Cleaning, CleansSafely
    <3> QED
      BY <1>j, <2>g, <3>2, <3>3, <2>n, <2>p, NoLaunch DEF CleansSafely
  <2>4. Incidents'
    BY <1>j, <1>7, <2>g, <2>n, <2>p DEF Incidents, Offers
  <2>5. Calls'
    BY <1>j, <2>g, <2>n, <2>p DEF Calls
  <2>6. EvidenceSurvives'
    BY <1>j, <1>8, <2>g, <2>n DEF EvidenceSurvives
  <2>7. Owing'
    BY <1>j, <1>6, <1>8, <2>g, <2>p DEF Owing
  <2> QED
    BY <2>1, <2>2, <2>3, <2>4, <2>5, <2>6, <2>7 DEF GuardInv
<1>k. ASSUME NEW l \in Launches, DropDir(l)
      PROVE  GuardInv'
  <2>g. /\ proc[l].pc = "dropDir"
        /\ UNCHANGED <<overlay, call, owed, faults, calls>>
    BY <1>k DEF DropDir
  <2>n. /\ ns' \in [Launches -> Namespaces]
        /\ \A k \in Launches : k # l => ns'[k] = ns[k]
        /\ ~ns'[l].dir /\ ~ns'[l].owner /\ ns'[l].holder = None
        /\ ns'[l].marks = {} /\ ~ns'[l].torn
    <3>1. ns' = [ns EXCEPT ![l] = NoNamespace]
      BY <1>k DEF DropDir
    <3>2. ns' \in [Launches -> Namespaces]
      BY <1>1, <3>1 DEF Namespaces, NoNamespace
    <3> QED
      BY <1>1, <3>1 DEF Namespaces, NoNamespace
  <2>p. /\ proc' \in [Launches -> Processes]
        /\ \A k \in Launches : k # l => proc'[k] = proc[k]
        /\ proc'[l].pc = "gone" /\ proc'[l].first /\ proc'[l].todo = {}
        /\ proc'[l].before = {} /\ proc'[l].skipped = {}
        /\ proc'[l].cleaning = None
    <3> DEFINE old == proc[l]
               new == Ended
    <3>1. old \in Processes
      BY <1>2
    <3>2. proc' = [proc EXCEPT ![l] = new]
      BY <1>k DEF DropDir
    <3>3. old = proc[l]
      OBVIOUS
    <3> HIDE DEF old
    <3>4. new \in Processes
      BY <3>1 DEF Processes, Ended, Unborn
    <3>5. /\ new.pc = "gone" /\ new.first /\ new.todo = {} /\ new.before = {}
          /\ new.skipped = {} /\ new.cleaning = None
      BY <3>1 DEF Processes, Ended, Unborn
    <3> HIDE DEF new
    <3> QED
      BY <1>2, <3>2, <3>3, <3>4, <3>5
  <2>1. TypeOK'
    <3>1. ns' \in [Launches -> Namespaces] /\ proc' \in [Launches -> Processes]
      BY <2>n, <2>p
    <3>2. Shapes'
      BY <1>k, <1>11, <2>g, <2>n DEF Shapes
    <3> QED
      BY <2>g, <3>1, <3>2 DEF TypeOK
  <2>2. OwnNamespace'
    BY <1>k, <1>9, NoLaunch, <2>g, <2>n, <2>p DEF OwnNamespace, Alive
  <2>3. Cleaning'
    <3>1. SUFFICES ASSUME NEW k \in Launches, Cleans(k)'
                  PROVE  CleansSafely(k)'
      BY DEF Cleaning
    <3>2. k # l /\ proc'[k] = proc[k] /\ Cleans(k)
      BY <3>1, <2>g, <2>p DEF Cleans
    <3>3. CleansSafely(k) /\ proc[k].cleaning # l
      BY <3>2, <2>g DEF Cleaning, CleansSafely
    <3> QED
      BY <1>k, <2>g, <3>2, <3>3, <2>n, <2>p, NoLaunch DEF CleansSafely
  <2>4. Incidents'
    BY <1>k, <1>7, <2>g, <2>n, <2>p DEF Incidents, Offers
  <2>5. Calls'
    BY <1>k, <2>g, <2>n, <2>p DEF Calls
  <2>6. EvidenceSurvives'
    BY <1>k, <1>8, <2>g, <2>n DEF EvidenceSurvives, OwnNamespace
  <2>7. Owing'
    BY <1>k, <1>6, <1>8, <2>g, <2>p DEF Owing
  <2> QED
    BY <2>1, <2>2, <2>3, <2>4, <2>5, <2>6, <2>7 DEF GuardInv
<1>l. ASSUME NEW l \in Launches, Crash(l)
      PROVE  GuardInv'
  <2>g. /\ Alive(l) /\ UNCHANGED <<faults, calls>>
        /\ owed' = owed \cup {<<l, MarkOf(cb)>> : cb \in {b \in Callbacks : call[l][b] = "inside"}}
        /\ call' = [call EXCEPT ![l] = [cb \in Callbacks |-> "idle"]]
    BY <1>l DEF Crash
  <2>n. /\ ns' \in [Launches -> Namespaces]
        /\ \A k \in Launches :
              /\ (ns'[k].dir <=> ns[k].dir) /\ (ns'[k].owner <=> ns[k].owner)
              /\ ns'[k].marks = ns[k].marks
              /\ ns'[k].holder =
                    IF k = l \/ ns[k].holder = l THEN None ELSE ns[k].holder
    <3> DEFINE space == Released(ns, l)
               torn == space[l].torn \/ Writing(l)
    <3>1. ns' = [space EXCEPT ![l].holder = None, ![l].torn = torn]
      BY <1>l DEF Crash
    <3>2. /\ space \in [Launches -> Namespaces]
          /\ \A k \in Launches :
                /\ (space[k].dir <=> ns[k].dir) /\ (space[k].owner <=> ns[k].owner)
                /\ space[k].marks = ns[k].marks
                /\ space[k].holder =
                      IF k # l /\ ns[k].holder = l THEN None ELSE ns[k].holder
      BY <1>1, ReleasedFields
    <3>3. torn \in BOOLEAN
      BY <3>2 DEF Namespaces, Writing
    <3> HIDE DEF space, torn
    <3> DEFINE new == [space EXCEPT ![l].holder = None, ![l].torn = torn]
    <3>4. /\ new \in [Launches -> Namespaces]
          /\ \A k \in Launches : k # l => new[k] = space[k]
          /\ (new[l].dir <=> space[l].dir) /\ (new[l].owner <=> space[l].owner)
          /\ new[l].marks = space[l].marks /\ new[l].holder = None
      BY <3>2, <3>3 DEF Namespaces
    <3>5. ns' = new
      BY <3>1
    <3> HIDE DEF new
    <3> QED
      BY <3>2, <3>4, <3>5
  <2>p. /\ proc' \in [Launches -> Processes]
        /\ \A k \in Launches : k # l => proc'[k] = proc[k]
        /\ proc'[l].pc = "gone" /\ proc'[l].first /\ proc'[l].todo = {}
        /\ proc'[l].before = {} /\ proc'[l].cleaning = None
    <3>1. /\ Ended \in Processes /\ Ended.pc = "gone" /\ Ended.first
          /\ Ended.todo = {} /\ Ended.before = {} /\ Ended.cleaning = None
      BY DEF Ended, Unborn, Processes
    <3>2. proc' = [proc EXCEPT ![l] = Ended]
      BY <1>l DEF Crash
    <3> QED
      BY <1>2, <3>1, <3>2
  <2>o. /\ overlay' \in [Launches -> Overlays]
        /\ \A k \in Launches \ {l} : overlay'[k] = overlay[k]
        /\ overlay'[l].set = {} /\ overlay'[l].evidence = None /\ overlay'[l].mode = "clean"
    BY <1>l, <1>3 DEF Crash, Clean, Overlays
  <2>k. /\ call' \in [Launches -> [Callbacks -> {"idle", "writing", "inside"}]]
        /\ \A k \in Launches : k # l => call'[k] = call[k]
        /\ \A b \in Callbacks : call'[l][b] = "idle"
    BY <1>4, <2>g
  <2>q. /\ owed \subseteq owed'
        /\ \A i \in owed' : i \in owed \/
              (\E cb \in Callbacks : call[l][cb] = "inside" /\ i = <<l, MarkOf(cb)>>)
    BY <2>g
  <2>1. TypeOK'
    <3>1. owed' \in SUBSET (Launches \X Marks)
      BY <1>5, <2>q, MarkTypes
    <3>2. Shapes'
      BY <1>11, <2>n, <2>o, NoLaunch DEF Shapes
    <3> QED
      BY <2>g, <2>n, <2>p, <2>o, <2>k, <3>1, <3>2 DEF TypeOK
  <2>2. OwnNamespace'
    BY <1>9, NoLaunch, <2>g, <2>n, <2>p DEF OwnNamespace, Alive
  <2>3. Cleaning'
    <3>1. SUFFICES ASSUME NEW k \in Launches, Cleans(k)'
                  PROVE  CleansSafely(k)'
      BY DEF Cleaning
    <3>2. k # l /\ proc'[k] = proc[k] /\ Cleans(k)
      BY <3>1, <2>p DEF Cleans
    <3>3. CleansSafely(k) /\ proc[k].cleaning # l
      BY <3>2, <2>g DEF Cleaning, CleansSafely, Alive
    <3> QED
      BY <2>n, <2>p, <3>2, <3>3, NoLaunch DEF CleansSafely
  <2>4. Incidents'
    <3>1. \A k \in Launches : k # l => Offers(k)'
      BY <1>7, <2>g, <2>o, NoLaunch, <2>n, <2>p DEF Incidents, Offers, Alive
    <3>2. Offers(l)'
      BY <2>o DEF Offers
    <3>3. \A k \in Launches :
             /\ overlay'[k].evidence # None => proc'[overlay'[k].evidence].pc = "gone"
             /\ proc'[k].pc \in {"unborn", "closing", "dropDir", "gone"} => overlay'[k].set = {}
      BY <1>7, <2>o, <2>n, <2>p DEF Incidents
    <3> QED
      BY <3>1, <3>2, <3>3 DEF Incidents
  <2>5. Calls'
    <3>1. \A k \in Launches, cb \in Callbacks : k # l =>
             (<<k, MarkOf(cb)>> \in owed' => <<k, MarkOf(cb)>> \in owed)
      BY <2>q
    <3> QED
      BY <2>n, <2>p, <2>k, <3>1 DEF Calls
  <2>6. EvidenceSurvives'
    <3>1. SUFFICES ASSUME NEW i \in owed'
                   PROVE  ns'[i[1]].dir /\ i[2] \in ns'[i[1]].marks
      BY DEF EvidenceSurvives
    <3>2. CASE i \in owed
      BY <1>8, <2>n, <3>2 DEF EvidenceSurvives
    <3>3. ASSUME NEW cb \in Callbacks, call[l][cb] = "inside", i = <<l, MarkOf(cb)>>
          PROVE  ns'[i[1]].dir /\ i[2] \in ns'[i[1]].marks
      <4>1. /\ proc[l].pc \in {"scan", "cleanOwner", "cleanDir", "run"}
            /\ MarkOf(cb) \in ns[l].marks
        BY <3>3 DEF Calls
      <4>2. ns[l].dir
        BY <4>1, <1>9 DEF OwnNamespace
      <4> QED
        BY <3>3, <4>1, <4>2, <2>n
    <3> QED
      BY <2>q, <3>2, <3>3
  <2>7. Owing'
    <3>1. \A k \in Launches : k # l => \A i \in owed' :
             i[1] \in proc[k].before => i \in owed
      BY <2>q, <2>g DEF Owing, Alive
    <3> QED
      BY <1>6, <1>8, <2>p, <2>o, <3>1 DEF Owing
  <2> QED
    BY <2>1, <2>2, <2>3, <2>4, <2>5, <2>6, <2>7 DEF GuardInv
<1>m. ASSUME NEW l \in Launches, NEW n \in Launches, ScanMissing(l, n)
      PROVE  GuardInv'
  <2>g. /\ proc[l].pc = "scan" /\ proc[l].todo # {}
        /\ UNCHANGED <<call, owed, faults, calls>>
    BY <1>m DEF ScanMissing
  <2>n. /\ ns' \in [Launches -> Namespaces]
        /\ \A k \in Launches :
              /\ (ns'[k].dir <=> ns[k].dir) /\ (ns'[k].owner <=> ns[k].owner)
              /\ ns'[k].marks = ns[k].marks /\ (ns'[k].torn <=> ns[k].torn)
              /\ ns'[k].holder =
                    IF k # l /\ ns[k].holder = l THEN None ELSE ns[k].holder
    <3>1. ns' = Released(ns, l)
      BY <1>m DEF ScanMissing, SetGlobal
    <3> QED
      BY <3>1, <1>1, ReleasedFields
  <2>p. /\ proc' \in [Launches -> Processes]
        /\ \A k \in Launches : k # l => proc'[k] = proc[k]
        /\ \/ proc[l].first /\ proc'[l].pc = "closing" /\ overlay'[l].mode = "clean"
           \/ ~proc[l].first /\ proc'[l].pc = "run" /\ overlay'[l].mode = "global"
        /\ (proc'[l].first <=> proc[l].first) /\ proc'[l].before = proc[l].before
    <3>1. CASE /\ proc[l].first /\ proc' = [proc EXCEPT ![l].pc = "closing"]
               /\ overlay'[l].mode = "clean"
      BY <3>1, <1>2 DEF Processes
    <3>2. CASE /\ ~proc[l].first /\ proc' = [proc EXCEPT ![l].pc = "run"]
               /\ overlay'[l].mode = "global"
      BY <3>2, <1>2 DEF Processes
    <3>3. /\ overlay' = [overlay EXCEPT ![l] = Global(Evidence(None))]
                => overlay'[l].mode = "global"
          /\ overlay' = [overlay EXCEPT ![l] = Clean] => overlay'[l].mode = "clean"
      BY <1>3 DEF Global, Clean
    <3> QED
      BY <1>m, <3>1, <3>2, <3>3 DEF ScanMissing, SetGlobal
  <2>o. /\ overlay' \in [Launches -> Overlays]
        /\ \A k \in Launches \ {l} : overlay'[k] = overlay[k]
        /\ overlay'[l].set = {}
        /\ overlay'[l].evidence # None =>
              overlay'[l].evidence \in Launches /\ proc[overlay'[l].evidence].pc = "gone"
    <3>1. CASE overlay' = [overlay EXCEPT ![l] = Clean]
      BY <3>1, <1>3 DEF Clean, Overlays
    <3>2. CASE SetGlobal(l, None, ns)
      BY <3>2, SetGlobalEffect
    <3> QED
      BY <1>m, <3>1, <3>2 DEF ScanMissing
  <2>1. TypeOK'
    <3>1. ns' \in [Launches -> Namespaces]
      BY <2>n
    <3>2. Shapes'
      BY <1>m, <1>11, <2>g, <2>n, <2>o DEF Shapes
    <3> QED
      BY <2>g, <2>n, <2>p, <2>o, <3>1, <3>2 DEF TypeOK
  <2>2. OwnNamespace'
    BY <1>m, <1>9, NoLaunch, <2>g, <2>n, <2>p DEF OwnNamespace, Alive
  <2>3. Cleaning'
    <3>1. SUFFICES ASSUME NEW k \in Launches, Cleans(k)'
                  PROVE  CleansSafely(k)'
      BY DEF Cleaning
    <3>2. k # l /\ proc'[k] = proc[k] /\ Cleans(k)
      BY <3>1, <2>g, <2>p DEF Cleans
    <3>3. CleansSafely(k) /\ proc[k].cleaning # l
      BY <3>2, <2>g DEF Cleaning, CleansSafely
    <3> QED
      BY <1>m, <2>g, <3>2, <3>3, <2>n, <2>p, NoLaunch DEF CleansSafely
  <2>4. Incidents'
    <3>1. \A k \in Launches : k # l => Offers(k)'
      BY <1>m, <1>7, <2>g, <2>o, NoLaunch, <2>n, <2>p DEF Incidents, Offers
    <3>2. Offers(l)'
      BY <2>o DEF Offers
    <3>3. \A k \in Launches :
             /\ overlay'[k].evidence # None => proc'[overlay'[k].evidence].pc = "gone"
             /\ proc'[k].pc \in {"unborn", "closing", "dropDir", "gone"} => overlay'[k].set = {}
      BY <1>m, <1>7, <2>g, <2>o, <2>n, <2>p DEF Incidents
    <3> QED
      BY <3>1, <3>2, <3>3 DEF Incidents
  <2>5. Calls'
    BY <1>m, <2>g, <2>n, <2>p DEF Calls
  <2>6. EvidenceSurvives'
    BY <1>m, <1>8, <2>g, <2>n DEF EvidenceSurvives
  <2>7. Owing'
    BY <1>m, <1>6, <1>8, <2>g, <2>p, <2>o DEF Owing
  <2> QED
    BY <2>1, <2>2, <2>3, <2>4, <2>5, <2>6, <2>7 DEF GuardInv
<1>n. ASSUME NEW l \in Launches, NEW n \in Launches, ScanUnsafe(l, n)
      PROVE  GuardInv'
  <2>g. /\ proc[l].pc = "scan" /\ UNCHANGED <<call, owed, faults, calls>>
    BY <1>n DEF ScanUnsafe
  <2>n. /\ ns' \in [Launches -> Namespaces]
        /\ \A k \in Launches :
              /\ (ns'[k].dir <=> ns[k].dir) /\ (ns'[k].owner <=> ns[k].owner)
              /\ ns'[k].marks = ns[k].marks /\ (ns'[k].torn <=> ns[k].torn)
              /\ ns'[k].holder =
                    IF k # l /\ ns[k].holder = l THEN None ELSE ns[k].holder
    <3>1. ns' = Released(ns, l)
      BY <1>n DEF ScanUnsafe, SetGlobal
    <3> QED
      BY <3>1, <1>1, ReleasedFields
  <2>p. /\ proc' \in [Launches -> Processes]
        /\ \A k \in Launches : k # l => proc'[k] = proc[k]
        /\ proc'[l].pc = "run" /\ ~proc'[l].first
        /\ proc'[l].todo = proc[l].todo /\ proc'[l].before = proc[l].before
        /\ proc'[l].skipped = proc[l].skipped
        /\ proc'[l].cleaning = proc[l].cleaning
    <3> DEFINE old == proc[l]
               new == [old EXCEPT !.pc = "run", !.first = FALSE]
    <3>1. old \in Processes
      BY <1>2
    <3>2. proc' = [proc EXCEPT ![l] = new]
      BY <1>n DEF ScanUnsafe
    <3>3. old = proc[l]
      OBVIOUS
    <3> HIDE DEF old
    <3>4. new \in Processes
      BY <3>1 DEF Processes
    <3>5. /\ new.pc = "run" /\ ~new.first /\ new.todo = old.todo
          /\ new.before = old.before /\ new.skipped = old.skipped
          /\ new.cleaning = old.cleaning
      BY <3>1 DEF Processes
    <3> HIDE DEF new
    <3> QED
      BY <1>2, <3>2, <3>3, <3>4, <3>5
  <2>o. /\ overlay' \in [Launches -> Overlays]
        /\ \A k \in Launches \ {l} : overlay'[k] = overlay[k]
        /\ overlay'[l].mode = "global" /\ overlay'[l].set = {}
        /\ overlay'[l].evidence # None =>
              overlay'[l].evidence \in Launches /\ proc[overlay'[l].evidence].pc = "gone"
    BY <1>n, SetGlobalEffect DEF ScanUnsafe
  <2>1. TypeOK'
    <3>1. /\ ns' \in [Launches -> Namespaces] /\ proc' \in [Launches -> Processes]
           /\ overlay' \in [Launches -> Overlays]
      BY <2>n, <2>p, <2>o
    <3>2. Shapes'
      BY <1>n, <1>11, <2>g, <2>n, <2>o DEF Shapes
    <3> QED
      BY <2>g, <3>1, <3>2 DEF TypeOK
  <2>2. OwnNamespace'
    BY <1>n, <1>9, NoLaunch, <2>g, <2>n, <2>p DEF OwnNamespace, Alive
  <2>3. Cleaning'
    <3>1. SUFFICES ASSUME NEW k \in Launches, Cleans(k)'
                  PROVE  CleansSafely(k)'
      BY DEF Cleaning
    <3>2. k # l /\ proc'[k] = proc[k] /\ Cleans(k)
      BY <3>1, <2>g, <2>p DEF Cleans
    <3>3. CleansSafely(k) /\ proc[k].cleaning # l
      BY <3>2, <2>g DEF Cleaning, CleansSafely
    <3> QED
      BY <1>n, <2>g, <3>2, <3>3, <2>n, <2>p, NoLaunch DEF CleansSafely
  <2>4. Incidents'
    <3>1. \A k \in Launches : k # l => Offers(k)'
      BY <1>n, <1>7, <2>g, <2>o, NoLaunch, <2>n, <2>p DEF Incidents, Offers
    <3>2. Offers(l)'
      BY <2>o DEF Offers
    <3>3. \A k \in Launches :
             /\ overlay'[k].evidence # None => proc'[overlay'[k].evidence].pc = "gone"
             /\ proc'[k].pc \in {"unborn", "closing", "dropDir", "gone"} => overlay'[k].set = {}
      BY <1>n, <1>7, <2>g, <2>o, <2>n, <2>p DEF Incidents
    <3> QED
      BY <3>1, <3>2, <3>3 DEF Incidents
  <2>5. Calls'
    BY <1>n, <2>g, <2>n, <2>p DEF Calls
  <2>6. EvidenceSurvives'
    BY <1>n, <1>8, <2>g, <2>n DEF EvidenceSurvives
  <2>7. Owing'
    BY <1>n, <1>6, <1>8, <2>g, <2>p, <2>o DEF Owing
  <2> QED
    BY <2>1, <2>2, <2>3, <2>4, <2>5, <2>6, <2>7 DEF GuardInv
<1>o. ASSUME NEW l \in Launches, NEW n \in Launches, ScanLive(l, n)
      PROVE  GuardInv'
  <2>g. /\ proc[l].pc = "scan"
        /\ UNCHANGED <<ns, overlay, call, owed, faults, calls>>
    BY <1>o DEF ScanLive
  <2>p. /\ proc' \in [Launches -> Processes]
        /\ \A k \in Launches : k # l => proc'[k] = proc[k]
        /\ proc'[l].pc = proc[l].pc /\ (proc'[l].first <=> proc[l].first)
        /\ proc'[l].todo = proc[l].todo \ {n}
        /\ proc'[l].before = proc[l].before
        /\ proc'[l].skipped = proc[l].skipped \cup {n}
        /\ proc'[l].cleaning = proc[l].cleaning
    <3> DEFINE old == proc[l]
               new == [old EXCEPT !.todo = @ \ {n}, !.skipped = @ \cup {n}]
    <3>1. old \in Processes
      BY <1>2
    <3>2. proc' = [proc EXCEPT ![l] = new]
      BY <1>o DEF ScanLive
    <3>3. old = proc[l]
      OBVIOUS
    <3> HIDE DEF old
    <3>4. new \in Processes
      BY <3>1 DEF Processes
    <3>5. /\ new.pc = old.pc /\ (new.first <=> old.first)
          /\ new.todo = old.todo \ {n} /\ new.before = old.before
          /\ new.skipped = old.skipped \cup {n} /\ new.cleaning = old.cleaning
      BY <3>1 DEF Processes
    <3> HIDE DEF new
    <3> QED
      BY <1>2, <3>2, <3>3, <3>4, <3>5
  <2>1. TypeOK'
    <3>1. proc' \in [Launches -> Processes]
      BY <2>p
    <3>2. Shapes'
      BY <2>g DEF TypeOK, Shapes
    <3> QED
      BY <2>g, <3>1, <3>2 DEF TypeOK
  <2>2. OwnNamespace'
    BY <1>o, <1>9, NoLaunch, <2>g, <2>p DEF OwnNamespace, Alive
  <2>3. Cleaning'
    <3>1. SUFFICES ASSUME NEW k \in Launches, Cleans(k)'
                  PROVE  CleansSafely(k)'
      BY DEF Cleaning
    <3>2. k # l /\ proc'[k] = proc[k] /\ Cleans(k)
      BY <3>1, <2>g, <2>p DEF Cleans
    <3>3. CleansSafely(k) /\ proc[k].cleaning # l
      BY <3>2, <2>g DEF Cleaning, CleansSafely
    <3> QED
      BY <1>o, <2>g, <3>2, <3>3, <2>p, NoLaunch DEF CleansSafely
  <2>4. Incidents'
    BY <1>o, <1>7, <2>g, <2>p DEF Incidents, Offers
  <2>5. Calls'
    BY <1>o, <2>g, <2>p DEF Calls
  <2>6. EvidenceSurvives'
    BY <1>o, <1>8, <2>g DEF EvidenceSurvives
  <2>7. Owing'
    BY <1>o, <1>6, <1>8, <2>g, <2>p DEF Owing
  <2> QED
    BY <2>1, <2>2, <2>3, <2>4, <2>5, <2>6, <2>7 DEF GuardInv
<1>p. ASSUME NEW l \in Launches, NEW n \in Launches, ScanDeadEmpty(l, n)
      PROVE  GuardInv'
  <2>d. proc[n].pc = "gone" /\ n # l
    BY <1>p, <1>2, <1>11, DeadIsGone DEF ScanDeadEmpty, Dead
  <2>g. /\ proc[l].pc = "scan" /\ ns[n].owner /\ ns[n].holder = None
        /\ ns[n].marks = {}
        /\ UNCHANGED <<overlay, call, owed, faults, calls>>
    BY <1>p DEF ScanDeadEmpty, Dead
  <2>n. /\ ns' \in [Launches -> Namespaces]
        /\ \A k \in Launches : k # n => ns'[k] = ns[k]
        /\ (ns'[n].dir <=> ns[n].dir) /\ (ns'[n].owner <=> ns[n].owner)
        /\ ns'[n].holder = l /\ ns'[n].marks = ns[n].marks
        /\ (ns'[n].torn <=> ns[n].torn)
    <3>1. ns' = [ns EXCEPT ![n].holder = l]
      BY <1>p DEF ScanDeadEmpty, Dead
    <3>2. ns' \in [Launches -> Namespaces]
      BY <1>1, <3>1 DEF Namespaces
    <3> QED
      BY <1>1, <3>1 DEF Namespaces
  <2>p. /\ proc' \in [Launches -> Processes]
        /\ \A k \in Launches : k # l => proc'[k] = proc[k]
        /\ proc'[l].pc = "cleanOwner" /\ (proc'[l].first <=> proc[l].first)
        /\ proc'[l].todo = proc[l].todo /\ proc'[l].before = proc[l].before
        /\ proc'[l].skipped = proc[l].skipped /\ proc'[l].cleaning = n
    <3> DEFINE old == proc[l]
               new == [old EXCEPT !.pc = "cleanOwner", !.cleaning = n]
    <3>1. old \in Processes
      BY <1>2
    <3>2. proc' = [proc EXCEPT ![l] = new]
      BY <1>p DEF ScanDeadEmpty, Dead
    <3>3. old = proc[l]
      OBVIOUS
    <3> HIDE DEF old
    <3>4. new \in Processes
      BY <3>1 DEF Processes
    <3>5. /\ new.pc = "cleanOwner" /\ (new.first <=> old.first)
          /\ new.todo = old.todo /\ new.before = old.before
          /\ new.skipped = old.skipped /\ new.cleaning = n
      BY <3>1 DEF Processes
    <3> HIDE DEF new
    <3> QED
      BY <1>2, <3>2, <3>3, <3>4, <3>5
  <2>1. TypeOK'
    <3>1. ns' \in [Launches -> Namespaces] /\ proc' \in [Launches -> Processes]
      BY <2>n, <2>p
    <3>2. Shapes'
      BY <1>p, <1>11, <2>g, <2>n, <2>d DEF Shapes
    <3> QED
      BY <2>g, <3>1, <3>2 DEF TypeOK
  <2>2. OwnNamespace'
    BY <1>p, <1>9, NoLaunch, <2>g, <2>n, <2>p, <2>d DEF OwnNamespace, Alive
  <2>3. Cleaning'
    <3>1. SUFFICES ASSUME NEW k \in Launches, Cleans(k)'
                  PROVE  CleansSafely(k)'
      BY DEF Cleaning
    <3>2. CASE k = l
      BY <3>2, <2>g, <2>n, <2>p, <2>d, <1>p DEF CleansSafely
    <3>3. CASE k # l
      <4>1. proc'[k] = proc[k] /\ Cleans(k)
        BY <3>1, <3>3, <2>p DEF Cleans
      <4>2. CleansSafely(k) /\ proc[k].cleaning # l
        BY <4>1, <2>g DEF Cleaning, CleansSafely
      <4> QED
        BY <1>p, <3>3, <4>1, <4>2, <2>g, <2>n, <2>p, <2>d, NoLaunch DEF CleansSafely
    <3> QED
      BY <3>2, <3>3
  <2>4. Incidents'
    BY <1>p, <1>7, <2>g, <2>n, <2>p, <2>d DEF Incidents, Offers
  <2>5. Calls'
    BY <1>p, <2>g, <2>n, <2>p, <2>d DEF Calls
  <2>6. EvidenceSurvives'
    BY <1>p, <1>8, <2>g, <2>n, <2>d DEF EvidenceSurvives
  <2>7. Owing'
    BY <1>p, <1>6, <1>8, <2>g, <2>p, <2>d DEF Owing
  <2> QED
    BY <2>1, <2>2, <2>3, <2>4, <2>5, <2>6, <2>7 DEF GuardInv
<1>q. ASSUME NEW l \in Launches, NEW n \in Launches, ScanIncidents(l, n)
      PROVE  GuardInv'
  <2>d. proc[n].pc = "gone" /\ n # l
    BY <1>q, <1>2, <1>11, DeadIsGone DEF ScanIncidents, Dead
  <2>g. /\ proc[l].pc = "scan" /\ ns[n].owner /\ ns[n].holder = None
        /\ UNCHANGED <<call, owed, faults, calls>>
    BY <1>q DEF ScanIncidents, Dead
  <2>n. /\ ns' \in [Launches -> Namespaces]
        /\ \A k \in Launches : k # n => ns'[k] = ns[k]
        /\ (ns'[n].dir <=> ns[n].dir) /\ (ns'[n].owner <=> ns[n].owner)
        /\ ns'[n].holder = l /\ ns'[n].marks = ns[n].marks
        /\ (ns'[n].torn <=> ns[n].torn)
    <3>1. ns' = [ns EXCEPT ![n].holder = l]
      BY <1>q DEF ScanIncidents, Dead
    <3>2. ns' \in [Launches -> Namespaces]
      BY <1>1, <3>1 DEF Namespaces
    <3> QED
      BY <1>1, <3>1 DEF Namespaces
  <2>p. /\ proc' \in [Launches -> Processes]
        /\ \A k \in Launches : k # l => proc'[k] = proc[k]
        /\ proc'[l].pc = proc[l].pc /\ (proc'[l].first <=> proc[l].first)
        /\ proc'[l].todo = proc[l].todo \ {n}
        /\ proc'[l].before = proc[l].before
        /\ proc'[l].skipped = proc[l].skipped
        /\ proc'[l].cleaning = proc[l].cleaning
    <3> DEFINE old == proc[l]
               new == [old EXCEPT !.todo = @ \ {n}]
    <3>1. old \in Processes
      BY <1>2
    <3>2. proc' = [proc EXCEPT ![l] = new]
      BY <1>q DEF ScanIncidents, Dead
    <3>3. old = proc[l]
      OBVIOUS
    <3> HIDE DEF old
    <3>4. new \in Processes
      BY <3>1 DEF Processes
    <3>5. /\ new.pc = old.pc /\ (new.first <=> old.first)
          /\ new.todo = old.todo \ {n} /\ new.before = old.before
          /\ new.skipped = old.skipped /\ new.cleaning = old.cleaning
      BY <3>1 DEF Processes
    <3> HIDE DEF new
    <3> QED
      BY <1>2, <3>2, <3>3, <3>4, <3>5
  <2>o. /\ overlay' \in [Launches -> Overlays]
        /\ \A k \in Launches \ {l} : overlay'[k] = overlay[k]
        /\ overlay'[l].set = overlay[l].set \cup ({n} \X ns[n].marks)
        /\ overlay'[l].evidence = None /\ overlay'[l].mode = "incidents"
    BY <1>q, <1>1, <1>3 DEF ScanIncidents, Namespaces, Overlays
  <2>1. TypeOK'
    <3>1. /\ ns' \in [Launches -> Namespaces] /\ proc' \in [Launches -> Processes]
           /\ overlay' \in [Launches -> Overlays]
      BY <2>n, <2>p, <2>o
    <3>2. Shapes'
      BY <1>q, <1>11, <2>g, <2>n, <2>o, <2>d DEF Shapes
    <3> QED
      BY <2>g, <3>1, <3>2 DEF TypeOK
  <2>2. OwnNamespace'
    BY <1>q, <1>9, NoLaunch, <2>g, <2>n, <2>p, <2>d DEF OwnNamespace, Alive
  <2>3. Cleaning'
    <3>1. SUFFICES ASSUME NEW k \in Launches, Cleans(k)'
                  PROVE  CleansSafely(k)'
      BY DEF Cleaning
    <3>2. k # l /\ proc'[k] = proc[k] /\ Cleans(k)
      BY <3>1, <2>g, <2>p DEF Cleans
    <3>3. CleansSafely(k) /\ proc[k].cleaning # l
      BY <3>2, <2>g DEF Cleaning, CleansSafely
    <3> QED
      BY <1>q, <2>g, <3>2, <3>3, <2>n, <2>p, <2>d, NoLaunch DEF CleansSafely
  <2>4. Incidents'
    <3>1. \A i \in overlay'[l].set :
             ns'[i[1]].holder = l /\ i[2] \in ns'[i[1]].marks /\ proc'[i[1]].pc = "gone"
      <4> TAKE i \in overlay'[l].set
      <4>1. CASE i \in overlay[l].set
        BY <1>7, <2>d, <2>n, <2>p, <4>1, <1>q DEF Incidents, Offers
      <4>2. CASE i \in {n} \X ns[n].marks
        BY <2>d, <2>n, <2>p, <4>2
      <4> QED
        BY <2>o, <4>1, <4>2
    <3>2. \A k \in Launches : k # l => \A i \in overlay[k].set : i[1] # n
      BY <2>g, NoLaunch DEF Incidents, Offers
    <3>3. \A k \in Launches : Offers(k)'
      BY <1>q, <1>7, <2>d, <2>n, <2>p, <2>o, <3>1, <3>2 DEF Incidents, Offers
    <3>4. \A k \in Launches :
             /\ overlay'[k].evidence # None => proc'[overlay'[k].evidence].pc = "gone"
             /\ proc'[k].pc \in {"unborn", "closing", "dropDir", "gone"} => overlay'[k].set = {}
      BY <1>q, <1>7, <2>g, <2>p, <2>o DEF Incidents
    <3> QED
      BY <3>3, <3>4 DEF Incidents
  <2>5. Calls'
    BY <1>q, <2>g, <2>n, <2>p, <2>d DEF Calls
  <2>6. EvidenceSurvives'
    BY <1>q, <1>8, <2>g, <2>n, <2>d DEF EvidenceSurvives
  <2>7. Owing'
    <3>1. \A i \in owed : i[1] = n => i \in overlay'[l].set
      BY <1>8, <2>o DEF EvidenceSurvives
    <3> QED
      BY <1>q, <1>6, <1>8, <2>g, <2>p, <2>o, <3>1 DEF Owing
  <2> QED
    BY <2>1, <2>2, <2>3, <2>4, <2>5, <2>6, <2>7 DEF GuardInv
<1>r. ASSUME NEW l \in Launches, NEW cb \in Callbacks, Begin(l, cb)
      PROVE  GuardInv'
  <2>g. /\ proc[l].pc = "run" /\ ~Denied(l, cb)
        /\ MarkOf(cb) \notin ns[l].marks
        /\ UNCHANGED <<ns, proc, overlay, owed, faults>>
    BY <1>r DEF Begin, Ready, Writing
  <2>k. /\ call' \in [Launches -> [Callbacks -> {"idle", "writing", "inside"}]]
        /\ \A k \in Launches : k # l => call'[k] = call[k]
        /\ \A b \in Callbacks : b # cb => call'[l][b] = call[l][b]
        /\ call'[l][cb] = "writing"
    <3>1. call' = [call EXCEPT ![l][cb] = "writing"]
      BY <1>r DEF Begin, Ready, Writing
    <3> QED
      BY <1>4, <3>1
  <2>1. TypeOK'
    <3>1. call' \in [Launches -> [Callbacks -> {"idle", "writing", "inside"}]]
      BY <2>k
    <3>6. calls' \in 0..MaxCalls
      BY <1>r, LaunchAssumption DEF Begin, TypeOK
    <3>2. Shapes'
      BY <2>g DEF TypeOK, Shapes
    <3> QED
      BY <2>g, <3>1, <3>6, <3>2 DEF TypeOK
  <2>2. OwnNamespace'
    BY <1>r, <1>9, NoLaunch, <2>g DEF OwnNamespace, Alive
  <2>3. Cleaning'
    <3>1. SUFFICES ASSUME NEW k \in Launches, Cleans(k)'
                  PROVE  CleansSafely(k)'
      BY DEF Cleaning
    <3>2. proc'[k] = proc[k] /\ Cleans(k)
      BY <3>1, <2>g DEF Cleans
    <3>3. CleansSafely(k) /\ proc[k].cleaning # l
      BY <3>2, <2>g DEF Cleaning, CleansSafely
    <3> QED
      BY <1>r, <2>g, <3>2, <3>3, NoLaunch DEF CleansSafely
  <2>4. Incidents'
    BY <1>r, <1>7, <2>g DEF Incidents, Offers
  <2>5. Calls'
    BY <1>r, <2>g, <2>k DEF Calls, EvidenceSurvives
  <2>6. EvidenceSurvives'
    BY <1>r, <1>8, <2>g DEF EvidenceSurvives
  <2>7. Owing'
    BY <1>r, <1>6, <1>8, <2>g DEF Owing
  <2> QED
    BY <2>1, <2>2, <2>3, <2>4, <2>5, <2>6, <2>7 DEF GuardInv
<1>s. ASSUME NEW l \in Launches, NEW cb \in Callbacks, MarkerWritten(l, cb)
      PROVE  GuardInv'
  <2>g. /\ call[l][cb] = "writing"
        /\ UNCHANGED <<proc, overlay, owed, faults, calls>>
    BY <1>s DEF MarkerWritten
  <2>n. /\ ns' \in [Launches -> Namespaces]
        /\ \A k \in Launches : k # l => ns'[k] = ns[k]
        /\ (ns'[l].dir <=> ns[l].dir) /\ (ns'[l].owner <=> ns[l].owner)
        /\ ns'[l].holder = ns[l].holder
        /\ ns'[l].marks = ns[l].marks \cup {MarkOf(cb)}
        /\ (ns'[l].torn <=> ns[l].torn)
    <3>1. ns' = [ns EXCEPT ![l].marks = @ \cup {MarkOf(cb)}]
      BY <1>s DEF MarkerWritten
    <3>2. ns' \in [Launches -> Namespaces]
      BY <1>1, <3>1, MarkTypes DEF Namespaces
    <3> QED
      BY <1>1, <3>1, MarkTypes DEF Namespaces
  <2>k. /\ call' \in [Launches -> [Callbacks -> {"idle", "writing", "inside"}]]
        /\ \A k \in Launches : k # l => call'[k] = call[k]
        /\ \A b \in Callbacks : b # cb => call'[l][b] = call[l][b]
        /\ call'[l][cb] = "inside"
    <3>1. call' = [call EXCEPT ![l][cb] = "inside"]
      BY <1>s DEF MarkerWritten
    <3> QED
      BY <1>4, <3>1
  <2>r. proc[l].pc = "run"
    BY <2>g, <1>s DEF Calls
  <2>1. TypeOK'
    <3>1. ns' \in [Launches -> Namespaces]
           /\ call' \in [Launches -> [Callbacks -> {"idle", "writing", "inside"}]]
      BY <2>n, <2>k
    <3>2. Shapes'
      BY <1>s, <1>11, <2>g, <2>n, <2>r DEF Shapes
    <3> QED
      BY <2>g, <3>1, <3>2 DEF TypeOK
  <2>2. OwnNamespace'
    BY <1>s, <1>9, NoLaunch, <2>g, <2>n, <2>r DEF OwnNamespace, Alive
  <2>3. Cleaning'
    <3>1. SUFFICES ASSUME NEW k \in Launches, Cleans(k)'
                  PROVE  CleansSafely(k)'
      BY DEF Cleaning
    <3>2. proc'[k] = proc[k] /\ Cleans(k)
      BY <3>1, <2>g DEF Cleans
    <3>3. CleansSafely(k) /\ proc[k].cleaning # l
      BY <3>2, <2>g, <2>r DEF Cleaning, CleansSafely
    <3> QED
      BY <1>s, <2>g, <3>2, <3>3, <2>n, <2>r, NoLaunch DEF CleansSafely
  <2>4. Incidents'
    BY <1>s, <1>7, <2>g, <2>n, <2>r DEF Incidents, Offers
  <2>5. Calls'
    BY <1>s, <2>g, <2>n, <2>k, <2>r DEF Calls
  <2>6. EvidenceSurvives'
    BY <1>s, <1>8, <2>g, <2>n, <2>r DEF EvidenceSurvives
  <2>7. Owing'
    BY <1>s, <1>6, <1>8, <2>g, <2>r DEF Owing
  <2> QED
    BY <2>1, <2>2, <2>3, <2>4, <2>5, <2>6, <2>7 DEF GuardInv
<1>t. ASSUME NEW l \in Launches, NEW cb \in Callbacks, MarkerWriteFails(l, cb)
      PROVE  GuardInv'
  <2>g. /\ call[l][cb] = "writing" /\ UNCHANGED <<proc, owed, calls>>
    BY <1>t DEF MarkerWriteFails, Fault
  <2>n. /\ ns' \in [Launches -> Namespaces]
        /\ \A k \in Launches :
              /\ (ns'[k].dir <=> ns[k].dir) /\ (ns'[k].owner <=> ns[k].owner)
              /\ ns'[k].marks = ns[k].marks
              /\ (ns'[k].torn <=> k = l \/ ns[k].torn)
              /\ ns'[k].holder =
                    IF k # l /\ ns[k].holder = l THEN None ELSE ns[k].holder
    <3> DEFINE space == [ns EXCEPT ![l].torn = TRUE]
    <3>1. space \in [Launches -> Namespaces]
      BY <1>1 DEF Namespaces
    <3>2. /\ \A k \in Launches : k # l => space[k] = ns[k]
          /\ (space[l].dir <=> ns[l].dir) /\ (space[l].owner <=> ns[l].owner)
          /\ space[l].holder = ns[l].holder /\ space[l].marks = ns[l].marks
          /\ space[l].torn
      BY <1>1 DEF Namespaces
    <3>3. ns' = Released(space, l)
      BY <1>t DEF MarkerWriteFails, SetGlobal
    <3> HIDE DEF space
    <3>4. \A k \in Launches :
             /\ (space[k].dir <=> ns[k].dir) /\ (space[k].owner <=> ns[k].owner)
             /\ space[k].holder = ns[k].holder
             /\ (space[k].torn <=> k = l \/ ns[k].torn)
             /\ space[k].marks = ns[k].marks
      BY <3>2
    <3>5. /\ ns' \in [Launches -> Namespaces]
          /\ \A k \in Launches :
                /\ (ns'[k].dir <=> space[k].dir) /\ (ns'[k].owner <=> space[k].owner)
                /\ (ns'[k].torn <=> space[k].torn) /\ ns'[k].marks = space[k].marks
                /\ ns'[k].holder =
                      IF k # l /\ space[k].holder = l THEN None ELSE space[k].holder
      BY <3>1, <3>3, ReleasedFields
    <3> QED
      BY <3>4, <3>5
  <2>k. /\ call' \in [Launches -> [Callbacks -> {"idle", "writing", "inside"}]]
        /\ \A k \in Launches : k # l => call'[k] = call[k]
        /\ \A b \in Callbacks : b # cb => call'[l][b] = call[l][b]
        /\ call'[l][cb] = "idle"
    <3>1. call' = [call EXCEPT ![l][cb] = "idle"]
      BY <1>t DEF MarkerWriteFails, Fault
    <3> QED
      BY <1>4, <3>1
  <2>o. /\ overlay' \in [Launches -> Overlays]
        /\ \A k \in Launches \ {l} : overlay'[k] = overlay[k]
        /\ overlay'[l].mode = "global" /\ overlay'[l].set = {}
        /\ overlay'[l].evidence # None =>
              overlay'[l].evidence \in Launches /\ proc[overlay'[l].evidence].pc = "gone"
    BY <1>t, SetGlobalEffect DEF MarkerWriteFails
  <2>r. proc[l].pc = "run"
    BY <2>g, <1>t DEF Calls
  <2>1. TypeOK'
    <3>1. /\ ns' \in [Launches -> Namespaces]
           /\ overlay' \in [Launches -> Overlays]
           /\ call' \in [Launches -> [Callbacks -> {"idle", "writing", "inside"}]]
      BY <2>n, <2>o, <2>k
    <3>2. Shapes'
      BY <1>t, <1>11, <2>g, <2>n, <2>o, <2>r DEF Shapes
    <3>5. faults' \in 0..MaxFaults
      BY <1>t, LaunchAssumption DEF MarkerWriteFails, Fault, TypeOK
    <3> QED
      BY <2>g, <3>1, <3>2, <3>5 DEF TypeOK
  <2>2. OwnNamespace'
    BY <1>t, <1>9, NoLaunch, <2>g, <2>n, <2>r DEF OwnNamespace, Alive
  <2>3. Cleaning'
    <3>1. SUFFICES ASSUME NEW k \in Launches, Cleans(k)'
                  PROVE  CleansSafely(k)'
      BY DEF Cleaning
    <3>2. proc'[k] = proc[k] /\ Cleans(k)
      BY <3>1, <2>g DEF Cleans
    <3>3. CleansSafely(k) /\ proc[k].cleaning # l
      BY <3>2, <2>g, <2>r DEF Cleaning, CleansSafely
    <3> QED
      BY <1>t, <2>g, <3>2, <3>3, <2>n, <2>r, NoLaunch DEF CleansSafely
  <2>4. Incidents'
    <3>1. \A k \in Launches : k # l => Offers(k)'
      BY <1>t, <1>7, <2>g, <2>o, NoLaunch, <2>n, <2>r DEF Incidents, Offers
    <3>2. Offers(l)'
      BY <2>o DEF Offers
    <3>3. \A k \in Launches :
             /\ overlay'[k].evidence # None => proc'[overlay'[k].evidence].pc = "gone"
             /\ proc'[k].pc \in {"unborn", "closing", "dropDir", "gone"} => overlay'[k].set = {}
      BY <1>t, <1>7, <2>g, <2>o, <2>n, <2>r DEF Incidents
    <3> QED
      BY <3>1, <3>2, <3>3 DEF Incidents
  <2>5. Calls'
    BY <1>t, <2>g, <2>n, <2>k, <2>r DEF Calls
  <2>6. EvidenceSurvives'
    BY <1>t, <1>8, <2>g, <2>n, <2>r DEF EvidenceSurvives
  <2>7. Owing'
    BY <1>t, <1>6, <1>8, <2>g, <2>o, <2>r DEF Owing
  <2> QED
    BY <2>1, <2>2, <2>3, <2>4, <2>5, <2>6, <2>7 DEF GuardInv
<1>u. ASSUME NEW l \in Launches, NEW cb \in Callbacks, Clear(l, cb)
      PROVE  GuardInv'
  <2>g. /\ proc[l].pc = "run" /\ call[l][cb] = "inside"
        /\ UNCHANGED <<proc, overlay, owed, faults, calls>>
    BY <1>u DEF Clear, Returned, Ready
  <2>n. /\ ns' \in [Launches -> Namespaces]
        /\ \A k \in Launches : k # l => ns'[k] = ns[k]
        /\ (ns'[l].dir <=> ns[l].dir) /\ (ns'[l].owner <=> ns[l].owner)
        /\ ns'[l].holder = ns[l].holder
        /\ ns'[l].marks = ns[l].marks \ {MarkOf(cb)}
        /\ (ns'[l].torn <=> ns[l].torn)
    <3>1. ns' = [ns EXCEPT ![l].marks = @ \ {MarkOf(cb)}]
      BY <1>u DEF Clear, Returned, Ready
    <3>2. ns' \in [Launches -> Namespaces]
      BY <1>1, <3>1 DEF Namespaces
    <3> QED
      BY <1>1, <3>1 DEF Namespaces
  <2>k. /\ call' \in [Launches -> [Callbacks -> {"idle", "writing", "inside"}]]
        /\ \A k \in Launches : k # l => call'[k] = call[k]
        /\ \A b \in Callbacks : b # cb => call'[l][b] = call[l][b]
        /\ call'[l][cb] = "idle"
    <3>1. call' = [call EXCEPT ![l][cb] = "idle"]
      BY <1>u DEF Clear, Returned, Ready
    <3> QED
      BY <1>4, <3>1
  <2>1. TypeOK'
    <3>1. ns' \in [Launches -> Namespaces]
           /\ call' \in [Launches -> [Callbacks -> {"idle", "writing", "inside"}]]
      BY <2>n, <2>k
    <3>2. Shapes'
      BY <1>u, <1>11, <2>g, <2>n DEF Shapes
    <3> QED
      BY <2>g, <3>1, <3>2 DEF TypeOK
  <2>2. OwnNamespace'
    BY <1>u, <1>9, NoLaunch, <2>g, <2>n DEF OwnNamespace, Alive
  <2>3. Cleaning'
    <3>1. SUFFICES ASSUME NEW k \in Launches, Cleans(k)'
                  PROVE  CleansSafely(k)'
      BY DEF Cleaning
    <3>2. proc'[k] = proc[k] /\ Cleans(k)
      BY <3>1, <2>g DEF Cleans
    <3>3. CleansSafely(k) /\ proc[k].cleaning # l
      BY <3>2, <2>g DEF Cleaning, CleansSafely
    <3> QED
      BY <1>u, <2>g, <3>2, <3>3, <2>n, NoLaunch DEF CleansSafely
  <2>4. Incidents'
    BY <1>u, <1>7, <2>g, <2>n DEF Incidents, Offers
  <2>5. Calls'
    BY <1>u, <2>g, <2>n, <2>k, MarkTypes DEF Calls
  <2>6. EvidenceSurvives'
    BY <1>u, <1>8, <2>g, <2>n DEF EvidenceSurvives, Calls
  <2>7. Owing'
    BY <1>u, <1>6, <1>8, <2>g DEF Owing
  <2> QED
    BY <2>1, <2>2, <2>3, <2>4, <2>5, <2>6, <2>7 DEF GuardInv
<1>v. ASSUME NEW l \in Launches, NEW cb \in Callbacks, ClearFails(l, cb)
      PROVE  GuardInv'
  <2>e. PICK kept \in SUBSET {MarkOf(cb)} :
          /\ SetGlobal(l, None, [ns EXCEPT ![l].marks = (@ \ {MarkOf(cb)}) \cup kept])
          /\ owed' = owed \cup ({l} \X kept)
    BY <1>v DEF ClearFails
  <2>f. kept \in SUBSET Marks
    BY MarkTypes
  <2>g. /\ proc[l].pc = "run" /\ call[l][cb] = "inside"
        /\ UNCHANGED <<proc, calls>>
    BY <1>v DEF ClearFails, Returned, Ready, Fault
  <2>n. /\ ns' \in [Launches -> Namespaces]
        /\ \A k \in Launches :
              /\ (ns'[k].dir <=> ns[k].dir) /\ (ns'[k].owner <=> ns[k].owner)
              /\ ns'[k].marks = IF k = l THEN (ns[l].marks \ {MarkOf(cb)}) \cup kept ELSE ns[k].marks
              /\ (ns'[k].torn <=> ns[k].torn)
              /\ ns'[k].holder =
                    IF k # l /\ ns[k].holder = l THEN None ELSE ns[k].holder
    <3> DEFINE space == [ns EXCEPT ![l].marks = (@ \ {MarkOf(cb)}) \cup kept]
    <3>1. space \in [Launches -> Namespaces]
      BY <1>1, <2>e, <2>f DEF Namespaces
    <3>2. /\ \A k \in Launches : k # l => space[k] = ns[k]
          /\ (space[l].dir <=> ns[l].dir) /\ (space[l].owner <=> ns[l].owner)
          /\ space[l].holder = ns[l].holder
          /\ space[l].marks = (ns[l].marks \ {MarkOf(cb)}) \cup kept
          /\ (space[l].torn <=> ns[l].torn)
      BY <1>1 DEF Namespaces
    <3>3. ns' = Released(space, l)
      BY <2>e, <2>f DEF SetGlobal
    <3> HIDE DEF space
    <3>4. \A k \in Launches :
             /\ (space[k].dir <=> ns[k].dir) /\ (space[k].owner <=> ns[k].owner)
             /\ space[k].holder = ns[k].holder
             /\ (space[k].torn <=> ns[k].torn)
             /\ space[k].marks = IF k = l THEN (ns[l].marks \ {MarkOf(cb)}) \cup kept ELSE ns[k].marks
      BY <3>2
    <3>5. /\ ns' \in [Launches -> Namespaces]
          /\ \A k \in Launches :
                /\ (ns'[k].dir <=> space[k].dir) /\ (ns'[k].owner <=> space[k].owner)
                /\ (ns'[k].torn <=> space[k].torn) /\ ns'[k].marks = space[k].marks
                /\ ns'[k].holder =
                      IF k # l /\ space[k].holder = l THEN None ELSE space[k].holder
      BY <3>1, <3>3, ReleasedFields
    <3> QED
      BY <3>4, <3>5
  <2>k. /\ call' \in [Launches -> [Callbacks -> {"idle", "writing", "inside"}]]
        /\ \A k \in Launches : k # l => call'[k] = call[k]
        /\ \A b \in Callbacks : b # cb => call'[l][b] = call[l][b]
        /\ call'[l][cb] = "idle"
    <3>1. call' = [call EXCEPT ![l][cb] = "idle"]
      BY <1>v DEF ClearFails, Returned, Ready, Fault
    <3> QED
      BY <1>4, <3>1
  <2>o. /\ overlay' \in [Launches -> Overlays]
        /\ \A k \in Launches \ {l} : overlay'[k] = overlay[k]
        /\ overlay'[l].mode = "global" /\ overlay'[l].set = {}
        /\ overlay'[l].evidence # None =>
              overlay'[l].evidence \in Launches /\ proc[overlay'[l].evidence].pc = "gone"
    BY <2>e, SetGlobalEffect
  <2>1. TypeOK'
    <3>1. /\ ns' \in [Launches -> Namespaces]
           /\ overlay' \in [Launches -> Overlays]
           /\ call' \in [Launches -> [Callbacks -> {"idle", "writing", "inside"}]]
      BY <2>n, <2>o, <2>k
    <3>2. Shapes'
      BY <1>v, <1>11, <2>g, <2>n, <2>o, <2>e, <2>f DEF Shapes
    <3>4. owed' \in SUBSET (Launches \X Marks)
      BY <1>v, <2>e, <2>f, <1>5, MarkTypes
      DEF ClearFails, Returned, Ready, Fault
    <3>5. faults' \in 0..MaxFaults
      BY <1>v, LaunchAssumption DEF ClearFails, Fault, TypeOK
    <3> QED
      BY <2>g, <3>1, <3>2, <3>4, <3>5 DEF TypeOK
  <2>2. OwnNamespace'
    BY <1>v, <1>9, NoLaunch, <2>g, <2>n, <2>e, <2>f DEF OwnNamespace, Alive
  <2>3. Cleaning'
    <3>1. SUFFICES ASSUME NEW k \in Launches, Cleans(k)'
                  PROVE  CleansSafely(k)'
      BY DEF Cleaning
    <3>2. proc'[k] = proc[k] /\ Cleans(k)
      BY <3>1, <2>g DEF Cleans
    <3>3. CleansSafely(k) /\ proc[k].cleaning # l
      BY <3>2, <2>g DEF Cleaning, CleansSafely
    <3> QED
      BY <1>v, <2>g, <3>2, <3>3, <2>n, NoLaunch DEF CleansSafely
  <2>4. Incidents'
    <3>1. \A k \in Launches : k # l => Offers(k)'
      BY <1>v, <1>7, <2>g, <2>o, NoLaunch, <2>n DEF Incidents, Offers
    <3>2. Offers(l)'
      BY <2>o DEF Offers
    <3>3. \A k \in Launches :
             /\ overlay'[k].evidence # None => proc'[overlay'[k].evidence].pc = "gone"
             /\ proc'[k].pc \in {"unborn", "closing", "dropDir", "gone"} => overlay'[k].set = {}
      BY <1>v, <1>7, <2>g, <2>o, <2>n DEF Incidents
    <3> QED
      BY <3>1, <3>2, <3>3 DEF Incidents
  <2>5. Calls'
    BY <1>v, <2>g, <2>n, <2>k, <2>e, <2>f, MarkTypes DEF Calls
  <2>6. EvidenceSurvives'
    BY <1>v, <1>8, <2>g, <2>n, <2>e, <2>f, <1>11
    DEF EvidenceSurvives, Calls, OwnNamespace, Shapes
  <2>7. Owing'
    BY <1>v, <1>6, <1>8, <2>g, <2>o, <2>e, <2>f DEF Owing
  <2> QED
    BY <2>1, <2>2, <2>3, <2>4, <2>5, <2>6, <2>7 DEF GuardInv
<1>w. ASSUME NEW l \in Launches, NEW cb \in Callbacks, Panic(l, cb)
      PROVE  GuardInv'
  <2>g. /\ call[l][cb] = "inside" /\ owed' = owed \cup {<<l, MarkOf(cb)>>}
        /\ UNCHANGED <<ns, proc, overlay, faults, calls>>
    BY <1>w DEF Panic
  <2>k. /\ call' \in [Launches -> [Callbacks -> {"idle", "writing", "inside"}]]
        /\ \A k \in Launches : k # l => call'[k] = call[k]
        /\ \A b \in Callbacks : b # cb => call'[l][b] = call[l][b]
        /\ call'[l][cb] = "idle"
    <3>1. call' = [call EXCEPT ![l][cb] = "idle"]
      BY <1>w DEF Panic
    <3> QED
      BY <1>4, <3>1
  <2>r. /\ proc[l].pc \in {"scan", "cleanOwner", "cleanDir", "run"}
        /\ MarkOf(cb) \in ns[l].marks
    BY <2>g, <1>w DEF Calls
  <2>1. TypeOK'
    <3>1. call' \in [Launches -> [Callbacks -> {"idle", "writing", "inside"}]]
      BY <2>k
    <3>4. owed' \in SUBSET (Launches \X Marks)
      BY <1>w, <1>5, MarkTypes DEF Panic
    <3>2. Shapes'
      BY <2>g DEF TypeOK, Shapes
    <3> QED
      BY <2>g, <3>1, <3>4, <3>2 DEF TypeOK
  <2>2. OwnNamespace'
    BY <1>w, <1>9, NoLaunch, <2>g, <2>r DEF OwnNamespace, Alive
  <2>3. Cleaning'
    <3>1. SUFFICES ASSUME NEW k \in Launches, Cleans(k)'
                  PROVE  CleansSafely(k)'
      BY DEF Cleaning
    <3>2. proc'[k] = proc[k] /\ Cleans(k)
      BY <3>1, <2>g DEF Cleans
    <3>3. CleansSafely(k) /\ proc[k].cleaning # l
      BY <3>2, <2>g, <2>r DEF Cleaning, CleansSafely
    <3> QED
      BY <1>w, <2>g, <3>2, <3>3, <2>r, NoLaunch DEF CleansSafely
  <2>4. Incidents'
    BY <1>w, <1>7, <2>g, <2>r DEF Incidents, Offers
  <2>5. Calls'
    BY <1>w, <2>g, <2>k, <2>r, MarkTypes DEF Calls
  <2>6. EvidenceSurvives'
    BY <1>w, <1>8, <2>g, <2>r
    DEF EvidenceSurvives, OwnNamespace, TypeOK, Shapes
  <2>7. Owing'
    BY <1>w, <1>6, <1>8, <2>g, <2>r DEF Owing
  <2> QED
    BY <2>1, <2>2, <2>3, <2>4, <2>5, <2>6, <2>7 DEF GuardInv
<1>x. ASSUME NEW l \in Launches, NEW cb \in Callbacks, Reject(l, cb)
      PROVE  GuardInv'
  <2>g. /\ proc[l].pc = "run" /\ call[l][cb] = "inside"
        /\ owed' = owed \cup {<<l, [cb |-> cb, op |-> "rejected"]>>}
        /\ UNCHANGED <<proc, overlay, faults, calls>>
    BY <1>x DEF Reject, Returned, Ready
  <2>n. /\ ns' \in [Launches -> Namespaces]
        /\ \A k \in Launches : k # l => ns'[k] = ns[k]
        /\ (ns'[l].dir <=> ns[l].dir) /\ (ns'[l].owner <=> ns[l].owner)
        /\ ns'[l].holder = ns[l].holder
        /\ ns'[l].marks = (ns[l].marks \ {MarkOf(cb)}) \cup {[cb |-> cb, op |-> "rejected"]}
        /\ (ns'[l].torn <=> ns[l].torn)
    <3>1. ns' = [ns EXCEPT ![l].marks = (@ \ {MarkOf(cb)}) \cup {[cb |-> cb, op |-> "rejected"]}]
      BY <1>x DEF Reject, Returned, Ready
    <3>2. ns' \in [Launches -> Namespaces]
      BY <1>1, <3>1, MarkTypes DEF Namespaces
    <3> QED
      BY <1>1, <3>1, MarkTypes DEF Namespaces
  <2>k. /\ call' \in [Launches -> [Callbacks -> {"idle", "writing", "inside"}]]
        /\ \A k \in Launches : k # l => call'[k] = call[k]
        /\ \A b \in Callbacks : b # cb => call'[l][b] = call[l][b]
        /\ call'[l][cb] = "idle"
    <3>1. call' = [call EXCEPT ![l][cb] = "idle"]
      BY <1>x DEF Reject, Returned, Ready
    <3> QED
      BY <1>4, <3>1
  <2>1. TypeOK'
    <3>1. ns' \in [Launches -> Namespaces]
           /\ call' \in [Launches -> [Callbacks -> {"idle", "writing", "inside"}]]
      BY <2>n, <2>k
    <3>2. Shapes'
      BY <1>x, <1>11, <2>g, <2>n DEF Shapes
    <3>4. owed' \in SUBSET (Launches \X Marks)
      BY <1>x, <1>5, MarkTypes DEF Reject, Returned, Ready
    <3> QED
      BY <2>g, <3>1, <3>2, <3>4 DEF TypeOK
  <2>2. OwnNamespace'
    BY <1>x, <1>9, NoLaunch, <2>g, <2>n DEF OwnNamespace, Alive
  <2>3. Cleaning'
    <3>1. SUFFICES ASSUME NEW k \in Launches, Cleans(k)'
                  PROVE  CleansSafely(k)'
      BY DEF Cleaning
    <3>2. proc'[k] = proc[k] /\ Cleans(k)
      BY <3>1, <2>g DEF Cleans
    <3>3. CleansSafely(k) /\ proc[k].cleaning # l
      BY <3>2, <2>g DEF Cleaning, CleansSafely
    <3> QED
      BY <1>x, <2>g, <3>2, <3>3, <2>n, NoLaunch DEF CleansSafely
  <2>4. Incidents'
    BY <1>x, <1>7, <2>g, <2>n DEF Incidents, Offers
  <2>5. Calls'
    BY <1>x, <2>g, <2>n, <2>k, MarkTypes DEF Calls
  <2>6. EvidenceSurvives'
    BY <1>x, <1>8, <2>g, <2>n
    DEF EvidenceSurvives, Calls, OwnNamespace, TypeOK, Shapes
  <2>7. Owing'
    BY <1>x, <1>6, <1>8, <2>g DEF Owing
  <2> QED
    BY <2>1, <2>2, <2>3, <2>4, <2>5, <2>6, <2>7 DEF GuardInv
<1>y. ASSUME NEW l \in Launches, NEW cb \in Callbacks, RejectFails(l, cb)
      PROVE  GuardInv'
  <2>g. /\ proc[l].pc = "run" /\ call[l][cb] = "inside"
        /\ UNCHANGED <<proc, owed, calls>>
    BY <1>y DEF RejectFails, Returned, Ready, Fault
  <2>n. /\ ns' \in [Launches -> Namespaces]
        /\ \A k \in Launches :
              /\ (ns'[k].dir <=> ns[k].dir) /\ (ns'[k].owner <=> ns[k].owner)
              /\ ns'[k].marks = IF k = l THEN ns[l].marks \ {MarkOf(cb)} ELSE ns[k].marks
              /\ (ns'[k].torn <=> k = l \/ ns[k].torn)
              /\ ns'[k].holder =
                    IF k # l /\ ns[k].holder = l THEN None ELSE ns[k].holder
    <3> DEFINE space == [ns EXCEPT ![l].marks = @ \ {MarkOf(cb)}, ![l].torn = TRUE]
    <3>1. space \in [Launches -> Namespaces]
      BY <1>1 DEF Namespaces
    <3>2. /\ \A k \in Launches : k # l => space[k] = ns[k]
          /\ (space[l].dir <=> ns[l].dir) /\ (space[l].owner <=> ns[l].owner)
          /\ space[l].holder = ns[l].holder
          /\ space[l].marks = ns[l].marks \ {MarkOf(cb)} /\ space[l].torn
      BY <1>1 DEF Namespaces
    <3>3. ns' = Released(space, l)
      BY <1>y DEF RejectFails, SetGlobal
    <3> HIDE DEF space
    <3>4. \A k \in Launches :
             /\ (space[k].dir <=> ns[k].dir) /\ (space[k].owner <=> ns[k].owner)
             /\ space[k].holder = ns[k].holder
             /\ (space[k].torn <=> k = l \/ ns[k].torn)
             /\ space[k].marks = IF k = l THEN ns[l].marks \ {MarkOf(cb)} ELSE ns[k].marks
      BY <3>2
    <3>5. /\ ns' \in [Launches -> Namespaces]
          /\ \A k \in Launches :
                /\ (ns'[k].dir <=> space[k].dir) /\ (ns'[k].owner <=> space[k].owner)
                /\ (ns'[k].torn <=> space[k].torn) /\ ns'[k].marks = space[k].marks
                /\ ns'[k].holder =
                      IF k # l /\ space[k].holder = l THEN None ELSE space[k].holder
      BY <3>1, <3>3, ReleasedFields
    <3> QED
      BY <3>4, <3>5
  <2>k. /\ call' \in [Launches -> [Callbacks -> {"idle", "writing", "inside"}]]
        /\ \A k \in Launches : k # l => call'[k] = call[k]
        /\ \A b \in Callbacks : b # cb => call'[l][b] = call[l][b]
        /\ call'[l][cb] = "idle"
    <3>1. call' = [call EXCEPT ![l][cb] = "idle"]
      BY <1>y DEF RejectFails, Returned, Ready, Fault
    <3> QED
      BY <1>4, <3>1
  <2>o. /\ overlay' \in [Launches -> Overlays]
        /\ \A k \in Launches \ {l} : overlay'[k] = overlay[k]
        /\ overlay'[l].mode = "global" /\ overlay'[l].set = {}
        /\ overlay'[l].evidence # None =>
              overlay'[l].evidence \in Launches /\ proc[overlay'[l].evidence].pc = "gone"
    BY <1>y, SetGlobalEffect DEF RejectFails
  <2>1. TypeOK'
    <3>1. /\ ns' \in [Launches -> Namespaces]
           /\ overlay' \in [Launches -> Overlays]
           /\ call' \in [Launches -> [Callbacks -> {"idle", "writing", "inside"}]]
      BY <2>n, <2>o, <2>k
    <3>2. Shapes'
      BY <1>y, <1>11, <2>g, <2>n, <2>o DEF Shapes
    <3>5. faults' \in 0..MaxFaults
      BY <1>y, LaunchAssumption DEF RejectFails, Fault, TypeOK
    <3> QED
      BY <2>g, <3>1, <3>2, <3>5 DEF TypeOK
  <2>2. OwnNamespace'
    BY <1>y, <1>9, NoLaunch, <2>g, <2>n DEF OwnNamespace, Alive
  <2>3. Cleaning'
    <3>1. SUFFICES ASSUME NEW k \in Launches, Cleans(k)'
                  PROVE  CleansSafely(k)'
      BY DEF Cleaning
    <3>2. proc'[k] = proc[k] /\ Cleans(k)
      BY <3>1, <2>g DEF Cleans
    <3>3. CleansSafely(k) /\ proc[k].cleaning # l
      BY <3>2, <2>g DEF Cleaning, CleansSafely
    <3> QED
      BY <1>y, <2>g, <3>2, <3>3, <2>n, NoLaunch DEF CleansSafely
  <2>4. Incidents'
    <3>1. \A k \in Launches : k # l => Offers(k)'
      BY <1>y, <1>7, <2>g, <2>o, NoLaunch, <2>n DEF Incidents, Offers
    <3>2. Offers(l)'
      BY <2>o DEF Offers
    <3>3. \A k \in Launches :
             /\ overlay'[k].evidence # None => proc'[overlay'[k].evidence].pc = "gone"
             /\ proc'[k].pc \in {"unborn", "closing", "dropDir", "gone"} => overlay'[k].set = {}
      BY <1>y, <1>7, <2>g, <2>o, <2>n DEF Incidents
    <3> QED
      BY <3>1, <3>2, <3>3 DEF Incidents
  <2>5. Calls'
    BY <1>y, <2>g, <2>n, <2>k, MarkTypes DEF Calls
  <2>6. EvidenceSurvives'
    BY <1>y, <1>8, <2>g, <2>n DEF EvidenceSurvives, Calls
  <2>7. Owing'
    BY <1>y, <1>6, <1>8, <2>g, <2>o DEF Owing
  <2> QED
    BY <2>1, <2>2, <2>3, <2>4, <2>5, <2>6, <2>7 DEF GuardInv
<1>z. ASSUME NEW l \in Launches, NEW i \in Launches \X Marks, Confirm(l, i)
      PROVE  GuardInv'
  <2>g. /\ proc[l].pc = "run" /\ overlay[l].mode = "incidents" /\ i \in overlay[l].set
        /\ owed' = owed \ {i} /\ ns' = WithoutIncident(l, i)
        /\ UNCHANGED <<proc, call, faults, calls>>
    BY <1>z DEF Confirm, Ready
  <2>i. /\ i[1] \in Launches /\ i[2] \in Marks /\ i = <<i[1], i[2]>>
        /\ ns[i[1]].holder = l /\ proc[i[1]].pc = "gone" /\ i[1] # l
    BY <2>g DEF Incidents, Offers
  <2>w. /\ WithoutIncident(l, i) \in [Launches -> Namespaces]
        /\ \A k \in Launches :
              /\ (WithoutIncident(l, i)[k].dir <=> ns[k].dir)
              /\ (WithoutIncident(l, i)[k].owner <=> ns[k].owner)
              /\ k # i[1] => WithoutIncident(l, i)[k].marks = ns[k].marks
              /\ \/ WithoutIncident(l, i)[k].holder = ns[k].holder
                 \/ k = i[1] /\ WithoutIncident(l, i)[k].holder = None
        /\ WithoutIncident(l, i)[i[1]].marks = ns[i[1]].marks \ {i[2]}
        /\ \A j \in overlay[l].set \ {i} : j[1] = i[1] =>
              WithoutIncident(l, i)[i[1]].holder = ns[i[1]].holder
    BY <1>1, WithoutIncidentFields
  <2>n. /\ ns' \in [Launches -> Namespaces]
        /\ \A k \in Launches :
              /\ (ns'[k].dir <=> ns[k].dir) /\ (ns'[k].owner <=> ns[k].owner)
              /\ \/ ns'[k].holder = ns[k].holder
                 \/ k = i[1] /\ ns'[k].holder = None
        /\ \A j \in overlay[l].set \ {i} : j[1] = i[1] => ns'[j[1]].holder = ns[j[1]].holder
    BY <2>w, <2>g
  <2>u. /\ \A k \in Launches : k # i[1] => ns'[k].marks = ns[k].marks
        /\ ns'[i[1]].marks = ns[i[1]].marks \ {i[2]}
    BY <2>w, <2>g
  <2>o. /\ overlay' \in [Launches -> Overlays]
        /\ \A k \in Launches \ {l} : overlay'[k] = overlay[k]
        /\ overlay'[l].set = overlay[l].set \ {i}
        /\ overlay'[l].evidence = overlay[l].evidence /\ overlay'[l].mode = overlay[l].mode
    BY <1>z, <1>3 DEF Confirm, Overlays
  <2>1. TypeOK'
    <3>1. Shapes'
      BY <1>11, <2>g, <2>n, <2>o, NoLaunch DEF Shapes
    <3>2. owed' \in SUBSET (Launches \X Marks)
      BY <1>5, <2>g
    <3> QED
      BY <2>g, <2>n, <2>o, <3>1, <3>2 DEF TypeOK
  <2>2. OwnNamespace'
    BY <1>9, NoLaunch, <2>g, <2>n, <2>u, <2>i DEF OwnNamespace, Alive
  <2>3. Cleaning'
    <3>1. SUFFICES ASSUME NEW k \in Launches, Cleans(k)'
                  PROVE  CleansSafely(k)'
      BY DEF Cleaning
    <3>2. proc'[k] = proc[k] /\ Cleans(k) /\ k # l
      BY <3>1, <2>g DEF Cleans
    <3>3. CleansSafely(k)
      BY <3>2 DEF Cleaning
    <3>4. ns'[proc[k].cleaning].marks = {} /\ (proc[k].pc = "cleanOwner" => proc[k].cleaning # i[1])
      BY <3>2, <3>3, <2>u, <2>i DEF CleansSafely
    <3> QED
      BY <2>g, <2>n, <2>i, <3>2, <3>3, <3>4, NoLaunch DEF CleansSafely
  <2>4. Incidents'
    <3>1. \A k \in Launches : k # l => Offers(k)'
      <4>1. \A k \in Launches : k # l => \A j \in overlay[k].set : j[1] # i[1]
        BY <2>i DEF Incidents, Offers
      <4> QED
        BY <1>7, <2>g, <2>o, <2>n, <2>u, <4>1 DEF Incidents, Offers
    <3>2. ASSUME NEW j \in overlay'[l].set
          PROVE  ns'[j[1]].holder = l /\ j[2] \in ns'[j[1]].marks /\ proc'[j[1]].pc = "gone"
      <4>1. j \in overlay[l].set \ {i}
        BY <3>2, <2>o
      <4>2. j[1] \in Launches /\ ~(j[1] = i[1] /\ j[2] = i[2])
        BY <1>7, <2>i, <4>1
      <4>3. ns[j[1]].holder = l /\ j[2] \in ns[j[1]].marks /\ proc[j[1]].pc = "gone"
        BY <4>1 DEF Incidents, Offers
      <4> QED
        BY <2>g, <2>n, <2>u, <4>1, <4>2, <4>3
    <3>3. \A k \in Launches :
             /\ overlay'[k].evidence # None => proc'[overlay'[k].evidence].pc = "gone"
             /\ proc'[k].pc \in {"unborn", "closing", "dropDir", "gone"} => overlay'[k].set = {}
      BY <1>7, <2>g, <2>o DEF Incidents
    <3> QED
      BY <3>1, <3>2, <3>3 DEF Incidents, Offers
  <2>5. Calls'
    <3>1. \A k \in Launches : proc[k].pc # "gone" => ns'[k].marks = ns[k].marks
      BY <2>u, <2>i
    <3> QED
      BY <2>g, <3>1 DEF Calls
  <2>6. EvidenceSurvives'
    <3>1. SUFFICES ASSUME NEW j \in owed, j # i
                   PROVE  ns'[j[1]].dir /\ j[2] \in ns'[j[1]].marks
      BY <2>g DEF EvidenceSurvives
    <3>2. j[1] \in Launches /\ ~(j[1] = i[1] /\ j[2] = i[2])
      BY <1>8, <2>i, <3>1
    <3> QED
      BY <2>n, <2>u, <3>2 DEF EvidenceSurvives
  <2>7. Owing'
    BY <1>6, <1>8, <2>g, <2>o DEF Owing
  <2> QED
    BY <2>1, <2>2, <2>3, <2>4, <2>5, <2>6, <2>7 DEF GuardInv
<1>za. ASSUME NEW l \in Launches, NEW i \in Launches \X Marks, ConfirmFails(l, i)
      PROVE  GuardInv'
  <2>g. /\ proc[l].pc = "run" /\ overlay[l].mode = "incidents" /\ i \in overlay[l].set
        /\ owed' = owed \ {i} /\ SetGlobal(l, None, WithoutIncident(l, i))
        /\ UNCHANGED <<proc, call, calls>>
    BY <1>za DEF ConfirmFails, Ready, Fault
  <2>i. /\ i[1] \in Launches /\ i[2] \in Marks /\ i = <<i[1], i[2]>>
        /\ ns[i[1]].holder = l /\ proc[i[1]].pc = "gone" /\ i[1] # l
    BY <2>g DEF Incidents, Offers
  <2>w. /\ WithoutIncident(l, i) \in [Launches -> Namespaces]
        /\ \A k \in Launches :
              /\ (WithoutIncident(l, i)[k].dir <=> ns[k].dir)
              /\ (WithoutIncident(l, i)[k].owner <=> ns[k].owner)
              /\ k # i[1] => WithoutIncident(l, i)[k].marks = ns[k].marks
              /\ \/ WithoutIncident(l, i)[k].holder = ns[k].holder
                 \/ k = i[1] /\ WithoutIncident(l, i)[k].holder = None
        /\ WithoutIncident(l, i)[i[1]].marks = ns[i[1]].marks \ {i[2]}
        /\ \A j \in overlay[l].set \ {i} : j[1] = i[1] =>
              WithoutIncident(l, i)[i[1]].holder = ns[i[1]].holder
    BY <1>1, WithoutIncidentFields
  <2>o. /\ ns' = Released(WithoutIncident(l, i), l)
        /\ overlay' \in [Launches -> Overlays]
        /\ \A k \in Launches \ {l} : overlay'[k] = overlay[k]
        /\ overlay'[l].mode = "global" /\ overlay'[l].set = {}
        /\ overlay'[l].evidence # None =>
              overlay'[l].evidence \in Launches /\ proc[overlay'[l].evidence].pc = "gone"
    BY <2>g, SetGlobalEffect
  <2>n. /\ ns' \in [Launches -> Namespaces]
        /\ \A k \in Launches :
              /\ (ns'[k].dir <=> ns[k].dir) /\ (ns'[k].owner <=> ns[k].owner)
              /\ \/ ns'[k].holder = ns[k].holder
                 \/ k # l /\ ns[k].holder = l /\ ns'[k].holder = None
        /\ \A k \in Launches : k # i[1] => ns'[k].marks = ns[k].marks
        /\ ns'[i[1]].marks = ns[i[1]].marks \ {i[2]}
    <3> DEFINE space == WithoutIncident(l, i)
    <3>1. /\ space \in [Launches -> Namespaces]
          /\ \A k \in Launches :
                /\ (space[k].dir <=> ns[k].dir) /\ (space[k].owner <=> ns[k].owner)
                /\ k # i[1] => space[k].marks = ns[k].marks
                /\ space[k].holder = ns[k].holder \/ (k = i[1] /\ space[k].holder = None)
          /\ space[i[1]].marks = ns[i[1]].marks \ {i[2]}
      BY <2>w
    <3>2. ns' = Released(space, l)
      BY <2>o
    <3> HIDE DEF space
    <3>3. /\ ns' \in [Launches -> Namespaces]
          /\ \A k \in Launches :
                /\ (ns'[k].dir <=> space[k].dir) /\ (ns'[k].owner <=> space[k].owner)
                /\ ns'[k].marks = space[k].marks
                /\ ns'[k].holder =
                      IF k # l /\ space[k].holder = l THEN None ELSE space[k].holder
      BY <3>1, <3>2, ReleasedFields
    <3>4. \A k \in Launches :
             /\ (ns'[k].dir <=> ns[k].dir) /\ (ns'[k].owner <=> ns[k].owner)
             /\ \/ ns'[k].holder = ns[k].holder
                \/ k # l /\ ns[k].holder = l /\ ns'[k].holder = None
      BY <2>i, <3>1, <3>3
    <3> QED
      BY <2>i, <3>1, <3>3, <3>4
  <2>s. \A k \in Launches :
           /\ (ns'[k].dir <=> ns[k].dir) /\ (ns'[k].owner <=> ns[k].owner)
           /\ \/ ns'[k].holder = ns[k].holder
              \/ k # l /\ ns[k].holder = l /\ ns'[k].holder = None
    BY <2>n
  <2>u. /\ \A k \in Launches : k # i[1] => ns'[k].marks = ns[k].marks
        /\ ns'[i[1]].marks = ns[i[1]].marks \ {i[2]}
    BY <2>n
  <2>1. TypeOK'
    <3>1. Shapes'
      BY <1>11, <2>g, <2>s, <2>o, NoLaunch DEF Shapes
    <3>2. owed' \in SUBSET (Launches \X Marks)
      BY <1>5, <2>g
    <3>3. faults' \in 0..MaxFaults
      BY <1>za, LaunchAssumption DEF ConfirmFails, Fault, TypeOK
    <3> QED
      BY <2>g, <2>n, <2>o, <3>1, <3>2, <3>3 DEF TypeOK
  <2>2. OwnNamespace'
    BY <1>9, NoLaunch, <2>g, <2>s, <2>u, <2>i DEF OwnNamespace, Alive
  <2>3. Cleaning'
    <3>1. SUFFICES ASSUME NEW k \in Launches, Cleans(k)'
                  PROVE  CleansSafely(k)'
      BY DEF Cleaning
    <3>2. proc'[k] = proc[k] /\ Cleans(k) /\ k # l
      BY <3>1, <2>g DEF Cleans
    <3>3. CleansSafely(k)
      BY <3>2 DEF Cleaning
    <3>4. ns'[proc[k].cleaning].marks = {} /\ (proc[k].pc = "cleanOwner" => proc[k].cleaning # i[1])
      BY <3>2, <3>3, <2>u, <2>i DEF CleansSafely
    <3> QED
      BY <2>g, <2>s, <2>i, <3>2, <3>3, <3>4, NoLaunch DEF CleansSafely
  <2>4. Incidents'
    <3>1. \A k \in Launches : k # l => Offers(k)'
      <4>1. \A k \in Launches : k # l => \A j \in overlay[k].set : j[1] # i[1]
        BY <2>i DEF Incidents, Offers
      <4> QED
        BY <1>7, <2>g, <2>o, <2>s, <2>u, <4>1 DEF Incidents, Offers
    <3>2. Offers(l)'
      BY <2>o DEF Offers
    <3>3. \A k \in Launches :
             /\ overlay'[k].evidence # None => proc'[overlay'[k].evidence].pc = "gone"
             /\ proc'[k].pc \in {"unborn", "closing", "dropDir", "gone"} => overlay'[k].set = {}
      BY <1>7, <2>g, <2>o DEF Incidents
    <3> QED
      BY <3>1, <3>2, <3>3 DEF Incidents
  <2>5. Calls'
    <3>1. \A k \in Launches : proc[k].pc # "gone" => ns'[k].marks = ns[k].marks
      BY <2>u, <2>i
    <3> QED
      BY <2>g, <3>1 DEF Calls
  <2>6. EvidenceSurvives'
    <3>1. SUFFICES ASSUME NEW j \in owed, j # i
                   PROVE  ns'[j[1]].dir /\ j[2] \in ns'[j[1]].marks
      BY <2>g DEF EvidenceSurvives
    <3>2. j[1] \in Launches /\ ~(j[1] = i[1] /\ j[2] = i[2])
      BY <1>8, <2>i, <3>1
    <3> QED
      BY <2>s, <2>u, <3>2 DEF EvidenceSurvives
  <2>7. Owing'
    BY <1>6, <1>8, <2>g, <2>o DEF Owing
  <2> QED
    BY <2>1, <2>2, <2>3, <2>4, <2>5, <2>6, <2>7 DEF GuardInv
<1> QED
  BY <1>0, <1>a, <1>b, <1>c, <1>d, <1>e, <1>f, <1>g, <1>h, <1>i, <1>j, <1>k,
     <1>l, <1>m, <1>n, <1>o, <1>p, <1>q, <1>r, <1>s, <1>t, <1>u, <1>v, <1>w,
     <1>x, <1>y, <1>z, <1>za
  DEF Next

\* No process has started: everything is unborn and empty.
LEMMA GuardInvInit == Init => GuardInv
<1> SUFFICES ASSUME Init
             PROVE  GuardInv
  OBVIOUS
<1>1. /\ NoNamespace \in Namespaces /\ ~NoNamespace.dir /\ ~NoNamespace.owner
      /\ NoNamespace.holder = None /\ NoNamespace.marks = {}
  BY DEF NoNamespace, Namespaces
<1>2. /\ Unborn \in Processes /\ Unborn.pc = "unborn" /\ Unborn.before = {}
      /\ Unborn.first
  BY DEF Unborn, Processes
<1>3. /\ Clean \in Overlays /\ Clean.mode = "clean" /\ Clean.set = {}
      /\ Clean.evidence = None
  BY DEF Clean, Overlays
<1>4. /\ ns \in [Launches -> Namespaces] /\ \A l \in Launches : ns[l] = NoNamespace
      /\ proc \in [Launches -> Processes] /\ \A l \in Launches : proc[l] = Unborn
      /\ overlay \in [Launches -> Overlays] /\ \A l \in Launches : overlay[l] = Clean
  BY <1>1, <1>2, <1>3 DEF Init
<1>5. /\ call \in [Launches -> [Callbacks -> {"idle", "writing", "inside"}]]
      /\ \A l \in Launches, cb \in Callbacks : call[l][cb] = "idle"
      /\ owed = {}
  BY DEF Init
<1>6. faults \in 0..MaxFaults /\ calls \in 0..MaxCalls
  BY LaunchAssumption DEF Init
<1>7. TypeOK
  BY <1>1, <1>3, <1>4, <1>5, <1>6 DEF TypeOK, Shapes
<1>8. OwnNamespace /\ Cleaning
  BY <1>1, <1>2, <1>4, NoLaunch DEF OwnNamespace, Cleaning, Cleans
<1>9. Incidents /\ Calls
  BY <1>2, <1>3, <1>4, <1>5 DEF Incidents, Offers, Calls
<1>10. EvidenceSurvives /\ Owing
  BY <1>2, <1>3, <1>4, <1>5 DEF EvidenceSurvives, Owing
<1> QED
  BY <1>7, <1>8, <1>9, <1>10 DEF GuardInv

\* GuardInv holds in every reachable state.
LEMMA GuardInvAlways == Spec => []GuardInv
  BY GuardInvInit, GuardInvNext, PTL DEF Spec

-----------------------------------------------------------------------------
(* The properties                                                            *)

\* Namespaces, processes, overlays and calls keep their types and shapes.
THEOREM GuardTypeCorrect == Spec => []TypeOK
<1>1. GuardInv => TypeOK
  BY DEF GuardInv
<1> QED
  BY <1>1, GuardInvAlways, PTL

\* Plugin code runs only while its marker is on disk, whatever scans,
\* confirmations, moves and cleanups other processes do meanwhile (begin,
\* namespace_owner_state): a running process holds its own owner file.
THEOREM CallsAreMarked == Spec => []MarkedWhileInside
<1>1. GuardInv => MarkedWhileInside
  <2> SUFFICES ASSUME GuardInv, NEW l \in Launches, NEW cb \in Callbacks,
                      call[l][cb] = "inside"
               PROVE  ns[l].dir /\ ns[l].owner /\ MarkOf(cb) \in ns[l].marks
    BY DEF MarkedWhileInside
  <2>1. /\ proc[l].pc \in {"scan", "cleanOwner", "cleanDir", "run"}
        /\ MarkOf(cb) \in ns[l].marks
    BY DEF GuardInv, Calls
  <2>2. ns[l].owner
    BY <2>1 DEF GuardInv, OwnNamespace
  <2>3. Shapes
    BY DEF GuardInv, TypeOK
  <2> QED
    BY <2>1, <2>2, <2>3 DEF Shapes
<1> QED
  BY <1>1, GuardInvAlways, PTL

\* The evidence of an interrupted call stays on disk until somebody confirms
\* that call or moves its namespace aside (cleanup_dead_namespace, Drop).
THEOREM EvidenceIsKept == Spec => []EvidenceSurvives
<1>1. GuardInv => EvidenceSurvives
  BY DEF GuardInv
<1> QED
  BY <1>1, GuardInvAlways, PTL

\* Two users never confirm the same marker: the process that offers an
\* incident holds the owner file of its namespace, and one process holds it.
THEOREM IncidentsAreExclusive == Spec => []IncidentHasOneOwner
<1>1. GuardInv => IncidentHasOneOwner
  <2> SUFFICES ASSUME GuardInv, NEW l \in Launches, NEW k \in Launches, l # k,
                      NEW i \in overlay[l].set \cap overlay[k].set
               PROVE  FALSE
    BY DEF IncidentHasOneOwner
  <2> QED
    BY DEF GuardInv, Incidents, Offers
<1> QED
  BY <1>1, GuardInvAlways, PTL

\* Only Begin puts a call of a process under way.
LEMMA OnlyBeginBegins ==
    ASSUME TypeOK, Calls, [Next]_vars, NEW l \in Launches, NEW cb \in Callbacks,
           Begins(l, cb)
    PROVE  Begin(l, cb)
<1>1. call \in [Launches -> [Callbacks -> {"idle", "writing", "inside"}]]
  BY DEF TypeOK
<1>2. call'[l][cb] # call[l][cb] /\ call'[l][cb] = "writing"
  BY DEF Begins
<1>3. CASE UNCHANGED vars
  BY <1>2, <1>3 DEF vars
<1>4. ASSUME NEW k \in Launches,
             \/ CreateDir(k) \/ CreateOwner(k) \/ CleanOwner(k) \/ CleanDir(k)
             \/ CleanFails(k) \/ ScanEnd(k) \/ ConfirmGlobal(k) \/ Exit(k)
             \/ DropKeeps(k) \/ DropOwner(k) \/ DropDir(k)
      PROVE  FALSE
  BY <1>2, <1>4
  DEF CreateDir, CreateOwner, CleanOwner, CleanDir, CleanFails, ScanEnd,
      ConfirmGlobal, Exit, DropKeeps, DropOwner, DropDir
<1>5. ASSUME NEW k \in Launches, Crash(k)
      PROVE  FALSE
  <2>1. call' = [call EXCEPT ![k] = [b \in Callbacks |-> "idle"]]
    BY <1>5 DEF Crash
  <2> QED
    BY <1>1, <1>2, <2>1
<1>6. ASSUME NEW k \in Launches, NEW n \in Launches,
             \/ ScanMissing(k, n) \/ ScanUnsafe(k, n) \/ ScanLive(k, n)
             \/ ScanDeadEmpty(k, n) \/ ScanIncidents(k, n)
      PROVE  FALSE
  BY <1>2, <1>6 DEF ScanMissing, ScanUnsafe, ScanLive, ScanDeadEmpty, ScanIncidents
<1>7. ASSUME NEW k \in Launches, NEW b \in Callbacks,
             \/ MarkerWritten(k, b) \/ MarkerWriteFails(k, b) \/ Clear(k, b)
             \/ ClearFails(k, b) \/ Panic(k, b) \/ Reject(k, b) \/ RejectFails(k, b)
      PROVE  FALSE
  <2>1. \/ call' = [call EXCEPT ![k][b] = "inside"]
        \/ call' = [call EXCEPT ![k][b] = "idle"]
    BY <1>7
    DEF MarkerWritten, MarkerWriteFails, Clear, ClearFails, Panic, Reject,
        RejectFails, Returned
  <2> QED
    BY <1>1, <1>2, <2>1
<1>8. ASSUME NEW k \in Launches, NEW i \in Launches \X Marks,
             Confirm(k, i) \/ ConfirmFails(k, i)
      PROVE  FALSE
  BY <1>2, <1>8 DEF Confirm, ConfirmFails
<1>9. ASSUME NEW k \in Launches, NEW b \in Callbacks, Begin(k, b)
      PROVE  Begin(l, cb)
  <2>1. call' = [call EXCEPT ![k][b] = "writing"]
    BY <1>9 DEF Begin
  <2>2. k = l /\ b = cb
    BY <1>1, <1>2, <2>1
  <2> QED
    BY <1>9, <2>2
<1> QED
  BY <1>3, <1>4, <1>5, <1>6, <1>7, <1>8, <1>9 DEF Next

\* A process begins no callback that an earlier process died or panicked in
\* before the scan, unless another live process had that namespace in hand
\* at the time of the scan (scan_until, begin).
THEOREM InterruptedCallsAreDenied == Spec => InterruptedCallDenied
<1> DEFINE Denies ==
       \A l \in Launches, cb \in Callbacks :
          Begins(l, cb) => \A i \in Interrupted(l, cb) : i[1] \in proc[l].skipped
<1>1. GuardInv /\ [Next]_vars => Denies
  <2> SUFFICES ASSUME GuardInv, [Next]_vars, NEW l \in Launches, NEW cb \in Callbacks,
                      Begins(l, cb), NEW i \in Interrupted(l, cb)
               PROVE  i[1] \in proc[l].skipped
    OBVIOUS
  <2>1. proc[l].pc = "run" /\ ~Denied(l, cb)
    BY OnlyBeginBegins DEF GuardInv, Begin, Ready
  <2>2. i \in owed /\ i[2] = MarkOf(cb) /\ i[1] \in proc[l].before
    BY DEF Interrupted
  <2>3. overlay[l].mode # "global" /\ i \notin overlay[l].set
    BY <2>1, <2>2 DEF Denied
  <2> QED
    BY <2>1, <2>2, <2>3 DEF GuardInv, Owing
<1> QED
  BY <1>1, GuardInvAlways, PTL DEF Spec, InterruptedCallDenied
=============================================================================
