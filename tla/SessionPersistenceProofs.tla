---------------------- MODULE SessionPersistenceProofs ----------------------
(* Theorems about SessionPersistence, for every number of processes, every   *)
(* limit on windows and versions, and all files a run may find at first.     *)
EXTENDS SessionPersistence, SequenceFilterProofs, TLAPS

-----------------------------------------------------------------------------
(* Records and their updates                                                 *)

Pcs == {"idle", "acquire", "current", "backup", "quarantine", "open", "fill", "rotate",
        "move", "rmCurrent", "rmBackup", "rmTemp", "done"}

Tasks == {"none", "load", "save"} \cup Scopes

WindowSets == {entries \in Seq(Entry) : OncePerWindow(entries)}

SetFile == [form : {"absent", "bad", "old", "ok"}, set : WindowSets]

TempRecord == [form : {"absent", "bad", "ok"}, set : WindowSets, open : Threads \cup {Nobody}]

ThreadRecord ==
    [pc : Pcs, task : Tasks, ver : 0..MaxVersion, migrating : BOOLEAN, blind : BOOLEAN,
     path : {"current", "backup"}, out : WindowSets, ok : BOOLEAN]

CoordinatorRecord ==
    [up : {"down", "loading", "running", "closing"}, ver : 0..MaxVersion,
     latest : 0..MaxVersion, reset : Scopes \cup {"none"}]

\* TypeOK, with every set of windows one that reading accepts.
Shapes ==
    /\ scenario \in Scenarios
    /\ current \in SetFile /\ backup \in SetFile /\ temp \in TempRecord
    /\ holder \in Procs \cup {Nobody}
    /\ state \in [Procs -> CoordinatorRecord]
    /\ thread \in [Threads -> ThreadRecord]
    /\ want \in [Procs -> 0..MaxVersion]

LEMMA ShapesType == Shapes => TypeOK
<1>1. WindowSets \subseteq Seq(Entry)
  BY DEF WindowSets
<1>2. SetFile \subseteq File
  BY <1>1 DEF SetFile, File
<1>3. TempRecord \subseteq [form : {"absent", "bad", "ok"}, set : Seq(Entry),
                           open : Threads \cup {Nobody}]
  BY <1>1 DEF TempRecord
<1>4. ThreadRecord \subseteq
         [pc : Pcs, task : Tasks, ver : 0..MaxVersion, migrating : BOOLEAN, blind : BOOLEAN,
          path : {"current", "backup"}, out : Seq(Entry), ok : BOOLEAN]
  BY <1>1 DEF ThreadRecord
<1>5. ASSUME Shapes
      PROVE  thread \in [Threads ->
                [pc : Pcs, task : Tasks, ver : 0..MaxVersion, migrating : BOOLEAN,
                 blind : BOOLEAN, path : {"current", "backup"}, out : Seq(Entry), ok : BOOLEAN]]
  <2> HIDE DEF ThreadRecord
  <2>1. thread \in [Threads -> ThreadRecord]
    BY <1>5 DEF Shapes
  <2> QED
    BY <2>1, <1>4
<1> QED
  BY <1>2, <1>3, <1>5 DEF Shapes, TypeOK, CoordinatorRecord, Pcs, Tasks

LEMMA EmptySet == <<>> \in WindowSets
  BY DEF WindowSets, OncePerWindow

LEMMA SingleSet == ASSUME NEW entry \in Entry PROVE <<entry>> \in WindowSets
<1>1. <<entry>> \in Seq(Entry) /\ DOMAIN <<entry>> = {1}
  OBVIOUS
<1> QED
  BY <1>1 DEF WindowSets, OncePerWindow

\* No file, and the temporary file nobody has made.
LEMMA AbsentFiles == Absent \in SetFile /\ NoTemp \in TempRecord
<1>1. <<>> \in WindowSets
  BY EmptySet
<1> QED
  BY <1>1 DEF Absent, NoTemp, SetFile, TempRecord

LEMMA IdleRecord ==
    /\ Idle \in ThreadRecord
    /\ Idle.pc = "idle" /\ Idle.task = "none"
<1>0. 0 \in 0..MaxVersion /\ <<>> \in WindowSets
  BY BoundsAssumption, EmptySet
<1> QED
  BY <1>0 DEF Idle, ThreadRecord, Pcs, Tasks

\* What VersionIn finds in a set that has a window at most once.
LEMMA VersionsIn ==
    ASSUME NEW s \in WindowSets
    PROVE  /\ \A i \in 1..Len(s) : VersionIn(s, s[i].win) = s[i].ver
           /\ \A w : (\A i \in 1..Len(s) : s[i].win # w) => VersionIn(s, w) = 0
           /\ \A w : VersionIn(s, w) \in 0..MaxVersion
<1>1. s \in Seq(Entry) /\ DOMAIN s = 1..Len(s) /\ \A i \in 1..Len(s) : s[i] \in Entry
  BY DEF WindowSets
<1>2. \A i, j \in 1..Len(s) : s[i].win = s[j].win => i = j
  BY <1>1 DEF WindowSets, OncePerWindow
<1>3. ASSUME NEW i \in 1..Len(s) PROVE VersionIn(s, s[i].win) = s[i].ver
  <2> DEFINE k == CHOOSE j \in DOMAIN s : s[j].win = s[i].win
  <2>1. k \in 1..Len(s) /\ s[k].win = s[i].win
    BY <1>1
  <2>2. VersionIn(s, s[i].win) = s[k].ver
    BY <1>1 DEF VersionIn
  <2> HIDE DEF k
  <2>3. k = i
    BY <1>2, <2>1
  <2> QED
    BY <2>2, <2>3
<1>4. ASSUME NEW w, \A i \in 1..Len(s) : s[i].win # w PROVE VersionIn(s, w) = 0
  BY <1>1, <1>4 DEF VersionIn
<1>5. ASSUME NEW w PROVE VersionIn(s, w) \in 0..MaxVersion
  <2>1. CASE \A i \in 1..Len(s) : s[i].win # w
    BY <1>4, <2>1, BoundsAssumption
  <2>2. ASSUME NEW i \in 1..Len(s), s[i].win = w PROVE VersionIn(s, w) \in 0..MaxVersion
    <3>1. s[i].ver \in 0..MaxVersion
      BY <1>1 DEF Entry
    <3> QED
      BY <1>3, <2>2, <3>1
  <2> QED
    BY <2>1, <2>2
<1> QED
  BY <1>3, <1>4, <1>5

\* merge_window_set: the window saved is there at its version, every other one
\* as before, unless a full set has dropped it.
LEMMA MergeKeepsVersions ==
    ASSUME NEW base \in WindowSets, NEW entry \in Entry
    PROVE  /\ Merge(base, entry) \in WindowSets
           /\ VersionIn(Merge(base, entry), entry.win) = entry.ver
           /\ \A w : w # entry.win =>
                 \/ VersionIn(Merge(base, entry), w) = VersionIn(base, w)
                 \/ /\ VersionIn(Merge(base, entry), w) = 0
                    /\ Len(Merge(base, entry)) = MaxWindows
<1> DEFINE S == {e \in Members(base) : e.win # entry.win}
           K == KeptAt(base, S)
           kept == Kept(base, S)
           all == Append(kept, entry)
           n == Len(kept)
<1>0. base \in Seq(Entry) /\ \A i \in 1..Len(base) : base[i] \in Entry
  BY DEF WindowSets
<1>0a. \A i, j \in 1..Len(base) : base[i].win = base[j].win => i = j
  BY <1>0 DEF WindowSets, OncePerWindow
<1> HIDE DEF S
<1>1. /\ kept \in Seq(Entry) /\ n = Cardinality(K)
      /\ \A k \in 1..n : \E i \in K : Rank(K, i) = k /\ kept[k] = base[i]
      /\ \A i \in K : Rank(K, i) \in 1..n /\ kept[Rank(K, i)] = base[i]
  BY <1>0, KeptPositions
<1>2. \A i : i \in K <=> i \in 1..Len(base) /\ base[i].win # entry.win
  <2>1. \A i \in 1..Len(base) : base[i] \in Members(base)
    BY DEF Members
  <2>2. \A i \in 1..Len(base) : base[i] \in S <=> base[i].win # entry.win
    BY <2>1 DEF S
  <2> QED
    BY <2>2 DEF KeptAt
<1> HIDE DEF K, kept
<1>3. \A k \in 1..n : kept[k] \in Entry /\ kept[k].win # entry.win
  BY <1>0, <1>1, <1>2
<1>4. \A k, m \in 1..n : kept[k].win = kept[m].win => k = m
  BY <1>0a, <1>1, <1>2
<1>5. /\ all \in Seq(Entry) /\ n \in Nat /\ Len(all) = n + 1
      /\ \A k \in 1..n : all[k] = kept[k]
      /\ all[n + 1] = entry
  BY <1>1
<1> HIDE DEF all, n
<1>6. \A k \in 1..Len(all) : k \in 1..n \/ k = n + 1
  BY <1>5
<1>7. \A k, m \in 1..Len(all) : all[k].win = all[m].win => k = m
  BY <1>3, <1>4, <1>5, <1>6
<1>8. all \in WindowSets
  <2>1. DOMAIN all = 1..Len(all)
    BY <1>5
  <2> QED
    BY <1>5, <1>7, <2>1 DEF WindowSets, OncePerWindow
<1>9. VersionIn(all, entry.win) = entry.ver
  <2>1. n + 1 \in 1..Len(all)
    BY <1>5
  <2> QED
    BY <1>5, <1>8, <2>1, VersionsIn
<1>10. ASSUME NEW w, w # entry.win PROVE VersionIn(all, w) = VersionIn(base, w)
  <2>1. CASE \A i \in 1..Len(base) : base[i].win # w
    <3>1. \A k \in 1..Len(all) : all[k].win # w
      <4>1. \A k \in 1..n : kept[k].win # w
        BY <1>1, <1>2, <2>1
      <4> QED
        BY <4>1, <1>5, <1>6, <1>10
    <3> QED
      BY <1>8, <2>1, <3>1, VersionsIn
  <2>2. ASSUME NEW i \in 1..Len(base), base[i].win = w
        PROVE  VersionIn(all, w) = VersionIn(base, w)
    <3>1. i \in K
      BY <1>2, <1>10, <2>2
    <3>2. PICK k \in 1..n : kept[k] = base[i]
      BY <1>1, <3>1
    <3>3. k \in 1..Len(all) /\ all[k] = base[i]
      BY <1>5, <3>2
    <3>4. VersionIn(all, w) = base[i].ver
      BY <1>8, <2>2, <3>3, VersionsIn
    <3>5. VersionIn(base, w) = base[i].ver
      BY <2>2, VersionsIn
    <3> QED
      BY <3>4, <3>5
  <2> QED
    BY <2>1, <2>2
<1>11. CASE ~(Len(all) > MaxWindows)
  <2>1. Merge(base, entry) = all
    BY <1>11 DEF Merge, all, kept, S
  <2> QED
    BY <1>8, <1>9, <1>10, <2>1
<1>12. CASE Len(all) > MaxWindows
  <2> DEFINE over == Len(all) - MaxWindows
             cut == SubSeq(all, over + 1, Len(all))
  <2>0. MaxWindows \in Nat /\ MaxWindows >= 1
    BY BoundsAssumption
  <2>1. Merge(base, entry) = cut
    <3>1. over + 1 = Len(all) - MaxWindows + 1
      BY <1>5, <2>0
    <3> QED
      BY <1>12, <3>1 DEF Merge, all, kept, S
  <2>2. /\ over \in Nat /\ over + 1 \in 1..Len(all) /\ Len(all) - over = MaxWindows
        /\ over < Len(all)
    BY <1>5, <1>12, <2>0
  <2>3. /\ Len(cut) = MaxWindows
        /\ \A k \in 1..MaxWindows : k + over \in 1..Len(all) /\ cut[k] = all[k + over]
        /\ DOMAIN cut = 1..Len(cut)
    <3> HIDE DEF over
    <3>1. Len(cut) = Len(all) - over
      BY <1>5, <2>2
    <3>2. \A k \in 1..(Len(all) - over) : cut[k] = all[k + over]
      BY <1>5, <2>2
    <3>3. \A k \in 1..MaxWindows : k + over \in 1..Len(all)
      BY <1>5, <2>0, <2>2
    <3> QED
      BY <1>5, <2>2, <3>1, <3>2, <3>3
  <2>4. cut \in Seq(Entry)
    <3> HIDE DEF over
    <3> QED
      BY <1>5, <2>2
  <2> HIDE DEF cut
  <2>5. cut \in WindowSets
    <3>1. ASSUME NEW k \in 1..MaxWindows, NEW m \in 1..MaxWindows, cut[k].win = cut[m].win
          PROVE  k = m
      <4>1. k + over = m + over
        BY <1>7, <2>3, <3>1
      <4> HIDE DEF over
      <4> QED
        BY <2>0, <2>2, <4>1
    <3> QED
      BY <2>3, <2>4, <3>1 DEF WindowSets, OncePerWindow
  <2>6. VersionIn(cut, entry.win) = entry.ver
    <3>1. MaxWindows + over = n + 1
      <4> HIDE DEF over
      <4> QED
        BY <1>5, <2>0, <2>2
    <3>2. MaxWindows \in 1..Len(cut) /\ cut[MaxWindows] = entry
      BY <1>5, <2>0, <2>3, <3>1
    <3> QED
      BY <2>5, <3>2, VersionsIn
  <2>7. ASSUME NEW w, w # entry.win
        PROVE  VersionIn(cut, w) = VersionIn(base, w) \/ VersionIn(cut, w) = 0
    <3>1. CASE \A k \in 1..Len(cut) : cut[k].win # w
      BY <2>5, <3>1, VersionsIn
    <3>2. ASSUME NEW k \in 1..Len(cut), cut[k].win = w
          PROVE  VersionIn(cut, w) = VersionIn(base, w)
      <4>1. cut[k] = all[k + over] /\ k + over \in 1..Len(all)
        BY <2>3
      <4>2. VersionIn(cut, w) = cut[k].ver
        BY <2>5, <3>2, VersionsIn
      <4>3. VersionIn(all, w) = cut[k].ver
        BY <1>8, <3>2, <4>1, VersionsIn
      <4> QED
        BY <1>10, <2>7, <4>2, <4>3
    <3> QED
      BY <3>1, <3>2
  <2> QED
    BY <2>1, <2>3, <2>5, <2>6, <2>7
<1> QED
  BY <1>11, <1>12

LEMMA MergeEntries ==
    ASSUME NEW base \in WindowSets, NEW entry \in Entry
    PROVE  Merge(base, entry) \in WindowSets
  BY MergeKeepsVersions

-----------------------------------------------------------------------------
(* The inductive invariant                                                   *)

\* A thread in the store that has done more than start to read.
Engages(r) ==
    /\ r.pc \notin {"idle", "acquire", "done"}
    /\ r.task = "load" => r.pc \notin {"current", "backup"}

\* The mutex: the worker in the store holds it; a user interface thread only
\* loads and a worker never does on its own account.
Guarded ==
    \A p \in Procs :
       /\ InStore(p) => holder = p
       /\ thread[<<p, "ui">>].pc # "idle" => thread[<<p, "ui">>].task = "load"
       /\ thread[<<p, "worker">>].task # "load"
       /\ thread[<<p, "worker">>].pc = "idle" => thread[<<p, "worker">>].task = "none"

\* A file set that load returns without touching it.
Sound(cur, bak) == cur.form = "ok" \/ (cur.form = "absent" /\ bak.form = "ok")

Returned(cur, bak) ==
    IF Loadable(cur) THEN cur.set ELSE IF Loadable(bak) THEN bak.set ELSE <<>>

Writes(r) == r.pc \in {"open", "fill", "rotate", "move"}

\* The set thread t is about to write has what the files have, but for what a
\* blind save or a full set drops.
Carries(t, r, entries) ==
    \A q \in Procs :
       \/ r.task = "save" /\ q = t[1]
       \/ VersionIn(r.out, q) >= VersionIn(entries, q)
       \/ VersionIn(r.out, q) = 0 /\ (r.blind \/ Len(r.out) = MaxWindows)

\* What thread t has found, and what it has left, in the files.
Faithful(t, r, cur, bak, tmp) ==
    /\ r.pc = "quarantine" => IF r.path = "current" THEN cur.form = "bad" ELSE bak.form = "bad"
    /\ r.pc \in {"backup", "quarantine"} /\ r.task # "load" => cur.form # "ok"
    /\ Writes(r) /\ r.migrating => ~Sound(cur, bak)
    /\ Writes(r) /\ r.task = "load" => r.migrating
    /\ Writes(r) /\ ~r.migrating /\ r.task = "save" => VersionIn(r.out, t[1]) = r.ver
    /\ Writes(r) /\ ~r.migrating /\ Sound(cur, bak) => Carries(t, r, Returned(cur, bak))
    /\ r.pc \in {"rmCurrent", "rmBackup", "rmTemp"} => r.task # "save"
    /\ r.pc = "fill" => tmp.open = t /\ tmp.set = r.out
    /\ r.pc \in {"rotate", "move"} => tmp.form = "ok" /\ tmp.set = r.out /\ tmp.open = Nobody

FilesKnown ==
    \A t \in Threads : Engages(thread[t]) => Faithful(t, thread[t], current, backup, temp)

Secures(q, wanted, cur, bak) == Sound(cur, bak) /\ VersionIn(Returned(cur, bak), q) >= wanted

\* What a running process wants on disk is what its coordinator or its worker
\* holds, or is no longer asked for.
Tracked ==
    \A p \in Procs :
       LET s == state[p]
           r == thread[<<p, "worker">>] IN
       /\ s.up \in {"down", "loading"} =>
             want[p] = 0 /\ s.latest = 0 /\ r.pc = "idle"
       /\ s.up = "running" /\ s.latest # 0 => want[p] \in {0, s.latest}
       /\ s.up = "running" /\ r.task = "save" => want[p] \in {0, r.ver, s.latest}

Owed(p) ==
    LET s == state[p]
        r == thread[<<p, "worker">>] IN
    \/ want[p] = 0
    \/ s.latest = want[p]
    \/ r.task = "save" /\ r.ver = want[p] /\ ~(r.pc = "done" /\ r.ok)
    \/ Secures(p, want[p], current, backup)

NothingForgotten == \A p \in Procs : state[p].up = "running" => Owed(p)

SessionInv == Shapes /\ Guarded /\ Tracked /\ (raced \/ (FilesKnown /\ NothingForgotten))

-----------------------------------------------------------------------------
(* Where a thread may stand after a step inside the store                    *)

\* A load ends by leaving the store, anything else by reporting its result.
Follows(r, next) ==
    /\ next \in ThreadRecord
    /\ r.task = "load" => \/ next = Idle
                          \/ next.task = "load" /\ next.pc \notin {"acquire", "done"}
    /\ r.task # "load" => /\ next.task = r.task /\ next.ver = r.ver
                          /\ next.pc \notin {"idle", "acquire"}

LEMMA FinishedFollows ==
    ASSUME NEW t \in Threads, thread \in [Threads -> ThreadRecord], NEW ok \in BOOLEAN
    PROVE  Follows(thread[t], Finished(t, ok))
<1> DEFINE r == thread[t]
<1>1. r \in ThreadRecord
  OBVIOUS
<1>2. CASE r.task = "load"
  BY <1>2, IdleRecord DEF Finished, Follows
<1>3. CASE r.task # "load"
  <2> DEFINE next == [r EXCEPT !.pc = "done", !.ok = ok]
  <2>2. Finished(t, ok) = next
    BY <1>3 DEF Finished
  <2> HIDE DEF r
  <2>1. next \in ThreadRecord /\ next.pc = "done" /\ next.task = r.task /\ next.ver = r.ver
    BY <1>1 DEF ThreadRecord, Pcs
  <2> HIDE DEF next
  <2>3. Follows(r, next)
    BY <1>3, <2>1 DEF Follows
  <2> QED
    BY <2>2, <2>3 DEF r
<1> QED
  BY <1>2, <1>3

\* Three ways a thread goes on inside the store.
LEMMA GoesOnFollows ==
    ASSUME NEW t \in Threads, thread \in [Threads -> ThreadRecord],
           NEW pc \in Pcs \ {"idle", "acquire", "done"}
    PROVE  Follows(thread[t], [thread[t] EXCEPT !.pc = pc])
<1> DEFINE r == thread[t]
           next == [r EXCEPT !.pc = pc]
<1>1. r \in ThreadRecord
  OBVIOUS
<1> HIDE DEF r
<1>2. next \in ThreadRecord /\ next.pc = pc /\ next.task = r.task /\ next.ver = r.ver
  BY <1>1 DEF ThreadRecord
<1> HIDE DEF next
<1>3. Follows(r, next)
  BY <1>2 DEF Follows
<1> QED
  BY <1>3 DEF r, next

LEMMA QuarantineFollows ==
    ASSUME NEW t \in Threads, thread \in [Threads -> ThreadRecord],
           NEW path \in {"current", "backup"}
    PROVE  Follows(thread[t], [thread[t] EXCEPT !.pc = "quarantine", !.path = path])
<1> DEFINE r == thread[t]
           next == [r EXCEPT !.pc = "quarantine", !.path = path]
<1>1. r \in ThreadRecord
  OBVIOUS
<1> HIDE DEF r
<1>2. next \in ThreadRecord /\ next.pc = "quarantine" /\ next.task = r.task /\ next.ver = r.ver
  BY <1>1 DEF ThreadRecord, Pcs
<1> HIDE DEF next
<1>3. Follows(r, next)
  BY <1>2 DEF Follows
<1> QED
  BY <1>3 DEF r, next

LEMMA MigrationFollows ==
    ASSUME NEW t \in Threads, thread \in [Threads -> ThreadRecord],
           NEW path \in {"current", "backup"}, NEW out \in WindowSets
    PROVE  Follows(thread[t], [thread[t] EXCEPT !.pc = "open", !.migrating = TRUE,
                                                !.path = path, !.out = out])
<1> DEFINE r == thread[t]
           next == [r EXCEPT !.pc = "open", !.migrating = TRUE, !.path = path, !.out = out]
<1>1. r \in ThreadRecord
  OBVIOUS
<1> HIDE DEF r
<1>2. next \in ThreadRecord /\ next.pc = "open" /\ next.task = r.task /\ next.ver = r.ver
  BY <1>1 DEF ThreadRecord, Pcs
<1> HIDE DEF next
<1>3. Follows(r, next)
  BY <1>2 DEF Follows
<1> QED
  BY <1>3 DEF r, next

\* A load that returns to its save or its view leaves it a set to write.
LEMMA LoadedFollows ==
    ASSUME NEW t \in Threads, thread \in [Threads -> ThreadRecord], NEW result,
           NEW entries \in WindowSets
    PROVE  Follows(thread[t], Loaded(t, result, entries))
<1> DEFINE r == thread[t]
           own == [win |-> t[1], ver |-> r.ver]
<1>0. r \in ThreadRecord
  OBVIOUS
<1>1. own \in Entry
  <2>1. t[1] \in Windows /\ r.ver \in 0..MaxVersion
    BY <1>0 DEF Threads, Windows, ThreadRecord
  <2> QED
    BY <2>1 DEF Entry
<1>2. CASE r.task = "save"
  <2> DEFINE blind == (result = "error")
             out == IF result = "found" THEN Merge(entries, own) ELSE <<own>>
             next == [r EXCEPT !.pc = "open", !.migrating = FALSE, !.blind = blind, !.out = out]
  <2>1. blind \in BOOLEAN
    OBVIOUS
  <2>2. out \in WindowSets
    <3> HIDE DEF own
    <3>1. <<own>> \in WindowSets /\ Merge(entries, own) \in WindowSets
      BY <1>1, MergeEntries, SingleSet
    <3> QED
      BY <3>1
  <2>3. Loaded(t, result, entries) = next
    BY <1>2 DEF Loaded
  <2> HIDE DEF blind, out, r
  <2>4. next \in ThreadRecord /\ next.pc = "open" /\ next.task = r.task /\ next.ver = r.ver
    BY <1>0, <2>1, <2>2 DEF ThreadRecord, Pcs
  <2> HIDE DEF next
  <2>5. Follows(r, next)
    BY <1>2, <2>4 DEF Follows
  <2> QED
    BY <2>3, <2>5 DEF r
<1>3. CASE r.task = "view" /\ result = "found"
  <2> DEFINE next == [r EXCEPT !.pc = "open", !.migrating = FALSE, !.out = entries]
  <2>1. Loaded(t, result, entries) = next
    BY <1>3 DEF Loaded
  <2> HIDE DEF r
  <2>2. next \in ThreadRecord /\ next.pc = "open" /\ next.task = r.task /\ next.ver = r.ver
    BY <1>0 DEF ThreadRecord, Pcs
  <2> HIDE DEF next
  <2>3. Follows(r, next)
    BY <1>3, <2>2 DEF Follows
  <2> QED
    BY <2>1, <2>3 DEF r
<1>4. CASE r.task # "save" /\ ~(r.task = "view" /\ result = "found")
  <2>1. Loaded(t, result, entries) = Finished(t, result = "none")
    BY <1>4 DEF Loaded
  <2>2. (result = "none") \in BOOLEAN
    OBVIOUS
  <2> QED
    BY <2>1, <2>2, FinishedFollows
<1> QED
  BY <1>2, <1>3, <1>4

LEMMA WriteFollows ==
    ASSUME NEW t \in Threads, thread \in [Threads -> ThreadRecord]
    PROVE  Follows(thread[t], WriteFailed(t)) /\ Follows(thread[t], WriteSucceeded(t))
<1>1. <<>> \in WindowSets /\ thread[t].out \in WindowSets
  BY EmptySet DEF ThreadRecord
<1>2. Follows(thread[t], Loaded(t, "error", <<>>)) /\ Follows(thread[t], Finished(t, FALSE))
  BY <1>1, LoadedFollows, FinishedFollows
<1>3. /\ Follows(thread[t], Loaded(t, "found", thread[t].out))
      /\ Follows(thread[t], Finished(t, TRUE))
  <2> DEFINE out == thread[t].out
  <2>1. out \in WindowSets
    BY <1>1
  <2> HIDE DEF out
  <2>2. Follows(thread[t], Loaded(t, "found", out))
    BY <2>1, LoadedFollows
  <2> QED
    BY <2>2, FinishedFollows DEF out
<1> QED
  BY <1>2, <1>3 DEF WriteFailed, WriteSucceeded

-----------------------------------------------------------------------------
(* The steps inside the store                                                *)

Inside(t) == thread[t].pc \notin {"idle", "acquire", "done"}

\* A step may stop asking for a version; it does not ask for another.
Shrinks ==
    /\ want' \in [Procs -> 0..MaxVersion]
    /\ \A q \in Procs : want'[q] \in {want[q], 0}

FilesTyped == current' \in SetFile /\ backup' \in SetFile /\ temp' \in TempRecord

Steps(t) == \E next : Follows(thread[t], next) /\ Step(t, next)

LEMMA ReadTypes ==
    ASSUME Shapes, NEW t \in Threads, NEW pc \in {"current", "backup"}, NEW file \in SetFile,
           NEW path \in {"current", "backup"}, NEW absent, Follows(thread[t], absent),
           Read(t, pc, file, path, absent)
    PROVE  Inside(t) /\ Steps(t) /\ FilesTyped /\ Shrinks
<1>1. thread \in [Threads -> ThreadRecord]
  BY EmptySet DEF Shapes
<1>2. Inside(t)
  BY DEF Read, At, Inside
<1>3. FilesTyped /\ Shrinks
  BY DEF Shapes, Read, disk, FilesTyped, Shrinks
<1>4. file.set \in WindowSets /\ <<>> \in WindowSets
  BY EmptySet DEF SetFile
<1>5. CASE file.form = "absent" /\ Step(t, absent)
  BY <1>2, <1>3, <1>5 DEF Steps
<1>6. CASE Step(t, [thread[t] EXCEPT !.pc = "quarantine", !.path = path])
  <2> DEFINE next == [thread[t] EXCEPT !.pc = "quarantine", !.path = path]
  <2>1. Follows(thread[t], next)
    BY <1>1, QuarantineFollows
  <2>2. Step(t, next)
    BY <1>6
  <2> HIDE DEF next
  <2> QED
    BY <1>2, <1>3, <2>1, <2>2 DEF Steps
<1>7. CASE Step(t, [thread[t] EXCEPT !.pc = "open", !.migrating = TRUE,
                                     !.path = path, !.out = file.set])
  <2> DEFINE out == file.set
             next == [thread[t] EXCEPT !.pc = "open", !.migrating = TRUE,
                                       !.path = path, !.out = out]
  <2>1. Step(t, next)
    BY <1>7
  <2>2. out \in WindowSets
    BY <1>4
  <2> HIDE DEF out
  <2>3. Follows(thread[t], next)
    BY <1>1, <2>2, MigrationFollows
  <2> HIDE DEF next
  <2> QED
    BY <1>2, <1>3, <2>1, <2>3 DEF Steps
<1>8. CASE Step(t, Loaded(t, "found", file.set))
  <2> DEFINE out == file.set
  <2>1. out \in WindowSets /\ Step(t, Loaded(t, "found", out))
    BY <1>4, <1>8
  <2> HIDE DEF out
  <2>2. Follows(thread[t], Loaded(t, "found", out))
    BY <1>1, <2>1, LoadedFollows
  <2> QED
    BY <1>2, <1>3, <2>1, <2>2 DEF Steps
<1>9. CASE Step(t, Loaded(t, "error", <<>>))
  <2>1. Follows(thread[t], Loaded(t, "error", <<>>))
    BY <1>1, <1>4, LoadedFollows
  <2> QED
    BY <1>2, <1>3, <1>9, <2>1 DEF Steps
<1>10. \/ file.form = "absent" /\ Step(t, absent)
       \/ Step(t, [thread[t] EXCEPT !.pc = "quarantine", !.path = path])
       \/ Step(t, [thread[t] EXCEPT !.pc = "open", !.migrating = TRUE,
                                    !.path = path, !.out = file.set])
       \/ Step(t, Loaded(t, "found", file.set))
       \/ Step(t, Loaded(t, "error", <<>>))
  BY DEF Read
<1> QED
  BY <1>2, <1>3, <1>5, <1>6, <1>7, <1>8, <1>9, <1>10

\* A step to a fixed place in the store.
LEMMA StepsOn ==
    ASSUME Shapes, NEW t \in Threads, NEW pc \in Pcs \ {"idle", "acquire", "done"},
           Step(t, [thread[t] EXCEPT !.pc = pc])
    PROVE  Steps(t)
<1>1. Follows(thread[t], [thread[t] EXCEPT !.pc = pc])
  BY GoesOnFollows DEF Shapes
<1> DEFINE next == [thread[t] EXCEPT !.pc = pc]
<1>2. Follows(thread[t], next) /\ Step(t, next)
  BY <1>1
<1> HIDE DEF next
<1> QED
  BY <1>2 DEF Steps

\* A step that ends a write.
LEMMA StepsOut ==
    ASSUME Shapes, NEW t \in Threads,
           \/ Step(t, WriteFailed(t)) \/ Step(t, WriteSucceeded(t))
           \/ Step(t, Finished(t, TRUE)) \/ Step(t, Finished(t, FALSE))
           \/ Step(t, Loaded(t, "none", <<>>))
    PROVE  Steps(t)
<1>1. thread \in [Threads -> ThreadRecord] /\ <<>> \in WindowSets
  BY EmptySet DEF Shapes
<1>2. /\ Follows(thread[t], WriteFailed(t)) /\ Follows(thread[t], WriteSucceeded(t))
      /\ Follows(thread[t], Finished(t, TRUE)) /\ Follows(thread[t], Finished(t, FALSE))
      /\ Follows(thread[t], Loaded(t, "none", <<>>))
  BY <1>1, WriteFollows, FinishedFollows, LoadedFollows
<1> QED
  BY <1>2 DEF Steps

\* The temporary file after a step that creates, fills or closes it.
LEMMA TempTypes ==
    ASSUME NEW f \in TempRecord, NEW form \in {"absent", "bad", "ok"}
    PROVE  Close(f, form) \in TempRecord
  BY DEF Close, TempRecord

LEMMA OpenedTypes ==
    ASSUME NEW out \in WindowSets, NEW t \in Threads
    PROVE  [form |-> "bad", set |-> out, open |-> t] \in TempRecord
  BY DEF TempRecord

\* Whatever a thread does inside the store, it moves as Follows says and the
\* files and the wanted versions keep their types.
LEMMA StoreStepTypes ==
    ASSUME Shapes, NEW t \in Threads, StoreStep(t)
    PROVE  Inside(t) /\ Steps(t) /\ FilesTyped /\ Shrinks
<1>0. /\ thread \in [Threads -> ThreadRecord] /\ current \in SetFile /\ backup \in SetFile
      /\ temp \in TempRecord /\ want \in [Procs -> 0..MaxVersion]
      /\ Absent \in SetFile /\ NoTemp \in TempRecord /\ <<>> \in WindowSets
  BY AbsentFiles, EmptySet DEF Shapes
<1>1. CASE ReadCurrent(t)
  <2> DEFINE next == [thread[t] EXCEPT !.pc = "backup"]
  <2>1. Follows(thread[t], next)
    BY <1>0, GoesOnFollows DEF Pcs
  <2>2. Read(t, "current", current, "current", next)
    BY <1>1 DEF ReadCurrent
  <2> HIDE DEF next
  <2> QED
    BY <1>0, <2>1, <2>2, ReadTypes
<1>2. CASE ReadBackup(t)
  <2> DEFINE next == Loaded(t, "none", <<>>)
  <2>1. Follows(thread[t], next)
    BY <1>0, LoadedFollows
  <2>2. Read(t, "backup", backup, "backup", next)
    BY <1>2 DEF ReadBackup
  <2> HIDE DEF next
  <2> QED
    BY <1>0, <2>1, <2>2, ReadTypes
<1>3. CASE Quarantine(t)
  <2>1. Inside(t)
    BY <1>3 DEF Quarantine, At, Inside
  <2>2. \/ Step(t, [thread[t] EXCEPT !.pc = "backup"])
        \/ Step(t, Loaded(t, "none", <<>>))
    BY <1>3 DEF Quarantine
  <2>3. Steps(t)
    BY <2>2, StepsOn, StepsOut DEF Pcs
  <2>4. current' \in {current, Absent} /\ backup' \in {backup, Absent}
    BY <1>3 DEF Quarantine
  <2>5. UNCHANGED <<temp, want>>
    BY <1>3 DEF Quarantine
  <2> QED
    BY <1>0, <2>1, <2>3, <2>4, <2>5 DEF FilesTyped, Shrinks
<1>4. CASE OpenTemporary(t)
  <2>1. Inside(t) /\ UNCHANGED <<current, backup, want>>
    BY <1>4 DEF OpenTemporary, At, Inside
  <2>2. \/ Step(t, [thread[t] EXCEPT !.pc = "fill"])
        \/ Step(t, WriteFailed(t))
    BY <1>4 DEF OpenTemporary
  <2>3. Steps(t)
    BY <2>2, StepsOn, StepsOut DEF Pcs
  <2>4. [form |-> "bad", set |-> thread[t].out, open |-> t] \in TempRecord
    <3> DEFINE out == thread[t].out
    <3>1. out \in WindowSets
      BY <1>0 DEF ThreadRecord
    <3> HIDE DEF out
    <3>2. [form |-> "bad", set |-> out, open |-> t] \in TempRecord
      BY <3>1, OpenedTypes
    <3> QED
      BY <3>2 DEF out
  <2>5. \/ temp' = [form |-> "bad", set |-> thread[t].out, open |-> t]
        \/ temp' = NoTemp
    BY <1>4 DEF OpenTemporary
  <2>6. temp' \in TempRecord
    BY <1>0, <2>4, <2>5
  <2> QED
    BY <1>0, <2>1, <2>3, <2>6 DEF FilesTyped, Shrinks
<1>5. CASE FillTemporary(t)
  <2>1. Inside(t) /\ UNCHANGED <<current, backup, want>>
    BY <1>5 DEF FillTemporary, At, Inside
  <2>2. \/ Step(t, [thread[t] EXCEPT !.pc = IF current.form # "absent" THEN "rotate" ELSE "move"])
        \/ Step(t, WriteFailed(t))
    BY <1>5 DEF FillTemporary
  <2>3. Steps(t)
    <3>1. CASE Step(t, [thread[t] EXCEPT !.pc = IF current.form # "absent"
                                                THEN "rotate" ELSE "move"])
      <4> DEFINE pc == IF current.form # "absent" THEN "rotate" ELSE "move"
      <4>1. pc \in Pcs \ {"idle", "acquire", "done"}
        BY DEF Pcs
      <4>2. Step(t, [thread[t] EXCEPT !.pc = pc])
        BY <3>1
      <4>3. PICK x : x = pc
        OBVIOUS
      <4>4. x \in Pcs \ {"idle", "acquire", "done"} /\ Step(t, [thread[t] EXCEPT !.pc = x])
        BY <4>1, <4>2, <4>3
      <4> QED
        BY <4>4, StepsOn
    <3>2. CASE Step(t, WriteFailed(t))
      BY <3>2, StepsOut
    <3> QED
      BY <2>2, <3>1, <3>2
  <2>4. temp' \in {temp, Close(temp, "ok"), Close(temp, "bad")}
    BY <1>5 DEF FillTemporary
  <2>5. temp' \in TempRecord
    BY <1>0, <2>4, TempTypes
  <2> QED
    BY <1>0, <2>1, <2>3, <2>5 DEF FilesTyped, Shrinks
<1>6. CASE Rotate(t)
  <2>1. Inside(t) /\ UNCHANGED <<temp, want>>
    BY <1>6 DEF Rotate, At, Inside
  <2>2. Step(t, [thread[t] EXCEPT !.pc = "move"]) \/ Step(t, WriteFailed(t))
    BY <1>6 DEF Rotate
  <2>3. Steps(t)
    BY <2>2, StepsOn, StepsOut DEF Pcs
  <2>4. current' \in {current, Absent} /\ backup' \in {backup, current}
    BY <1>6 DEF Rotate
  <2> QED
    BY <1>0, <2>1, <2>3, <2>4 DEF FilesTyped, Shrinks
<1>7. CASE Move(t)
  <2>1. Inside(t) /\ UNCHANGED backup
    BY <1>7 DEF Move, At, Inside
  <2>2. Step(t, WriteSucceeded(t)) \/ Step(t, WriteFailed(t))
    BY <1>7 DEF Move
  <2>3. Steps(t)
    BY <2>2, StepsOut
  <2>4. current' \in {current, [form |-> temp.form, set |-> temp.set]}
    BY <1>7 DEF Move
  <2>5. [form |-> temp.form, set |-> temp.set] \in SetFile
    BY <1>0 DEF SetFile, TempRecord
  <2>6. temp' \in {temp, NoTemp}
    BY <1>7 DEF Move
  <2>7. Shrinks
    <3>1. \/ UNCHANGED want
          \/ Forgive(LAMBDA q : /\ VersionIn(temp.set, q) = 0
                                /\ thread[t].blind \/ Len(temp.set) = MaxWindows)
      BY <1>7 DEF Move
    <3>2. 0 \in 0..MaxVersion
      BY BoundsAssumption
    <3> QED
      BY <1>0, <3>1, <3>2 DEF Forgive, Shrinks
  <2> QED
    BY <1>0, <2>1, <2>3, <2>4, <2>5, <2>6, <2>7 DEF FilesTyped, Shrinks
<1>8. CASE RemoveCurrent(t) \/ RemoveBackup(t) \/ RemoveTemp(t)
  <2>1. Inside(t)
    BY <1>8 DEF RemoveCurrent, RemoveBackup, RemoveTemp, Remove, At, Inside
  <2>2. \/ Step(t, [thread[t] EXCEPT !.pc = "rmBackup"])
        \/ Step(t, [thread[t] EXCEPT !.pc = "rmTemp"])
        \/ Step(t, Finished(t, TRUE))
    BY <1>8 DEF RemoveCurrent, RemoveBackup, RemoveTemp, Remove
  <2>3. Steps(t)
    BY <2>2, StepsOn, StepsOut DEF Pcs
  <2>4. /\ current' \in {current, Absent} /\ backup' \in {backup, Absent}
        /\ temp' \in {temp, NoTemp}
    BY <1>8 DEF RemoveCurrent, RemoveBackup, RemoveTemp
  <2>5. Shrinks
    <3>1. Forgive(LAMBDA q : TRUE)
      BY <1>8 DEF RemoveCurrent, RemoveBackup, RemoveTemp, Remove
    <3>2. 0 \in 0..MaxVersion
      BY BoundsAssumption
    <3> QED
      BY <1>0, <3>1, <3>2 DEF Forgive, Shrinks
  <2> QED
    BY <1>0, <2>1, <2>3, <2>4, <2>5 DEF FilesTyped, Shrinks
<1>9. CASE RemoveFails(t)
  <2>1. Inside(t) /\ Step(t, Finished(t, FALSE)) /\ UNCHANGED <<current, backup, temp, want>>
    BY <1>9 DEF RemoveFails, Inside, disk
  <2>2. Steps(t)
    BY <2>1, StepsOut
  <2> QED
    BY <1>0, <2>1, <2>2 DEF FilesTyped, Shrinks
<1> QED
  BY <1>1, <1>2, <1>3, <1>4, <1>5, <1>6, <1>7, <1>8, <1>9 DEF StoreStep

-----------------------------------------------------------------------------
(* Shapes, the mutex and what is wanted                                      *)

LEMMA ThreadNames ==
    /\ \A p \in Procs : <<p, "ui">> \in Threads /\ <<p, "worker">> \in Threads
    /\ \A t \in Threads : /\ t[1] \in Procs
                          /\ t = <<t[1], "ui">> \/ t = <<t[1], "worker">>
    /\ \A p \in Procs : <<p, "ui">>[1] = p /\ <<p, "worker">>[1] = p
    /\ \A p, q \in Procs : <<p, "ui">> # <<q, "worker">>
    /\ \A p, q \in Procs : p # q => /\ <<p, "ui">> # <<q, "ui">>
                                    /\ <<p, "worker">> # <<q, "worker">>
  BY DEF Threads

Settled == Shapes /\ Guarded /\ Tracked

\* One process at a time: Guarded and Tracked for the thread records ui and
\* worker, the coordinator s and the version wanted.
GuardedAt(p, h, ui, worker) ==
    /\ worker.pc \notin {"idle", "acquire", "done"} => h = p
    /\ ui.pc # "idle" => ui.task = "load"
    /\ worker.task # "load"
    /\ worker.pc = "idle" => worker.task = "none"

TrackedAt(s, worker, w) ==
    /\ s.up \in {"down", "loading"} => w = 0 /\ s.latest = 0 /\ worker.pc = "idle"
    /\ s.up = "running" /\ s.latest # 0 => w \in {0, s.latest}
    /\ s.up = "running" /\ worker.task = "save" => w \in {0, worker.ver, s.latest}

LEMMA ByProcess ==
    /\ Guarded <=> \A p \in Procs : GuardedAt(p, holder, thread[<<p, "ui">>], thread[<<p, "worker">>])
    /\ Tracked <=> \A p \in Procs : TrackedAt(state[p], thread[<<p, "worker">>], want[p])
  BY DEF Guarded, GuardedAt, InStore, Tracked, TrackedAt

LEMMA ByProcessNext ==
    /\ Guarded' <=> \A p \in Procs :
                       GuardedAt(p, holder', thread'[<<p, "ui">>], thread'[<<p, "worker">>])
    /\ Tracked' <=> \A p \in Procs : TrackedAt(state'[p], thread'[<<p, "worker">>], want'[p])
  BY DEF Guarded, GuardedAt, InStore, Tracked, TrackedAt

\* A step of one thread that Follows allows.
LEMMA StepSettled ==
    ASSUME Settled, NEW t \in Threads, NEW next, Follows(thread[t], next), Step(t, next),
           thread[t].pc # "idle", Inside(t) \/ next.pc = "done", FilesTyped, Shrinks
    PROVE  Settled'
<1>0. /\ thread \in [Threads -> ThreadRecord] /\ holder \in Procs \cup {Nobody}
      /\ t[1] \in Procs /\ next \in ThreadRecord
  BY ThreadNames DEF Settled, Shapes, Follows
<1>1. /\ thread' = [thread EXCEPT ![t] = next]
      /\ holder' = IF next.pc = "done" /\ holder = t[1] THEN Nobody ELSE holder
      /\ scenario' = scenario /\ state' = state
  BY DEF Step
<1>2. /\ thread' \in [Threads -> ThreadRecord] /\ thread'[t] = next
      /\ \A u \in Threads \ {t} : thread'[u] = thread[u]
  BY <1>0, <1>1
<1>3. Shapes'
  <2>1. holder' \in Procs \cup {Nobody}
    BY <1>0, <1>1
  <2> QED
    BY <1>1, <1>2, <2>1 DEF Settled, Shapes, FilesTyped, Shrinks
<1>4. /\ \A p \in Procs : GuardedAt(p, holder, thread[<<p, "ui">>], thread[<<p, "worker">>])
      /\ \A p \in Procs : TrackedAt(state[p], thread[<<p, "worker">>], want[p])
  BY ByProcess DEF Settled
<1>5. ASSUME NEW p \in Procs
      PROVE  /\ GuardedAt(p, holder', thread'[<<p, "ui">>], thread'[<<p, "worker">>])
             /\ TrackedAt(state'[p], thread'[<<p, "worker">>], want'[p])
  <2>0. /\ GuardedAt(p, holder, thread[<<p, "ui">>], thread[<<p, "worker">>])
        /\ TrackedAt(state[p], thread[<<p, "worker">>], want[p])
        /\ <<p, "ui">> \in Threads /\ <<p, "worker">> \in Threads
        /\ want'[p] \in {want[p], 0}
    BY <1>4, ThreadNames DEF Shrinks
  <2>1. CASE t = <<p, "ui">>
    <3>1. thread'[<<p, "worker">>] = thread[<<p, "worker">>]
      BY <1>2, <2>0, <2>1
    <3>2. thread[t].task = "load"
      BY <2>0, <2>1 DEF GuardedAt
    <3>3. next.pc # "done" /\ (next.pc # "idle" => next.task = "load")
      BY <3>2, IdleRecord DEF Follows
    <3>4. holder' = holder
      BY <1>1, <3>3
    <3> QED
      BY <1>1, <1>2, <2>0, <2>1, <3>1, <3>3, <3>4 DEF GuardedAt, TrackedAt
  <2>2. CASE t = <<p, "worker">>
    <3>1. thread'[<<p, "ui">>] = thread[<<p, "ui">>]
      BY <1>2, <2>0, <2>2
    <3>2. thread[t].task # "load"
      BY <2>0, <2>2 DEF GuardedAt
    <3>3. next.task = thread[t].task /\ next.ver = thread[t].ver /\ next.pc \notin {"idle", "acquire"}
      BY <3>2 DEF Follows
    <3>4. GuardedAt(p, holder', thread'[<<p, "ui">>], next)
      <4>1. ASSUME next.pc # "done" PROVE holder' = p
        <5>1. Inside(t)
          BY <4>1
        <5>2. holder = p
          BY <2>0, <2>2, <5>1 DEF GuardedAt, Inside
        <5> QED
          BY <1>1, <4>1, <5>2
      <4> QED
        BY <2>0, <3>1, <3>2, <3>3, <4>1 DEF GuardedAt
    <3>5. TrackedAt(state'[p], next, want'[p])
      BY <1>1, <2>0, <2>2, <3>3 DEF TrackedAt
    <3> QED
      BY <1>2, <2>2, <3>4, <3>5
  <2>3. CASE t # <<p, "ui">> /\ t # <<p, "worker">>
    <3>1. /\ thread'[<<p, "ui">>] = thread[<<p, "ui">>]
          /\ thread'[<<p, "worker">>] = thread[<<p, "worker">>]
      BY <1>2, <2>0, <2>3
    <3>2. t[1] # p
      BY <2>3, ThreadNames
    <3>3. holder = p => holder' = p
      BY <1>1, <3>2
    <3> QED
      BY <1>1, <2>0, <3>1, <3>3 DEF GuardedAt, TrackedAt
  <2> QED
    BY <2>1, <2>2, <2>3
<1>6. Guarded' /\ Tracked'
  BY <1>5, ByProcessNext
<1> QED
  BY <1>3, <1>6 DEF Settled

-----------------------------------------------------------------------------
(* The coordinator's steps                                                   *)

OwedAt(p, s, r, w, cur, bak) ==
    \/ w = 0
    \/ s.latest = w
    \/ r.task = "save" /\ r.ver = w /\ ~(r.pc = "done" /\ r.ok)
    \/ Secures(p, w, cur, bak)

\* What the process p changes: itself, and nothing of the files.
Alters(p) ==
    /\ scenario' = scenario /\ current' = current /\ backup' = backup
    /\ holder' \in Procs \cup {Nobody}
    /\ state' \in [Procs -> CoordinatorRecord]
    /\ thread' \in [Threads -> ThreadRecord]
    /\ want' \in [Procs -> 0..MaxVersion]
    /\ \A u \in Threads : u[1] # p => thread'[u] = thread[u]
    /\ \A q \in Procs \ {p} :
          state'[q] = state[q] /\ want'[q] = want[q] /\ (holder = q => holder' = q)

\* Which leaves p as the invariant wants it.
Tidy(p) ==
    /\ GuardedAt(p, holder', thread'[<<p, "ui">>], thread'[<<p, "worker">>])
    /\ TrackedAt(state'[p], thread'[<<p, "worker">>], want'[p])
    /\ (state[p].up = "running" =>
           OwedAt(p, state[p], thread[<<p, "worker">>], want[p], current, backup))
       => (state'[p].up = "running" =>
              OwedAt(p, state'[p], thread'[<<p, "worker">>], want'[p], current, backup))
    /\ raced' = (raced \/ Racing)

\* A thread of p that comes to the store by this step has found nothing yet.
Enters(r) == r.pc \in {"current", "rmCurrent"} /\ (r.pc = "rmCurrent" => r.task # "save")

Fresh(p) ==
    /\ temp' = temp
    /\ \A u \in Threads :
          u[1] = p /\ Engages(thread'[u]) => thread'[u] = thread[u] \/ Enters(thread'[u])

LEMMA CoordinatorRecords ==
    ASSUME Settled, NEW p \in Procs
    PROVE  /\ state \in [Procs -> CoordinatorRecord] /\ want \in [Procs -> 0..MaxVersion]
           /\ thread \in [Threads -> ThreadRecord] /\ temp \in TempRecord
           /\ holder \in Procs \cup {Nobody}
           /\ state[p] \in CoordinatorRecord /\ want[p] \in 0..MaxVersion
           /\ <<p, "ui">> \in Threads /\ <<p, "worker">> \in Threads
           /\ <<p, "ui">> # <<p, "worker">>
           /\ GuardedAt(p, holder, thread[<<p, "ui">>], thread[<<p, "worker">>])
           /\ TrackedAt(state[p], thread[<<p, "worker">>], want[p])
<1>1. Shapes /\ Guarded /\ Tracked
  BY DEF Settled
<1>2. <<p, "ui">> \in Threads /\ <<p, "worker">> \in Threads /\ <<p, "ui">> # <<p, "worker">>
  BY ThreadNames
<1>3. /\ GuardedAt(p, holder, thread[<<p, "ui">>], thread[<<p, "worker">>])
      /\ TrackedAt(state[p], thread[<<p, "worker">>], want[p])
  BY <1>1, ByProcess
<1> QED
  BY <1>1, <1>2, <1>3 DEF Shapes

\* The coordinator of p has changed, its threads have not.
LEMMA CoordinatorAlone ==
    ASSUME Settled, NEW p \in Procs, NEW s \in CoordinatorRecord, NEW w \in 0..MaxVersion,
           Coordinate(p, s), UNCHANGED thread, want' = [want EXCEPT ![p] = w],
           TrackedAt(s, thread[<<p, "worker">>], w),
           (state[p].up = "running" =>
               OwedAt(p, state[p], thread[<<p, "worker">>], want[p], current, backup))
           => (s.up = "running" => OwedAt(p, s, thread[<<p, "worker">>], w, current, backup))
    PROVE  Alters(p) /\ Tidy(p) /\ Fresh(p)
<1>1. /\ state' = [state EXCEPT ![p] = s] /\ raced' = (raced \/ Racing)
      /\ scenario' = scenario /\ current' = current /\ backup' = backup /\ temp' = temp
      /\ holder' = holder /\ thread' = thread
  BY DEF Coordinate, Watch, disk
<1>2. /\ state' \in [Procs -> CoordinatorRecord] /\ state'[p] = s
      /\ \A q \in Procs \ {p} : state'[q] = state[q]
  BY <1>1, CoordinatorRecords
<1>3. /\ want' \in [Procs -> 0..MaxVersion] /\ want'[p] = w
      /\ \A q \in Procs \ {p} : want'[q] = want[q]
  BY CoordinatorRecords
<1>4. Alters(p)
  BY <1>1, <1>2, <1>3, CoordinatorRecords DEF Alters
<1>5. Tidy(p)
  BY <1>1, <1>2, <1>3, CoordinatorRecords DEF Tidy
<1>6. Fresh(p)
  BY <1>1 DEF Fresh
<1> QED
  BY <1>4, <1>5, <1>6

\* One thread of p has changed, and the coordinator of p with it.
LEMMA ThreadChanges ==
    ASSUME Settled, NEW p \in Procs, NEW kind \in {"ui", "worker"}, NEW next \in ThreadRecord,
           NEW s \in CoordinatorRecord,
           thread' = [thread EXCEPT ![<<p, kind>>] = next],
           state' = [state EXCEPT ![p] = s], want' = want,
           scenario' = scenario, current' = current, backup' = backup, temp' = temp,
           raced' = (raced \/ Racing),
           holder' \in Procs \cup {Nobody}, \A q \in Procs \ {p} : holder = q => holder' = q
    PROVE  /\ Alters(p) /\ temp' = temp /\ raced' = (raced \/ Racing)
           /\ thread'[<<p, kind>>] = next /\ state'[p] = s /\ want'[p] = want[p]
           /\ \A u \in Threads \ {<<p, kind>>} : thread'[u] = thread[u]
<1>1. <<p, kind>> \in Threads /\ <<p, kind>>[1] = p
  BY DEF Threads
<1>2. /\ thread' \in [Threads -> ThreadRecord] /\ thread'[<<p, kind>>] = next
      /\ \A u \in Threads \ {<<p, kind>>} : thread'[u] = thread[u]
  BY <1>1, CoordinatorRecords
<1>3. /\ state' \in [Procs -> CoordinatorRecord] /\ state'[p] = s
      /\ \A q \in Procs \ {p} : state'[q] = state[q]
  BY CoordinatorRecords
<1>4. want' \in [Procs -> 0..MaxVersion]
  BY CoordinatorRecords
<1>5. \A u \in Threads : u[1] # p => thread'[u] = thread[u]
  BY <1>1, <1>2
<1> QED
  BY <1>2, <1>3, <1>4, <1>5 DEF Alters

LEMMA AcceptTidy ==
    ASSUME Settled, NEW p \in Procs, Accept(p)
    PROVE  Alters(p) /\ Tidy(p) /\ Fresh(p)
<1> DEFINE v == state[p].ver + 1
           s == [state[p] EXCEPT !.ver = state[p].ver + 1, !.latest = state[p].ver + 1]
<1>0. state[p] \in CoordinatorRecord /\ state[p].up = "running" /\ state[p].ver < MaxVersion
  BY CoordinatorRecords DEF Accept
<1>1. v \in 0..MaxVersion
  BY <1>0, BoundsAssumption DEF CoordinatorRecord
<1>2. /\ Coordinate(p, s) /\ UNCHANGED thread /\ want' = [want EXCEPT ![p] = v]
  BY DEF Accept
<1>3. s = [state[p] EXCEPT !.ver = v, !.latest = v]
  OBVIOUS
<1> HIDE DEF v
<1>4. s \in CoordinatorRecord /\ s.up = "running" /\ s.latest = v
  BY <1>0, <1>1, <1>3 DEF CoordinatorRecord
<1> HIDE DEF s
<1>5. TrackedAt(s, thread[<<p, "worker">>], v)
  BY <1>4 DEF TrackedAt
<1>6. OwedAt(p, s, thread[<<p, "worker">>], v, current, backup)
  BY <1>4 DEF OwedAt
<1> QED
  BY <1>1, <1>2, <1>4, <1>5, <1>6, CoordinatorAlone

LEMMA ResetTidy ==
    ASSUME Settled, NEW p \in Procs, RequestReset(p)
    PROVE  Alters(p) /\ Tidy(p) /\ Fresh(p)
<1>1. PICK scope \in Scopes : Coordinate(p, [state[p] EXCEPT !.latest = 0, !.reset = scope])
  BY DEF RequestReset
<1> DEFINE s == [state[p] EXCEPT !.latest = 0, !.reset = scope]
<1>2. 0 \in 0..MaxVersion /\ UNCHANGED thread /\ want' = [want EXCEPT ![p] = 0]
  BY BoundsAssumption DEF RequestReset
<1>3. state[p] \in CoordinatorRecord /\ state[p].up = "running"
  BY CoordinatorRecords DEF RequestReset
<1>4. s \in CoordinatorRecord /\ s.up = "running" /\ s.latest = 0
  BY <1>2, <1>3 DEF CoordinatorRecord
<1>5. Coordinate(p, s)
  BY <1>1
<1> HIDE DEF s
<1>6. TrackedAt(s, thread[<<p, "worker">>], 0)
  BY <1>4 DEF TrackedAt
<1>7. OwedAt(p, s, thread[<<p, "worker">>], 0, current, backup)
  BY DEF OwedAt
<1> QED
  BY <1>2, <1>4, <1>5, <1>6, <1>7, CoordinatorAlone

\* The changes of up that leave the threads alone.
LEMMA UpTidy ==
    ASSUME Settled, NEW p \in Procs, StartCoordinator(p) \/ Shutdown(p) \/ Exit(p)
    PROVE  Alters(p) /\ Tidy(p) /\ Fresh(p)
<1>0. /\ state[p] \in CoordinatorRecord /\ want[p] \in 0..MaxVersion /\ 0 \in 0..MaxVersion
      /\ want \in [Procs -> 0..MaxVersion]
      /\ TrackedAt(state[p], thread[<<p, "worker">>], want[p])
      /\ GuardedAt(p, holder, thread[<<p, "ui">>], thread[<<p, "worker">>])
  BY CoordinatorRecords, BoundsAssumption
<1>1. CASE StartCoordinator(p)
  <2> DEFINE s == [state[p] EXCEPT !.up = "running"]
  <2>1. Coordinate(p, s) /\ UNCHANGED thread /\ want' = want /\ state[p].up = "loading"
    BY <1>1 DEF StartCoordinator
  <2>2. s \in CoordinatorRecord /\ s.up = "running" /\ s.latest = state[p].latest
    BY <1>0 DEF CoordinatorRecord
  <2> HIDE DEF s
  <2>3. want[p] = 0 /\ want' = [want EXCEPT ![p] = 0]
    BY <1>0, <2>1 DEF TrackedAt
  <2>4. TrackedAt(s, thread[<<p, "worker">>], 0)
    BY <2>2 DEF TrackedAt
  <2>5. OwedAt(p, s, thread[<<p, "worker">>], 0, current, backup)
    BY DEF OwedAt
  <2> QED
    BY <1>0, <2>1, <2>2, <2>3, <2>4, <2>5, CoordinatorAlone
<1>2. CASE Shutdown(p)
  <2> DEFINE s == [state[p] EXCEPT !.up = "closing"]
  <2>1. Coordinate(p, s) /\ UNCHANGED thread /\ want' = want /\ state[p].up = "running"
    BY <1>2 DEF Shutdown
  <2>2. s \in CoordinatorRecord /\ s.up = "closing"
    BY <1>0 DEF CoordinatorRecord
  <2> HIDE DEF s
  <2>3. want' = [want EXCEPT ![p] = want[p]]
    BY <1>0, <2>1
  <2>4. TrackedAt(s, thread[<<p, "worker">>], want[p])
    BY <2>2 DEF TrackedAt
  <2> DEFINE w == want[p]
  <2>5. w \in 0..MaxVersion /\ want' = [want EXCEPT ![p] = w]
    BY <1>0, <2>3
  <2>6. TrackedAt(s, thread[<<p, "worker">>], w)
    BY <2>4
  <2> HIDE DEF w
  <2> QED
    BY <2>1, <2>2, <2>5, <2>6, CoordinatorAlone
<1>3. CASE Exit(p)
  <2> DEFINE s == [state[p] EXCEPT !.up = "down"]
  <2>1. /\ Coordinate(p, s) /\ UNCHANGED thread /\ want' = [want EXCEPT ![p] = 0]
        /\ state[p].latest = 0 /\ thread[<<p, "worker">>].pc = "idle"
    BY <1>3 DEF Exit, At
  <2>2. s \in CoordinatorRecord /\ s.up = "down" /\ s.latest = 0
    BY <1>0, <2>1 DEF CoordinatorRecord
  <2> HIDE DEF s
  <2>3. TrackedAt(s, thread[<<p, "worker">>], 0)
    BY <2>1, <2>2 DEF TrackedAt
  <2> QED
    BY <1>0, <2>1, <2>2, <2>3, CoordinatorAlone
<1> QED
  BY <1>1, <1>2, <1>3

\* The user interface thread of p begins to load.
LEMMA LoadTidy ==
    ASSUME Settled, NEW p \in Procs, Start(p) \/ LoadClosedWindows(p)
    PROVE  Alters(p) /\ Tidy(p) /\ Fresh(p)
<1> DEFINE ui == <<p, "ui">>
           worker == <<p, "worker">>
           next == [Idle EXCEPT !.pc = "current", !.task = "load"]
           s == IF Start(p) THEN [state[p] EXCEPT !.up = "loading"] ELSE state[p]
<1>0. /\ state[p] \in CoordinatorRecord /\ want[p] \in 0..MaxVersion
      /\ state \in [Procs -> CoordinatorRecord] /\ holder \in Procs \cup {Nobody}
      /\ TrackedAt(state[p], thread[worker], want[p])
      /\ GuardedAt(p, holder, thread[ui], thread[worker])
      /\ ui \in Threads /\ worker \in Threads /\ worker # ui
  BY CoordinatorRecords
<1>1. next \in ThreadRecord /\ next.pc = "current" /\ next.task = "load"
  BY IdleRecord DEF ThreadRecord, Pcs, Tasks
<1>2. CASE Start(p)
  <2>1. /\ s \in CoordinatorRecord /\ s.up = "loading" /\ s.latest = state[p].latest
        /\ state[p].up = "down"
    BY <1>0, <1>2 DEF CoordinatorRecord, Start
  <2>2. /\ thread' = [thread EXCEPT ![ui] = next] /\ state' = [state EXCEPT ![p] = s]
        /\ want' = want /\ scenario' = scenario /\ current' = current /\ backup' = backup
        /\ temp' = temp /\ holder' = holder /\ raced' = (raced \/ Racing)
    BY <1>2 DEF Start, Coordinate, Watch, disk
  <2> HIDE DEF next, s
  <2>3. /\ Alters(p) /\ thread'[ui] = next /\ thread'[worker] = thread[worker]
        /\ state'[p] = s /\ want'[p] = want[p]
        /\ \A u \in Threads \ {ui} : thread'[u] = thread[u]
    BY <1>0, <1>1, <2>1, <2>2, ThreadChanges
  <2>4. GuardedAt(p, holder', thread'[ui], thread'[worker])
    BY <1>0, <1>1, <2>2, <2>3 DEF GuardedAt
  <2>5. TrackedAt(state'[p], thread'[worker], want'[p])
    BY <1>0, <2>1, <2>3 DEF TrackedAt
  <2>6. Tidy(p)
    BY <2>1, <2>2, <2>3, <2>4, <2>5 DEF Tidy
  <2>7. Fresh(p)
    BY <1>1, <2>2, <2>3 DEF Fresh, Enters
  <2> QED
    BY <2>3, <2>6, <2>7
<1>3. CASE LoadClosedWindows(p)
  <2> DEFINE r == state[p]
  <2>1. r \in CoordinatorRecord /\ state' = [state EXCEPT ![p] = r]
    BY <1>0, <1>3 DEF LoadClosedWindows
  <2>2. /\ thread' = [thread EXCEPT ![ui] = next]
        /\ want' = want /\ scenario' = scenario /\ current' = current /\ backup' = backup
        /\ temp' = temp /\ holder' = holder /\ raced' = (raced \/ Racing)
    BY <1>3 DEF LoadClosedWindows, Watch, disk
  <2> HIDE DEF next, r
  <2>3. /\ Alters(p) /\ thread'[ui] = next /\ thread'[worker] = thread[worker]
        /\ state'[p] = r /\ want'[p] = want[p]
        /\ \A u \in Threads \ {ui} : thread'[u] = thread[u]
    BY <1>0, <1>1, <2>1, <2>2, ThreadChanges
  <2>4. GuardedAt(p, holder', thread'[ui], thread'[worker])
    BY <1>0, <1>1, <2>2, <2>3 DEF GuardedAt
  <2>6. Tidy(p)
    BY <1>0, <2>2, <2>3, <2>4 DEF Tidy, r
  <2>7. Fresh(p)
    BY <1>1, <2>2, <2>3 DEF Fresh, Enters
  <2> QED
    BY <2>3, <2>6, <2>7
<1> QED
  BY <1>2, <1>3

LEMMA TakeTidy ==
    ASSUME Settled, NEW p \in Procs, Take(p)
    PROVE  Alters(p) /\ Tidy(p) /\ Fresh(p)
<1> DEFINE ui == <<p, "ui">>
           worker == <<p, "worker">>
           resets == state[p].reset # "none"
           task == IF resets THEN state[p].reset ELSE "save"
           ver == IF resets THEN 0 ELSE state[p].latest
           next == [Idle EXCEPT !.pc = "acquire", !.task = task, !.ver = ver]
           s == IF resets THEN [state[p] EXCEPT !.reset = "none"] ELSE [state[p] EXCEPT !.latest = 0]
<1>0. /\ state[p] \in CoordinatorRecord /\ want[p] \in 0..MaxVersion
      /\ state \in [Procs -> CoordinatorRecord] /\ holder \in Procs \cup {Nobody}
      /\ TrackedAt(state[p], thread[worker], want[p])
      /\ GuardedAt(p, holder, thread[ui], thread[worker])
      /\ ui \in Threads /\ worker \in Threads /\ worker # ui /\ 0 \in 0..MaxVersion
  BY CoordinatorRecords, BoundsAssumption
<1>1. /\ state[p].up \in {"running", "closing"} /\ thread[worker].pc = "idle"
      /\ resets \/ state[p].latest # 0
  BY DEF Take, At
<1>2. /\ task \in {"save"} \cup Scopes /\ (task = "save" <=> ~resets)
      /\ ver \in 0..MaxVersion /\ (~resets => ver = state[p].latest)
  BY <1>0 DEF CoordinatorRecord, Scopes
<1>3. /\ s \in CoordinatorRecord /\ s.up = state[p].up
      /\ s.latest = IF resets THEN state[p].latest ELSE 0
  BY <1>0 DEF CoordinatorRecord
<1>4. /\ thread' = [thread EXCEPT ![worker] = next] /\ state' = [state EXCEPT ![p] = s]
      /\ want' = want /\ scenario' = scenario /\ current' = current /\ backup' = backup
      /\ temp' = temp /\ holder' = holder /\ raced' = (raced \/ Racing)
  <2>1. want' = want /\ Coordinate(p, s)
    BY DEF Take
  <2>2. thread' = [thread EXCEPT ![worker] = next]
    BY DEF Take
  <2> QED
    BY <2>1, <2>2 DEF Coordinate, Watch, disk
<1> HIDE DEF s, task, ver, resets
<1>5. next \in ThreadRecord /\ next.pc = "acquire" /\ next.task = task /\ next.ver = ver
  <2>1. task \in Tasks /\ "acquire" \in Pcs
    BY <1>2 DEF Tasks, Pcs
  <2> QED
    BY <1>2, <2>1, IdleRecord DEF ThreadRecord
<1>6. task # "load" /\ task # "none"
  BY <1>2 DEF Scopes
<1> HIDE DEF next
<1>7. /\ Alters(p) /\ thread'[worker] = next /\ thread'[ui] = thread[ui]
      /\ state'[p] = s /\ want'[p] = want[p]
      /\ \A u \in Threads \ {worker} : thread'[u] = thread[u]
  BY <1>0, <1>3, <1>4, <1>5, ThreadChanges
<1>8. thread[worker].task = "none"
  BY <1>0, <1>1 DEF GuardedAt
<1>9. GuardedAt(p, holder', thread'[ui], thread'[worker])
  BY <1>0, <1>4, <1>5, <1>6, <1>7 DEF GuardedAt
<1>10. TrackedAt(s, next, want[p])
  <2>1. CASE resets
    BY <1>0, <1>1, <1>2, <1>3, <1>5, <2>1 DEF TrackedAt
  <2>2. CASE ~resets
    BY <1>0, <1>1, <1>2, <1>3, <1>5, <2>2 DEF TrackedAt
  <2> QED
    BY <2>1, <2>2
<1>11. ASSUME s.up = "running", OwedAt(p, state[p], thread[worker], want[p], current, backup)
       PROVE  OwedAt(p, s, next, want[p], current, backup)
  <2>1. \/ want[p] = 0 \/ state[p].latest = want[p] \/ Secures(p, want[p], current, backup)
    BY <1>8, <1>11 DEF OwedAt
  <2>2. CASE resets
    BY <1>3, <2>1, <2>2 DEF OwedAt
  <2>3. CASE ~resets
    BY <1>2, <1>5, <2>1, <2>3 DEF OwedAt
  <2> QED
    BY <2>2, <2>3
<1>12. Tidy(p)
  BY <1>3, <1>4, <1>7, <1>9, <1>10, <1>11 DEF Tidy
<1>13. Fresh(p)
  BY <1>4, <1>5, <1>7 DEF Fresh, Engages
<1> QED
  BY <1>7, <1>12, <1>13

LEMMA CompleteTidy ==
    ASSUME Settled, NEW p \in Procs, Complete(p)
    PROVE  Alters(p) /\ Tidy(p) /\ Fresh(p)
<1> DEFINE ui == <<p, "ui">>
           worker == <<p, "worker">>
           r == thread[worker]
           retry == ~r.ok /\ state[p].up = "running"
           again == retry /\ r.task = "save" /\ state[p].latest = 0
           s == IF again THEN [state[p] EXCEPT !.latest = r.ver]
                ELSE IF retry /\ r.task # "save" THEN [state[p] EXCEPT !.reset = r.task]
                ELSE state[p]
<1>0. /\ state[p] \in CoordinatorRecord /\ want[p] \in 0..MaxVersion
      /\ state \in [Procs -> CoordinatorRecord] /\ holder \in Procs \cup {Nobody}
      /\ TrackedAt(state[p], thread[worker], want[p])
      /\ GuardedAt(p, holder, thread[ui], thread[worker])
      /\ ui \in Threads /\ worker \in Threads /\ worker # ui
      /\ r \in ThreadRecord
  BY CoordinatorRecords
<1>1. r.pc = "done" /\ r.task # "load"
  BY <1>0 DEF Complete, At, GuardedAt
<1>2. /\ thread' = [thread EXCEPT ![worker] = Idle] /\ state' = [state EXCEPT ![p] = s]
      /\ want' = want /\ scenario' = scenario /\ current' = current /\ backup' = backup
      /\ temp' = temp /\ holder' = holder /\ raced' = (raced \/ Racing)
  BY DEF Complete, Coordinate, Watch, disk
<1>2a. r.ver \in 0..MaxVersion /\ r.task \in Tasks /\ r.ok \in BOOLEAN
  BY <1>0 DEF ThreadRecord
<1> HIDE DEF r
<1>3. /\ s \in CoordinatorRecord /\ s.up = state[p].up
      /\ s.latest = IF again THEN r.ver ELSE state[p].latest
  <2>1. CASE retry /\ r.task # "save" /\ r.task # "none"
    BY <1>0, <1>1, <1>2a, <2>1 DEF CoordinatorRecord, Tasks
  <2>2. CASE again
    BY <1>0, <1>2a, <2>2 DEF CoordinatorRecord
  <2>3. CASE ~again /\ ~(retry /\ r.task # "save")
    BY <1>0, <2>3
  <2>4. CASE r.task = "none"
    BY <1>0, <2>4 DEF CoordinatorRecord
  <2> QED
    BY <2>1, <2>2, <2>3, <2>4
<1> HIDE DEF s
<1>4. Idle \in ThreadRecord /\ Idle.pc = "idle" /\ Idle.task = "none"
  BY IdleRecord
<1>5. /\ Alters(p) /\ thread'[worker] = Idle /\ thread'[ui] = thread[ui]
      /\ state'[p] = s /\ want'[p] = want[p]
      /\ \A u \in Threads \ {worker} : thread'[u] = thread[u]
  BY <1>0, <1>2, <1>3, <1>4, ThreadChanges
<1>6. GuardedAt(p, holder', thread'[ui], thread'[worker])
  BY <1>0, <1>2, <1>4, <1>5 DEF GuardedAt
<1>7. state[p].up \notin {"down", "loading"}
  BY <1>0, <1>1 DEF TrackedAt, r
<1>8. TrackedAt(s, Idle, want[p])
  <2>1. CASE again
    <3>1. want[p] \in {0, r.ver, 0}
      BY <1>0, <2>1 DEF TrackedAt, r
    <3> QED
      BY <1>3, <1>4, <1>7, <2>1, <3>1 DEF TrackedAt
  <2>2. CASE ~again
    BY <1>0, <1>3, <1>4, <1>7, <2>2 DEF TrackedAt
  <2> QED
    BY <2>1, <2>2
<1>9. ASSUME s.up = "running", OwedAt(p, state[p], r, want[p], current, backup)
      PROVE  OwedAt(p, s, Idle, want[p], current, backup)
  <2>1. CASE again
    <3>1. want[p] \in {0, r.ver, 0}
      BY <1>0, <2>1 DEF TrackedAt, r
    <3> QED
      BY <1>3, <2>1, <3>1 DEF OwedAt
  <2>2. CASE ~again /\ state[p].latest = want[p]
    BY <1>3, <2>2 DEF OwedAt
  <2>3. CASE ~again /\ state[p].latest # want[p]
    <3>1. CASE r.task = "save" /\ r.ver = want[p] /\ ~(r.pc = "done" /\ r.ok)
      <4>1. state[p].latest # 0
        BY <1>1, <1>3, <1>9, <2>3, <3>1
      <4>2. want[p] = 0
        BY <1>0, <1>3, <1>9, <2>3, <4>1 DEF TrackedAt
      <4> QED
        BY <4>2 DEF OwedAt
    <3>2. CASE want[p] = 0 \/ Secures(p, want[p], current, backup)
      BY <3>2 DEF OwedAt
    <3> QED
      BY <1>9, <2>3, <3>1, <3>2 DEF OwedAt
  <2> QED
    BY <2>1, <2>2, <2>3
<1>10. Tidy(p)
  BY <1>2, <1>3, <1>5, <1>6, <1>8, <1>9 DEF Tidy, r
<1>11. Fresh(p)
  BY <1>2, <1>4, <1>5 DEF Fresh, Engages
<1> QED
  BY <1>5, <1>10, <1>11

LEMMA AcquireTidy ==
    ASSUME Settled, NEW p \in Procs, Acquire(p)
    PROVE  Alters(p) /\ Tidy(p) /\ Fresh(p)
<1> DEFINE ui == <<p, "ui">>
           worker == <<p, "worker">>
           r == thread[worker]
           s == state[p]
<1>0. /\ s \in CoordinatorRecord /\ want[p] \in 0..MaxVersion
      /\ state \in [Procs -> CoordinatorRecord] /\ holder \in Procs \cup {Nobody}
      /\ TrackedAt(state[p], thread[worker], want[p])
      /\ GuardedAt(p, holder, thread[ui], thread[worker])
      /\ ui \in Threads /\ worker \in Threads /\ worker # ui
      /\ r \in ThreadRecord
  BY CoordinatorRecords
<1>1. r.pc = "acquire" /\ holder = Nobody
  BY DEF Acquire, At
<1>2. PICK pc \in {"current", "rmCurrent"} :
         /\ thread' = [thread EXCEPT ![worker] = [thread[worker] EXCEPT !.pc = pc]]
         /\ pc = "rmCurrent" => thread[worker].task = "session"
  BY <1>0 DEF Acquire
<1> DEFINE next == [r EXCEPT !.pc = pc]
<1>3. /\ thread' = [thread EXCEPT ![worker] = next] /\ state' = [state EXCEPT ![p] = s]
      /\ want' = want /\ scenario' = scenario /\ current' = current /\ backup' = backup
      /\ temp' = temp /\ holder' = p /\ raced' = (raced \/ Racing)
      /\ pc = "rmCurrent" => r.task = "session"
  BY <1>0, <1>2 DEF Acquire, Watch, disk
<1>4. /\ next \in ThreadRecord /\ next.pc = pc /\ next.task = r.task /\ next.ver = r.ver
  <2> HIDE DEF r
  <2> QED
    BY <1>0, <1>2 DEF ThreadRecord, Pcs
<1>4a. holder' \in Procs \cup {Nobody} /\ \A q \in Procs \ {p} : holder = q => holder' = q
  BY <1>1, <1>3, NamesAssumption
<1> HIDE DEF next, r, s
<1>5. /\ Alters(p) /\ thread'[worker] = next /\ thread'[ui] = thread[ui]
      /\ state'[p] = s /\ want'[p] = want[p]
      /\ \A u \in Threads \ {worker} : thread'[u] = thread[u]
  BY <1>0, <1>3, <1>4, <1>4a, ThreadChanges
<1>6. GuardedAt(p, holder', thread'[ui], thread'[worker])
  BY <1>0, <1>2, <1>3, <1>4, <1>5 DEF GuardedAt, r
<1>7. s.up \notin {"down", "loading"}
  BY <1>0, <1>1 DEF TrackedAt, r, s
<1>8. TrackedAt(s, next, want[p])
  BY <1>0, <1>4, <1>7 DEF TrackedAt, r, s
<1>9. ASSUME OwedAt(p, s, r, want[p], current, backup)
      PROVE  OwedAt(p, s, next, want[p], current, backup)
  BY <1>1, <1>2, <1>4, <1>9 DEF OwedAt
<1>10. Tidy(p)
  BY <1>3, <1>5, <1>6, <1>8, <1>9 DEF Tidy, r, s
<1>11. Fresh(p)
  BY <1>2, <1>3, <1>4, <1>5 DEF Fresh, Enters
<1> QED
  BY <1>5, <1>10, <1>11

LEMMA CrashTidy ==
    ASSUME Settled, NEW p \in Procs, Crash(p)
    PROVE  /\ Alters(p) /\ Tidy(p)
           /\ \A u \in Threads : u[1] = p => thread'[u] = Idle
           /\ temp' \in TempRecord
           /\ temp' = temp \/ (temp.open # Nobody /\ temp.open[1] = p)
<1> DEFINE s == [Off EXCEPT !.ver = state[p].ver]
<1>0. /\ state[p] \in CoordinatorRecord /\ want[p] \in 0..MaxVersion /\ 0 \in 0..MaxVersion
      /\ state \in [Procs -> CoordinatorRecord] /\ holder \in Procs \cup {Nobody}
      /\ want \in [Procs -> 0..MaxVersion] /\ thread \in [Threads -> ThreadRecord]
      /\ temp \in TempRecord
      /\ <<p, "ui">> \in Threads /\ <<p, "worker">> \in Threads
      /\ <<p, "ui">>[1] = p /\ <<p, "worker">>[1] = p
      /\ Idle \in ThreadRecord /\ Idle.pc = "idle" /\ Idle.task = "none"
  BY CoordinatorRecords, BoundsAssumption, IdleRecord, ThreadNames
<1>1. /\ state' = [state EXCEPT ![p] = s]
      /\ want' = [want EXCEPT ![p] = 0]
      /\ holder' = IF holder = p THEN Nobody ELSE holder
      /\ scenario' = scenario /\ current' = current /\ backup' = backup
      /\ raced' = (raced \/ Racing)
  BY DEF Crash, Watch
<1>2. thread' = [t \in Threads |-> IF t[1] = p THEN Idle ELSE thread[t]]
  BY DEF Crash
<1>3. temp' = IF temp.open # Nobody /\ temp.open[1] = p THEN Close(temp, temp.form) ELSE temp
  BY DEF Crash
<1>4. s \in CoordinatorRecord /\ s.up = "down" /\ s.latest = 0
  <2>1. state[p].ver \in 0..MaxVersion
    BY <1>0 DEF CoordinatorRecord
  <2> QED
    BY <1>0, <2>1 DEF CoordinatorRecord, Off
<1> HIDE DEF s
<1>5. /\ state' \in [Procs -> CoordinatorRecord] /\ state'[p] = s
      /\ \A q \in Procs \ {p} : state'[q] = state[q]
  BY <1>0, <1>1, <1>4
<1>6. /\ want' \in [Procs -> 0..MaxVersion] /\ want'[p] = 0
      /\ \A q \in Procs \ {p} : want'[q] = want[q]
  BY <1>0, <1>1
<1>7. /\ thread' \in [Threads -> ThreadRecord]
      /\ \A u \in Threads : u[1] = p => thread'[u] = Idle
      /\ \A u \in Threads : u[1] # p => thread'[u] = thread[u]
  BY <1>0, <1>2
<1>8. holder' \in Procs \cup {Nobody} /\ holder' # p
      /\ \A q \in Procs \ {p} : holder = q => holder' = q
  BY <1>0, <1>1, NamesAssumption
<1>9. temp' \in TempRecord
  <2>1. temp.form \in {"absent", "bad", "ok"}
    BY <1>0 DEF TempRecord
  <2>2. Close(temp, temp.form) \in TempRecord
    <3> DEFINE form == temp.form
    <3>1. form \in {"absent", "bad", "ok"}
      BY <2>1
    <3> HIDE DEF form
    <3>2. Close(temp, form) \in TempRecord
      BY <1>0, <3>1, TempTypes
    <3> QED
      BY <3>2 DEF form
  <2> QED
    BY <1>0, <1>3, <2>2
<1>10. temp' = temp \/ (temp.open # Nobody /\ temp.open[1] = p)
  BY <1>3
<1>11. Alters(p)
  BY <1>1, <1>5, <1>6, <1>7, <1>8 DEF Alters
<1>12. thread'[<<p, "ui">>] = Idle /\ thread'[<<p, "worker">>] = Idle
  BY <1>0, <1>7
<1>13. GuardedAt(p, holder', thread'[<<p, "ui">>], thread'[<<p, "worker">>])
  BY <1>0, <1>12 DEF GuardedAt
<1>14. TrackedAt(state'[p], thread'[<<p, "worker">>], want'[p])
  BY <1>0, <1>4, <1>5, <1>6, <1>12 DEF TrackedAt
<1>15. Tidy(p)
  BY <1>1, <1>4, <1>5, <1>13, <1>14 DEF Tidy
<1> QED
  BY <1>7, <1>9, <1>10, <1>11, <1>15

LEMMA AltersSettled ==
    ASSUME Settled, NEW p \in Procs, Alters(p), Tidy(p), temp' \in TempRecord
    PROVE  Settled'
<1>1. Shapes'
  BY DEF Settled, Shapes, Alters
<1>2. ASSUME NEW q \in Procs
      PROVE  /\ GuardedAt(q, holder', thread'[<<q, "ui">>], thread'[<<q, "worker">>])
             /\ TrackedAt(state'[q], thread'[<<q, "worker">>], want'[q])
  <2>1. CASE q = p
    BY <2>1 DEF Tidy
  <2>2. CASE q # p
    <3>1. /\ GuardedAt(q, holder, thread[<<q, "ui">>], thread[<<q, "worker">>])
          /\ TrackedAt(state[q], thread[<<q, "worker">>], want[q])
      BY CoordinatorRecords
    <3>2. /\ thread'[<<q, "ui">>] = thread[<<q, "ui">>]
          /\ thread'[<<q, "worker">>] = thread[<<q, "worker">>]
          /\ state'[q] = state[q] /\ want'[q] = want[q] /\ (holder = q => holder' = q)
      BY <2>2, ThreadNames DEF Alters
    <3> QED
      BY <3>1, <3>2 DEF GuardedAt
  <2> QED
    BY <2>1, <2>2
<1> QED
  BY <1>1, <1>2, ByProcessNext DEF Settled

\* Every step of Next is one of the store, one that ends before the store, or
\* one of a coordinator.
LEMMA StepsOfNext ==
    ASSUME Settled, Next
    PROVE  \/ \E t \in Threads : StoreStep(t)
           \/ \E p \in Procs : AcquireTimesOut(p) \/ BookmarksFail(p)
           \/ \E p \in Procs : Alters(p) /\ Tidy(p) /\ Fresh(p)
           \/ \E p \in Procs : Crash(p)
<1>1. \/ \E t \in Threads : StoreStep(t)
      \/ \E p \in Procs :
            \/ WorkerStep(p) \/ AcquireTimesOut(p) \/ BookmarksFail(p)
            \/ Start(p) \/ StartCoordinator(p) \/ LoadClosedWindows(p)
            \/ Accept(p) \/ RequestReset(p) \/ Shutdown(p) \/ Exit(p) \/ Crash(p)
  BY DEF Next
<1>2. ASSUME NEW p \in Procs,
             \/ WorkerStep(p) \/ AcquireTimesOut(p) \/ BookmarksFail(p)
             \/ Start(p) \/ StartCoordinator(p) \/ LoadClosedWindows(p)
             \/ Accept(p) \/ RequestReset(p) \/ Shutdown(p) \/ Exit(p) \/ Crash(p)
      PROVE  \/ AcquireTimesOut(p) \/ BookmarksFail(p) \/ Crash(p)
             \/ Alters(p) /\ Tidy(p) /\ Fresh(p)
  <2>1. CASE WorkerStep(p)
    BY <2>1, TakeTidy, AcquireTidy, CompleteTidy DEF WorkerStep
  <2>2. CASE Start(p) \/ LoadClosedWindows(p)
    BY <2>2, LoadTidy
  <2>3. CASE StartCoordinator(p) \/ Shutdown(p) \/ Exit(p)
    BY <2>3, UpTidy
  <2>4. CASE Accept(p)
    BY <2>4, AcceptTidy
  <2>5. CASE RequestReset(p)
    BY <2>5, ResetTidy
  <2> QED
    BY <1>2, <2>1, <2>2, <2>3, <2>4, <2>5
<1> QED
  BY <1>1, <1>2

\* A worker that gives up before it comes to the store.
LEMMA GivesUp ==
    ASSUME Settled, NEW p \in Procs, AcquireTimesOut(p) \/ BookmarksFail(p)
    PROVE  /\ Settled' /\ Step(<<p, "worker">>, Finished(<<p, "worker">>, FALSE))
           /\ <<p, "worker">> \in Threads /\ thread[<<p, "worker">>].pc = "acquire"
           /\ thread[<<p, "worker">>].task # "load"
           /\ UNCHANGED <<current, backup, temp, want>>
<1> DEFINE t == <<p, "worker">>
           next == Finished(t, FALSE)
<1>1. /\ t \in Threads /\ thread \in [Threads -> ThreadRecord]
      /\ GuardedAt(p, holder, thread[<<p, "ui">>], thread[t])
  BY CoordinatorRecords
<1>2. /\ thread[t].pc = "acquire" /\ Step(t, next)
      /\ UNCHANGED <<current, backup, temp, want>>
  BY DEF AcquireTimesOut, BookmarksFail, At, disk
<1>3. thread[t].task # "load"
  BY <1>1 DEF GuardedAt
<1>4. next.pc = "done"
  <2>1. next = [thread[t] EXCEPT !.pc = "done", !.ok = FALSE]
    BY <1>3 DEF Finished
  <2>2. thread[t] \in ThreadRecord
    BY <1>1
  <2> QED
    BY <2>1, <2>2 DEF ThreadRecord
<1>5. Follows(thread[t], next)
  BY <1>1, FinishedFollows
<1>6. FilesTyped /\ Shrinks
  BY <1>2, <1>1 DEF Settled, Shapes, FilesTyped, Shrinks
<1> HIDE DEF next
<1>7. Settled'
  <2> HIDE DEF t
  <2> QED
    BY <1>1, <1>2, <1>4, <1>5, <1>6, StepSettled
<1> QED
  BY <1>1, <1>2, <1>3, <1>7 DEF next

LEMMA StoreStepSettled ==
    ASSUME Settled, NEW t \in Threads, StoreStep(t)
    PROVE  Settled'
<1>1. Inside(t) /\ Steps(t) /\ FilesTyped /\ Shrinks
  BY StoreStepTypes DEF Settled
<1>2. PICK next : Follows(thread[t], next) /\ Step(t, next)
  BY <1>1 DEF Steps
<1>3. thread[t].pc # "idle"
  BY <1>1 DEF Inside
<1> QED
  BY <1>1, <1>2, <1>3, StepSettled

LEMMA SettledInit == Init => Settled
<1> SUFFICES ASSUME Init PROVE Settled
  OBVIOUS
<1>1. /\ Idle \in ThreadRecord /\ Idle.pc = "idle" /\ Idle.task = "none"
      /\ NoTemp \in TempRecord /\ 0 \in 0..MaxVersion
  BY IdleRecord, AbsentFiles, BoundsAssumption
<1>2. Off \in CoordinatorRecord /\ Off.latest = 0 /\ Off.up = "down"
  BY <1>1 DEF Off, CoordinatorRecord
<1>3. /\ scenario \in Scenarios /\ current = scenario.current /\ backup = scenario.backup
      /\ temp = NoTemp /\ holder = Nobody /\ state = [p \in Procs |-> Off]
      /\ thread = [t \in Threads |-> Idle] /\ want = [p \in Procs |-> 0]
  BY DEF Init
<1>4. current \in SetFile /\ backup \in SetFile
  <2>1. /\ current \in File /\ OncePerWindow(current.set)
        /\ backup \in File /\ OncePerWindow(backup.set)
    BY <1>3, ScenariosAssumption
  <2> QED
    BY <2>1 DEF File, SetFile, WindowSets
<1>5. Shapes
  BY <1>1, <1>2, <1>3, <1>4 DEF Shapes
<1>6. \A p \in Procs : /\ thread[<<p, "ui">>] = Idle /\ thread[<<p, "worker">>] = Idle
                       /\ state[p] = Off /\ want[p] = 0
  BY <1>3, ThreadNames
<1>7. /\ \A p \in Procs : GuardedAt(p, holder, thread[<<p, "ui">>], thread[<<p, "worker">>])
      /\ \A p \in Procs : TrackedAt(state[p], thread[<<p, "worker">>], want[p])
  BY <1>1, <1>2, <1>6 DEF GuardedAt, TrackedAt
<1> QED
  BY <1>5, <1>7, ByProcess DEF Settled

LEMMA SettledNext == Settled /\ [Next]_vars => Settled'
<1> SUFFICES ASSUME Settled, [Next]_vars PROVE Settled'
  OBVIOUS
<1>1. CASE UNCHANGED vars
  <2>1. Shapes' /\ Guarded' /\ Tracked'
    BY <1>1 DEF Settled, Shapes, Guarded, InStore, Tracked, vars
  <2> QED
    BY <2>1 DEF Settled
<1>2. CASE Next
  <2>1. ASSUME NEW t \in Threads, StoreStep(t) PROVE Settled'
    BY <2>1, StoreStepSettled
  <2>2. ASSUME NEW p \in Procs, AcquireTimesOut(p) \/ BookmarksFail(p) PROVE Settled'
    BY <2>2, GivesUp
  <2>3. ASSUME NEW p \in Procs, Alters(p) /\ Tidy(p) /\ Fresh(p) PROVE Settled'
    <3>1. temp' \in TempRecord
      BY <2>3, CoordinatorRecords DEF Fresh
    <3> QED
      BY <2>3, <3>1, AltersSettled
  <2>4. ASSUME NEW p \in Procs, Crash(p) PROVE Settled'
    BY <2>4, CrashTidy, AltersSettled
  <2> QED
    BY <1>2, <2>1, <2>2, <2>3, <2>4, StepsOfNext
<1> QED
  BY <1>1, <1>2

LEMMA AlwaysSettled == Spec => []Settled
  BY SettledInit, SettledNext, PTL DEF Spec

-----------------------------------------------------------------------------
(* Types and the mutex                                                       *)

(* Whatever the disk holds at first, whatever is read, merged, written,      *)
(* reset or lost, files, coordinators and threads keep their shapes.         *)
THEOREM SessionTypeCorrect == Spec => []TypeOK
<1>1. Settled => TypeOK
  BY ShapesType DEF Settled
<1> QED
  BY <1>1, AlwaysSettled, PTL

(* Two workers are never in the store at once, although a waiter gives up    *)
(* after two seconds and a dead holder leaves its mutex to the next          *)
(* (SessionWriteMutex): the worker in the store is the one the mutex names.  *)
THEOREM GuardedWritesAreExclusive == Spec => []GuardedWritesExclude
<1>1. Settled => GuardedWritesExclude
  BY DEF Settled, Guarded, GuardedWritesExclude
<1> QED
  BY <1>1, AlwaysSettled, PTL

-----------------------------------------------------------------------------
(* What a thread knows of the files                                          *)

LEMMA RecordFields ==
    ASSUME NEW r \in ThreadRecord
    PROVE  /\ r.pc \in Pcs /\ r.task \in Tasks /\ r.ver \in 0..MaxVersion
           /\ r.migrating \in BOOLEAN /\ r.blind \in BOOLEAN /\ r.ok \in BOOLEAN
           /\ r.out \in WindowSets /\ r.path \in {"current", "backup"}
  BY DEF ThreadRecord

\* A read that reports the files as load would, or an error, leaves its thread
\* with a set that carries them over.
LEMMA LoadedFaithful ==
    ASSUME NEW t \in Threads, thread \in [Threads -> ThreadRecord],
           NEW result \in {"found", "none", "error"}, NEW entries \in WindowSets,
           NEW cur, NEW bak, NEW tmp,
           thread[t].task # "load" /\ Sound(cur, bak) =>
              result = "error" \/ (result = "found" /\ entries = Returned(cur, bak))
    PROVE  /\ Engages(Loaded(t, result, entries)) =>
                 Faithful(t, Loaded(t, result, entries), cur, bak, tmp)
           /\ ~(Loaded(t, result, entries).task = "save" /\ Loaded(t, result, entries).pc = "done")
<1> DEFINE r == thread[t]
           own == [win |-> t[1], ver |-> r.ver]
           n == Loaded(t, result, entries)
<1>0. r \in ThreadRecord /\ r.ver \in 0..MaxVersion /\ t[1] \in Procs
  BY RecordFields, ThreadNames
<1>1. own \in Entry /\ own.win = t[1] /\ own.ver = r.ver
  BY <1>0 DEF Entry, Windows
<1> HIDE DEF own
<1>2. CASE r.task = "load"
  <2>1. n = Idle
    BY <1>2 DEF Loaded, Finished
  <2> QED
    BY <2>1, IdleRecord DEF Engages
<1>3. CASE r.task = "save"
  <2> DEFINE out == IF result = "found" THEN Merge(entries, own) ELSE <<own>>
             blind == (result = "error")
             next == [r EXCEPT !.pc = "open", !.migrating = FALSE, !.blind = blind, !.out = out]
  <2>1. n = next
    BY <1>3 DEF Loaded, own
  <2>2. out \in WindowSets
    BY <1>1, MergeEntries, SingleSet
  <2>3. VersionIn(out, t[1]) = r.ver
    <3>1. CASE result = "found"
      BY <1>1, <3>1, MergeKeepsVersions
    <3>2. CASE result # "found"
      <4>1. <<own>> \in WindowSets /\ 1 \in 1..Len(<<own>>) /\ <<own>>[1] = own
        BY <1>1, SingleSet
      <4>2. out = <<own>>
        BY <3>2
      <4> HIDE DEF out
      <4>3. VersionIn(out, out[1].win) = out[1].ver
        BY <4>1, <4>2, VersionsIn
      <4> QED
        BY <1>1, <4>1, <4>2, <4>3
    <3> QED
      BY <3>1, <3>2
  <2>4. ASSUME NEW q \in Procs, q # t[1], result = "found"
        PROVE  \/ VersionIn(out, q) = VersionIn(entries, q)
               \/ VersionIn(out, q) = 0 /\ Len(out) = MaxWindows
    BY <1>1, <2>4, MergeKeepsVersions
  <2>5. ASSUME NEW q \in Procs, q # t[1], result = "error"
        PROVE  VersionIn(out, q) = 0
    <3>1. out = <<own>> /\ <<own>> \in WindowSets
      BY <1>1, <2>5, SingleSet
    <3>2. \A i \in 1..Len(<<own>>) : <<own>>[i].win # q
      BY <1>1, <2>5
    <3> HIDE DEF out
    <3>3. \A i \in 1..Len(out) : out[i].win # q
      BY <3>1, <3>2
    <3> QED
      BY <2>2, <3>3, VersionsIn
  <2> HIDE DEF out, r
  <2>6. blind \in BOOLEAN /\ (blind <=> result = "error")
    OBVIOUS
  <2> HIDE DEF blind
  <2>7. /\ next.pc = "open" /\ next.task = r.task /\ next.ver = r.ver /\ next.out = out
        /\ next.migrating = FALSE /\ next.blind = blind
    BY <1>0 DEF ThreadRecord
  <2> HIDE DEF next
  <2>8. ASSUME Sound(cur, bak)
        PROVE  Carries(t, next, Returned(cur, bak))
    <3>1. result = "error" \/ (result = "found" /\ entries = Returned(cur, bak))
      BY <1>3, <2>8 DEF r
    <3>2. ASSUME NEW q \in Procs, q # t[1]
          PROVE  \/ VersionIn(out, q) >= VersionIn(Returned(cur, bak), q)
                 \/ VersionIn(out, q) = 0 /\ (blind \/ Len(out) = MaxWindows)
      <4>1. CASE result = "error"
        BY <2>5, <2>6, <3>2, <4>1
      <4>2. CASE result = "found" /\ entries = Returned(cur, bak)
        <5>1. VersionIn(entries, q) \in 0..MaxVersion
          BY VersionsIn
        <5>2. VersionIn(entries, q) >= VersionIn(entries, q)
          BY <5>1, BoundsAssumption
        <5> QED
          BY <2>4, <3>2, <4>2, <5>2
      <4> QED
        BY <3>1, <4>1, <4>2
    <3> QED
      BY <1>3, <2>7, <3>2 DEF Carries
  <2>9. Faithful(t, next, cur, bak, tmp)
    BY <1>3, <2>3, <2>7, <2>8 DEF Faithful
  <2> QED
    BY <2>1, <2>7, <2>9
<1>4. CASE r.task = "view" /\ result = "found"
  <2> DEFINE next == [r EXCEPT !.pc = "open", !.migrating = FALSE, !.out = entries]
  <2>1. n = next
    BY <1>4 DEF Loaded
  <2> HIDE DEF r
  <2>2. /\ next.pc = "open" /\ next.task = r.task /\ next.ver = r.ver /\ next.out = entries
        /\ next.migrating = FALSE
    BY <1>0 DEF ThreadRecord
  <2> HIDE DEF next
  <2>3. ASSUME Sound(cur, bak)
        PROVE  Carries(t, next, Returned(cur, bak))
    <3>1. entries = Returned(cur, bak)
      BY <1>4, <2>3 DEF r
    <3>2. \A q \in Procs : VersionIn(entries, q) \in 0..MaxVersion
      BY VersionsIn
    <3>3. \A q \in Procs : VersionIn(entries, q) >= VersionIn(entries, q)
      BY <3>2, BoundsAssumption
    <3> QED
      BY <2>2, <3>1, <3>3 DEF Carries
  <2>4. Faithful(t, next, cur, bak, tmp)
    BY <1>4, <2>2, <2>3 DEF Faithful
  <2> QED
    BY <1>4, <2>1, <2>2, <2>4
<1>5. CASE r.task \notin {"load", "save"} /\ ~(r.task = "view" /\ result = "found")
  <2> DEFINE ok == (result = "none")
             next == [r EXCEPT !.pc = "done", !.ok = ok]
  <2>1. n = next
    BY <1>5 DEF Loaded, Finished
  <2> HIDE DEF r, ok
  <2>2. next.pc = "done" /\ next.task = r.task
    BY <1>0 DEF ThreadRecord
  <2> HIDE DEF next
  <2> QED
    BY <1>5, <2>1, <2>2 DEF Engages
<1> QED
  BY <1>2, <1>3, <1>4, <1>5

\* A call that ends is out of the store.
LEMMA FinishedFaithful ==
    ASSUME NEW t \in Threads, thread \in [Threads -> ThreadRecord], NEW ok \in BOOLEAN
    PROVE  /\ ~Engages(Finished(t, ok))
           /\ Finished(t, ok).task = "save" => Finished(t, ok).ok = ok /\ thread[t].task = "save"
<1> DEFINE r == thread[t]
<1>1. r \in ThreadRecord
  OBVIOUS
<1>2. CASE r.task = "load"
  BY <1>2, IdleRecord DEF Finished, Engages
<1>3. CASE r.task # "load"
  <2> DEFINE next == [r EXCEPT !.pc = "done", !.ok = ok]
  <2>1. Finished(t, ok) = next
    BY <1>3 DEF Finished
  <2> HIDE DEF r
  <2>2. next.pc = "done" /\ next.ok = ok /\ next.task = r.task
    BY <1>1 DEF ThreadRecord
  <2> HIDE DEF next
  <2> QED
    BY <2>1, <2>2 DEF Engages, r
<1> QED
  BY <1>2, <1>3

\* A write that fails: a migration is a read that failed, anything else ends.
LEMMA WriteFailedFaithful ==
    ASSUME NEW t \in Threads, thread \in [Threads -> ThreadRecord], NEW cur, NEW bak, NEW tmp
    PROVE  /\ Engages(WriteFailed(t)) => Faithful(t, WriteFailed(t), cur, bak, tmp)
           /\ ~(WriteFailed(t).task = "save" /\ WriteFailed(t).pc = "done" /\ WriteFailed(t).ok)
<1>1. CASE thread[t].migrating
  <2> DEFINE next == Loaded(t, "error", <<>>)
  <2>1. WriteFailed(t) = next
    BY <1>1 DEF WriteFailed
  <2>2. /\ Engages(next) => Faithful(t, next, cur, bak, tmp)
        /\ ~(next.task = "save" /\ next.pc = "done")
    BY EmptySet, LoadedFaithful
  <2> HIDE DEF next
  <2> QED
    BY <2>1, <2>2
<1>2. CASE ~thread[t].migrating
  <2> DEFINE next == Finished(t, FALSE)
  <2>1. WriteFailed(t) = next
    BY <1>2 DEF WriteFailed
  <2>2. ~Engages(next) /\ (next.task = "save" => next.ok = FALSE)
    BY FinishedFaithful
  <2> HIDE DEF next
  <2> QED
    BY <2>1, <2>2
<1> QED
  BY <1>1, <1>2

-----------------------------------------------------------------------------
(* What a step in the store leaves in the files                              *)

KeepsSecure(t) ==
    \A q \in Procs :
       Secures(q, want[q], current, backup) =>
          \/ want'[q] = 0
          \/ Secures(q, want[q], current', backup')
          \/ thread[t].task = "save" /\ q = t[1]

SavedOwn(t, r, cur, bak) ==
    r.task = "save" /\ r.pc = "done" /\ r.ok => Secures(t[1], r.ver, cur, bak)

StoreResult(t) ==
    /\ Engages(thread'[t]) => Faithful(t, thread'[t], current', backup', temp')
    /\ (current' = current /\ backup' = backup /\ temp' = temp) \/ Engages(thread[t])
    /\ KeepsSecure(t)
    /\ SavedOwn(t, thread'[t], current', backup')

LEMMA Results ==
    ASSUME Shapes, NEW t \in Threads, NEW next, Step(t, next),
           Engages(next) => Faithful(t, next, current', backup', temp'),
           (current' = current /\ backup' = backup /\ temp' = temp) \/ Engages(thread[t]),
           KeepsSecure(t), SavedOwn(t, next, current', backup')
    PROVE  StoreResult(t)
<1>1. thread'[t] = next
  BY DEF Shapes, Step
<1> QED
  BY <1>1 DEF StoreResult

LEMMA ResultsOut ==
    ASSUME Shapes, NEW t \in Threads, Step(t, WriteFailed(t)),
           (current' = current /\ backup' = backup /\ temp' = temp) \/ Engages(thread[t]),
           KeepsSecure(t)
    PROVE  StoreResult(t)
<1> DEFINE next == WriteFailed(t)
<1>1. thread \in [Threads -> ThreadRecord]
  BY DEF Shapes
<1>2. PICK cur, bak, tmp : cur = current' /\ bak = backup' /\ tmp = temp'
  OBVIOUS
<1>3. /\ Engages(next) => Faithful(t, next, cur, bak, tmp)
      /\ ~(next.task = "save" /\ next.pc = "done" /\ next.ok)
  BY <1>1, WriteFailedFaithful
<1> HIDE DEF next
<1>4. Engages(next) => Faithful(t, next, current', backup', temp')
  BY <1>2, <1>3
<1>5. SavedOwn(t, next, current', backup')
  BY <1>3 DEF SavedOwn
<1>6. Step(t, next)
  BY DEF next
<1> QED
  BY <1>4, <1>5, <1>6, Results

LEMMA Unmoved ==
    ASSUME NEW t, current' = current, backup' = backup
    PROVE  KeepsSecure(t)
  BY DEF KeepsSecure

LEMMA SoundForms ==
    ASSUME NEW cur, NEW bak
    PROVE  /\ Sound(cur, bak) => cur.form = "ok" \/ cur.form = "absent"
           /\ cur.form = "ok" => Sound(cur, bak) /\ Returned(cur, bak) = cur.set
           /\ Sound(cur, bak) /\ cur.form # "ok" => /\ cur.form = "absent" /\ bak.form = "ok"
                                                   /\ Returned(cur, bak) = bak.set
  BY DEF Sound, Returned, Loadable

\* One file read: what the thread takes from it, and from the files it had
\* found before.
LEMMA ReadResult ==
    ASSUME Shapes, NEW t \in Threads, NEW pc \in {"current", "backup"}, NEW file \in SetFile,
           NEW path \in {"current", "backup"}, NEW absent,
           Read(t, pc, file, path, absent),
           file = IF path = "current" THEN current ELSE backup,
           file.form = "absent" => /\ Engages(absent) => Faithful(t, absent, current, backup, temp)
                                   /\ ~(absent.task = "save" /\ absent.pc = "done"),
           thread[t].task # "load" /\ path = "backup" => current.form # "ok",
           file.form = "old" => ~Sound(current, backup),
           thread[t].task # "load" /\ Sound(current, backup) /\ file.form = "ok" =>
              file.set = Returned(current, backup)
    PROVE  StoreResult(t)
<1> DEFINE r == thread[t]
<1>0. /\ thread \in [Threads -> ThreadRecord] /\ r \in ThreadRecord
      /\ file.set \in WindowSets /\ <<>> \in WindowSets
  BY EmptySet DEF Shapes, SetFile
<1>1. current' = current /\ backup' = backup /\ temp' = temp
  BY DEF Read, disk
<1>2. KeepsSecure(t)
  BY <1>1, Unmoved
<1>3. ASSUME NEW next, Step(t, next),
             Engages(next) => Faithful(t, next, current, backup, temp),
             ~(next.task = "save" /\ next.pc = "done")
      PROVE  StoreResult(t)
  BY <1>1, <1>2, <1>3, Results DEF SavedOwn
<1>4. CASE file.form = "absent" /\ Step(t, absent)
  BY <1>3, <1>4
<1>5. CASE file.form = "bad" /\ Step(t, [thread[t] EXCEPT !.pc = "quarantine", !.path = path])
  <2> DEFINE next == [r EXCEPT !.pc = "quarantine", !.path = path]
  <2>1. Step(t, next)
    BY <1>5
  <2>2. r.task # "load" => current.form # "ok"
    BY <1>5
  <2> HIDE DEF r
  <2>3. next.pc = "quarantine" /\ next.path = path /\ next.task = r.task
    BY <1>0 DEF ThreadRecord
  <2> HIDE DEF next
  <2>4. Faithful(t, next, current, backup, temp)
    BY <1>5, <2>2, <2>3 DEF Faithful, Writes
  <2> QED
    BY <1>3, <2>1, <2>3, <2>4
<1>6. CASE file.form = "old" /\ Step(t, [thread[t] EXCEPT !.pc = "open", !.migrating = TRUE,
                                                   !.path = path, !.out = file.set])
  <2> DEFINE out == file.set
             next == [r EXCEPT !.pc = "open", !.migrating = TRUE, !.path = path, !.out = out]
  <2>1. Step(t, next)
    BY <1>6
  <2> HIDE DEF r, out
  <2>2. next.pc = "open" /\ next.migrating = TRUE
    BY <1>0 DEF ThreadRecord
  <2> HIDE DEF next
  <2>3. Faithful(t, next, current, backup, temp)
    BY <1>6, <2>2 DEF Faithful, Writes
  <2> QED
    BY <1>3, <2>1, <2>2, <2>3
<1>7. CASE file.form = "ok" /\ Step(t, Loaded(t, "found", file.set))
  <2> DEFINE out == file.set
             next == Loaded(t, "found", out)
  <2>1. Step(t, next) /\ out \in WindowSets
    BY <1>0, <1>7
  <2>2. thread[t].task # "load" /\ Sound(current, backup) => out = Returned(current, backup)
    BY <1>7
  <2> HIDE DEF out
  <2>3. /\ Engages(next) => Faithful(t, next, current, backup, temp)
        /\ ~(next.task = "save" /\ next.pc = "done")
    BY <1>0, <2>1, <2>2, LoadedFaithful
  <2> HIDE DEF next
  <2> QED
    BY <1>3, <2>1, <2>3
<1>8. CASE Step(t, Loaded(t, "error", <<>>))
  <2> DEFINE next == Loaded(t, "error", <<>>)
  <2>1. Step(t, next)
    BY <1>8
  <2>2. /\ Engages(next) => Faithful(t, next, current, backup, temp)
        /\ ~(next.task = "save" /\ next.pc = "done")
    BY <1>0, LoadedFaithful
  <2> HIDE DEF next
  <2> QED
    BY <1>3, <2>1, <2>2
<1>9. \/ file.form = "absent" /\ Step(t, absent)
      \/ file.form = "bad" /\ Step(t, [thread[t] EXCEPT !.pc = "quarantine", !.path = path])
      \/ file.form = "old" /\ Step(t, [thread[t] EXCEPT !.pc = "open", !.migrating = TRUE,
                                                 !.path = path, !.out = file.set])
      \/ file.form = "ok" /\ Step(t, Loaded(t, "found", file.set))
      \/ Step(t, Loaded(t, "error", <<>>))
  BY DEF Read
<1> QED
  BY <1>4, <1>5, <1>6, <1>7, <1>8, <1>9

LEMMA ReadCurrentResult ==
    ASSUME Shapes, NEW t \in Threads, ReadCurrent(t)
    PROVE  StoreResult(t)
<1> DEFINE r == thread[t]
           next == [r EXCEPT !.pc = "backup"]
<1>0. current \in SetFile /\ r \in ThreadRecord
  BY DEF Shapes
<1>1. Read(t, "current", current, "current", next)
  BY DEF ReadCurrent
<1> HIDE DEF r
<1>2. next.pc = "backup" /\ next.task = r.task
  BY <1>0 DEF ThreadRecord
<1> HIDE DEF next
<1>3. current.form = "absent" => /\ Engages(next) => Faithful(t, next, current, backup, temp)
                                 /\ ~(next.task = "save" /\ next.pc = "done")
  BY <1>2 DEF Faithful, Writes
<1>4. /\ current.form = "old" => ~Sound(current, backup)
      /\ current.form = "ok" => current.set = Returned(current, backup)
  BY SoundForms
<1> QED
  BY <1>0, <1>1, <1>3, <1>4, ReadResult

LEMMA ReadBackupResult ==
    ASSUME Shapes, NEW t \in Threads, ReadBackup(t), ~Racing,
           Engages(thread[t]) => Faithful(t, thread[t], current, backup, temp)
    PROVE  StoreResult(t)
<1> DEFINE r == thread[t]
           next == Loaded(t, "none", <<>>)
<1>0. /\ backup \in SetFile /\ r \in ThreadRecord /\ thread \in [Threads -> ThreadRecord]
      /\ <<>> \in WindowSets /\ r.pc = "backup"
  BY EmptySet DEF Shapes, ReadBackup, Read, At
<1>1. Read(t, "backup", backup, "backup", next)
  BY DEF ReadBackup
<1>2. r.task # "load" => current.form # "ok"
  BY <1>0 DEF Engages, Faithful
<1>3. r.task = "load" /\ backup.form = "old" => ~Loadable(current)
  BY <1>0 DEF Racing
<1>4. backup.form = "old" => ~Sound(current, backup)
  <2>1. ~Loadable(current) => current.form # "ok"
    BY DEF Loadable
  <2> QED
    BY <1>2, <1>3, <2>1, SoundForms
<1>5. r.task # "load" /\ Sound(current, backup) => /\ backup.form = "ok"
                                                   /\ backup.set = Returned(current, backup)
  BY <1>2, SoundForms
<1>6. backup.form = "absent" => /\ Engages(next) => Faithful(t, next, current, backup, temp)
                                /\ ~(next.task = "save" /\ next.pc = "done")
  <2> SUFFICES ASSUME backup.form = "absent"
               PROVE  /\ Engages(next) => Faithful(t, next, current, backup, temp)
                      /\ ~(next.task = "save" /\ next.pc = "done")
    OBVIOUS
  <2>1. ~(thread[t].task # "load" /\ Sound(current, backup))
    BY <1>5
  <2> QED
    BY <1>0, <2>1, LoadedFaithful
<1> HIDE DEF next
<1> QED
  BY <1>0, <1>1, <1>2, <1>4, <1>5, <1>6, ReadResult

LEMMA QuarantineResult ==
    ASSUME Shapes, NEW t \in Threads, Quarantine(t),
           Engages(thread[t]) => Faithful(t, thread[t], current, backup, temp)
    PROVE  StoreResult(t)
<1> DEFINE r == thread[t]
<1>0. /\ r \in ThreadRecord /\ thread \in [Threads -> ThreadRecord]
      /\ <<>> \in WindowSets /\ r.pc = "quarantine" /\ temp' = temp
  BY EmptySet DEF Shapes, Quarantine, At
<1>1. Engages(r)
  BY <1>0 DEF Engages
<1>2. /\ IF r.path = "current" THEN current.form = "bad" ELSE backup.form = "bad"
      /\ r.task # "load" => current.form # "ok"
  BY <1>0, <1>1 DEF Faithful
<1>3. Absent.form = "absent"
  BY DEF Absent
<1>4. CASE r.path = "current"
  <2> DEFINE next == [r EXCEPT !.pc = "backup"]
  <2>1. Step(t, next) /\ current' \in {current, Absent} /\ backup' = backup
    BY <1>4 DEF Quarantine
  <2>2. current'.form # "ok" /\ current.form = "bad"
    BY <1>2, <1>3, <1>4, <2>1
  <2> HIDE DEF r
  <2>3. next.pc = "backup" /\ next.task = r.task
    BY <1>0 DEF ThreadRecord
  <2> HIDE DEF next
  <2>4. Faithful(t, next, current', backup', temp')
    BY <2>2, <2>3 DEF Faithful, Writes
  <2>5. KeepsSecure(t)
    BY <2>2, SoundForms DEF KeepsSecure, Secures
  <2>6. SavedOwn(t, next, current', backup')
    BY <2>3 DEF SavedOwn
  <2> QED
    BY <1>1, <2>1, <2>4, <2>5, <2>6, Results DEF r
<1>5. CASE r.path # "current"
  <2> DEFINE next == Loaded(t, "none", <<>>)
  <2>1. Step(t, next) /\ backup' \in {backup, Absent} /\ current' = current
    BY <1>5 DEF Quarantine
  <2>2. backup'.form # "ok" /\ backup.form = "bad"
    BY <1>2, <1>3, <1>5, <2>1
  <2>3. PICK cur, bak, tmp : cur = current' /\ bak = backup' /\ tmp = temp'
    OBVIOUS
  <2>4. ~(thread[t].task # "load" /\ Sound(cur, bak))
    BY <1>2, <2>1, <2>2, <2>3, SoundForms
  <2>5. /\ Engages(next) => Faithful(t, next, cur, bak, tmp)
        /\ ~(next.task = "save" /\ next.pc = "done")
    BY <1>0, <2>4, LoadedFaithful
  <2> HIDE DEF next
  <2>6. Engages(next) => Faithful(t, next, current', backup', temp')
    BY <2>3, <2>5
  <2>7. SavedOwn(t, next, current', backup')
    BY <2>5 DEF SavedOwn
  <2>8. ASSUME Sound(current, backup)
        PROVE  Sound(current', backup') /\ Returned(current', backup') = Returned(current, backup)
    <3>1. current.form = "ok"
      BY <2>2, <2>8, SoundForms
    <3> QED
      BY <2>1, <3>1, SoundForms
  <2>9. KeepsSecure(t)
    BY <2>8 DEF KeepsSecure, Secures
  <2> QED
    BY <1>1, <2>1, <2>6, <2>7, <2>9, Results
<1> QED
  BY <1>4, <1>5

\* Files that are no sounder than others, and return the same.
NoSounder(cur2, bak2, cur, bak) ==
    Sound(cur2, bak2) => Sound(cur, bak) /\ Returned(cur2, bak2) = Returned(cur, bak)

\* A writing thread that goes on, over files that are no sounder than before.
LEMMA WritesOn ==
    ASSUME NEW t \in Threads, NEW r \in ThreadRecord, NEW cur, NEW bak, NEW tmp,
           Writes(r), Faithful(t, r, cur, bak, tmp),
           NEW pc \in {"fill", "rotate", "move"}, NEW cur2, NEW bak2, NEW tmp2,
           NoSounder(cur2, bak2, cur, bak),
           pc = "fill" => tmp2.open = t /\ tmp2.set = r.out,
           pc # "fill" => tmp2.form = "ok" /\ tmp2.set = r.out /\ tmp2.open = Nobody
    PROVE  /\ Faithful(t, [r EXCEPT !.pc = pc], cur2, bak2, tmp2)
           /\ [r EXCEPT !.pc = pc].pc = pc
<1> DEFINE next == [r EXCEPT !.pc = pc]
<1>1. /\ next.pc = pc /\ next.task = r.task /\ next.ver = r.ver /\ next.out = r.out
      /\ next.migrating = r.migrating /\ next.blind = r.blind
  BY DEF ThreadRecord
<1> HIDE DEF next
<1>2. /\ r.migrating => ~Sound(cur, bak)
      /\ r.task = "load" => r.migrating
      /\ ~r.migrating /\ r.task = "save" => VersionIn(r.out, t[1]) = r.ver
      /\ ~r.migrating /\ Sound(cur, bak) => Carries(t, r, Returned(cur, bak))
  BY DEF Faithful
<1>3. ~next.migrating /\ Sound(cur2, bak2) => Carries(t, next, Returned(cur2, bak2))
  BY <1>1, <1>2 DEF Carries, NoSounder
<1>4. next.migrating => ~Sound(cur2, bak2)
  BY <1>1, <1>2 DEF NoSounder
<1> QED
  BY <1>1, <1>2, <1>3, <1>4 DEF Faithful, next

LEMMA OpenResult ==
    ASSUME Shapes, NEW t \in Threads, OpenTemporary(t),
           Engages(thread[t]) => Faithful(t, thread[t], current, backup, temp)
    PROVE  StoreResult(t)
<1> DEFINE r == thread[t]
<1>0. /\ r \in ThreadRecord /\ r.pc = "open" /\ current' = current /\ backup' = backup
  BY DEF Shapes, OpenTemporary, At
<1>1. Engages(r) /\ Writes(r) /\ KeepsSecure(t)
  BY <1>0, Unmoved DEF Engages, Writes
<1>2. CASE /\ temp' = [form |-> "bad", set |-> thread[t].out, open |-> t]
           /\ Step(t, [thread[t] EXCEPT !.pc = "fill"])
  <2> DEFINE next == [r EXCEPT !.pc = "fill"]
  <2>1. Step(t, next) /\ temp'.open = t /\ temp'.set = r.out
    BY <1>2
  <2>2. PICK cur, bak, tmp : cur = current' /\ bak = backup' /\ tmp = temp'
    OBVIOUS
  <2>2a. Faithful(t, r, current, backup, temp)
    BY <1>1
  <2>2b. NoSounder(cur, bak, current, backup)
    BY <1>0, <2>2 DEF NoSounder
  <2> HIDE DEF r
  <2>3. Faithful(t, next, cur, bak, tmp) /\ next.pc = "fill"
    BY <1>0, <1>1, <2>1, <2>2, <2>2a, <2>2b, WritesOn
  <2> HIDE DEF next
  <2>4. Faithful(t, next, current', backup', temp')
    BY <2>2, <2>3
  <2> QED
    BY <1>1, <2>1, <2>3, <2>4, Results DEF SavedOwn, r
<1>3. CASE Step(t, WriteFailed(t))
  BY <1>1, <1>3, ResultsOut
<1> QED
  BY <1>2, <1>3 DEF OpenTemporary

LEMMA FillResult ==
    ASSUME Shapes, NEW t \in Threads, FillTemporary(t),
           Engages(thread[t]) => Faithful(t, thread[t], current, backup, temp)
    PROVE  StoreResult(t)
<1> DEFINE r == thread[t]
<1>0. /\ r \in ThreadRecord /\ r.pc = "fill" /\ current' = current /\ backup' = backup
      /\ temp \in TempRecord
  BY DEF Shapes, FillTemporary, At
<1>1. Engages(r) /\ Writes(r) /\ KeepsSecure(t)
  BY <1>0, Unmoved DEF Engages, Writes
<1>1a. Faithful(t, r, current, backup, temp)
  BY <1>1
<1>1b. temp.open = t /\ temp.set = r.out
  BY <1>0, <1>1a DEF Faithful
<1>2. CASE /\ temp' = IF temp.open = t THEN Close(temp, "ok") ELSE temp
           /\ Step(t, [thread[t] EXCEPT !.pc = IF current.form # "absent" THEN "rotate" ELSE "move"])
  <2>0. PICK pc \in {"rotate", "move"} :
           pc = IF current.form # "absent" THEN "rotate" ELSE "move"
    OBVIOUS
  <2> DEFINE next == [r EXCEPT !.pc = pc]
  <2>1. Step(t, next)
    BY <1>2, <2>0
  <2>1a. temp'.form = "ok" /\ temp'.open = Nobody /\ temp'.set = r.out
    BY <1>0, <1>1b, <1>2 DEF Close, TempRecord
  <2>2. PICK cur, bak, tmp : cur = current' /\ bak = backup' /\ tmp = temp'
    OBVIOUS
  <2>2a. NoSounder(cur, bak, current, backup)
    BY <1>0, <2>2 DEF NoSounder
  <2> HIDE DEF r
  <2>3. Faithful(t, next, cur, bak, tmp) /\ next.pc = pc
    BY <1>0, <1>1, <1>1a, <2>1a, <2>2, <2>2a, WritesOn
  <2> HIDE DEF next
  <2>4. Faithful(t, next, current', backup', temp')
    BY <2>2, <2>3
  <2> QED
    BY <1>1, <2>1, <2>3, <2>4, Results DEF SavedOwn, r
<1>3. CASE Step(t, WriteFailed(t))
  BY <1>1, <1>3, ResultsOut
<1> QED
  BY <1>2, <1>3 DEF FillTemporary

\* The current file becomes the backup: what load returns stays the same.
LEMMA RotateResult ==
    ASSUME Shapes, NEW t \in Threads, Rotate(t),
           Engages(thread[t]) => Faithful(t, thread[t], current, backup, temp)
    PROVE  StoreResult(t)
<1> DEFINE r == thread[t]
<1>0. r \in ThreadRecord /\ r.pc = "rotate" /\ temp' = temp /\ want' = want
  BY DEF Shapes, Rotate, At
<1>1. Engages(r) /\ Writes(r)
  BY <1>0 DEF Engages, Writes
<1>1a. Faithful(t, r, current, backup, temp)
  BY <1>1
<1>1b. temp.form = "ok" /\ temp.set = r.out /\ temp.open = Nobody
  BY <1>0, <1>1a DEF Faithful
<1>2. CASE /\ current.form # "absent" /\ backup' = current /\ current' = Absent
           /\ Step(t, [thread[t] EXCEPT !.pc = "move"])
  <2> DEFINE next == [r EXCEPT !.pc = "move"]
  <2>1. Step(t, next)
    BY <1>2
  <2>2. PICK cur, bak, tmp : cur = current' /\ bak = backup' /\ tmp = temp'
    OBVIOUS
  <2>3. cur = Absent /\ Absent.form = "absent" /\ bak = current
    BY <1>2, <2>2 DEF Absent
  <2>4. Sound(cur, bak) <=> current.form = "ok"
    BY <2>3 DEF Sound
  <2>5. Sound(cur, bak) => Returned(cur, bak) = current.set
    BY <2>3, <2>4, SoundForms
  <2>6. Sound(cur, bak) => Sound(current, backup) /\ Returned(cur, bak) = Returned(current, backup)
    BY <2>4, <2>5, SoundForms
  <2>7. Sound(current, backup) => Sound(cur, bak)
    BY <1>2, <2>4, SoundForms
  <2>8. KeepsSecure(t)
    BY <2>2, <2>6, <2>7 DEF KeepsSecure, Secures
  <2> HIDE DEF r
  <2>8a. tmp.form = "ok" /\ tmp.set = r.out /\ tmp.open = Nobody
    BY <1>0, <1>1b, <2>2
  <2>9. Faithful(t, next, cur, bak, tmp) /\ next.pc = "move"
    <3>1. NoSounder(cur, bak, current, backup)
      BY <2>6 DEF NoSounder
    <3> QED
      BY <1>0, <1>1, <1>1a, <2>8a, <3>1, WritesOn
  <2> HIDE DEF next
  <2>10. Faithful(t, next, current', backup', temp')
    BY <2>2, <2>9
  <2> QED
    BY <1>1, <2>1, <2>8, <2>9, <2>10, Results DEF SavedOwn, r
<1>3. CASE Step(t, WriteFailed(t)) /\ current' = current /\ backup' = backup
  BY <1>1, <1>3, Unmoved, ResultsOut
<1> QED
  BY <1>2, <1>3 DEF Rotate

\* The temporary file becomes the current one: load returns what t carried.
LEMMA MoveResult ==
    ASSUME Shapes, NEW t \in Threads, Move(t),
           Engages(thread[t]) => Faithful(t, thread[t], current, backup, temp)
    PROVE  StoreResult(t)
<1> DEFINE r == thread[t]
<1>0. /\ r \in ThreadRecord /\ r.pc = "move" /\ backup' = backup /\ want \in [Procs -> 0..MaxVersion]
      /\ thread \in [Threads -> ThreadRecord] /\ r.out \in WindowSets
  BY RecordFields DEF Shapes, Move, At
<1>1. Engages(r) /\ Writes(r)
  BY <1>0 DEF Engages, Writes
<1>1a. Faithful(t, r, current, backup, temp)
  BY <1>1
<1>1b. temp.form = "ok" /\ temp.set = r.out /\ temp.open = Nobody
  BY <1>0, <1>1a DEF Faithful
<1>1c. /\ r.migrating => ~Sound(current, backup)
       /\ r.task = "load" => r.migrating
       /\ ~r.migrating /\ r.task = "save" => VersionIn(r.out, t[1]) = r.ver
       /\ ~r.migrating /\ Sound(current, backup) => Carries(t, r, Returned(current, backup))
  BY <1>1, <1>1a DEF Faithful
<1>2. CASE /\ current' = [form |-> temp.form, set |-> temp.set]
           /\ Step(t, WriteSucceeded(t))
           /\ Forgive(LAMBDA q : /\ VersionIn(temp.set, q) = 0
                                 /\ thread[t].blind \/ Len(temp.set) = MaxWindows)
  <2>1. current'.form = "ok" /\ current'.set = r.out
    BY <1>1b, <1>2
  <2>2. PICK cur, bak, tmp : cur = current' /\ bak = backup' /\ tmp = temp'
    OBVIOUS
  <2>3. Sound(cur, bak) /\ Returned(cur, bak) = r.out
    BY <2>1, <2>2, SoundForms
  <2>4. OnDisk = Returned(current, backup)
    BY DEF OnDisk, Returned
  <2>5. \A q \in Procs :
           want'[q] = IF /\ VersionIn(r.out, q) = 0
                         /\ r.blind \/ Len(r.out) = MaxWindows
                         /\ want[q] <= VersionIn(Returned(current, backup), q)
                      THEN 0 ELSE want[q]
    BY <1>1b, <1>2, <2>4 DEF Forgive
  <2>6. KeepsSecure(t)
    <3> SUFFICES ASSUME NEW q \in Procs, Secures(q, want[q], current, backup),
                        ~(r.task = "save" /\ q = t[1])
                 PROVE  want'[q] = 0 \/ Secures(q, want[q], cur, bak)
      BY <2>2 DEF KeepsSecure
    <3>1. Sound(current, backup) /\ VersionIn(Returned(current, backup), q) >= want[q]
      BY DEF Secures
    <3>2. Carries(t, r, Returned(current, backup))
      BY <1>1c, <3>1
    <3>3. \/ VersionIn(r.out, q) >= VersionIn(Returned(current, backup), q)
          \/ VersionIn(r.out, q) = 0 /\ (r.blind \/ Len(r.out) = MaxWindows)
      BY <3>2 DEF Carries
    <3>4. /\ VersionIn(r.out, q) \in 0..MaxVersion
          /\ VersionIn(Returned(current, backup), q) \in 0..MaxVersion
          /\ want[q] \in 0..MaxVersion
      <4>1. Returned(current, backup) \in WindowSets
        <5>1. current.set \in WindowSets /\ backup.set \in WindowSets
          BY DEF Shapes, SetFile
        <5> QED
          BY <5>1, EmptySet DEF Returned
      <4> DEFINE d == Returned(current, backup)
      <4>2. d \in WindowSets
        BY <4>1
      <4> HIDE DEF d
      <4>3. VersionIn(d, q) \in 0..MaxVersion
        BY <4>2, VersionsIn
      <4>4. VersionIn(r.out, q) \in 0..MaxVersion
        <5> DEFINE out == r.out
        <5>1. out \in WindowSets
          BY <1>0
        <5> HIDE DEF out
        <5>2. VersionIn(out, q) \in 0..MaxVersion
          BY <5>1, VersionsIn
        <5> QED
          BY <5>2 DEF out
      <4> QED
        BY <1>0, <4>3, <4>4 DEF d
    <3>5. PICK a, b, w : /\ a = VersionIn(r.out, q) /\ w = want[q]
                         /\ b = VersionIn(Returned(current, backup), q)
      OBVIOUS
    <3>6. CASE a >= b
      <4>1. a \in Int /\ b \in Int /\ w \in Int /\ b >= w
        BY <3>1, <3>4, <3>5, BoundsAssumption
      <4>2. a >= w
        BY <3>6, <4>1
      <4> QED
        BY <2>3, <3>5, <4>2 DEF Secures
    <3>7. CASE a = 0 /\ (r.blind \/ Len(r.out) = MaxWindows)
      <4>1. a \in Int /\ b \in Int /\ w \in Int /\ b >= w
        BY <3>1, <3>4, <3>5, BoundsAssumption
      <4>2. w <= b
        BY <4>1
      <4> QED
        BY <2>5, <3>5, <3>7, <4>2
    <3> QED
      BY <3>3, <3>5, <3>6, <3>7
  <2>7. CASE r.migrating
    <3> DEFINE out == thread[t].out
               next == Loaded(t, "found", out)
    <3>1. WriteSucceeded(t) = next
      BY <2>7 DEF WriteSucceeded
    <3>2. out \in WindowSets /\ out = Returned(cur, bak)
      BY <1>0, <2>3
    <3> HIDE DEF out
    <3>3. /\ Engages(next) => Faithful(t, next, cur, bak, tmp)
          /\ ~(next.task = "save" /\ next.pc = "done")
      BY <1>0, <3>2, LoadedFaithful
    <3> HIDE DEF next
    <3>4. Engages(next) => Faithful(t, next, current', backup', temp')
      BY <2>2, <3>3
    <3>5. SavedOwn(t, next, current', backup') /\ Step(t, next)
      BY <1>2, <3>1, <3>3 DEF SavedOwn
    <3> QED
      BY <1>1, <2>6, <3>4, <3>5, Results
  <2>8. CASE ~r.migrating
    <3> DEFINE next == [r EXCEPT !.pc = "done", !.ok = TRUE]
    <3>1. WriteSucceeded(t) = next
      BY <1>1c, <2>8 DEF WriteSucceeded, Finished
    <3>2. Step(t, next)
      BY <1>2, <3>1
    <3>3. next.pc = "done" /\ next.task = r.task /\ next.ver = r.ver
      <4> HIDE DEF r
      <4> QED
        BY <1>0 DEF ThreadRecord
    <3> HIDE DEF next
    <3>4. ~Engages(next)
      BY <3>3 DEF Engages
    <3>5. ASSUME next.task = "save" PROVE Secures(t[1], next.ver, cur, bak)
      <4>1. VersionIn(r.out, t[1]) = r.ver
        BY <1>1c, <2>8, <3>3, <3>5
      <4>2. r.ver \in 0..MaxVersion
        BY <1>0, RecordFields
      <4>3. r.ver >= r.ver
        BY <4>2, BoundsAssumption
      <4> QED
        BY <2>3, <3>3, <4>1, <4>3 DEF Secures
    <3>6. SavedOwn(t, next, current', backup')
      BY <2>2, <3>5 DEF SavedOwn
    <3> QED
      BY <1>1, <2>6, <3>2, <3>4, <3>6, Results
  <2> QED
    BY <2>7, <2>8
<1>3. CASE Step(t, WriteFailed(t)) /\ current' = current
  BY <1>0, <1>1, <1>3, Unmoved, ResultsOut
<1> QED
  BY <1>2, <1>3 DEF Move

\* A reset takes the files away and with them every claim on them.
LEMMA RemoveResult ==
    ASSUME Shapes, NEW t \in Threads,
           RemoveCurrent(t) \/ RemoveBackup(t) \/ RemoveTemp(t) \/ RemoveFails(t),
           Engages(thread[t]) => Faithful(t, thread[t], current, backup, temp)
    PROVE  StoreResult(t)
<1> DEFINE r == thread[t]
<1>0. /\ r \in ThreadRecord /\ r.pc \in {"rmCurrent", "rmBackup", "rmTemp"}
      /\ thread \in [Threads -> ThreadRecord]
  BY DEF Shapes, RemoveCurrent, RemoveBackup, RemoveTemp, Remove, RemoveFails, At
<1>1. Engages(r) /\ r.task # "save"
  BY <1>0 DEF Engages, Faithful
<1>2. KeepsSecure(t)
  <2>1. CASE RemoveFails(t)
    BY <2>1, Unmoved DEF RemoveFails, disk
  <2>2. CASE ~RemoveFails(t)
    <3>1. Forgive(LAMBDA q : TRUE)
      BY <2>2 DEF RemoveCurrent, RemoveBackup, RemoveTemp, Remove
    <3>2. OnDisk = Returned(current, backup)
      BY DEF OnDisk, Returned
    <3>3. \A q \in Procs : want[q] <= VersionIn(Returned(current, backup), q) => want'[q] = 0
      BY <3>1, <3>2 DEF Forgive
    <3>4. ASSUME NEW q \in Procs, Secures(q, want[q], current, backup)
          PROVE  want'[q] = 0
      <4> DEFINE d == Returned(current, backup)
      <4>1. d \in WindowSets
        <5>1. current.set \in WindowSets /\ backup.set \in WindowSets
          BY DEF Shapes, SetFile
        <5> QED
          BY <5>1, EmptySet DEF Returned
      <4>2. want[q] \in 0..MaxVersion /\ VersionIn(d, q) >= want[q]
        BY <3>4 DEF Shapes, Secures
      <4>3. want[q] <= VersionIn(d, q) => want'[q] = 0
        BY <3>3
      <4> HIDE DEF d
      <4>4. VersionIn(d, q) \in 0..MaxVersion
        BY <4>1, VersionsIn
      <4> QED
        BY <4>2, <4>3, <4>4, BoundsAssumption
    <3> QED
      BY <3>4 DEF KeepsSecure
  <2> QED
    BY <2>1, <2>2
<1>3. ASSUME NEW ok \in BOOLEAN, Step(t, Finished(t, ok)) PROVE StoreResult(t)
  <2> DEFINE next == Finished(t, ok)
  <2>1. ~Engages(next) /\ next.task # "save" /\ Step(t, next)
    BY <1>0, <1>1, <1>3, FinishedFaithful
  <2> HIDE DEF next
  <2> QED
    BY <1>1, <1>2, <2>1, Results DEF SavedOwn
<1>4. ASSUME NEW pc \in {"rmBackup", "rmTemp"}, Step(t, [thread[t] EXCEPT !.pc = pc])
      PROVE  StoreResult(t)
  <2> DEFINE next == [r EXCEPT !.pc = pc]
  <2>1. Step(t, next)
    BY <1>4
  <2> HIDE DEF r
  <2>2. next.pc = pc /\ next.task = r.task
    BY <1>0 DEF ThreadRecord
  <2> HIDE DEF next
  <2>3. Faithful(t, next, current', backup', temp')
    BY <1>1, <2>2 DEF Faithful, Writes
  <2> QED
    BY <1>1, <1>2, <2>1, <2>2, <2>3, Results DEF SavedOwn, r
<1>5. \/ Step(t, [thread[t] EXCEPT !.pc = "rmBackup"])
      \/ Step(t, [thread[t] EXCEPT !.pc = "rmTemp"])
      \/ Step(t, Finished(t, TRUE)) \/ Step(t, Finished(t, FALSE))
  BY DEF RemoveCurrent, RemoveBackup, RemoveTemp, Remove, RemoveFails
<1> QED
  BY <1>3, <1>4, <1>5

-----------------------------------------------------------------------------
(* The invariant through every step                                          *)

\* Outside a race one thread at a time uses the files.
LEMMA OneEngaged ==
    ASSUME Settled, ~Racing, NEW t \in Threads, NEW u \in Threads,
           Engages(thread[t]), Engages(thread[u])
    PROVE  t = u
<1> SUFFICES ASSUME t # u PROVE FALSE
  OBVIOUS
<1>1. /\ thread[t].pc \notin {"idle", "acquire", "done"}
      /\ thread[u].pc \notin {"idle", "acquire", "done"}
      /\ thread[t].task = "load" => thread[t].pc \notin {"current", "backup"}
      /\ thread[u].task = "load" => thread[u].pc \notin {"current", "backup"}
  BY DEF Engages
<1>2. thread[t].task # "load" /\ thread[u].task # "load"
  BY <1>1 DEF Racing
<1>3. ASSUME NEW v \in Threads, thread[v].task # "load",
             thread[v].pc \notin {"idle", "acquire", "done"}
      PROVE  holder = v[1] /\ v = <<v[1], "worker">>
  <2> DEFINE p == v[1]
  <2>1. p \in Procs /\ (v = <<p, "ui">> \/ v = <<p, "worker">>)
    BY ThreadNames
  <2>2. GuardedAt(p, holder, thread[<<p, "ui">>], thread[<<p, "worker">>])
    BY <2>1, ByProcess DEF Settled
  <2> HIDE DEF p
  <2>3. v = <<p, "worker">>
    BY <1>3, <2>1, <2>2 DEF GuardedAt
  <2>4. holder = p
    BY <1>3, <2>2, <2>3 DEF GuardedAt
  <2> QED
    BY <2>3, <2>4 DEF p
<1>4. holder = t[1] /\ t = <<t[1], "worker">> /\ holder = u[1] /\ u = <<u[1], "worker">>
  BY <1>1, <1>2, <1>3
<1> QED
  BY <1>4

LEMMA StoreStepResult ==
    ASSUME Shapes, NEW t \in Threads, StoreStep(t), ~Racing,
           Engages(thread[t]) => Faithful(t, thread[t], current, backup, temp)
    PROVE  StoreResult(t)
<1>1. CASE ReadCurrent(t)
  BY <1>1, ReadCurrentResult
<1>2. CASE ReadBackup(t)
  BY <1>2, ReadBackupResult
<1>3. CASE Quarantine(t)
  BY <1>3, QuarantineResult
<1>4. CASE OpenTemporary(t)
  BY <1>4, OpenResult
<1>5. CASE FillTemporary(t)
  BY <1>5, FillResult
<1>6. CASE Rotate(t)
  BY <1>6, RotateResult
<1>7. CASE Move(t)
  BY <1>7, MoveResult
<1>8. CASE RemoveCurrent(t) \/ RemoveBackup(t) \/ RemoveTemp(t) \/ RemoveFails(t)
  BY <1>8, RemoveResult
<1> QED
  BY <1>1, <1>2, <1>3, <1>4, <1>5, <1>6, <1>7, <1>8 DEF StoreStep

LEMMA GivesUpResult ==
    ASSUME Settled, NEW p \in Procs, AcquireTimesOut(p) \/ BookmarksFail(p)
    PROVE  StoreResult(<<p, "worker">>)
<1> DEFINE t == <<p, "worker">>
           next == Finished(t, FALSE)
<1>1. /\ t \in Threads /\ Step(t, next) /\ Shapes /\ thread \in [Threads -> ThreadRecord]
      /\ current' = current /\ backup' = backup /\ temp' = temp
  BY GivesUp DEF Settled, Shapes
<1> HIDE DEF t
<1>2. ~Engages(next) /\ (next.task = "save" => next.ok = FALSE)
  BY <1>1, FinishedFaithful
<1> HIDE DEF next
<1>3. KeepsSecure(t)
  BY <1>1, Unmoved
<1>4. SavedOwn(t, next, current', backup')
  BY <1>2 DEF SavedOwn
<1>5. StoreResult(t)
  BY <1>1, <1>2, <1>3, <1>4, Results
<1> QED
  BY <1>5 DEF t

LEMMA OwedByProcess ==
    /\ NothingForgotten <=>
          \A p \in Procs : state[p].up = "running" =>
             OwedAt(p, state[p], thread[<<p, "worker">>], want[p], current, backup)
    /\ NothingForgotten' <=>
          \A p \in Procs : state'[p].up = "running" =>
             OwedAt(p, state'[p], thread'[<<p, "worker">>], want'[p], current', backup')
  BY DEF NothingForgotten, Owed, OwedAt, Secures

LEMMA KnownNext ==
    FilesKnown' <=> \A u \in Threads :
       Engages(thread'[u]) => Faithful(u, thread'[u], current', backup', temp')
  BY DEF FilesKnown, Engages, Faithful, Writes, Carries

\* A step of one thread that leaves the files as StoreResult says.
LEMMA ResultKeeps ==
    ASSUME Settled, ~Racing, FilesKnown, NothingForgotten, NEW t \in Threads, NEW next,
           Follows(thread[t], next), Step(t, next), thread[t].pc # "idle", Shrinks,
           StoreResult(t)
    PROVE  FilesKnown' /\ NothingForgotten'
<1>1. /\ thread'[t] = next /\ state' = state
      /\ \A u \in Threads \ {t} : thread'[u] = thread[u]
  BY DEF Settled, Shapes, Step
<1>2. ASSUME NEW u \in Threads, Engages(thread'[u])
      PROVE  Faithful(u, thread'[u], current', backup', temp')
  <2>1. CASE u = t
    BY <1>2, <2>1 DEF StoreResult
  <2>2. CASE u # t
    <3>1. thread'[u] = thread[u] /\ Engages(thread[u])
      BY <1>1, <1>2, <2>2
    <3>2. Faithful(u, thread[u], current, backup, temp)
      BY <3>1 DEF FilesKnown
    <3>3. ~Engages(thread[t])
      BY <2>2, <3>1, OneEngaged
    <3>4. current' = current /\ backup' = backup /\ temp' = temp
      BY <3>3 DEF StoreResult
    <3> QED
      BY <3>1, <3>2, <3>4
  <2> QED
    BY <2>1, <2>2
<1>3. ASSUME NEW p \in Procs, state'[p].up = "running"
      PROVE  OwedAt(p, state'[p], thread'[<<p, "worker">>], want'[p], current', backup')
  <2> DEFINE worker == <<p, "worker">>
  <2>0. /\ worker \in Threads /\ state'[p] = state[p] /\ state[p].up = "running"
        /\ GuardedAt(p, holder, thread[<<p, "ui">>], thread[worker])
        /\ TrackedAt(state[p], thread[worker], want[p])
        /\ OwedAt(p, state[p], thread[worker], want[p], current, backup)
    BY <1>1, <1>3, CoordinatorRecords, OwedByProcess
  <2>1. want'[p] \in {want[p], 0}
    BY DEF Shrinks
  <2>2. CASE want'[p] = 0
    BY <2>2 DEF OwedAt
  <2>3. CASE want'[p] = want[p] /\ state[p].latest = want[p]
    BY <2>0, <2>3 DEF OwedAt
  <2>4. ASSUME want'[p] = want[p], thread[worker].task = "save", thread[worker].ver = want[p],
               ~(thread[worker].pc = "done" /\ thread[worker].ok) \/ t = worker
        PROVE  OwedAt(p, state'[p], thread'[worker], want'[p], current', backup')
    <3>1. CASE t # worker
      <4>1. thread'[worker] = thread[worker]
        BY <1>1, <2>0, <3>1
      <4> QED
        BY <2>4, <3>1, <4>1 DEF OwedAt
    <3>2. CASE t = worker
      <4>1. next.task = "save" /\ next.ver = want[p] /\ thread'[worker] = next
        BY <1>1, <2>4, <3>2 DEF Follows
      <4>2. next.pc = "done" /\ next.ok => Secures(p, want[p], current', backup')
        BY <1>1, <3>2, <4>1, ThreadNames DEF StoreResult, SavedOwn
      <4> QED
        BY <2>4, <4>1, <4>2 DEF OwedAt
    <3> QED
      BY <3>1, <3>2
  <2>5. CASE want'[p] = want[p] /\ Secures(p, want[p], current, backup)
    <3>1. \/ want'[p] = 0
          \/ Secures(p, want[p], current', backup')
          \/ thread[t].task = "save" /\ p = t[1]
      BY <2>5 DEF StoreResult, KeepsSecure
    <3>2. CASE thread[t].task = "save" /\ p = t[1]
      <4>1. t = <<p, "ui">> \/ t = worker
        BY <3>2, ThreadNames
      <4>2. t = worker
        BY <2>0, <3>2, <4>1 DEF GuardedAt
      <4>3. want[p] \in {0, thread[worker].ver, state[p].latest}
        BY <2>0, <3>2, <4>2 DEF TrackedAt
      <4> QED
        BY <2>2, <2>3, <2>4, <2>5, <3>2, <4>2, <4>3
    <3> QED
      BY <2>2, <2>5, <3>1, <3>2 DEF OwedAt
  <2> QED
    BY <2>0, <2>1, <2>2, <2>3, <2>4, <2>5 DEF OwedAt
<1> QED
  BY <1>2, <1>3, KnownNext, OwedByProcess

\* A step of a coordinator leaves the files alone.
LEMMA FreshKeeps ==
    ASSUME Settled, FilesKnown, NothingForgotten, NEW p \in Procs,
           Alters(p), Tidy(p), Fresh(p)
    PROVE  FilesKnown' /\ NothingForgotten'
<1>1. current' = current /\ backup' = backup /\ temp' = temp
  BY DEF Alters, Fresh
<1>2. ASSUME NEW u \in Threads, Engages(thread'[u])
      PROVE  Faithful(u, thread'[u], current', backup', temp')
  <2>1. thread'[u] = thread[u] \/ Enters(thread'[u])
    BY <1>2 DEF Alters, Fresh
  <2>2. CASE thread'[u] = thread[u]
    BY <1>1, <1>2, <2>2 DEF FilesKnown
  <2>3. CASE Enters(thread'[u])
    BY <2>3 DEF Enters, Faithful, Writes
  <2> QED
    BY <2>1, <2>2, <2>3
<1>3. ASSUME NEW q \in Procs, state'[q].up = "running"
      PROVE  OwedAt(q, state'[q], thread'[<<q, "worker">>], want'[q], current', backup')
  <2>1. state[q].up = "running" =>
           OwedAt(q, state[q], thread[<<q, "worker">>], want[q], current, backup)
    BY OwedByProcess
  <2>2. CASE q = p
    BY <1>1, <1>3, <2>1, <2>2 DEF Tidy
  <2>3. CASE q # p
    <3>1. /\ state'[q] = state[q] /\ want'[q] = want[q]
          /\ thread'[<<q, "worker">>] = thread[<<q, "worker">>]
      BY <2>3, ThreadNames DEF Alters
    <3> QED
      BY <1>1, <1>3, <2>1, <3>1
  <2> QED
    BY <2>2, <2>3
<1> QED
  BY <1>2, <1>3, KnownNext, OwedByProcess

\* A crash closes the temporary file of the process that dies, and no other.
LEMMA CrashKeeps ==
    ASSUME Settled, FilesKnown, NothingForgotten, NEW p \in Procs, Crash(p)
    PROVE  FilesKnown' /\ NothingForgotten'
<1>1. /\ Alters(p) /\ Tidy(p) /\ current' = current /\ backup' = backup
      /\ \A u \in Threads : u[1] = p => thread'[u] = Idle
      /\ temp' = temp \/ (temp.open # Nobody /\ temp.open[1] = p)
  BY CrashTidy DEF Alters
<1>2. ASSUME NEW u \in Threads, Engages(thread'[u])
      PROVE  Faithful(u, thread'[u], current', backup', temp')
  <2>1. u[1] # p
    BY <1>1, <1>2, IdleRecord DEF Engages
  <2>2. thread'[u] = thread[u]
    BY <1>1, <2>1 DEF Alters
  <2>3. Faithful(u, thread[u], current, backup, temp)
    BY <1>2, <2>2 DEF FilesKnown
  <2>4. CASE temp' = temp
    BY <1>1, <2>2, <2>3, <2>4
  <2>5. CASE temp.open # Nobody /\ temp.open[1] = p
    <3>1. thread[u].pc \notin {"fill", "rotate", "move"}
      BY <2>1, <2>3, <2>5 DEF Faithful
    <3> QED
      BY <1>1, <2>2, <2>3, <3>1 DEF Faithful
  <2> QED
    BY <1>1, <2>4, <2>5
<1>3. ASSUME NEW q \in Procs, state'[q].up = "running"
      PROVE  OwedAt(q, state'[q], thread'[<<q, "worker">>], want'[q], current', backup')
  <2>1. state[q].up = "running" =>
           OwedAt(q, state[q], thread[<<q, "worker">>], want[q], current, backup)
    BY OwedByProcess
  <2>2. CASE q = p
    BY <1>1, <1>3, <2>1, <2>2 DEF Tidy
  <2>3. CASE q # p
    <3>1. /\ state'[q] = state[q] /\ want'[q] = want[q]
          /\ thread'[<<q, "worker">>] = thread[<<q, "worker">>]
      BY <1>1, <2>3, ThreadNames DEF Alters
    <3> QED
      BY <1>1, <1>3, <2>1, <3>1
  <2> QED
    BY <2>2, <2>3
<1> QED
  BY <1>2, <1>3, KnownNext, OwedByProcess

Calm == raced \/ (FilesKnown /\ NothingForgotten)

LEMMA CalmInit == Init => Calm
<1> SUFFICES ASSUME Init PROVE FilesKnown /\ NothingForgotten
  BY DEF Calm
<1>1. /\ \A t \in Threads : ~Engages(thread[t])
      /\ \A p \in Procs : want[p] = 0
  BY IdleRecord DEF Init, Engages
<1> QED
  BY <1>1 DEF FilesKnown, NothingForgotten, Owed

\* Once raced, always; and a step in a race is raced.
LEMMA RaceStays ==
    ASSUME Settled, Next
    PROVE  raced' = (raced \/ Racing)
<1>1. ASSUME NEW t, NEW next, Step(t, next) PROVE raced' = (raced \/ Racing)
  BY <1>1 DEF Step, Watch
<1>2. ASSUME NEW t \in Threads, StoreStep(t) PROVE raced' = (raced \/ Racing)
  <2>1. Steps(t)
    BY <1>2, StoreStepTypes DEF Settled
  <2> QED
    BY <1>1, <2>1 DEF Steps
<1>3. ASSUME NEW p \in Procs, AcquireTimesOut(p) \/ BookmarksFail(p)
      PROVE  raced' = (raced \/ Racing)
  BY <1>1, <1>3, GivesUp
<1>4. ASSUME NEW p \in Procs, Tidy(p) PROVE raced' = (raced \/ Racing)
  BY <1>4 DEF Tidy
<1> QED
  BY <1>2, <1>3, <1>4, CrashTidy, StepsOfNext

LEMMA CalmNext == Settled /\ Calm /\ [Next]_vars => Calm'
<1> SUFFICES ASSUME Settled, Calm, [Next]_vars PROVE Calm'
  OBVIOUS
<1>1. CASE UNCHANGED vars
  <2>1. /\ current' = current /\ backup' = backup /\ temp' = temp /\ thread' = thread
        /\ state' = state /\ want' = want /\ raced' = raced
    BY <1>1 DEF vars
  <2>2. FilesKnown => FilesKnown'
    BY <2>1, KnownNext DEF FilesKnown
  <2>3. NothingForgotten => NothingForgotten'
    BY <2>1, OwedByProcess
  <2> QED
    BY <2>1, <2>2, <2>3 DEF Calm
<1>2. CASE Next
  <2>1. raced' = (raced \/ Racing)
    BY <1>2, RaceStays
  <2> SUFFICES ASSUME ~raced, ~Racing PROVE FilesKnown' /\ NothingForgotten'
    BY <2>1 DEF Calm
  <2>2. FilesKnown /\ NothingForgotten
    BY DEF Calm
  <2>3. ASSUME NEW t \in Threads, StoreStep(t) PROVE FilesKnown' /\ NothingForgotten'
    <3>1. Inside(t) /\ Steps(t) /\ Shrinks /\ Shapes
      BY <2>3, StoreStepTypes DEF Settled
    <3>2. PICK next : Follows(thread[t], next) /\ Step(t, next)
      BY <3>1 DEF Steps
    <3>3. thread[t].pc # "idle"
      BY <3>1 DEF Inside
    <3>4. Engages(thread[t]) => Faithful(t, thread[t], current, backup, temp)
      BY <2>2 DEF FilesKnown
    <3>5. StoreResult(t)
      BY <2>3, <3>1, <3>4, StoreStepResult
    <3> QED
      BY <2>2, <3>1, <3>2, <3>3, <3>5, ResultKeeps
  <2>4. ASSUME NEW p \in Procs, AcquireTimesOut(p) \/ BookmarksFail(p)
        PROVE  FilesKnown' /\ NothingForgotten'
    <3> DEFINE t == <<p, "worker">>
               next == Finished(t, FALSE)
    <3>1. /\ t \in Threads /\ Step(t, next) /\ thread[t].pc = "acquire" /\ want' = want
          /\ thread \in [Threads -> ThreadRecord] /\ want \in [Procs -> 0..MaxVersion]
      BY <2>4, GivesUp DEF Settled, Shapes
    <3>2. StoreResult(t)
      BY <2>4, GivesUpResult
    <3> HIDE DEF t
    <3>3. Follows(thread[t], next)
      BY <3>1, FinishedFollows
    <3>4. Shrinks
      BY <3>1 DEF Shrinks
    <3> HIDE DEF next
    <3> QED
      BY <2>2, <3>1, <3>2, <3>3, <3>4, ResultKeeps
  <2>5. ASSUME NEW p \in Procs, Alters(p) /\ Tidy(p) /\ Fresh(p)
        PROVE  FilesKnown' /\ NothingForgotten'
    BY <2>2, <2>5, FreshKeeps
  <2>6. ASSUME NEW p \in Procs, Crash(p) PROVE FilesKnown' /\ NothingForgotten'
    BY <2>2, <2>6, CrashKeeps
  <2> QED
    BY <1>2, <2>3, <2>4, <2>5, <2>6, StepsOfNext
<1> QED
  BY <1>1, <1>2

LEMMA AlwaysSessionInv == Spec => []SessionInv
<1>1. Settled /\ Calm => SessionInv
  BY DEF Settled, Calm, SessionInv
<1> QED
  BY <1>1, SettledInit, SettledNext, CalmInit, CalmNext, PTL DEF Spec

(* A coordinator with nothing pending and no write in progress has its       *)
(* newest accepted state on disk, through every failure, retry, reset and    *)
(* crash (worker_loop, flush): a save is handed from the coordinator to its  *)
(* worker, back after a failure, or has reached a file set that load returns *)
(* as it is, and no other process's write takes it away again.  Only a load  *)
(* that writes beside another thread, without the mutex, can.                *)
THEOREM NothingAcceptedIsLost == Spec => []CleanMeansSaved
<1>1. ASSUME SessionInv PROVE CleanMeansSaved
  <2> SUFFICES ASSUME NEW p \in Procs, ~raced,
                      state[p].up = "running", state[p].latest = 0,
                      thread[<<p, "worker">>].pc = "idle"
               PROVE  VersionIn(OnDisk, p) >= want[p]
    BY DEF CleanMeansSaved, At
  <2>1. Settled /\ NothingForgotten
    BY <1>1 DEF SessionInv, Settled
  <2>2. OwedAt(p, state[p], thread[<<p, "worker">>], want[p], current, backup)
    BY <2>1, OwedByProcess
  <2>3. thread[<<p, "worker">>].task = "none"
    BY <2>1, CoordinatorRecords DEF GuardedAt
  <2>4. want[p] = 0 \/ Secures(p, want[p], current, backup)
    BY <2>2, <2>3 DEF OwedAt
  <2>5. OnDisk = Returned(current, backup)
    BY DEF OnDisk, Returned
  <2> DEFINE d == OnDisk
  <2>6. d \in WindowSets
    <3>1. current.set \in WindowSets /\ backup.set \in WindowSets
      BY <1>1 DEF SessionInv, Shapes, SetFile
    <3> QED
      BY <3>1, EmptySet DEF OnDisk
  <2> HIDE DEF d
  <2>7. VersionIn(d, p) \in 0..MaxVersion
    BY <2>6, VersionsIn
  <2>8. CASE want[p] = 0
    BY <2>7, <2>8, BoundsAssumption DEF d
  <2>9. CASE Secures(p, want[p], current, backup)
    BY <2>5, <2>9 DEF Secures
  <2> QED
    BY <2>4, <2>8, <2>9
<1> QED
  BY <1>1, AlwaysSessionInv, PTL

-----------------------------------------------------------------------------
(* What was saved stays on disk: the invariant                               *)

\* A version of a window that its coordinator may still write over.
Within(n, s, r) ==
    /\ n <= s.ver
    /\ s.latest # 0 => n <= s.latest
    /\ r.task = "save" => n <= r.ver

\* A coordinator's versions grow: what waits is newer than what is being saved.
Ordered(s, r) ==
    /\ s.latest <= s.ver /\ r.ver <= s.ver
    /\ r.task = "save" /\ s.latest # 0 => r.ver <= s.latest

InOrder == \A p \in Procs : Ordered(state[p], thread[<<p, "worker">>])

Fits(entries, st, th) ==
    \A p \in Procs : Within(VersionIn(entries, p), st[p], th[<<p, "worker">>])

\* A thread that has come past the current file.
Behind(r) ==
    Writes(r) \/ r.pc = "backup" \/ (r.pc = "quarantine" /\ r.path = "backup")

\* The set thread r is about to write has every window of entries, but for
\* what a blind save or a full set drops.
Lasts(r, entries) ==
    \A w \in Windows :
       \/ VersionIn(r.out, w) >= VersionIn(entries, w)
       \/ VersionIn(r.out, w) = 0 /\ (r.blind \/ Len(r.out) = MaxWindows)

Holds(r, cur, bak) ==
    /\ Writes(r) => Lasts(r, Returned(cur, bak))
    /\ Behind(r) /\ ~Writes(r) /\ r.task # "load" => ~Loadable(cur)

SetsKept == \A t \in Threads : Engages(thread[t]) => Holds(thread[t], current, backup)

VersionsWithin ==
    /\ Fits(current.set, state, thread) /\ Fits(backup.set, state, thread)
    /\ \A t \in Threads : Writes(thread[t]) => Fits(thread[t].out, state, thread)

\* A bad current file in front of a backup that load can use is moved away
\* before any thread comes past it.
BadAlone ==
    current.form = "bad" /\ Loadable(backup) =>
       /\ "read" \notin scenario.faults /\ "quarantine" \notin scenario.faults
       /\ \A t \in Threads : ~Behind(thread[t])

LEMMA ReturnedSets ==
    ASSUME NEW cur \in SetFile, NEW bak \in SetFile
    PROVE  Returned(cur, bak) \in WindowSets
  BY EmptySet DEF Returned, SetFile

LEMMA EmptyVersions == \A w : VersionIn(<<>>, w) = 0
<1>1. PICK e : e = <<>>
  OBVIOUS
<1>2. e \in WindowSets /\ Len(e) = 0
  BY <1>1, EmptySet
<1>3. \A w : VersionIn(e, w) = 0
  BY <1>2, VersionsIn
<1> QED
  BY <1>1, <1>3

LEMMA OwnVersions ==
    ASSUME NEW entry \in Entry
    PROVE  /\ <<entry>> \in WindowSets
           /\ VersionIn(<<entry>>, entry.win) = entry.ver
           /\ \A w : w # entry.win => VersionIn(<<entry>>, w) = 0
<1>1. PICK e : e = <<entry>>
  OBVIOUS
<1>2. e \in WindowSets /\ Len(e) = 1 /\ e[1] = entry
  BY <1>1, SingleSet
<1>3. VersionIn(e, e[1].win) = e[1].ver
  BY <1>2, VersionsIn
<1>4. ASSUME NEW w, w # entry.win PROVE VersionIn(e, w) = 0
  <2>1. \A i \in 1..Len(e) : e[i].win # w
    BY <1>2, <1>4
  <2> QED
    BY <1>2, <2>1, VersionsIn
<1> QED
  BY <1>1, <1>2, <1>3, <1>4

LEMMA CoordinatorFields ==
    ASSUME NEW s \in CoordinatorRecord
    PROVE  s.ver \in 0..MaxVersion /\ s.latest \in 0..MaxVersion
  BY DEF CoordinatorRecord

LEMMA WithinZero ==
    ASSUME NEW s \in CoordinatorRecord, NEW r \in ThreadRecord
    PROVE  Within(0, s, r)
<1>1. s.ver \in Nat /\ s.latest \in Nat /\ r.ver \in Nat
  BY CoordinatorFields, RecordFields, BoundsAssumption
<1> QED
  BY <1>1 DEF Within

LEMMA WorkerRecords ==
    ASSUME Shapes, NEW p \in Procs
    PROVE  /\ <<p, "worker">> \in Threads
           /\ state[p] \in CoordinatorRecord /\ thread[<<p, "worker">>] \in ThreadRecord
  BY ThreadNames DEF Shapes

LEMMA FitsEmpty == ASSUME Shapes PROVE Fits(<<>>, state, thread)
<1>1. ASSUME NEW p \in Procs
      PROVE  Within(VersionIn(<<>>, p), state[p], thread[<<p, "worker">>])
  BY EmptyVersions, WorkerRecords, WithinZero
<1> QED
  BY <1>1 DEF Fits

\* A thread that saves is the worker, and its version is not behind.
LEMMA SaverWithin ==
    ASSUME Settled, InOrder, NEW t \in Threads, Inside(t), thread[t].task = "save"
    PROVE  /\ t[1] \in Procs /\ t = <<t[1], "worker">>
           /\ Within(thread[t].ver, state[t[1]], thread[<<t[1], "worker">>])
<1> DEFINE p == t[1]
<1>1. p \in Procs /\ (t = <<p, "ui">> \/ t = <<p, "worker">>)
  BY ThreadNames
<1>2. GuardedAt(p, holder, thread[<<p, "ui">>], thread[<<p, "worker">>])
  BY <1>1, CoordinatorRecords
<1> HIDE DEF p
<1>3. t = <<p, "worker">>
  BY <1>1, <1>2 DEF GuardedAt, Inside
<1>4. Ordered(state[p], thread[t])
  BY <1>1, <1>3 DEF InOrder
<1>5. PICK v : v = thread[t].ver
  OBVIOUS
<1>6. v \in Int
  <2>1. thread[t] \in ThreadRecord
    BY DEF Settled, Shapes
  <2>2. thread[t].ver \in 0..MaxVersion
    BY <2>1, RecordFields
  <2> QED
    BY <1>5, <2>2, BoundsAssumption
<1>7. v <= v
  BY <1>6
<1>8. Within(v, state[p], thread[t])
  BY <1>4, <1>5, <1>7 DEF Ordered, Within
<1> QED
  BY <1>1, <1>3, <1>5, <1>8 DEF p

LEMMA FitsMerged ==
    ASSUME Shapes, NEW base \in WindowSets, Fits(base, state, thread), NEW own \in Entry,
           own.win \in Procs, Within(own.ver, state[own.win], thread[<<own.win, "worker">>])
    PROVE  Fits(Merge(base, own), state, thread) /\ Fits(<<own>>, state, thread)
<1>1. ASSUME NEW p \in Procs
      PROVE  /\ Within(VersionIn(Merge(base, own), p), state[p], thread[<<p, "worker">>])
             /\ Within(VersionIn(<<own>>, p), state[p], thread[<<p, "worker">>])
  <2>1. CASE p = own.win
    BY <2>1, MergeKeepsVersions, OwnVersions
  <2>2. CASE p # own.win
    <3>1. /\ VersionIn(Merge(base, own), p) \in {VersionIn(base, p), 0}
          /\ VersionIn(<<own>>, p) = 0
      BY <2>2, MergeKeepsVersions, OwnVersions
    <3>2. Within(0, state[p], thread[<<p, "worker">>])
      BY WorkerRecords, WithinZero
    <3>3. Within(VersionIn(base, p), state[p], thread[<<p, "worker">>])
      BY DEF Fits
    <3> QED
      BY <3>1, <3>2, <3>3
  <2> QED
    BY <2>1, <2>2
<1> QED
  BY <1>1 DEF Fits

\* A thread that a step leaves about to write a set that lasts, or not past the
\* current file.
Stands(n, cur, bak) ==
    /\ Writes(n) => Lasts(n, Returned(cur, bak)) /\ Fits(n.out, state, thread)
    /\ ~Writes(n) => ~Behind(n)

LEMMA LoadedStands ==
    ASSUME Settled, InOrder, NEW t \in Threads, Inside(t),
           NEW result \in {"found", "none", "error"}, NEW entries \in WindowSets,
           Fits(entries, state, thread), NEW cur \in SetFile, NEW bak \in SetFile,
           Fits(Returned(cur, bak), state, thread),
           thread[t].task # "load" =>
              \/ result = "error"
              \/ result = "found" /\ entries = Returned(cur, bak)
              \/ result = "none" /\ Returned(cur, bak) = <<>>
    PROVE  Stands(Loaded(t, result, entries), cur, bak)
<1> DEFINE r == thread[t]
           own == [win |-> t[1], ver |-> r.ver]
           n == Loaded(t, result, entries)
           d == Returned(cur, bak)
<1>0. /\ thread \in [Threads -> ThreadRecord] /\ Shapes
      /\ r \in ThreadRecord /\ r.ver \in 0..MaxVersion /\ t[1] \in Procs
      /\ d \in WindowSets
  BY RecordFields, ThreadNames, ReturnedSets DEF Settled, Shapes
<1>1. own \in Entry /\ own.win = t[1] /\ own.ver = r.ver
  BY <1>0 DEF Entry, Windows
<1>1a. \A w : VersionIn(d, w) \in Nat
  <2> HIDE DEF d
  <2> QED
    BY <1>0, VersionsIn, BoundsAssumption
<1> HIDE DEF own
<1>2. CASE r.task = "load"
  <2>1. n = Idle
    BY <1>2 DEF Loaded, Finished
  <2> QED
    BY <2>1, IdleRecord DEF Stands, Writes, Behind
<1>3. CASE r.task = "save"
  <2> DEFINE out == IF result = "found" THEN Merge(entries, own) ELSE <<own>>
             blind == (result = "error")
             next == [r EXCEPT !.pc = "open", !.migrating = FALSE, !.blind = blind, !.out = out]
  <2>1. n = next
    BY <1>3 DEF Loaded, own
  <2>2. Within(own.ver, state[own.win], thread[<<own.win, "worker">>])
    BY <1>1, <1>3, SaverWithin
  <2>3. Fits(out, state, thread) /\ out \in WindowSets
    BY <1>0, <1>1, <2>2, FitsMerged, MergeEntries, SingleSet
  <2>4. VersionIn(out, t[1]) = r.ver
    BY <1>1, MergeKeepsVersions, OwnVersions
  <2>5. VersionIn(d, t[1]) <= r.ver
    <3>1. Within(VersionIn(d, t[1]), state[t[1]], thread[<<t[1], "worker">>])
      BY <1>0 DEF Fits
    <3>2. t = <<t[1], "worker">>
      BY <1>3, SaverWithin
    <3> HIDE DEF d
    <3> QED
      BY <1>3, <3>1, <3>2 DEF Within
  <2>6. ASSUME NEW w \in Windows, w # t[1]
        PROVE  \/ VersionIn(out, w) >= VersionIn(d, w)
               \/ VersionIn(out, w) = 0 /\ (blind \/ Len(out) = MaxWindows)
    <3>1. CASE result = "error"
      BY <1>1, <2>6, <3>1, OwnVersions
    <3>2. CASE result = "found" /\ entries = d
      <4>1. \/ VersionIn(out, w) = VersionIn(entries, w)
            \/ VersionIn(out, w) = 0 /\ Len(out) = MaxWindows
        BY <1>1, <2>6, <3>2, MergeKeepsVersions
      <4> HIDE DEF d, out
      <4> QED
        BY <1>1a, <3>2, <4>1
    <3>3. CASE result = "none" /\ d = <<>>
      <4>1. VersionIn(out, w) = 0
        BY <1>1, <2>6, <3>3, OwnVersions
      <4>2. VersionIn(d, w) = 0
        BY <3>3, EmptyVersions
      <4> HIDE DEF d, out
      <4> QED
        BY <4>1, <4>2
    <3> QED
      BY <1>3, <3>1, <3>2, <3>3
  <2> HIDE DEF out, r, d
  <2>7. blind \in BOOLEAN
    OBVIOUS
  <2> HIDE DEF blind
  <2>8. next.pc = "open" /\ next.out = out /\ next.blind = blind
    BY <1>0 DEF ThreadRecord
  <2> HIDE DEF next
  <2>9. Lasts(next, d)
    <3>1. ASSUME NEW w \in Windows
          PROVE  \/ VersionIn(out, w) >= VersionIn(d, w)
                 \/ VersionIn(out, w) = 0 /\ (blind \/ Len(out) = MaxWindows)
      <4>1. CASE w = t[1]
        BY <1>0, <1>1a, <2>4, <2>5, <4>1, BoundsAssumption
      <4> QED
        BY <2>6, <4>1
    <3> QED
      BY <2>8, <3>1 DEF Lasts
  <2> QED
    BY <2>1, <2>3, <2>8, <2>9 DEF Stands, Writes, d
<1>4. CASE r.task = "view" /\ result = "found"
  <2> DEFINE next == [r EXCEPT !.pc = "open", !.migrating = FALSE, !.out = entries]
  <2>1. n = next /\ entries = d
    BY <1>4 DEF Loaded
  <2> HIDE DEF r, d
  <2>2. next.pc = "open" /\ next.out = entries
    BY <1>0 DEF ThreadRecord
  <2> HIDE DEF next
  <2>3. Lasts(next, d)
    BY <1>1a, <2>1, <2>2 DEF Lasts
  <2> QED
    BY <2>1, <2>2, <2>3 DEF Stands, Writes, d
<1>5. CASE r.task \notin {"load", "save"} /\ ~(r.task = "view" /\ result = "found")
  <2> DEFINE ok == (result = "none")
             next == [r EXCEPT !.pc = "done", !.ok = ok]
  <2>1. n = next
    BY <1>5 DEF Loaded, Finished
  <2> HIDE DEF r, ok
  <2>2. next.pc = "done"
    BY <1>0 DEF ThreadRecord
  <2> HIDE DEF next
  <2> QED
    BY <2>1, <2>2 DEF Stands, Writes, Behind
<1> QED
  BY <1>2, <1>3, <1>4, <1>5

LEMMA FinishedStands ==
    ASSUME NEW t \in Threads, thread \in [Threads -> ThreadRecord], NEW ok \in BOOLEAN,
           NEW cur, NEW bak
    PROVE  Stands(Finished(t, ok), cur, bak)
<1> DEFINE r == thread[t]
<1>1. r \in ThreadRecord
  OBVIOUS
<1>2. Finished(t, ok).pc \in {"idle", "done"}
  <2>1. CASE r.task = "load"
    BY <2>1, IdleRecord DEF Finished
  <2>2. CASE r.task # "load"
    <3> DEFINE next == [r EXCEPT !.pc = "done", !.ok = ok]
    <3>1. Finished(t, ok) = next
      BY <2>2 DEF Finished
    <3> HIDE DEF r
    <3>2. next.pc = "done"
      BY <1>1 DEF ThreadRecord
    <3> QED
      BY <3>1, <3>2
  <2> QED
    BY <2>1, <2>2
<1> QED
  BY <1>2 DEF Stands, Writes, Behind

LEMMA WriteFailedStands ==
    ASSUME Settled, InOrder, NEW t \in Threads, Inside(t), NEW cur \in SetFile,
           NEW bak \in SetFile, Fits(Returned(cur, bak), state, thread)
    PROVE  Stands(WriteFailed(t), cur, bak)
<1>1. /\ thread \in [Threads -> ThreadRecord] /\ <<>> \in WindowSets
      /\ Fits(<<>>, state, thread)
  BY EmptySet, FitsEmpty DEF Settled, Shapes
<1>2. PICK e : e = <<>>
  OBVIOUS
<1>3. Stands(Loaded(t, "error", e), cur, bak)
  BY <1>1, <1>2, LoadedStands
<1>4. Stands(Finished(t, FALSE), cur, bak)
  BY <1>1, FinishedStands
<1> QED
  BY <1>2, <1>3, <1>4 DEF WriteFailed

-----------------------------------------------------------------------------
(* What was saved stays on disk: the steps in the store                      *)

\* What the invariant says of the files and of one thread.
Ready(t) ==
    /\ Settled /\ InOrder
    /\ Engages(thread[t]) => /\ Faithful(t, thread[t], current, backup, temp)
                             /\ Holds(thread[t], current, backup)
    /\ Writes(thread[t]) => Fits(thread[t].out, state, thread)
    /\ Fits(current.set, state, thread) /\ Fits(backup.set, state, thread)
    /\ current.form = "bad" /\ Loadable(backup) =>
          /\ "read" \notin scenario.faults /\ "quarantine" \notin scenario.faults
          /\ ~Behind(thread[t])

\* A bad current file in front of a good backup was there before, and the step
\* to n has not come past it.
StillAlone(n, cur, bak) ==
    cur.form = "bad" /\ Loadable(bak) =>
       cur = current /\ Loadable(backup) /\ ~Behind(n)

KeepsReturned(cur, bak) ==
    \A w \in Windows :
       VersionIn(Returned(cur, bak), w) >= VersionIn(Returned(current, backup), w)

Survives(t) ==
    /\ Engages(thread'[t]) => Holds(thread'[t], current', backup')
    /\ Writes(thread'[t]) => Fits(thread'[t].out, state, thread)
    /\ Fits(current'.set, state, thread) /\ Fits(backup'.set, state, thread)
    /\ StillAlone(thread'[t], current', backup')
    /\ \A w \in Windows :
          \/ VersionIn(Returned(current', backup'), w) >= VersionIn(Returned(current, backup), w)
          \/ Excused(w)

LEMMA DiskSets ==
    ASSUME Shapes
    PROVE  /\ current \in SetFile /\ backup \in SetFile
           /\ Returned(current, backup) \in WindowSets
           /\ \A w : VersionIn(Returned(current, backup), w) \in Nat
<1>1. current \in SetFile /\ backup \in SetFile
  BY DEF Shapes
<1> DEFINE d == Returned(current, backup)
<1>2. d \in WindowSets
  BY <1>1, ReturnedSets
<1> HIDE DEF d
<1>3. \A w : VersionIn(d, w) \in Nat
  BY <1>2, VersionsIn, BoundsAssumption
<1> QED
  BY <1>1, <1>2, <1>3 DEF d

LEMMA SameReturned ==
    ASSUME Shapes, NEW cur, NEW bak, Returned(cur, bak) = Returned(current, backup)
    PROVE  KeepsReturned(cur, bak)
<1> DEFINE d == Returned(current, backup)
<1>1. \A w : VersionIn(d, w) \in Nat
  BY DiskSets
<1> HIDE DEF d
<1>2. \A w : VersionIn(d, w) >= VersionIn(d, w)
  BY <1>1
<1> QED
  BY <1>2 DEF KeepsReturned, d

LEMMA FitsReturned ==
    ASSUME Shapes, NEW cur, NEW bak,
           Fits(cur.set, state, thread), Fits(bak.set, state, thread)
    PROVE  Fits(Returned(cur, bak), state, thread)
  BY FitsEmpty DEF Returned

LEMMA SurvivesBy ==
    ASSUME Shapes, NEW t \in Threads, NEW next, Step(t, next),
           Engages(next) => Holds(next, current', backup'),
           Writes(next) => Fits(next.out, state, thread),
           Fits(current'.set, state, thread), Fits(backup'.set, state, thread),
           StillAlone(next, current', backup'),
           KeepsReturned(current', backup')
    PROVE  Survives(t)
<1>1. thread'[t] = next
  BY DEF Shapes, Step
<1> QED
  BY <1>1 DEF Survives, KeepsReturned

\* A step that leaves its thread before the current file or at a set that lasts.
LEMMA SurvivesStanding ==
    ASSUME Shapes, NEW t \in Threads, NEW next, Step(t, next),
           NEW cur, NEW bak, cur = current', bak = backup',
           Stands(next, cur, bak),
           Fits(cur.set, state, thread), Fits(bak.set, state, thread),
           cur.form = "bad" /\ Loadable(bak) =>
              cur = current /\ Loadable(backup) /\ ~Writes(next),
           KeepsReturned(cur, bak)
    PROVE  Survives(t)
<1>1. Holds(next, cur, bak) /\ (Writes(next) => Fits(next.out, state, thread))
  BY DEF Stands, Holds
<1>2. StillAlone(next, cur, bak)
  BY DEF Stands, StillAlone
<1>3. /\ Holds(next, current', backup') /\ StillAlone(next, current', backup')
      /\ Fits(current'.set, state, thread) /\ Fits(backup'.set, state, thread)
      /\ KeepsReturned(current', backup')
  BY <1>1, <1>2
<1> QED
  BY <1>1, <1>3, SurvivesBy

\* One file read, as in ReadResult.
LEMMA ReadSurvives ==
    ASSUME NEW t \in Threads, Ready(t), NEW pc \in {"current", "backup"}, NEW file \in SetFile,
           NEW path \in {"current", "backup"}, NEW absent,
           Read(t, pc, file, path, absent), pc = path,
           file = IF path = "current" THEN current ELSE backup,
           file.form = "absent" => /\ Engages(absent) => Holds(absent, current, backup)
                                   /\ Writes(absent) => Fits(absent.out, state, thread)
                                   /\ StillAlone(absent, current, backup),
           path = "backup" /\ (thread[t].task # "load" \/ file.form = "old") => ~Loadable(current)
    PROVE  Survives(t)
<1> DEFINE r == thread[t]
<1>0. /\ thread \in [Threads -> ThreadRecord] /\ r \in ThreadRecord /\ Shapes
      /\ file.set \in WindowSets /\ current \in SetFile /\ backup \in SetFile
      /\ Fits(Returned(current, backup), state, thread) /\ Settled /\ InOrder
      /\ Fits(file.set, state, thread) /\ r.pc = pc
  BY FitsReturned DEF Ready, Settled, Shapes, SetFile, Read, At
<1>1. current' = current /\ backup' = backup
  BY DEF Read, disk
<1>2. /\ KeepsReturned(current, backup) /\ Inside(t)
      /\ Fits(current.set, state, thread) /\ Fits(backup.set, state, thread)
  BY <1>0, SameReturned DEF Ready, Inside
<1>2a. path = "backup" => Behind(r)
  BY <1>0 DEF Behind
<1>2b. current.form = "bad" /\ Loadable(backup) =>
          "read" \notin scenario.faults /\ path = "current"
  BY <1>2a DEF Ready
<1>2c. r.task # "load" \/ file.form = "old" =>
          /\ Loadable(file) => file.set = Returned(current, backup)
          /\ (file.form # "bad" \/ path = "backup") => (current.form = "bad" => ~Loadable(backup))
          /\ path = "backup" /\ ~Loadable(file) => Returned(current, backup) = <<>>
  <2>1. CASE path = "current"
    BY <2>1 DEF Returned, Loadable
  <2>2. CASE path = "backup"
    BY <1>2b, <2>2 DEF Returned
  <2> QED
    BY <2>1, <2>2
<1>3. ASSUME NEW next, Step(t, next),
             Engages(next) => Holds(next, current, backup),
             Writes(next) => Fits(next.out, state, thread),
             StillAlone(next, current, backup)
      PROVE  Survives(t)
  BY <1>0, <1>1, <1>2, <1>3, SurvivesBy
<1>4. CASE file.form = "absent" /\ Step(t, absent)
  BY <1>3, <1>4
<1>5. CASE file.form = "bad" /\ Step(t, [thread[t] EXCEPT !.pc = "quarantine", !.path = path])
  <2> DEFINE next == [r EXCEPT !.pc = "quarantine", !.path = path]
  <2>1. Step(t, next)
    BY <1>5
  <2>2. path = "backup" /\ r.task # "load" => ~Loadable(current)
    OBVIOUS
  <2> HIDE DEF r
  <2>3. next.pc = "quarantine" /\ next.path = path /\ next.task = r.task
    BY <1>0 DEF ThreadRecord
  <2> HIDE DEF next
  <2>4. Holds(next, current, backup) /\ ~Writes(next)
    BY <2>2, <2>3 DEF Holds, Writes, Behind
  <2>5. StillAlone(next, current, backup)
    BY <1>5, <2>3 DEF StillAlone, Behind, Writes, Loadable
  <2> QED
    BY <1>3, <2>1, <2>4, <2>5
<1>6. CASE file.form = "old" /\ Step(t, [thread[t] EXCEPT !.pc = "open", !.migrating = TRUE,
                                                   !.path = path, !.out = file.set])
  <2> DEFINE out == file.set
             next == [r EXCEPT !.pc = "open", !.migrating = TRUE, !.path = path, !.out = out]
  <2>1. Step(t, next)
    BY <1>6
  <2>2. out = Returned(current, backup) /\ Fits(out, state, thread)
    BY <1>0, <1>2c, <1>6 DEF Loadable
  <2>3. current.form = "bad" => ~Loadable(backup)
    BY <1>2c, <1>6
  <2> HIDE DEF r, out
  <2>4. next.pc = "open" /\ next.out = out
    BY <1>0 DEF ThreadRecord
  <2> HIDE DEF next
  <2>5. Lasts(next, Returned(current, backup))
    <3>1. \A w : VersionIn(out, w) \in Nat
      BY <1>0, <2>2, DiskSets
    <3>2. \A w : VersionIn(out, w) >= VersionIn(out, w)
      BY <3>1
    <3> QED
      BY <2>2, <2>4, <3>2 DEF Lasts
  <2>6. Holds(next, current, backup) /\ Fits(next.out, state, thread)
    BY <2>2, <2>4, <2>5 DEF Holds, Writes
  <2>7. StillAlone(next, current, backup)
    BY <2>3 DEF StillAlone
  <2> QED
    BY <1>3, <2>1, <2>6, <2>7
<1>7. ASSUME NEW next, Step(t, next), Stands(next, current, backup),
             Writes(next) => (current.form = "bad" => ~Loadable(backup))
      PROVE  Survives(t)
  <2>1. Engages(next) => Holds(next, current, backup)
    BY <1>7 DEF Stands, Holds
  <2>2. Writes(next) => Fits(next.out, state, thread)
    BY <1>7 DEF Stands
  <2>3. StillAlone(next, current, backup)
    BY <1>7 DEF Stands, StillAlone
  <2> QED
    BY <1>3, <1>7, <2>1, <2>2, <2>3
<1>8. CASE file.form = "ok" /\ Step(t, Loaded(t, "found", file.set))
  <2> DEFINE out == file.set
             next == Loaded(t, "found", out)
  <2>1. Step(t, next) /\ out \in WindowSets /\ Fits(out, state, thread)
    BY <1>0, <1>8
  <2>2. thread[t].task # "load" => out = Returned(current, backup)
    BY <1>2c, <1>8 DEF Loadable
  <2>3. thread[t].task # "load" => (current.form = "bad" => ~Loadable(backup))
    BY <1>2c, <1>8
  <2> HIDE DEF out
  <2>4. Stands(next, current, backup)
    BY <1>0, <1>2, <2>1, <2>2, LoadedStands
  <2>5. thread[t].task = "load" => ~Writes(next)
    BY IdleRecord DEF Loaded, Finished, Writes
  <2> HIDE DEF next
  <2> QED
    BY <1>7, <2>1, <2>3, <2>4, <2>5
<1>9. CASE Fault("read") /\ Step(t, Loaded(t, "error", <<>>))
  <2>0. PICK e : e = <<>>
    OBVIOUS
  <2> DEFINE next == Loaded(t, "error", e)
  <2>1. Step(t, next) /\ e \in WindowSets /\ Fits(e, state, thread)
    BY <1>0, <1>9, <2>0, EmptySet, FitsEmpty
  <2>2. current.form = "bad" => ~Loadable(backup)
    BY <1>2b, <1>9 DEF Fault
  <2>3. Stands(next, current, backup)
    BY <1>0, <1>2, <2>1, LoadedStands
  <2> HIDE DEF next
  <2> QED
    BY <1>7, <2>1, <2>2, <2>3
<1>10. \/ file.form = "absent" /\ Step(t, absent)
       \/ file.form = "bad" /\ Step(t, [thread[t] EXCEPT !.pc = "quarantine", !.path = path])
       \/ file.form = "old" /\ Step(t, [thread[t] EXCEPT !.pc = "open", !.migrating = TRUE,
                                                  !.path = path, !.out = file.set])
       \/ file.form = "ok" /\ Step(t, Loaded(t, "found", file.set))
       \/ Fault("read") /\ Step(t, Loaded(t, "error", <<>>))
  BY DEF Read
<1> QED
  BY <1>4, <1>5, <1>6, <1>8, <1>9, <1>10

LEMMA ReadCurrentSurvives ==
    ASSUME NEW t \in Threads, Ready(t), ReadCurrent(t)
    PROVE  Survives(t)
<1> DEFINE r == thread[t]
           next == [r EXCEPT !.pc = "backup"]
<1>0. current \in SetFile /\ r \in ThreadRecord
  BY DEF Ready, Settled, Shapes
<1>1. Read(t, "current", current, "current", next)
  BY DEF ReadCurrent
<1> HIDE DEF r
<1>2. next.pc = "backup" /\ next.task = r.task
  BY <1>0 DEF ThreadRecord
<1> HIDE DEF next
<1>3. current.form = "absent" => /\ Engages(next) => Holds(next, current, backup)
                                 /\ Writes(next) => Fits(next.out, state, thread)
                                 /\ StillAlone(next, current, backup)
  BY <1>2 DEF Holds, Writes, StillAlone, Loadable
<1> QED
  BY <1>0, <1>1, <1>3, ReadSurvives

LEMMA ReadBackupSurvives ==
    ASSUME NEW t \in Threads, Ready(t), ReadBackup(t), ~Racing
    PROVE  Survives(t)
<1> DEFINE r == thread[t]
<1>0. /\ backup \in SetFile /\ r \in ThreadRecord /\ current \in SetFile /\ Shapes
      /\ r.pc = "backup" /\ Settled /\ InOrder /\ Inside(t)
  BY DEF Ready, Settled, Shapes, ReadBackup, Read, At, Inside
<1>0a. PICK e : e = <<>>
  OBVIOUS
<1> DEFINE next == Loaded(t, "none", e)
<1>1. Read(t, "backup", backup, "backup", next)
  BY <1>0a DEF ReadBackup
<1>2. r.task # "load" => ~Loadable(current)
  BY <1>0 DEF Ready, Engages, Holds, Behind, Writes
<1>3. backup.form = "old" => ~Loadable(current)
  BY <1>0, <1>2 DEF Racing
<1>4. ASSUME backup.form = "absent"
      PROVE  /\ Engages(next) => Holds(next, current, backup)
             /\ Writes(next) => Fits(next.out, state, thread)
             /\ StillAlone(next, current, backup)
  <2>1. thread[t].task # "load" => Returned(current, backup) = <<>>
    BY <1>2, <1>4 DEF Returned, Loadable
  <2>2. e \in WindowSets /\ Fits(e, state, thread) /\ Fits(Returned(current, backup), state, thread)
    BY <1>0, <1>0a, EmptySet, FitsEmpty, FitsReturned DEF Ready
  <2>3. Stands(next, current, backup)
    BY <1>0, <2>1, <2>2, LoadedStands
  <2> HIDE DEF next
  <2>4. StillAlone(next, current, backup)
    BY <1>4 DEF StillAlone, Loadable
  <2> QED
    BY <2>3, <2>4 DEF Stands, Holds
<1> HIDE DEF next
<1> QED
  BY <1>0, <1>1, <1>2, <1>3, <1>4, ReadSurvives

LEMMA QuarantineSurvives ==
    ASSUME NEW t \in Threads, Ready(t), Quarantine(t)
    PROVE  Survives(t)
<1> DEFINE r == thread[t]
<1>0. /\ r \in ThreadRecord /\ Shapes /\ Settled /\ InOrder /\ current \in SetFile
      /\ backup \in SetFile /\ Absent \in SetFile /\ r.pc = "quarantine"
      /\ Inside(t) /\ Engages(r)
  BY AbsentFiles DEF Ready, Settled, Shapes, Quarantine, At, Inside, Engages
<1>1. /\ IF r.path = "current" THEN current.form = "bad" ELSE backup.form = "bad"
      /\ Holds(r, current, backup)
      /\ Fits(current.set, state, thread) /\ Fits(backup.set, state, thread)
  BY <1>0 DEF Ready, Faithful
<1>2. /\ Absent.form = "absent" /\ Absent.set = <<>> /\ ~Loadable(Absent)
      /\ Fits(Absent.set, state, thread)
  BY <1>0, FitsEmpty DEF Absent, Loadable
<1>3. CASE r.path = "current"
  <2> DEFINE next == [r EXCEPT !.pc = "backup"]
  <2>1. /\ Step(t, next) /\ backup' = backup
        /\ current' = Absent \/ (current' = current /\ Fault("quarantine"))
    BY <1>3 DEF Quarantine
  <2>2. ~Loadable(current) /\ ~Loadable(current')
    BY <1>1, <1>2, <1>3, <2>1 DEF Loadable
  <2> HIDE DEF r
  <2>3. next.pc = "backup" /\ next.task = r.task
    BY <1>0 DEF ThreadRecord
  <2> HIDE DEF next
  <2>4. Holds(next, current', backup') /\ ~Writes(next)
    BY <2>2, <2>3 DEF Holds, Writes
  <2>5. Fits(current'.set, state, thread) /\ Fits(backup'.set, state, thread)
    BY <1>1, <1>2, <2>1
  <2>6. StillAlone(next, current', backup')
    <3>1. CASE current' = Absent
      BY <1>2, <3>1 DEF StillAlone
    <3>2. CASE current' = current /\ Fault("quarantine")
      BY <1>1, <1>3, <2>1, <3>2 DEF StillAlone, Fault, Ready, r
    <3> QED
      BY <2>1, <3>1, <3>2
  <2>7. KeepsReturned(current', backup')
    <3>1. Returned(current', backup') = Returned(current, backup)
      BY <2>1, <2>2 DEF Returned
    <3> QED
      BY <1>0, <3>1, SameReturned
  <2> QED
    BY <1>0, <2>1, <2>4, <2>5, <2>6, <2>7, SurvivesBy
<1>4. CASE r.path # "current"
  <2>0. PICK e : e = <<>>
    OBVIOUS
  <2> DEFINE next == Loaded(t, "none", e)
  <2>1. Step(t, next) /\ backup' \in {backup, Absent} /\ current' = current
    BY <1>4, <2>0 DEF Quarantine
  <2>2. PICK cur, bak : cur = current' /\ bak = backup'
    OBVIOUS
  <2>3. /\ ~Loadable(backup) /\ ~Loadable(bak) /\ cur \in SetFile /\ bak \in SetFile
        /\ Fits(cur.set, state, thread) /\ Fits(bak.set, state, thread)
    BY <1>0, <1>1, <1>2, <1>4, <2>1, <2>2 DEF Loadable
  <2>4. Returned(cur, bak) = Returned(current, backup)
    BY <2>1, <2>2, <2>3 DEF Returned
  <2>5. KeepsReturned(cur, bak)
    BY <1>0, <2>4, SameReturned
  <2>6. r.task # "load" => Returned(cur, bak) = <<>>
    <3>1. r.path = "backup"
      BY <1>0, <1>4, RecordFields
    <3>2. Behind(r) /\ ~Writes(r)
      BY <1>0, <3>1 DEF Behind, Writes
    <3>3. r.task # "load" => ~Loadable(current)
      BY <1>1, <3>2 DEF Holds
    <3> QED
      BY <2>1, <2>2, <2>3, <3>3 DEF Returned
  <2>7. Fits(Returned(cur, bak), state, thread)
    BY <1>0, <2>3, FitsReturned
  <2>8. e \in WindowSets /\ Fits(e, state, thread)
    BY <1>0, <2>0, EmptySet, FitsEmpty
  <2>9. Stands(next, cur, bak)
    BY <1>0, <2>3, <2>6, <2>7, <2>8, LoadedStands
  <2> HIDE DEF next
  <2> QED
    BY <1>0, <2>1, <2>2, <2>3, <2>5, <2>9, SurvivesStanding
<1> QED
  BY <1>3, <1>4

\* A writing thread that goes on or fails, over files that return the same.
LEMMA WritingSurvives ==
    ASSUME NEW t \in Threads, Ready(t), Writes(thread[t]), NEW pc \in {"fill", "rotate", "move"},
           Step(t, [thread[t] EXCEPT !.pc = pc]) \/ Step(t, WriteFailed(t)),
           current' \in SetFile, backup' \in SetFile,
           Fits(current'.set, state, thread), Fits(backup'.set, state, thread),
           Returned(current', backup') = Returned(current, backup),
           current'.form = "bad" => current' = current /\ backup' = backup
    PROVE  Survives(t)
<1> DEFINE r == thread[t]
<1>0. /\ r \in ThreadRecord /\ Shapes /\ Settled /\ InOrder
      /\ Inside(t) /\ Engages(r) /\ Behind(r)
  BY DEF Ready, Settled, Shapes, Inside, Engages, Behind, Writes
<1>1. PICK cur, bak : cur = current' /\ bak = backup'
  OBVIOUS
<1>2. /\ cur \in SetFile /\ bak \in SetFile
      /\ Fits(cur.set, state, thread) /\ Fits(bak.set, state, thread)
      /\ Returned(cur, bak) = Returned(current, backup)
      /\ cur.form = "bad" => ~Loadable(bak)
  BY <1>0, <1>1 DEF Ready
<1>3. KeepsReturned(cur, bak) /\ Fits(Returned(cur, bak), state, thread)
  BY <1>0, <1>2, SameReturned, FitsReturned
<1>4. ASSUME NEW next, Step(t, next), Holds(next, cur, bak),
             Writes(next) => Fits(next.out, state, thread)
      PROVE  Survives(t)
  <2>1. StillAlone(next, cur, bak)
    BY <1>2 DEF StillAlone
  <2> QED
    BY <1>0, <1>1, <1>2, <1>3, <1>4, <2>1, SurvivesBy
<1>5. CASE Step(t, [thread[t] EXCEPT !.pc = pc])
  <2> DEFINE next == [r EXCEPT !.pc = pc]
  <2>1. Step(t, next)
    BY <1>5
  <2>2. Lasts(r, Returned(cur, bak)) /\ Fits(r.out, state, thread)
    BY <1>0, <1>2 DEF Ready, Holds
  <2> HIDE DEF r
  <2>3. next.pc = pc /\ next.out = r.out /\ next.blind = r.blind
    BY <1>0 DEF ThreadRecord
  <2> HIDE DEF next
  <2>4. Lasts(next, Returned(cur, bak)) /\ Writes(next)
    BY <2>2, <2>3 DEF Lasts, Writes
  <2> QED
    BY <1>4, <2>1, <2>2, <2>3, <2>4 DEF Holds
<1>6. CASE Step(t, WriteFailed(t))
  <2> DEFINE next == WriteFailed(t)
  <2>1. Step(t, next)
    BY <1>6
  <2>2. Stands(next, cur, bak)
    BY <1>0, <1>2, <1>3, WriteFailedStands
  <2> HIDE DEF next
  <2> QED
    BY <1>4, <2>1, <2>2 DEF Stands, Holds
<1> QED
  BY <1>5, <1>6

LEMMA FillingSurvives ==
    ASSUME NEW t \in Threads, Ready(t), OpenTemporary(t) \/ FillTemporary(t)
    PROVE  Survives(t)
<1>1. /\ Writes(thread[t]) /\ current' = current /\ backup' = backup
  BY DEF OpenTemporary, FillTemporary, At, Writes
<1>2. /\ current \in SetFile /\ backup \in SetFile
      /\ Fits(current.set, state, thread) /\ Fits(backup.set, state, thread)
  BY DEF Ready, Settled, Shapes
<1>3. PICK pc \in {"fill", "rotate", "move"} :
         Step(t, [thread[t] EXCEPT !.pc = pc]) \/ Step(t, WriteFailed(t))
  BY DEF OpenTemporary, FillTemporary
<1> QED
  BY <1>1, <1>2, <1>3, WritingSurvives

\* The current file becomes the backup: load returns what it did, since a bad
\* current file has no good backup behind it when a thread comes here.
LEMMA RotateSurvives ==
    ASSUME NEW t \in Threads, Ready(t), Rotate(t)
    PROVE  Survives(t)
<1>0. /\ Writes(thread[t]) /\ Shapes /\ current \in SetFile /\ backup \in SetFile
      /\ Absent \in SetFile
      /\ Fits(current.set, state, thread) /\ Fits(backup.set, state, thread)
      /\ Step(t, [thread[t] EXCEPT !.pc = "move"]) \/ Step(t, WriteFailed(t))
  BY AbsentFiles DEF Ready, Settled, Shapes, Rotate, At, Writes
<1>1. CASE current.form # "absent" /\ backup' = current /\ current' = Absent
  <2>1. /\ Absent.form = "absent" /\ Absent.set = <<>> /\ ~Loadable(Absent)
        /\ Fits(Absent.set, state, thread)
    BY <1>0, FitsEmpty DEF Absent, Loadable
  <2>2. Returned(current', backup') = Returned(current, backup)
    <3>1. CASE Loadable(current)
      BY <1>1, <2>1, <3>1 DEF Returned
    <3>2. CASE ~Loadable(current)
      <4>1. current.form = "bad"
        BY <1>0, <1>1, <3>2 DEF SetFile, Loadable
      <4>2. ~Loadable(backup)
        BY <1>0, <4>1 DEF Ready, Behind
      <4> QED
        BY <1>1, <2>1, <3>2, <4>2 DEF Returned
    <3> QED
      BY <3>1, <3>2
  <2> QED
    BY <1>0, <1>1, <2>1, <2>2, WritingSurvives
<1>2. CASE current' = current /\ backup' = backup
  BY <1>0, <1>2, WritingSurvives
<1> QED
  BY <1>1, <1>2 DEF Rotate

\* A call or a load that returns leaves its thread elsewhere.
LEMMA SucceededPlaces ==
    ASSUME NEW t \in Threads, thread \in [Threads -> ThreadRecord]
    PROVE  WriteSucceeded(t).pc # "move"
<1> DEFINE r == thread[t]
<1>0. r \in ThreadRecord
  OBVIOUS
<1>1. ASSUME NEW ok \in BOOLEAN PROVE Finished(t, ok).pc # "move"
  <2>1. CASE r.task = "load"
    BY <2>1, IdleRecord DEF Finished
  <2>2. CASE r.task # "load"
    <3> DEFINE next == [r EXCEPT !.pc = "done", !.ok = ok]
    <3>1. Finished(t, ok) = next
      BY <2>2 DEF Finished
    <3> HIDE DEF r
    <3>2. next.pc = "done"
      BY <1>0 DEF ThreadRecord
    <3> QED
      BY <3>1, <3>2
  <2> QED
    BY <2>1, <2>2
<1>2. ASSUME NEW entries PROVE Loaded(t, "found", entries).pc # "move"
  <2> DEFINE n == Loaded(t, "found", entries)
             own == [win |-> t[1], ver |-> r.ver]
             merged == Merge(entries, own)
  <2>1. CASE r.task = "save"
    <3> DEFINE next == [r EXCEPT !.pc = "open", !.migrating = FALSE, !.blind = FALSE,
                                 !.out = merged]
    <3>1. n = next
      BY <2>1 DEF Loaded
    <3> HIDE DEF r, merged
    <3>2. next.pc = "open"
      BY <1>0 DEF ThreadRecord
    <3> HIDE DEF next
    <3>3. n.pc # "move"
      BY <3>1, <3>2
    <3> QED
      BY <3>3
  <2>2. CASE r.task = "view"
    <3> DEFINE next == [r EXCEPT !.pc = "open", !.migrating = FALSE, !.out = entries]
    <3>1. n = next
      BY <2>2 DEF Loaded
    <3> HIDE DEF r
    <3>2. next.pc = "open"
      BY <1>0 DEF ThreadRecord
    <3> HIDE DEF next
    <3>3. n.pc # "move"
      BY <3>1, <3>2
    <3> QED
      BY <3>3
  <2>3. CASE r.task \notin {"save", "view"}
    <3>1. n = Finished(t, FALSE)
      BY <2>3 DEF Loaded
    <3> QED
      BY <1>1, <3>1
  <2> QED
    BY <2>1, <2>2, <2>3
<1> QED
  BY <1>1, <1>2 DEF WriteSucceeded

\* The temporary file becomes the current one: a window that is gone from it
\* was dropped by a full set or a blind save.
LEMMA MoveSurvives ==
    ASSUME NEW t \in Threads, Ready(t), Move(t)
    PROVE  Survives(t)
<1> DEFINE r == thread[t]
<1>0. /\ r \in ThreadRecord /\ Shapes /\ Settled /\ InOrder /\ backup' = backup
      /\ thread \in [Threads -> ThreadRecord] /\ r.out \in WindowSets
      /\ r.pc = "move" /\ Writes(r) /\ Engages(r) /\ Inside(t)
      /\ current \in SetFile /\ backup \in SetFile
      /\ Fits(current.set, state, thread) /\ Fits(backup.set, state, thread)
  BY RecordFields DEF Ready, Settled, Shapes, Move, At, Writes, Engages, Inside
<1>1. /\ temp.form = "ok" /\ temp.set = r.out
      /\ Lasts(r, Returned(current, backup)) /\ Fits(r.out, state, thread)
  BY <1>0 DEF Ready, Faithful, Holds
<1>2. CASE current' = [form |-> temp.form, set |-> temp.set] /\ Step(t, WriteSucceeded(t))
  <2> DEFINE next == WriteSucceeded(t)
  <2>1. PICK cur, bak : cur = current' /\ bak = backup'
    OBVIOUS
  <2>2. /\ cur.form = "ok" /\ cur.set = r.out /\ bak \in SetFile
        /\ Fits(bak.set, state, thread)
    BY <1>0, <1>1, <1>2, <2>1
  <2>2a. cur \in SetFile
    <3>1. cur = [form |-> "ok", set |-> r.out]
      BY <1>1, <1>2, <2>1
    <3> QED
      BY <1>0, <3>1 DEF SetFile
  <2>3. Returned(cur, bak) = r.out
    BY <2>2 DEF Returned, Loadable
  <2>4. Stands(next, cur, bak)
    <3>1. CASE r.migrating
      <4>1. PICK out : out = r.out
        OBVIOUS
      <4>2. /\ out \in WindowSets /\ out = Returned(cur, bak) /\ Fits(out, state, thread)
            /\ next = Loaded(t, "found", out)
        BY <1>0, <1>1, <2>3, <3>1, <4>1 DEF WriteSucceeded
      <4>2a. Fits(Returned(cur, bak), state, thread)
        BY <4>2
      <4> HIDE DEF next, r
      <4>3. Stands(Loaded(t, "found", out), cur, bak)
        BY <1>0, <2>2, <2>2a, <4>2, <4>2a, LoadedStands
      <4> QED
        BY <4>2, <4>3
    <3>2. CASE ~r.migrating
      <4>1. next = Finished(t, TRUE)
        BY <3>2 DEF WriteSucceeded
      <4> HIDE DEF next
      <4> QED
        BY <1>0, <4>1, FinishedStands
    <3> QED
      BY <3>1, <3>2
  <2>5. /\ Holds(next, cur, bak) /\ (Writes(next) => Fits(next.out, state, thread))
        /\ StillAlone(next, cur, bak)
    BY <2>2, <2>4 DEF Stands, Holds, StillAlone
  <2>6. thread'[t] = next /\ next # r
    <3>1. thread'[t] = next
      BY <1>0, <1>2 DEF Step
    <3>2. next.pc # "move"
      BY <1>0, SucceededPlaces
    <3> HIDE DEF next
    <3> QED
      BY <1>0, <3>1, <3>2
  <2>7. ASSUME NEW w \in Windows
        PROVE  \/ VersionIn(Returned(cur, bak), w) >= VersionIn(Returned(current, backup), w)
               \/ Excused(w)
    <3>1. CASE VersionIn(r.out, w) >= VersionIn(Returned(current, backup), w)
      BY <2>3, <3>1
    <3>2. CASE VersionIn(r.out, w) = 0 /\ (r.blind \/ Len(r.out) = MaxWindows)
      <4>1. current'.set = r.out
        BY <2>1, <2>2
      <4>2. thread'[t] # thread[t]
        BY <2>6
      <4> HIDE DEF next
      <4> QED
        BY <1>0, <3>2, <4>1, <4>2 DEF Excused
    <3> QED
      BY <1>1, <3>1, <3>2 DEF Lasts
  <2> HIDE DEF next
  <2>8. /\ thread'[t] = next /\ Fits(cur.set, state, thread)
        /\ cur = current' /\ bak = backup'
    BY <1>1, <2>1, <2>2, <2>6
  <2> QED
    BY <2>2, <2>5, <2>7, <2>8 DEF Survives
<1>3. CASE current' = current /\ Step(t, WriteFailed(t))
  <2>1. "move" \in {"fill", "rotate", "move"}
    OBVIOUS
  <2> QED
    BY <1>0, <1>3, <2>1, WritingSurvives
<1> QED
  BY <1>2, <1>3 DEF Move

\* A reset may take everything away.
LEMMA RemoveSurvives ==
    ASSUME NEW t \in Threads, Ready(t),
           RemoveCurrent(t) \/ RemoveBackup(t) \/ RemoveTemp(t) \/ RemoveFails(t)
    PROVE  Survives(t)
<1> DEFINE r == thread[t]
<1>0. /\ r \in ThreadRecord /\ Shapes /\ thread \in [Threads -> ThreadRecord]
      /\ Fits(current.set, state, thread) /\ Fits(backup.set, state, thread)
      /\ Fits(Absent.set, state, thread) /\ Absent.form = "absent"
  BY FitsEmpty DEF Ready, Settled, Shapes, Absent
<1>1. ASSUME NEW ok \in BOOLEAN, Step(t, Finished(t, ok))
      PROVE  thread'[t].pc \in {"idle", "done"}
  <2>1. thread'[t] = Finished(t, ok)
    BY <1>0, <1>1 DEF Step
  <2>2. CASE r.task = "load"
    BY <2>1, <2>2, IdleRecord DEF Finished
  <2>3. CASE r.task # "load"
    <3> DEFINE next == [r EXCEPT !.pc = "done", !.ok = ok]
    <3>1. thread'[t] = next
      BY <2>1, <2>3 DEF Finished
    <3> HIDE DEF r
    <3>2. next.pc = "done"
      BY <1>0 DEF ThreadRecord
    <3> QED
      BY <3>1, <3>2
  <2> QED
    BY <2>2, <2>3
<1>2. ASSUME NEW pc \in {"rmBackup", "rmTemp"}, Step(t, [thread[t] EXCEPT !.pc = pc])
      PROVE  thread'[t].pc = pc
  <2>1. thread'[t] = [r EXCEPT !.pc = pc]
    BY <1>0, <1>2 DEF Step
  <2> HIDE DEF r
  <2> QED
    BY <1>0, <2>1 DEF ThreadRecord
<1>3. thread'[t].pc \in {"idle", "done", "rmBackup", "rmTemp"}
  BY <1>1, <1>2 DEF RemoveCurrent, RemoveBackup, RemoveTemp, Remove, RemoveFails
<1>4. ~Writes(thread'[t]) /\ ~Behind(thread'[t])
  BY <1>3 DEF Writes, Behind
<1>5. /\ current' \in {current, Absent} /\ backup' \in {backup, Absent}
  BY DEF RemoveCurrent, RemoveBackup, RemoveTemp, RemoveFails, disk
<1>6. Fits(current'.set, state, thread) /\ Fits(backup'.set, state, thread)
  BY <1>0, <1>5
<1>7. StillAlone(thread'[t], current', backup')
  <2>1. CASE current' = Absent
    BY <1>0, <2>1 DEF StillAlone
  <2>2. CASE current' = current
    BY <1>0, <1>4, <1>5, <2>2 DEF StillAlone, Loadable
  <2> QED
    BY <1>5, <2>1, <2>2
<1>8. ASSUME NEW w \in Windows
      PROVE  \/ VersionIn(Returned(current', backup'), w) >= VersionIn(Returned(current, backup), w)
             \/ Excused(w)
  <2>1. CASE current' = current /\ backup' = backup
    <3>1. KeepsReturned(current', backup')
      BY <1>0, <2>1, SameReturned
    <3> QED
      BY <3>1 DEF KeepsReturned
  <2>2. CASE RemoveCurrent(t) \/ RemoveBackup(t)
    <3>1. r.pc \in {"rmCurrent", "rmBackup"} /\ thread'[t].pc # r.pc
      <4>1. CASE RemoveCurrent(t)
        BY <1>2, <4>1 DEF RemoveCurrent, Remove, At
      <4>2. CASE RemoveBackup(t)
        BY <1>2, <4>2 DEF RemoveBackup, Remove, At
      <4> QED
        BY <2>2, <4>1, <4>2
    <3>2. thread'[t] # thread[t]
      BY <3>1
    <3> QED
      BY <3>1, <3>2 DEF Excused
  <2>3. CASE RemoveTemp(t) \/ RemoveFails(t)
    BY <2>1, <2>3 DEF RemoveTemp, RemoveFails, disk
  <2> QED
    BY <2>2, <2>3
<1> QED
  BY <1>4, <1>6, <1>7, <1>8 DEF Survives, Holds

LEMMA StoreStepSurvives ==
    ASSUME NEW t \in Threads, Ready(t), StoreStep(t), ~Racing
    PROVE  Survives(t)
<1>1. CASE ReadCurrent(t)
  BY <1>1, ReadCurrentSurvives
<1>2. CASE ReadBackup(t)
  BY <1>2, ReadBackupSurvives
<1>3. CASE Quarantine(t)
  BY <1>3, QuarantineSurvives
<1>4. CASE OpenTemporary(t) \/ FillTemporary(t)
  BY <1>4, FillingSurvives
<1>5. CASE Rotate(t)
  BY <1>5, RotateSurvives
<1>6. CASE Move(t)
  BY <1>6, MoveSurvives
<1>7. CASE RemoveCurrent(t) \/ RemoveBackup(t) \/ RemoveTemp(t) \/ RemoveFails(t)
  BY <1>7, RemoveSurvives
<1> QED
  BY <1>1, <1>2, <1>3, <1>4, <1>5, <1>6, <1>7 DEF StoreStep

-----------------------------------------------------------------------------
(* What was saved stays on disk: versions only grow                          *)

\* From coordinator s and worker r to s2 and r2: in order again, and what was
\* not newer is not newer still.
Later(s, r, s2, r2) ==
    Ordered(s, r) =>
       /\ Ordered(s2, r2)
       /\ \A n \in 0..MaxVersion : Within(n, s, r) => Within(n, s2, r2)

Aging ==
    \A p \in Procs :
       Later(state[p], thread[<<p, "worker">>], state'[p], thread'[<<p, "worker">>])

LEMMA LaterBy ==
    ASSUME NEW s \in CoordinatorRecord, NEW s2 \in CoordinatorRecord,
           NEW r \in ThreadRecord, NEW r2 \in ThreadRecord, s2.ver >= s.ver,
           s2.latest \in {0, s.latest, s2.ver} \/ (r.task = "save" /\ s2.latest = r.ver),
           \/ r2.ver \in {0, r.ver} /\ (r2.task = "save" => r.task = "save" /\ r2.ver = r.ver)
           \/ s.latest # 0 /\ s2.latest = 0 /\ r2.ver = s.latest
    PROVE  Later(s, r, s2, r2)
<1>1. /\ s.ver \in Nat /\ s.latest \in Nat /\ r.ver \in Nat
      /\ s2.ver \in Nat /\ s2.latest \in Nat /\ r2.ver \in Nat
  BY CoordinatorFields, RecordFields, BoundsAssumption
<1> SUFFICES ASSUME Ordered(s, r)
             PROVE  /\ Ordered(s2, r2)
                    /\ \A n \in 0..MaxVersion : Within(n, s, r) => Within(n, s2, r2)
  BY DEF Later
<1>2. Ordered(s2, r2)
  BY <1>1 DEF Ordered
<1>3. ASSUME NEW n \in 0..MaxVersion, Within(n, s, r) PROVE Within(n, s2, r2)
  <2>1. n \in Nat
    BY BoundsAssumption
  <2> QED
    BY <1>1, <1>3, <2>1 DEF Ordered, Within
<1> QED
  BY <1>2, <1>3

LEMMA OlderFits ==
    ASSUME Shapes, InOrder, Aging
    PROVE  /\ InOrder'
           /\ \A entries \in WindowSets :
                 Fits(entries, state, thread) => Fits(entries, state', thread')
<1>1. ASSUME NEW p \in Procs
      PROVE  /\ Ordered(state'[p], thread'[<<p, "worker">>])
             /\ \A n \in 0..MaxVersion :
                   Within(n, state[p], thread[<<p, "worker">>]) =>
                      Within(n, state'[p], thread'[<<p, "worker">>])
  <2>1. Ordered(state[p], thread[<<p, "worker">>])
    BY DEF InOrder
  <2>2. Later(state[p], thread[<<p, "worker">>], state'[p], thread'[<<p, "worker">>])
    BY DEF Aging
  <2> QED
    BY <2>1, <2>2 DEF Later
<1>2. InOrder'
  BY <1>1 DEF InOrder
<1>3. ASSUME NEW entries \in WindowSets, Fits(entries, state, thread)
      PROVE  Fits(entries, state', thread')
  <2>1. ASSUME NEW p \in Procs
        PROVE  Within(VersionIn(entries, p), state'[p], thread'[<<p, "worker">>])
    <3> DEFINE n == VersionIn(entries, p)
    <3>1. n \in 0..MaxVersion
      BY VersionsIn
    <3>2. Within(n, state[p], thread[<<p, "worker">>])
      BY <1>3 DEF Fits
    <3> HIDE DEF n
    <3>3. Within(n, state'[p], thread'[<<p, "worker">>])
      BY <1>1, <3>1, <3>2
    <3> QED
      BY <3>3 DEF n
  <2> QED
    BY <2>1 DEF Fits
<1> QED
  BY <1>2, <1>3

\* A step that leaves the coordinators alone and its thread at the same task.
LEMMA StepAges ==
    ASSUME Settled, NEW t \in Threads, NEW next, Follows(thread[t], next), Step(t, next)
    PROVE  Aging
<1> SUFFICES ASSUME NEW p \in Procs
             PROVE  Later(state[p], thread[<<p, "worker">>], state'[p], thread'[<<p, "worker">>])
  BY DEF Aging
<1> DEFINE w == <<p, "worker">>
<1>1. /\ w \in Threads /\ thread \in [Threads -> ThreadRecord]
      /\ state[p] \in CoordinatorRecord /\ thread[w] \in ThreadRecord
      /\ GuardedAt(p, holder, thread[<<p, "ui">>], thread[w])
  BY CoordinatorRecords
<1>2. state' = state /\ thread' = [thread EXCEPT ![t] = next] /\ next \in ThreadRecord
  BY DEF Step, Follows
<1>3. PICK s, r, r2 : s = state[p] /\ r = thread[w] /\ r2 = thread'[w]
  OBVIOUS
<1> HIDE DEF w
<1>4. r2 = r \/ (r2 = next /\ t = w)
  BY <1>1, <1>2, <1>3
<1>5. r2 \in ThreadRecord /\ r2.task = r.task /\ r2.ver = r.ver
  <2>1. CASE t = w /\ r2 = next
    BY <1>1, <1>2, <1>3, <2>1 DEF GuardedAt, Follows
  <2> QED
    BY <1>1, <1>3, <1>4, <2>1
<1>6. s.ver >= s.ver
  BY <1>1, <1>3, CoordinatorFields, BoundsAssumption
<1>7. Later(s, r, s, r2)
  BY <1>1, <1>3, <1>5, <1>6, LaterBy
<1> QED
  BY <1>2, <1>3, <1>7 DEF w

\* The coordinator of p, and no thread of it comes past the current file.
Orderly(p) ==
    /\ Later(state[p], thread[<<p, "worker">>], state'[p], thread'[<<p, "worker">>])
    /\ \A u \in Threads : thread'[u] = thread[u] \/ ~Behind(thread'[u])

LEMMA PlainRecords ==
    ASSUME Settled, NEW p \in Procs
    PROVE  /\ state \in [Procs -> CoordinatorRecord] /\ state[p] \in CoordinatorRecord
           /\ thread \in [Threads -> ThreadRecord] /\ thread[<<p, "worker">>] \in ThreadRecord
           /\ <<p, "ui">> \in Threads /\ <<p, "worker">> \in Threads
           /\ <<p, "ui">> # <<p, "worker">> /\ <<p, "worker">>[1] = p
           /\ state[p].ver \in 0..MaxVersion /\ state[p].ver \in Nat
           /\ Idle \in ThreadRecord /\ Idle.pc = "idle" /\ Idle.task = "none" /\ Idle.ver = 0
           /\ 0 \in 0..MaxVersion
<1>1. Shapes /\ 0 \in 0..MaxVersion
  BY BoundsAssumption DEF Settled
<1>2. <<p, "ui">> \in Threads /\ <<p, "worker">> \in Threads /\ <<p, "ui">> # <<p, "worker">>
  BY ThreadNames
<1>3. state \in [Procs -> CoordinatorRecord] /\ thread \in [Threads -> ThreadRecord]
  BY <1>1 DEF Shapes
<1>4. state[p] \in CoordinatorRecord /\ thread[<<p, "worker">>] \in ThreadRecord
  BY <1>2, <1>3
<1>5. state[p].ver \in 0..MaxVersion
  BY <1>4, CoordinatorFields
<1>6. state[p].ver \in Nat
  BY <1>5, BoundsAssumption
<1>7. Idle.ver = 0
  BY DEF Idle
<1> QED
  BY <1>1, <1>2, <1>3, <1>4, <1>5, <1>6, <1>7, IdleRecord, ThreadNames

LEMMA AcceptOrderly ==
    ASSUME Settled, NEW p \in Procs, Accept(p) \/ RequestReset(p)
    PROVE  Orderly(p)
<1> DEFINE w == <<p, "worker">>
<1>1. /\ state \in [Procs -> CoordinatorRecord] /\ state[p] \in CoordinatorRecord
      /\ w \in Threads /\ thread[w] \in ThreadRecord /\ thread' = thread
      /\ state[p].ver \in Nat /\ 0 \in 0..MaxVersion
  BY PlainRecords DEF Accept, RequestReset
<1>2. PICK s, s2, r : s = state[p] /\ s2 = state'[p] /\ r = thread[w]
  OBVIOUS
<1>3. /\ s2 \in CoordinatorRecord /\ s2.ver >= s.ver /\ s2.latest \in {0, s2.ver}
  <2>1. CASE Accept(p)
    <3> DEFINE v == state[p].ver + 1
               n == [state[p] EXCEPT !.ver = v, !.latest = v]
    <3>1. Coordinate(p, n) /\ state[p].ver < MaxVersion
      BY <2>1 DEF Accept
    <3>2. v \in 0..MaxVersion /\ v >= state[p].ver
      BY <1>1, <3>1, BoundsAssumption DEF CoordinatorRecord
    <3> HIDE DEF v
    <3>3. n \in CoordinatorRecord /\ n.ver = v /\ n.latest = v
      BY <1>1, <3>2 DEF CoordinatorRecord
    <3> HIDE DEF n
    <3>4. state'[p] = n
      BY <1>1, <3>1 DEF Coordinate
    <3> QED
      BY <1>2, <3>2, <3>3, <3>4
  <2>2. CASE RequestReset(p)
    <3>1. PICK scope \in Scopes : Coordinate(p, [state[p] EXCEPT !.latest = 0, !.reset = scope])
      BY <2>2 DEF RequestReset
    <3> DEFINE n == [state[p] EXCEPT !.latest = 0, !.reset = scope]
    <3>2. Coordinate(p, n)
      BY <3>1
    <3>3. n \in CoordinatorRecord /\ n.ver = state[p].ver /\ n.latest = 0
      BY <1>1 DEF CoordinatorRecord
    <3> HIDE DEF n
    <3>4. state'[p] = n
      BY <1>1, <3>2 DEF Coordinate
    <3>5. state[p].ver >= state[p].ver
      BY <1>1
    <3> QED
      BY <1>2, <3>3, <3>4, <3>5
  <2> QED
    BY <2>1, <2>2
<1>4. r \in ThreadRecord /\ s \in CoordinatorRecord
  BY <1>1, <1>2
<1>5. r.ver \in {0, r.ver} /\ (r.task = "save" => r.task = "save" /\ r.ver = r.ver)
  OBVIOUS
<1> HIDE DEF w
<1>6. Later(s, r, s2, r)
  BY <1>3, <1>4, <1>5, LaterBy
<1> QED
  BY <1>1, <1>2, <1>6 DEF Orderly, w

\* The steps that leave the versions and the worker alone.
LEMMA StartOrderly ==
    ASSUME Settled, NEW p \in Procs,
           \/ StartCoordinator(p) \/ Shutdown(p) \/ Exit(p) \/ Start(p) \/ LoadClosedWindows(p)
    PROVE  Orderly(p)
<1> DEFINE w == <<p, "worker">>
           ui == <<p, "ui">>
           next == [Idle EXCEPT !.pc = "current", !.task = "load"]
<1>1. /\ state \in [Procs -> CoordinatorRecord] /\ state[p] \in CoordinatorRecord
      /\ w \in Threads /\ ui \in Threads /\ ui # w
      /\ thread \in [Threads -> ThreadRecord] /\ thread[w] \in ThreadRecord
      /\ state[p].ver \in Nat
  BY PlainRecords
<1>2. /\ thread' = thread \/ thread' = [thread EXCEPT ![ui] = next]
      /\ \/ \E up \in {"loading", "running", "closing", "down"} :
               state' = [state EXCEPT ![p] = [state[p] EXCEPT !.up = up]]
         \/ state' = state
  BY DEF StartCoordinator, Shutdown, Exit, Start, LoadClosedWindows, Coordinate
<1>3. ~Behind(next)
  <2>1. next.pc = "current"
    BY IdleRecord DEF ThreadRecord
  <2> HIDE DEF next
  <2> QED
    BY <2>1 DEF Behind, Writes
<1> HIDE DEF next
<1>4. /\ thread'[w] = thread[w]
      /\ \A u \in Threads : thread'[u] = thread[u] \/ ~Behind(thread'[u])
  BY <1>1, <1>2, <1>3
<1>5. PICK s, s2, r : s = state[p] /\ s2 = state'[p] /\ r = thread[w]
  OBVIOUS
<1>6. s2 \in CoordinatorRecord /\ s2.ver = s.ver /\ s2.latest = s.latest
  <2>1. ASSUME NEW up \in {"loading", "running", "closing", "down"}
        PROVE  LET n == [state[p] EXCEPT !.up = up]
               IN  n \in CoordinatorRecord /\ n.ver = state[p].ver /\ n.latest = state[p].latest
    BY <1>1 DEF CoordinatorRecord
  <2>2. \/ \E up \in {"loading", "running", "closing", "down"} : s2 = [state[p] EXCEPT !.up = up]
        \/ s2 = s
    BY <1>1, <1>2, <1>5
  <2> QED
    BY <1>1, <1>5, <2>1, <2>2
<1>7. r \in ThreadRecord /\ s \in CoordinatorRecord /\ s2.ver >= s.ver
  BY <1>1, <1>5, <1>6
<1> HIDE DEF w
<1>8. Later(s, r, s2, r)
  BY <1>6, <1>7, LaterBy
<1> QED
  BY <1>4, <1>5, <1>8 DEF Orderly, w

\* The steps of the worker outside the store.
LEMMA WorkerOrderly ==
    ASSUME Settled, NEW p \in Procs, WorkerStep(p)
    PROVE  Orderly(p)
<1> DEFINE w == <<p, "worker">>
<1>1. /\ state \in [Procs -> CoordinatorRecord] /\ state[p] \in CoordinatorRecord
      /\ w \in Threads /\ thread \in [Threads -> ThreadRecord] /\ thread[w] \in ThreadRecord
      /\ state[p].ver \in Nat /\ 0 \in 0..MaxVersion /\ Idle \in ThreadRecord
      /\ Idle.pc = "idle" /\ Idle.task = "none" /\ Idle.ver = 0
  BY PlainRecords
<1>2. PICK s, r : s = state[p] /\ r = thread[w]
  OBVIOUS
<1>2a. s \in CoordinatorRecord /\ r \in ThreadRecord /\ s.ver >= s.ver
  BY <1>1, <1>2
<1>3. ASSUME NEW s2 \in CoordinatorRecord, NEW r2 \in ThreadRecord, s2.ver = s.ver,
             state' = [state EXCEPT ![p] = s2] \/ (state' = state /\ s2 = s),
             thread' = [thread EXCEPT ![w] = r2],
             s2.latest \in {0, s.latest} \/ (r.task = "save" /\ s2.latest = r.ver),
             \/ r2.ver \in {0, r.ver} /\ (r2.task = "save" => r.task = "save" /\ r2.ver = r.ver)
             \/ s.latest # 0 /\ s2.latest = 0 /\ r2.ver = s.latest,
             r2.pc \in {"idle", "acquire", "current", "rmCurrent"}
      PROVE  Orderly(p)
  <2> HIDE DEF w
  <2>1. Later(s, r, s2, r2)
    BY <1>2a, <1>3, LaterBy
  <2>2. state'[p] = s2 /\ thread'[w] = r2
    BY <1>1, <1>2, <1>3
  <2>3. ~Behind(r2)
    BY <1>3 DEF Behind, Writes
  <2>4. \A u \in Threads : thread'[u] = thread[u] \/ ~Behind(thread'[u])
    BY <1>1, <1>3, <2>3
  <2> QED
    BY <1>2, <2>1, <2>2, <2>4 DEF Orderly, w
<1>4. CASE Take(p)
  <2> DEFINE resets == s.reset # "none"
             task == IF resets THEN s.reset ELSE "save"
             ver == IF resets THEN 0 ELSE s.latest
             r2 == [Idle EXCEPT !.pc = "acquire", !.task = task, !.ver = ver]
             s2 == IF resets THEN [s EXCEPT !.reset = "none"] ELSE [s EXCEPT !.latest = 0]
  <2>1. /\ resets \/ s.latest # 0
        /\ Coordinate(p, s2) /\ thread' = [thread EXCEPT ![w] = r2]
    BY <1>2, <1>4 DEF Take
  <2>2. /\ task \in {"save"} \cup Scopes /\ (task = "save" <=> ~resets)
        /\ ver \in 0..MaxVersion
    BY <1>1, <1>2a DEF CoordinatorRecord, Scopes
  <2>3. /\ s2 \in CoordinatorRecord /\ s2.ver = s.ver
        /\ s2.latest = IF resets THEN s.latest ELSE 0
    BY <1>1, <1>2a DEF CoordinatorRecord
  <2>4. ver = IF resets THEN 0 ELSE s.latest
    OBVIOUS
  <2> HIDE DEF s2, task, ver, resets, w
  <2>5. r2 \in ThreadRecord /\ r2.pc = "acquire" /\ r2.task = task /\ r2.ver = ver
    <3>1. task \in Tasks /\ "acquire" \in Pcs
      BY <2>2 DEF Tasks, Pcs
    <3> QED
      BY <2>2, <3>1, IdleRecord DEF ThreadRecord
  <2> HIDE DEF r2
  <2>6. state' = [state EXCEPT ![p] = s2]
    BY <2>1 DEF Coordinate
  <2>7. CASE resets
    BY <1>3, <2>1, <2>2, <2>3, <2>4, <2>5, <2>6, <2>7
  <2>8. CASE ~resets
    BY <1>3, <2>1, <2>2, <2>3, <2>4, <2>5, <2>6, <2>8
  <2> QED
    BY <2>7, <2>8
<1>5. CASE Acquire(p)
  <2>1. PICK pc \in {"current", "rmCurrent"} :
           thread' = [thread EXCEPT ![w] = [thread[w] EXCEPT !.pc = pc]]
    BY <1>1, <1>5 DEF Acquire
  <2> DEFINE r2 == [r EXCEPT !.pc = pc]
  <2>2. thread' = [thread EXCEPT ![w] = r2] /\ state' = state
    BY <1>2, <1>5, <2>1 DEF Acquire
  <2> HIDE DEF w
  <2>3. r2 \in ThreadRecord /\ r2.pc = pc /\ r2.task = r.task /\ r2.ver = r.ver
    BY <1>2a, <2>1 DEF ThreadRecord, Pcs
  <2> HIDE DEF r2
  <2> QED
    BY <1>2a, <1>3, <2>2, <2>3
<1>6. CASE Complete(p)
  <2> DEFINE retry == ~r.ok /\ s.up = "running"
             again == retry /\ r.task = "save" /\ s.latest = 0
             s2 == IF again THEN [s EXCEPT !.latest = r.ver]
                   ELSE IF retry /\ r.task # "save" THEN [s EXCEPT !.reset = r.task]
                   ELSE s
  <2>1. thread' = [thread EXCEPT ![w] = Idle] /\ state' = [state EXCEPT ![p] = s2]
    BY <1>2, <1>6 DEF Complete, Coordinate
  <2>2. r.ver \in 0..MaxVersion /\ s2 \in CoordinatorRecord
    <3>1. Settled' /\ state'[p] = s2
      <4>1. Alters(p) /\ Tidy(p) /\ Fresh(p)
        BY <1>6, CompleteTidy
      <4>2. temp' \in TempRecord
        BY <4>1, CoordinatorRecords DEF Fresh
      <4>3. Settled'
        BY <4>1, <4>2, AltersSettled
      <4>4. state'[p] = s2
        BY <1>1, <2>1
      <4> QED
        BY <4>3, <4>4
    <3>2. state' \in [Procs -> CoordinatorRecord]
      BY <3>1 DEF Settled, Shapes
    <3> QED
      BY <1>2a, <3>1, <3>2, RecordFields
  <2>3. s2.ver = s.ver /\ s2.latest \in {s.latest} \cup (IF again THEN {r.ver} ELSE {})
    BY <1>2a, <2>2 DEF CoordinatorRecord
  <2>4. s2.latest = s.latest \/ (r.task = "save" /\ s2.latest = r.ver)
    BY <2>3
  <2> HIDE DEF s2, retry, again, w
  <2> QED
    BY <1>1, <1>2a, <1>3, <2>1, <2>2, <2>3, <2>4
<1> QED
  BY <1>4, <1>5, <1>6 DEF WorkerStep

LEMMA CrashOrderly ==
    ASSUME Settled, NEW p \in Procs, Crash(p)
    PROVE  Orderly(p)
<1> DEFINE w == <<p, "worker">>
           n == [Off EXCEPT !.ver = state[p].ver]
<1>1. /\ state \in [Procs -> CoordinatorRecord] /\ state[p] \in CoordinatorRecord
      /\ w \in Threads /\ w[1] = p /\ thread[w] \in ThreadRecord
      /\ state[p].ver \in 0..MaxVersion /\ state[p].ver \in Nat
      /\ Idle \in ThreadRecord /\ Idle.pc = "idle" /\ Idle.task = "none" /\ Idle.ver = 0
  BY PlainRecords
<1>2. /\ \A u \in Threads : u[1] = p => thread'[u] = Idle
      /\ \A u \in Threads : u[1] # p => thread'[u] = thread[u]
      /\ state' = [state EXCEPT ![p] = n]
  BY CrashTidy DEF Alters, Crash
<1>3. n \in CoordinatorRecord /\ n.ver = state[p].ver /\ n.latest = 0
  BY <1>1, BoundsAssumption DEF Off, CoordinatorRecord
<1> HIDE DEF n, w
<1>4. PICK s, r : s = state[p] /\ r = thread[w]
  OBVIOUS
<1>5. s \in CoordinatorRecord /\ r \in ThreadRecord /\ n.ver >= s.ver
  BY <1>1, <1>3, <1>4
<1>6. Later(s, r, n, Idle)
  BY <1>1, <1>3, <1>5, LaterBy
<1>7. state'[p] = n /\ thread'[w] = Idle
  BY <1>1, <1>2
<1>8. \A u \in Threads : thread'[u] = thread[u] \/ ~Behind(thread'[u])
  BY <1>1, <1>2 DEF Behind, Writes
<1> QED
  BY <1>4, <1>6, <1>7, <1>8 DEF Orderly, w

-----------------------------------------------------------------------------
(* What was saved stays on disk: every step                                  *)

NothingLost == SetsKept /\ VersionsWithin /\ BadAlone

Preserved == InOrder /\ (raced \/ NothingLost)

\* The invariant with its threads and files one at a time.
LEMMA KeptNext ==
    NothingLost' <=>
       /\ \A u \in Threads : Engages(thread'[u]) => Holds(thread'[u], current', backup')
       /\ Fits(current'.set, state', thread') /\ Fits(backup'.set, state', thread')
       /\ \A u \in Threads : Writes(thread'[u]) => Fits(thread'[u].out, state', thread')
       /\ current'.form = "bad" /\ Loadable(backup') =>
             /\ "read" \notin scenario'.faults /\ "quarantine" \notin scenario'.faults
             /\ \A u \in Threads : ~Behind(thread'[u])
  BY DEF NothingLost, SetsKept, VersionsWithin, BadAlone, Engages, Holds, Writes, Behind, Lasts,
         Returned, Loadable, Fits

LEMMA ReadyBy ==
    ASSUME Settled, FilesKnown, InOrder, NothingLost, NEW t \in Threads
    PROVE  Ready(t)
  BY DEF Ready, FilesKnown, NothingLost, SetsKept, VersionsWithin, BadAlone

\* A step that leaves the files alone and brings no thread past the current one.
LEMMA QuietKeeps ==
    ASSUME Settled, InOrder, NothingLost, Aging,
           current' = current, backup' = backup, scenario' = scenario,
           \A u \in Threads : thread'[u] = thread[u] \/ ~Behind(thread'[u])
    PROVE  NothingLost'
<1>1. /\ Shapes /\ current \in SetFile /\ backup \in SetFile
      /\ current.set \in WindowSets /\ backup.set \in WindowSets
      /\ thread \in [Threads -> ThreadRecord]
  BY DEF Settled, Shapes, SetFile
<1>2. \A entries \in WindowSets : Fits(entries, state, thread) => Fits(entries, state', thread')
  BY <1>1, OlderFits
<1>3. Fits(current'.set, state', thread') /\ Fits(backup'.set, state', thread')
  BY <1>1, <1>2 DEF NothingLost, VersionsWithin
<1>4. ASSUME NEW u \in Threads
      PROVE  /\ Engages(thread'[u]) => Holds(thread'[u], current', backup')
             /\ Writes(thread'[u]) => Fits(thread'[u].out, state', thread')
  <2>1. CASE ~Behind(thread'[u])
    BY <2>1 DEF Behind, Holds
  <2>2. CASE thread'[u] = thread[u]
    <3>1. Engages(thread[u]) => Holds(thread[u], current, backup)
      BY DEF NothingLost, SetsKept
    <3>2. ASSUME Writes(thread[u]) PROVE Fits(thread[u].out, state', thread')
      <4>1. thread[u].out \in WindowSets
        BY <1>1, RecordFields
      <4>2. Fits(thread[u].out, state, thread)
        BY <3>2 DEF NothingLost, VersionsWithin
      <4> QED
        BY <1>2, <4>1, <4>2
    <3> QED
      BY <2>2, <3>1, <3>2
  <2> QED
    BY <2>1, <2>2
<1>5. current'.form = "bad" /\ Loadable(backup') =>
         /\ "read" \notin scenario'.faults /\ "quarantine" \notin scenario'.faults
         /\ \A u \in Threads : ~Behind(thread'[u])
  BY DEF NothingLost, BadAlone
<1> QED
  BY <1>3, <1>4, <1>5, KeptNext

\* A coordinator's step.
LEMMA OrderlyKeeps ==
    ASSUME Settled, InOrder, NEW p \in Procs, Alters(p), Orderly(p)
    PROVE  Aging /\ (NothingLost => NothingLost')
<1>1. ASSUME NEW q \in Procs
      PROVE  Later(state[q], thread[<<q, "worker">>], state'[q], thread'[<<q, "worker">>])
  <2>1. CASE q = p
    BY <2>1 DEF Orderly
  <2>2. CASE q # p
    <3>1. state'[q] = state[q] /\ thread'[<<q, "worker">>] = thread[<<q, "worker">>]
      BY <2>2, ThreadNames DEF Alters
    <3>2. PICK s, r : s = state[q] /\ r = thread[<<q, "worker">>]
      OBVIOUS
    <3>3. s \in CoordinatorRecord /\ r \in ThreadRecord /\ s.ver \in Nat
      BY <3>2, PlainRecords
    <3>4. s.ver >= s.ver
      BY <3>3
    <3>5. Later(s, r, s, r)
      BY <3>3, <3>4, LaterBy
    <3> QED
      BY <3>1, <3>2, <3>5
  <2> QED
    BY <2>1, <2>2
<1>2. Aging
  BY <1>1 DEF Aging
<1> QED
  BY <1>2, QuietKeeps DEF Alters, Orderly

\* A step in the store outside a race.
LEMMA SurvivingKeeps ==
    ASSUME Settled, ~Racing, InOrder, NothingLost, NEW t \in Threads, NEW next,
           Follows(thread[t], next), Step(t, next), Survives(t), FilesTyped,
           (current' = current /\ backup' = backup) \/ Engages(thread[t])
    PROVE  Aging /\ NothingLost'
<1>1. /\ Shapes /\ thread \in [Threads -> ThreadRecord] /\ scenario' = scenario
      /\ thread'[t] = next /\ next \in ThreadRecord
      /\ \A u \in Threads \ {t} : thread'[u] = thread[u]
  BY DEF Settled, Shapes, Step, Follows
<1>2. Aging
  BY StepAges
<1>3. \A entries \in WindowSets : Fits(entries, state, thread) => Fits(entries, state', thread')
  BY <1>1, <1>2, OlderFits
<1>4. Fits(current'.set, state', thread') /\ Fits(backup'.set, state', thread')
  <2>1. current'.set \in WindowSets /\ backup'.set \in WindowSets
    BY DEF FilesTyped, SetFile
  <2>2. Fits(current'.set, state, thread) /\ Fits(backup'.set, state, thread)
    BY DEF Survives
  <2> QED
    BY <1>3, <2>1, <2>2
<1>5. ASSUME NEW u \in Threads
      PROVE  /\ Engages(thread'[u]) => Holds(thread'[u], current', backup')
             /\ Writes(thread'[u]) => Fits(thread'[u].out, state', thread')
  <2>1. CASE u = t
    <3>1. Engages(thread'[t]) => Holds(thread'[t], current', backup')
      BY DEF Survives
    <3>2. Writes(thread'[t]) => Fits(thread'[t].out, state, thread)
      BY DEF Survives
    <3>3. thread'[t].out \in WindowSets
      BY <1>1, RecordFields
    <3> QED
      BY <1>3, <2>1, <3>1, <3>2, <3>3
  <2>2. CASE u # t
    <3>1. thread'[u] = thread[u]
      BY <1>1, <2>2
    <3>2. ASSUME Engages(thread[u]) PROVE Holds(thread[u], current', backup')
      <4>1. ~Engages(thread[t])
        BY <2>2, <3>2, OneEngaged
      <4>2. Holds(thread[u], current, backup)
        BY <3>2 DEF NothingLost, SetsKept
      <4> QED
        BY <4>1, <4>2
    <3>3. ASSUME Writes(thread[u]) PROVE Fits(thread[u].out, state', thread')
      <4>1. thread[u].out \in WindowSets
        BY <1>1, RecordFields
      <4>2. Fits(thread[u].out, state, thread)
        BY <3>3 DEF NothingLost, VersionsWithin
      <4> QED
        BY <1>3, <4>1, <4>2
    <3> QED
      BY <3>1, <3>2, <3>3
  <2> QED
    BY <2>1, <2>2
<1>6. ASSUME current'.form = "bad", Loadable(backup')
      PROVE  /\ "read" \notin scenario'.faults /\ "quarantine" \notin scenario'.faults
             /\ \A u \in Threads : ~Behind(thread'[u])
  <2>1. current' = current /\ Loadable(backup) /\ ~Behind(thread'[t])
    BY <1>6 DEF Survives, StillAlone
  <2>2. /\ "read" \notin scenario.faults /\ "quarantine" \notin scenario.faults
        /\ \A u \in Threads : ~Behind(thread[u])
    BY <1>6, <2>1 DEF NothingLost, BadAlone
  <2> QED
    BY <1>1, <2>1, <2>2
<1>7. NothingLost'
  BY <1>4, <1>5, <1>6, KeptNext
<1> QED
  BY <1>2, <1>7

\* What SavedVersionsSurvive says of a step.
Survivors ==
    \A w \in Windows : VersionIn(OnDisk', w) >= VersionIn(OnDisk, w) \/ Excused(w) \/ raced'

LEMMA SameFilesSurvive ==
    ASSUME Shapes, current' = current, backup' = backup
    PROVE  Survivors
<1>1. OnDisk = Returned(current, backup) /\ OnDisk' = OnDisk
  BY DEF OnDisk, Returned, Loadable
<1>2. \A w : VersionIn(Returned(current, backup), w) \in Nat
  BY DiskSets
<1> DEFINE d == OnDisk
<1>3. \A w : VersionIn(d, w) \in Nat
  BY <1>1, <1>2
<1> HIDE DEF d
<1>4. \A w : VersionIn(d, w) >= VersionIn(d, w)
  BY <1>3
<1>5. ASSUME NEW w \in Windows PROVE VersionIn(OnDisk', w) >= VersionIn(OnDisk, w)
  BY <1>1, <1>4 DEF d
<1> QED
  BY <1>5 DEF Survivors

LEMMA StoreStepKeeps ==
    ASSUME Settled, FilesKnown, ~Racing, InOrder, NothingLost, NEW t \in Threads, StoreStep(t)
    PROVE  Aging /\ NothingLost' /\ Survivors
<1>1. Inside(t) /\ Steps(t) /\ FilesTyped /\ Shapes
  BY StoreStepTypes DEF Settled
<1>2. PICK next : Follows(thread[t], next) /\ Step(t, next)
  BY <1>1 DEF Steps
<1>3. Survives(t)
  BY ReadyBy, StoreStepSurvives
<1>4. StoreResult(t)
  BY <1>1, StoreStepResult DEF FilesKnown
<1>5. (current' = current /\ backup' = backup) \/ Engages(thread[t])
  BY <1>4 DEF StoreResult
<1>6. Aging /\ NothingLost'
  BY <1>1, <1>2, <1>3, <1>5, SurvivingKeeps
<1>7. OnDisk = Returned(current, backup) /\ OnDisk' = Returned(current', backup')
  BY DEF OnDisk, Returned, Loadable
<1>8. ASSUME NEW w \in Windows
      PROVE  VersionIn(OnDisk', w) >= VersionIn(OnDisk, w) \/ Excused(w)
  BY <1>3, <1>7 DEF Survives
<1> QED
  BY <1>6, <1>8 DEF Survivors

LEMMA GivesUpKeeps ==
    ASSUME Settled, InOrder, NEW p \in Procs, AcquireTimesOut(p) \/ BookmarksFail(p)
    PROVE  Aging /\ (NothingLost => NothingLost') /\ Survivors
<1> DEFINE t == <<p, "worker">>
           next == Finished(t, FALSE)
<1>1. /\ t \in Threads /\ Step(t, next) /\ Shapes /\ thread \in [Threads -> ThreadRecord]
      /\ current' = current /\ backup' = backup /\ thread[t].task # "load"
  BY GivesUp DEF Settled, Shapes
<1> HIDE DEF t
<1>2. Follows(thread[t], next)
  BY <1>1, FinishedFollows
<1>3. next.pc = "done"
  <2> DEFINE r == thread[t]
             done == [r EXCEPT !.pc = "done", !.ok = FALSE]
  <2>1. next = done
    BY <1>1 DEF Finished
  <2>2. r \in ThreadRecord
    BY <1>1
  <2> HIDE DEF r
  <2>3. done.pc = "done"
    BY <2>2 DEF ThreadRecord
  <2> QED
    BY <2>1, <2>3
<1> HIDE DEF next
<1>4. Aging
  BY <1>1, <1>2, StepAges
<1>5. /\ scenario' = scenario
      /\ \A u \in Threads : thread'[u] = thread[u] \/ ~Behind(thread'[u])
  BY <1>1, <1>3 DEF Step, Behind, Writes
<1>6. NothingLost => NothingLost'
  BY <1>1, <1>4, <1>5, QuietKeeps
<1> QED
  BY <1>1, <1>4, <1>6, SameFilesSurvive

LEMMA CoordinatorKeeps ==
    ASSUME Settled, InOrder, NEW p \in Procs,
           \/ WorkerStep(p) \/ Start(p) \/ StartCoordinator(p) \/ LoadClosedWindows(p)
           \/ Accept(p) \/ RequestReset(p) \/ Shutdown(p) \/ Exit(p) \/ Crash(p)
    PROVE  Aging /\ (NothingLost => NothingLost') /\ Survivors
<1>1. Orderly(p)
  BY AcceptOrderly, StartOrderly, WorkerOrderly, CrashOrderly
<1>2. Alters(p)
  BY TakeTidy, AcquireTidy, CompleteTidy, LoadTidy, UpTidy, AcceptTidy, ResetTidy, CrashTidy
     DEF WorkerStep
<1>3. current' = current /\ backup' = backup /\ Shapes
  BY <1>2 DEF Alters, Settled
<1> QED
  BY <1>1, <1>2, <1>3, OrderlyKeeps, SameFilesSurvive

LEMMA PreservedStep ==
    ASSUME Settled, Calm, Preserved, Next
    PROVE  Preserved' /\ Survivors
<1>1. raced' = (raced \/ Racing) /\ Shapes /\ InOrder
  BY RaceStays DEF Settled, Preserved
<1>2. ASSUME NEW t \in Threads, StoreStep(t)
      PROVE  InOrder' /\ (raced' \/ (NothingLost' /\ Survivors))
  <2>1. Steps(t)
    BY <1>1, <1>2, StoreStepTypes
  <2>2. PICK next : Follows(thread[t], next) /\ Step(t, next)
    BY <2>1 DEF Steps
  <2>3. InOrder'
    BY <1>1, <2>2, StepAges, OlderFits
  <2>4. ASSUME ~raced' PROVE NothingLost' /\ Survivors
    BY <1>1, <1>2, <2>4, StoreStepKeeps DEF Calm, Preserved
  <2> QED
    BY <2>3, <2>4
<1>3. ASSUME NEW p \in Procs,
             \/ AcquireTimesOut(p) \/ BookmarksFail(p)
             \/ WorkerStep(p) \/ Start(p) \/ StartCoordinator(p) \/ LoadClosedWindows(p)
             \/ Accept(p) \/ RequestReset(p) \/ Shutdown(p) \/ Exit(p) \/ Crash(p)
      PROVE  InOrder' /\ (raced' \/ (NothingLost' /\ Survivors))
  <2>1. Aging /\ (NothingLost => NothingLost') /\ Survivors
    BY <1>1, <1>3, GivesUpKeeps, CoordinatorKeeps
  <2>2. InOrder'
    BY <1>1, <2>1, OlderFits
  <2> QED
    BY <1>1, <2>1, <2>2 DEF Preserved
<1>4. InOrder' /\ (raced' \/ (NothingLost' /\ Survivors))
  BY <1>2, <1>3 DEF Next
<1> QED
  BY <1>4 DEF Preserved, Survivors

LEMMA PreservedNext ==
    Settled /\ Calm /\ Preserved /\ [Next]_vars =>
       /\ Preserved'
       /\ [\A w \in Windows :
             VersionIn(OnDisk', w) >= VersionIn(OnDisk, w) \/ Excused(w) \/ raced']_vars
<1>1. ASSUME Settled, Calm, Preserved, Next
      PROVE  /\ Preserved'
             /\ \A w \in Windows :
                   VersionIn(OnDisk', w) >= VersionIn(OnDisk, w) \/ Excused(w) \/ raced'
  BY <1>1, PreservedStep DEF Survivors
<1>2. ASSUME Preserved, UNCHANGED vars PROVE Preserved'
  <2>1. /\ current' = current /\ backup' = backup /\ scenario' = scenario
        /\ thread' = thread /\ state' = state /\ raced' = raced
    BY <1>2 DEF vars
  <2>2. NothingLost => NothingLost'
    BY <2>1, KeptNext DEF NothingLost, SetsKept, VersionsWithin, BadAlone
  <2>3. InOrder => InOrder'
    BY <2>1 DEF InOrder
  <2> QED
    BY <1>2, <2>1, <2>2, <2>3 DEF Preserved
<1> QED
  BY <1>1, <1>2

LEMMA PreservedInit ==
    ASSUME \A s \in Scenarios : RestoredAtZero(s) /\ BadMovesAway(s)
    PROVE  Init => Preserved
<1> SUFFICES ASSUME Init PROVE InOrder /\ NothingLost
  BY DEF Preserved
<1>1. /\ scenario \in Scenarios /\ current = scenario.current /\ backup = scenario.backup
      /\ state = [p \in Procs |-> Off] /\ thread = [t \in Threads |-> Idle]
  BY DEF Init
<1>2. Shapes
  BY SettledInit DEF Settled
<1>3. /\ \A t \in Threads : ~Engages(thread[t]) /\ ~Behind(thread[t]) /\ ~Writes(thread[t])
  BY <1>1, IdleRecord DEF Engages, Behind, Writes
<1>4. \A p \in Procs : /\ state[p].ver = 0 /\ state[p].latest = 0
                       /\ thread[<<p, "worker">>].ver = 0
                       /\ thread[<<p, "worker">>].task = "none"
  <2>1. ASSUME NEW p \in Procs PROVE state[p] = Off /\ thread[<<p, "worker">>] = Idle
    BY <1>1, ThreadNames
  <2>2. Off.ver = 0 /\ Off.latest = 0 /\ Idle.ver = 0 /\ Idle.task = "none"
    BY DEF Off, Idle
  <2> QED
    BY <2>1, <2>2
<1>5. InOrder
  <2>1. ASSUME NEW p \in Procs PROVE Ordered(state[p], thread[<<p, "worker">>])
    <3>1. PICK s, r : s = state[p] /\ r = thread[<<p, "worker">>]
      OBVIOUS
    <3>2. s.ver = 0 /\ s.latest = 0 /\ r.ver = 0
      BY <1>4, <3>1
    <3>3. Ordered(s, r)
      BY <3>2 DEF Ordered
    <3> QED
      BY <3>1, <3>3
  <2> QED
    BY <2>1 DEF InOrder
<1>6. ASSUME NEW p \in Procs PROVE Within(0, state[p], thread[<<p, "worker">>])
  BY <1>4 DEF Within
<1>7. Fits(current.set, state, thread) /\ Fits(backup.set, state, thread)
  <2>1. RestoredAtZero(scenario)
    BY <1>1
  <2>2. \A p \in Procs : VersionIn(current.set, p) = 0 /\ VersionIn(backup.set, p) = 0
    BY <1>1, <2>1 DEF RestoredAtZero
  <2> QED
    BY <1>6, <2>2 DEF Fits
<1>8. BadAlone
  BY <1>1, <1>3 DEF BadAlone, BadMovesAway
<1> QED
  BY <1>3, <1>5, <1>7, <1>8 DEF NothingLost, SetsKept, VersionsWithin

(* Whatever step a process dies at, load still finds every window that was   *)
(* on disk, at the version it had or a later one (replace_with_backup,       *)
(* merge_window_set), but for a reset, a window a full set drops, a save     *)
(* that could not read the set, and a load that wrote beside another thread: *)
(* what a thread is about to put in the current file's place has everything  *)
(* load returns, no version on disk is newer than its coordinator's, and a    *)
(* bad file is never rotated over the only good one.  That asks of the first *)
(* files that a window a process restores counts as its version 0, and that  *)
(* a bad current file before a good backup can be moved away.                *)
THEOREM SavedVersionsLast ==
    ASSUME \A s \in Scenarios : RestoredAtZero(s) /\ BadMovesAway(s)
    PROVE  Spec => SavedVersionsSurvive
<1>1. Init => Preserved
  BY PreservedInit
<1> QED
  BY <1>1, SettledInit, SettledNext, CalmInit, CalmNext, PreservedNext, PTL
     DEF Spec, SavedVersionsSurvive
=============================================================================
