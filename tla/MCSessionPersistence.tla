------------------------ MODULE MCSessionPersistence ------------------------
(* Instances of SessionPersistence for TLC.                                  *)
EXTENDS SessionPersistence

CONSTANTS p1, p2, w0

Case(cur, bak, procs, faults, bounds) ==
    [current |-> cur, backup |-> bak, procs |-> procs, faults |-> faults,
     budget |-> [changes |-> bounds[1], loads |-> bounds[2], resets |-> bounds[3],
                 faults |-> bounds[4], crashes |-> bounds[5]]]

Old(entries) == [form |-> "old", set |-> entries]
Bad == [form |-> "bad", set |-> <<>>]
Earlier == <<[win |-> w0, ver |-> 1]>>

(* Two windows over a sound file set, with faults, with a crash, with a      *)
(* reset; one window over an old file, over an old file that reads fail on (a *)
(* save then leaves it as the backup a later load may meet), over a corrupt  *)
(* file with a sound backup, and over corrupt files only.                    *)
SoundCases ==
    { Case(Snapshot(Earlier), Absent, {p1, p2}, {"write", "read", "timeout"}, <<3, 0, 0, 1, 0>>),
      Case(Snapshot(Earlier), Absent, {p1, p2}, {"write"}, <<3, 0, 0, 1, 1>>),
      Case(Snapshot(Earlier), Absent, {p1, p2}, {"write"}, <<2, 0, 1, 1, 0>>),
      Case(Old(Earlier), Absent, {p1}, {}, <<2, 1, 1, 0, 1>>),
      Case(Bad, Snapshot(Earlier), {p1}, {"write"}, <<2, 1, 1, 1, 1>>),
      Case(Old(Earlier), Absent, {p1}, {"read"}, <<2, 1, 0, 2, 0>>),
      Case(Bad, Bad, {p1}, {"quarantine"}, <<2, 1, 1, 1, 1>>) }

(* The cases are such as the theorem on saved versions is about.             *)
ASSUME SavedVersionsHypotheses == \A s \in SoundCases : RestoredAtZero(s) /\ BadMovesAway(s)
=============================================================================
