--------------------------- MODULE CallbackFence ---------------------------
(* What the native lifecycle promises about plugin callbacks, without saying *)
(* how: a dispatch enters a feature while the feature is open, runs plugin   *)
(* code, and leaves; a feature is reported closed only when every dispatch   *)
(* that entered it has left, and nobody enters a feature that is not open.   *)
(* A feature that could not be emptied in time is broken and promises        *)
(* nothing until the process restarts.                                       *)
EXTENDS Integers

CONSTANTS
    Dispatches,     \* dispatches of plugin callbacks
    Features        \* features of native plugins

VARIABLES
    status,         \* per feature: open, closing, closed or broken
    entered,        \* dispatches that are in a feature: <<dispatch, feature>>
    inside          \* dispatches whose plugin code is on the stack

fenceVars == <<status, entered, inside>>

Init ==
    /\ status = [f \in Features |-> "open"]
    /\ entered = {}
    /\ inside = {}

Enter(d, f) ==
    /\ status[f] = "open"
    /\ \A g \in Features : <<d, g>> \notin entered
    /\ entered' = entered \cup {<<d, f>>}
    /\ UNCHANGED <<status, inside>>

Begin(d) ==
    /\ \E f \in Features : <<d, f>> \in entered
    /\ inside' = inside \cup {d}
    /\ UNCHANGED <<status, entered>>

End(d) ==
    /\ d \in inside
    /\ inside' = inside \ {d}
    /\ UNCHANGED <<status, entered>>

Leave(d, f) ==
    /\ <<d, f>> \in entered
    /\ d \notin inside
    /\ entered' = entered \ {<<d, f>>}
    /\ UNCHANGED <<status, inside>>

\* A shutdown closes several features in one step.
Close(F) ==
    /\ \A f \in F : status[f] # "broken"
    /\ status' = [f \in Features |-> IF f \in F THEN "closing" ELSE status[f]]
    /\ UNCHANGED <<entered, inside>>

Closed(f) ==
    /\ status[f] = "closing"
    /\ \A d \in Dispatches : <<d, f>> \notin entered
    /\ status' = [status EXCEPT ![f] = "closed"]
    /\ UNCHANGED <<entered, inside>>

Reopen(f) ==
    /\ status[f] = "closed"
    /\ status' = [status EXCEPT ![f] = "open"]
    /\ UNCHANGED <<entered, inside>>

Break(f) ==
    /\ status' = [status EXCEPT ![f] = "broken"]
    /\ UNCHANGED <<entered, inside>>

Next ==
    \/ \E d \in Dispatches : Begin(d) \/ End(d)
    \/ \E d \in Dispatches, f \in Features : Enter(d, f) \/ Leave(d, f)
    \/ \E F \in SUBSET Features : Close(F)
    \/ \E f \in Features : Closed(f) \/ Reopen(f) \/ Break(f)

Spec == Init /\ [][Next]_fenceVars
=============================================================================
