--------------------------- MODULE MCTerminalLane ---------------------------
(* Instances of TerminalLane for TLC.                                      *)
EXTENDS TerminalLane

CONSTANTS r1, r2, r3, r4

PlainKinds == [r \in Requests |-> "plain"]

NavigationKinds == [r \in Requests |-> "navigation"]

\* The background lane as the program uses it: all three of its users.
BackgroundKinds ==
    [r \in Requests |-> CASE r = r1 -> "column"
                          [] r = r2 -> "children"
                          [] OTHER  -> "ancestry"]
=============================================================================
