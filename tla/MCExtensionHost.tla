-------------------------- MODULE MCExtensionHost --------------------------
(* Instances of ExtensionHost for TLC.                                       *)
EXTENDS ExtensionHost, TLC

CONSTANTS j1, j2, f1, f2

JobSymmetry == Permutations(Jobs)

Setup(jobs, features, mailbox, stop, submits, budget) ==
    [jobs |-> jobs, features |-> features, mailbox |-> mailbox, stop |-> stop,
     submits |-> submits, ops |-> budget]

\* One feature through three calls or failures, two features, the mailbox with
\* two jobs that overflow it and with one job that must be announced again,
\* and the shutdown of one and of two features.
HostSetups ==
    { Setup(2, {f1}, FALSE, FALSE, 1, 3),
      Setup(2, {f1, f2}, FALSE, FALSE, 1, 1),
      Setup(2, {f1}, TRUE, FALSE, 2, 0),
      Setup(1, {f1}, TRUE, FALSE, 2, 2),
      Setup(2, {f1}, FALSE, TRUE, 1, 1),
      Setup(2, {f1, f2}, FALSE, TRUE, 1, 0) }
=============================================================================
