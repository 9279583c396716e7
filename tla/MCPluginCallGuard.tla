-------------------------- MODULE MCPluginCallGuard --------------------------
(* Instances of PluginCallGuard for TLC.                                     *)
EXTENDS PluginCallGuard, TLC

CONSTANTS a, b

CallbackSymmetry == Permutations(Callbacks)
=============================================================================
