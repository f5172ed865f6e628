-------------------------- MODULE MCManagedProcess --------------------------
(* ManagedProcess for TLC: the bounds are given in the configurations.     *)
EXTENDS ManagedProcess
=============================================================================
