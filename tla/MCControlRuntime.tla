-------------------------- MODULE MCControlRuntime --------------------------
(* ControlRuntime for TLC: the bounds are given in the configurations.     *)
EXTENDS ControlRuntime
=============================================================================
