--------------------------- MODULE MCControlChild ---------------------------
(* ControlChild for TLC: the bounds are given in the configurations.       *)
EXTENDS ControlChild
=============================================================================
