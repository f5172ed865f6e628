--------------------------- MODULE MCIkPipeline ---------------------------
(* IkPipeline for TLC: the bounds are given in the configurations.         *)
EXTENDS IkPipeline
=============================================================================
