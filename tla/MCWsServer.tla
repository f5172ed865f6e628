----------------------------- MODULE MCWsServer -----------------------------
(* WsServer for TLC: the bounds are given in the configurations.           *)
EXTENDS WsServer
=============================================================================
