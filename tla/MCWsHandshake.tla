---------------------------- MODULE MCWsHandshake ----------------------------
(***************************************************************************)
(* An instance of WsHandshake for TLC: two connections, of which one fits  *)
(* the queue.                                                              *)
(***************************************************************************)
EXTENDS WsHandshake
=============================================================================
