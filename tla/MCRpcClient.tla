----------------------------- MODULE MCRpcClient -----------------------------
(***************************************************************************)
(* An instance of RpcClient for TLC: an asynchronous call or one without   *)
(* response, then an asynchronous or a synchronous one whose deadline can  *)
(* be earlier than that of the first.                                      *)
(***************************************************************************)
EXTENDS RpcClient

TwoCalls == <<{<<"async", 2>>, <<"noresp", 0>>}, {<<"async", 1>>, <<"sync", 1>>}>>
=============================================================================
