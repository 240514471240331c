--------------------------- MODULE MCDeltaMonitor ---------------------------
(***************************************************************************)
(* An instance of DeltaMonitor for TLC: a document with an object of two   *)
(* leaves.                                                                 *)
(***************************************************************************)
EXTENDS DeltaMonitor

Nested == {<<1>>, <<1, 1>>, <<1, 2>>}
=============================================================================
