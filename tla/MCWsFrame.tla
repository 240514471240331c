----------------------------- MODULE MCWsFrame -----------------------------
(***************************************************************************)
(* An instance of WsFrame for TLC: data frames with and without payload, the *)
(* control frames, and frames that are refused.                            *)
(***************************************************************************)
EXTENDS WsFrame

F(op, fin, len) == [op |-> op, fin |-> fin, masked |-> TRUE, len |-> len, msb |-> FALSE]

DataFrames == {F("binary", TRUE, 1), F("binary", FALSE, 2), F("cont", TRUE, 1), F("cont", FALSE, 0)}

EmptyEnd == F("cont", TRUE, 0)

ControlFrames == {F("ping", TRUE, 1), F("pong", TRUE, 0), F("close", TRUE, 2)}

Refused ==
  {F("text", TRUE, 1), F("ping", FALSE, 0), F("ping", TRUE, 3), F("close", TRUE, 1),
   [F("binary", TRUE, 1) EXCEPT !.masked = FALSE], [F("binary", TRUE, 1) EXCEPT !.msb = TRUE]}

MCFrames == DataFrames \cup {EmptyEnd} \cup ControlFrames \cup Refused
=============================================================================
