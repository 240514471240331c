----------------------------- MODULE MCSvrWriter -----------------------------
(***************************************************************************)
(* Instances for TLC of the two goroutines that take from a channel until  *)
(* they are stopped and then drain it: SvrWriter, with one connection and  *)
(* one more request than its channel and a batch hold (connections share   *)
(* nothing but the wait group of Stop), and Logger.  They share no state,  *)
(* so a behaviour exercises one of them.                                   *)
(***************************************************************************)
EXTENDS SvrWriter, Logger

VARIABLE part      \* the goroutine exercised

InitAll ==
  /\ part \in {"writer", "logger"}
  /\ Init /\ LogInit

NextAll ==
  /\ \/ part = "writer" /\ Next /\ UNCHANGED logVars
     \/ part = "logger" /\ LogNext /\ UNCHANGED vars
  /\ UNCHANGED part

\* No action with fairness is enabled in the initial state of the part that rests.
SpecAll == InitAll /\ [][NextAll]_<<part, vars, logVars>> /\ Fairness /\ LogFairness
=============================================================================
