------------------------------ MODULE MCClock ------------------------------
(***************************************************************************)
(* An instance of Clock for TLC: three levels of two slots, and due times  *)
(* in the past, on each level and beyond a turn of the top one.            *)
(***************************************************************************)
EXTENDS Clock

ThreeLevels == <<2, 2, 2>>
=============================================================================
