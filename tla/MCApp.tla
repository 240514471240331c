------------------------------- MODULE MCApp -------------------------------
(***************************************************************************)
(* An instance of App for TLC: two goroutines that call the agent, and one *)
(* besides the agent that calls the clock and receives its batches.        *)
(***************************************************************************)
EXTENDS App

CONSTANTS p1, p2

AppCloses == {app}

\* The pairs of calls that run against each other, up to the order of the callers.
Pairs ==
  { <<"sync", "sync">>, <<"sync", "must">>, <<"ctx", "sync">>, <<"ctx", "must">>,
    <<"try", "must">>, <<"must", "must">> }

MCInit == AppInit /\ <<kind[p1], kind[p2]>> \in Pairs

MCSpec == MCInit /\ [][AppNext]_all /\ AppFairness
=============================================================================
