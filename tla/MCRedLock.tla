----------------------------- MODULE MCRedLock -----------------------------
(* Three clients: one whose lock expired, the next owner and a third one.    *)
EXTENDS RedLock, TLC
CONSTANTS c1, c2, c3
Three == {c1, c2, c3}
Symmetry == Permutations(Three)
=============================================================================
