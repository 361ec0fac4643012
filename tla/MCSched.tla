------------------------------ MODULE MCSched ------------------------------
(* Instances of STSched for TLC.                                           *)
EXTENDS SchedRefinement

(* Threads other than the primordial one are interchangeable.              *)
ThreadSymmetry == Permutations(Threads \ {Main})

(* Values of Timeouts: with and without waits that never time out.         *)
OneOrForever == {1, NO_TIMEOUT}
TwoOrForever == {0, 1, NO_TIMEOUT}
=============================================================================
