------------------------------- MODULE MCHeap -------------------------------
(* Instances of TimeoutHeap for TLC.                                       *)
EXTENDS TimeoutHeap, TLC

(* Threads are interchangeable.                                            *)
ThreadSymmetry == Permutations(Threads)
=============================================================================
