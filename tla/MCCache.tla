------------------------------ MODULE MCCache -------------------------------
(* Instances of CacheUsers for TLC.                                        *)
EXTENDS CacheUsers

(* Users are interchangeable, and so are the keys.                         *)
CacheSymmetry == Permutations(Users) \cup Permutations(Keys)

=============================================================================
