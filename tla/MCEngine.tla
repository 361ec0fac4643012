------------------------------ MODULE MCEngine ------------------------------
(* Instances of Engine for TLC.                                            *)
EXTENDS Engine, TLC

CONSTANTS t1, t2

ReadOrBoth == {{"read"}, {"read", "write"}}

OneAndTwo == (t1 :> 1) @@ (t2 :> 2)

=============================================================================
