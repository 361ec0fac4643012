------------------------------ MODULE MCEvents ------------------------------
(* Instances of EventThread for TLC.                                       *)
EXTENDS EventThread

(* All contexts only read.                                                 *)
ReadAll == [c \in Refs |-> {{"read"}}]

=============================================================================
