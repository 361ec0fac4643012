-------------------------- MODULE SchedRefinement ---------------------------
(***************************************************************************)
(* What the scheduler implements: the abstract specifications of its sleep *)
(* queue and of its mutexes, each under the mapping that forgets the rest. *)
(***************************************************************************)
EXTENDS STSched

(* Every wake-up, whatever its cause, takes the thread off the sleep queue,*)
(* blocking calls are the only ones to put threads there, and the clock    *)
(* wakes them in the order they are due.                                   *)
SQ == INSTANCE SleepQueue WITH Timeouts <- Timeouts \ {NO_TIMEOUT},
                               expiring <- op[Idle] = "clock"
UsesSleepQueue == SQ!Spec

(* A mutex passes directly from owner to owner, in the order the threads   *)
(* came, although threads that gave up are still linked on its wait queue. *)
StillWaiting == {t \in Threads : state[t] = "LOCK_WAIT"}
FM == INSTANCE FairMutex WITH
        waiting <- [m \in Mutexes |-> Only(wq[m], StillWaiting)]
ImplementsFairMutex == FM!Spec

=============================================================================
