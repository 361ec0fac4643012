----------------------------- MODULE SleepQueue -----------------------------
(***************************************************************************)
(* What the sleep queue promises the scheduler (sched.c): a set of threads *)
(* with due times, which a check of the clock empties of those that are    *)
(* due, in the order of their due times.                                   *)
(*                                                                         *)
(* Times are relative to the last reading of the clock.                    *)
(***************************************************************************)
EXTENDS Integers

CONSTANTS
    Threads,    \* threads that may sleep
    Timeouts,   \* timeouts they ask for
    Elapsed     \* clock advances seen by one _st_vp_check_clock

VARIABLES
    sleepq,     \* the sleeping threads
    due,        \* their due times, 0 for the others
    expiring    \* _st_vp_check_clock is in its loop

vars == <<sleepq, due, expiring>>

Init ==
    /\ sleepq = {}
    /\ due = [t \in Threads |-> 0]
    /\ expiring = FALSE

Remove(t) ==
    /\ t \in sleepq
    /\ sleepq' = sleepq \ {t}
    /\ due' = [due EXCEPT ![t] = 0]
    /\ UNCHANGED expiring

Add(t, d) ==
    /\ ~expiring
    /\ t \notin sleepq
    /\ sleepq' = sleepq \cup {t}
    /\ due' = [due EXCEPT ![t] = d]
    /\ UNCHANGED expiring

Delete(t) == ~expiring /\ Remove(t)

ReadClock(e) ==
    /\ ~expiring
    /\ expiring' = TRUE
    /\ due' = [t \in Threads |-> IF t \in sleepq THEN due[t] - e ELSE due[t]]
    /\ UNCHANGED sleepq

(* The thread that is due first, or one of them, wakes.                    *)
Expire(t) ==
    /\ expiring
    /\ Remove(t)
    /\ due[t] <= 0
    /\ \A u \in sleepq : due[t] <= due[u]

Stop ==
    /\ expiring
    /\ \A t \in sleepq : due[t] > 0
    /\ expiring' = FALSE
    /\ UNCHANGED <<sleepq, due>>

Next ==
    \/ \E t \in Threads : \/ \E d \in Timeouts : Add(t, d)
                          \/ Delete(t)
                          \/ Expire(t)
    \/ \E e \in Elapsed : ReadClock(e)
    \/ Stop

Spec == Init /\ [][Next]_vars

=============================================================================
