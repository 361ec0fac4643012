---------------------------- MODULE EventSystem -----------------------------
(***************************************************************************)
(* What the scheduler expects of an event system (struct _st_eventsys_ops  *)
(* of common.h): a set of threads wait, each for events on descriptors;    *)
(* dispatch learns from the kernel what has happened and notifies exactly  *)
(* the threads that wait for some of it, telling each what is its concern. *)
(***************************************************************************)
EXTENDS EventSets

CONSTANTS Threads, PollSets

VARIABLES
    waiting,    \* what each thread waits for, <<>> if it does not wait
    happened,   \* the events dispatch is passing on
    hits,       \* the threads it still has to notify
    told        \* the last notification

vars == <<waiting, happened, hits, told>>

Init ==
    /\ waiting = [t \in Threads |-> <<>>]
    /\ happened = {}
    /\ hits = {}
    /\ told = <<>>

Add(t, p) ==
    /\ happened = {}
    /\ waiting[t] = <<>>
    /\ waiting' = [waiting EXCEPT ![t] = p]
    /\ told' = <<>>
    /\ UNCHANGED <<happened, hits>>

Remove(t) ==
    /\ happened = {}
    /\ waiting[t] # <<>>
    /\ waiting' = [waiting EXCEPT ![t] = <<>>]
    /\ told' = <<>>
    /\ UNCHANGED <<happened, hits>>

Learn ==
    /\ happened = {}
    /\ happened' \subseteq AllEvents
    /\ hits' = {t \in Threads : Concerned(waiting[t], happened')}
    /\ told' = <<>>
    /\ UNCHANGED waiting

Notify(t) ==
    /\ t \in hits
    /\ hits' = hits \ {t}
    /\ told' = <<t, Revents(waiting[t], happened)>>
    /\ waiting' = [waiting EXCEPT ![t] = <<>>]
    /\ UNCHANGED happened

Return ==
    /\ happened # {}
    /\ hits = {}
    /\ happened' = {}
    /\ told' = <<>>
    /\ UNCHANGED <<waiting, hits>>

Next ==
    \/ \E t \in Threads : \/ \E p \in PollSets : Add(t, p)
                          \/ Remove(t)
                          \/ Notify(t)
    \/ Learn
    \/ Return

Spec == Init /\ [][Next]_vars

=============================================================================
