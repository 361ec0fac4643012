----------------------------- MODULE FairMutex ------------------------------
(***************************************************************************)
(* What the mutexes of sync.c promise: each has at most one owner, and a   *)
(* mutex that is released goes to the thread that has waited longest, or   *)
(* to nobody if none waits.  A waiter may give up; an owner never loses    *)
(* the mutex but by releasing it.                                          *)
(***************************************************************************)
EXTENDS Queues

CONSTANTS Threads, Mutexes, None

VARIABLES
    owner,      \* the owner of each mutex, or None
    waiting     \* the threads waiting for each mutex, the longest first

vars == <<owner, waiting>>

Init ==
    /\ owner = [m \in Mutexes |-> None]
    /\ waiting = [m \in Mutexes |-> <<>>]

Acquire(t, m) ==
    /\ owner[m] = None
    /\ waiting[m] = <<>>
    /\ owner' = [owner EXCEPT ![m] = t]
    /\ UNCHANGED waiting

Wait(t, m) ==
    /\ owner[m] \notin {None, t}
    /\ waiting' = [waiting EXCEPT ![m] = Append(@, t)]
    /\ UNCHANGED owner

GiveUp(t, m) ==
    /\ \E i \in 1..Len(waiting[m]) : waiting[m][i] = t
    /\ waiting' = [waiting EXCEPT ![m] = Unlink(@, t)]
    /\ UNCHANGED owner

Release(m) ==
    /\ owner[m] # None
    /\ \/ /\ waiting[m] = <<>>
          /\ owner' = [owner EXCEPT ![m] = None]
          /\ UNCHANGED waiting
       \/ /\ waiting[m] # <<>>
          /\ owner' = [owner EXCEPT ![m] = Head(waiting[m])]
          /\ waiting' = [waiting EXCEPT ![m] = Tail(@)]

Next ==
    \E m \in Mutexes : \/ Release(m)
                       \/ \E t \in Threads : \/ Acquire(t, m)
                                             \/ Wait(t, m)
                                             \/ GiveUp(t, m)

Spec == Init /\ [][Next]_vars

=============================================================================
