----------------------------- MODULE MCEventsys -----------------------------
(* Instances of STEventsys for TLC.                                        *)
EXTENDS STEventsys

ThreadSymmetry == Permutations(Threads)

(* Sets that share descriptors and events with each other or ask twice for *)
(* one descriptor; one that is refused, after an entry that is not.        *)
Reader == <<[fd |-> 0, events |-> {"IN"}]>>
Both == <<[fd |-> 1, events |-> {"IN", "OUT"}]>>
Two == <<[fd |-> 1, events |-> {"IN"}], [fd |-> 0, events |-> {"OUT"}]>>
Twice == <<[fd |-> 0, events |-> {"IN"}], [fd |-> 0, events |-> {"IN", "OUT"}]>>
Unfit == <<[fd |-> 0, events |-> {"OUT"}], [fd |-> 2, events |-> {"OUT"}]>>

SomePollSets ==
    [select |-> {Reader, Both, Two, Twice, Unfit},
     poll |-> {Reader, Both, Two, Twice},
     epoll |-> {Reader, Both, Two, Twice, Unfit},
     kqueue |-> {Reader, Both, Twice, Unfit}]
=============================================================================
