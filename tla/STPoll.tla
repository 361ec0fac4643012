------------------------------- MODULE STPoll -------------------------------
(***************************************************************************)
(* The poll event system of State Threads (event.c).  It keeps one number, *)
(* the descriptors waited for, and on every dispatch copies the pollqs of  *)
(* the I/O queue one after the other into an array, and their results back *)
(* from there.                                                             *)
(***************************************************************************)
EXTENDS Queues, EventSets

CONSTANTS
    Threads,    \* threads that call st_poll
    PollSets,   \* the descriptor sets they pass
    MIN_SIZE,   \* ST_MIN_POLLFDS_SIZE
    GROWTH      \* room for further descriptors in a new array

PollAssumption ==
    /\ IsFiniteSet(Threads)
    /\ MIN_SIZE \in Nat \ {0}
    /\ GROWTH \in Nat
    /\ PollSets \subseteq Seq(Entries) \ {<<>>}

VARIABLES
    ioq,        \* _ST_IOQ, by the thread of each pollq
    pds,        \* pq->pds of a thread on the ioq, else <<>>
    fdcnt,      \* _ST_POLL_OSFD_CNT
    size,       \* _ST_POLLFDS_SIZE
    open,       \* descriptors open in the kernel
    happened,   \* what there is to tell when poll is called
    pollfds,    \* the field revents of each entry of _ST_POLLFDS
    loop,       \* the loop dispatch is in: "none", "notify", "return"
    scan,       \* the position of that loop in ioq
    at,         \* and in the array
    told        \* the thread notified last, and its revents

vars == <<ioq, pds, fdcnt, size, open, happened, pollfds, loop, scan, at,
          told>>

loopVars == <<happened, pollfds, loop, scan, at>>

Init ==
    /\ ioq = <<>>
    /\ pds = [t \in Threads |-> <<>>]
    /\ fdcnt = 0
    /\ size = MIN_SIZE
    /\ open = Fds
    /\ happened = {}
    /\ pollfds = <<>>
    /\ loop = "none"
    /\ scan = 1
    /\ at = 0
    /\ told = <<>>

pollset_add(t, p) ==
    /\ loop = "none"
    /\ pds[t] = <<>>
    /\ fdcnt' = fdcnt + Len(p)
    /\ ioq' = Append(ioq, t)
    /\ pds' = [pds EXCEPT ![t] = p]
    /\ told' = <<>>
    /\ UNCHANGED <<size, open, loopVars>>

Dequeue(t) ==
    /\ ioq' = Unlink(ioq, t)
    /\ pds' = [pds EXCEPT ![t] = <<>>]

(* Fault: the descriptors of a thread that timed out stay counted.         *)
pollset_del_Counted(t) ==
    /\ loop = "none"
    /\ pds[t] # <<>>
    /\ Dequeue(t)
    /\ told' = <<>>
    /\ UNCHANGED <<fdcnt, size, open, loopVars>>

pollset_del(t) ==
    /\ loop = "none"
    /\ pds[t] # <<>>
    /\ Dequeue(t)
    /\ fdcnt' = fdcnt - Len(pds[t])
    /\ told' = <<>>
    /\ UNCHANGED <<size, open, loopVars>>

(* The pollqs in the order of the ioq, one array.                          *)
Gathered == FlattenSeq([i \in 1..Len(ioq) |-> pds[ioq[i]]])

(* Fault: the array grows only when it was full before.                    *)
NeededSize_Full == IF fdcnt > size + 1 THEN fdcnt + GROWTH ELSE size

NeededSize == IF fdcnt > size THEN fdcnt + GROWTH ELSE size

(* poll looks at the first fdcnt entries; one that is not open gets        *)
(* POLLNVAL.                                                               *)
dispatch_poll(events) ==
    /\ loop = "none"
    /\ size' = NeededSize
    /\ happened' = events \cup ((Fds \ open) \X {"NVAL"})
    /\ pollfds' = [i \in 1..Len(Gathered) |->
                     IF i <= fdcnt THEN Hits(Gathered[i], happened') ELSE {}]
    /\ loop' = IF \E i \in DOMAIN pollfds' : pollfds'[i] # {}
               THEN "notify" ELSE "return"
    /\ scan' = 1
    /\ at' = 0
    /\ told' = <<>>
    /\ UNCHANGED <<ioq, pds, fdcnt, open>>

(* The part of the array that belongs to the pollq reached.                *)
Slice == SubSeq(pollfds, at + 1, at + Len(pds[ioq[scan]]))

InLoop == loop = "notify" /\ scan <= Len(ioq)

(* Fault: the position in the array stays behind when a pollq is removed.  *)
dispatch_notify_Behind ==
    LET t == ioq[scan] IN
    /\ InLoop
    /\ \E i \in DOMAIN Slice : Slice[i] # {}
    /\ told' = <<t, Slice>>
    /\ Dequeue(t)
    /\ fdcnt' = fdcnt - Len(pds[t])
    /\ UNCHANGED <<size, open, happened, pollfds, loop, scan, at>>

dispatch_notify ==
    LET t == ioq[scan] IN
    /\ InLoop
    /\ \E i \in DOMAIN Slice : Slice[i] # {}
    /\ told' = <<t, Slice>>
    /\ Dequeue(t)
    /\ fdcnt' = fdcnt - Len(pds[t])
    /\ at' = at + Len(pds[t])
    /\ UNCHANGED <<size, open, happened, pollfds, loop, scan>>

dispatch_pass ==
    /\ InLoop
    /\ \A i \in DOMAIN Slice : Slice[i] = {}
    /\ scan' = scan + 1
    /\ at' = at + Len(pds[ioq[scan]])
    /\ UNCHANGED <<ioq, pds, fdcnt, size, open, happened, pollfds, loop, told>>

dispatch_return ==
    /\ loop = "return" \/ (loop = "notify" /\ scan > Len(ioq))
    /\ happened' = {}
    /\ pollfds' = <<>>
    /\ loop' = "none"
    /\ scan' = 1
    /\ at' = 0
    /\ told' = <<>>
    /\ UNCHANGED <<ioq, pds, fdcnt, size, open>>

(* No counts are kept per descriptor: one may be closed while a thread     *)
(* waits for it.                                                           *)
fd_close(fd) ==
    /\ loop = "none"
    /\ fd \in open
    /\ open' = open \ {fd}
    /\ UNCHANGED <<ioq, pds, fdcnt, size, loopVars, told>>

fd_open(fd) ==
    /\ loop = "none"
    /\ fd \in Fds \ open
    /\ open' = open \cup {fd}
    /\ UNCHANGED <<ioq, pds, fdcnt, size, loopVars, told>>

Asked == UNION {Pairs(p) : p \in PollSets}

Next ==
    \/ \E t \in Threads : \/ \E p \in PollSets : pollset_add(t, p)
                          \/ pollset_del(t)
    \/ \E events \in SUBSET {x \in Asked : x[1] \in open} :
         dispatch_poll(events)
    \/ dispatch_notify
    \/ dispatch_pass
    \/ dispatch_return
    \/ \E fd \in Fds : fd_close(fd) \/ fd_open(fd)

Spec == Init /\ [][Next]_vars

-----------------------------------------------------------------------------
TypeOK ==
    /\ ioq \in Seq(Threads)
    /\ pds \in [Threads -> PollSets \cup {<<>>}]
    /\ fdcnt \in Nat
    /\ size \in Nat \ {0}
    /\ open \subseteq Fds
    /\ happened \subseteq AllEvents
    /\ pollfds \in Seq(SUBSET (Events \cup Unasked))
    /\ loop \in {"none", "notify", "return"}
    /\ scan \in Nat \ {0}
    /\ at \in Nat

(* The count is the length of the pollqs on the ioq: poll is given the     *)
(* whole array and nothing beyond it, and no assertion of a negative count *)
(* fails.                                                                  *)
CountExact == fdcnt = Len(Gathered)

(* The array holds what is copied into it (ST_ASSERT in dispatch).         *)
ArrayFits == Len(pollfds) <= size

=============================================================================
