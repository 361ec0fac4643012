------------------------------ MODULE STSelect ------------------------------
(***************************************************************************)
(* The select event system of State Threads (event.c), with the I/O queue  *)
(* it walks and the calls st_poll makes of it.                             *)
(***************************************************************************)
EXTENDS Queues, EventSets

CONSTANTS
    Threads,    \* threads that call st_poll
    PollSets,   \* the descriptor sets they pass
    FD_SETSIZE  \* descriptors from here on are refused

SelectAssumption ==
    /\ IsFiniteSet(Threads)
    /\ Fds \subseteq Nat
    /\ FD_SETSIZE \in Nat
    /\ PollSets \subseteq Seq(Entries) \ {<<>>}

VARIABLES
    ioq,        \* _ST_IOQ, by the thread of each pollq
    pds,        \* pq->pds of a thread on the ioq, else <<>>
    cnt,        \* fd_ref_cnts
    fdset,      \* fd_read_set, fd_write_set and fd_exception_set
    maxfd,      \* maxfd
    open,       \* descriptors open in the kernel
    happened,   \* what there is to tell when select is called
    selected,   \* the sets select returned
    loop,       \* the loop dispatch is in: "none", "notify", "badfd", "return"
    scan,       \* the position of that loop in ioq
    told        \* the thread notified last, and its revents

vars == <<ioq, pds, cnt, fdset, maxfd, open, happened, selected, loop, scan,
          told>>

setVars == <<cnt, fdset>>
loopVars == <<happened, selected, loop, scan>>

Init ==
    /\ ioq = <<>>
    /\ pds = [t \in Threads |-> <<>>]
    /\ cnt = [x \in Fds \X Events |-> 0]
    /\ fdset = {}
    /\ maxfd = -1
    /\ open = Fds
    /\ happened = {}
    /\ selected = {}
    /\ loop = "none"
    /\ scan = 1
    /\ told = <<>>

Later(m, p) == Max({m} \cup Descriptors(p))

-----------------------------------------------------------------------------
(* The descriptors are counted, and the pollq is put on the ioq (st_poll). *)
pollset_add(t, p) ==
    /\ loop = "none"
    /\ pds[t] = <<>>
    /\ \A d \in Descriptors(p) : d < FD_SETSIZE
    /\ fdset' = fdset \cup Pairs(p)
    /\ cnt' = [x \in Fds \X Events |-> cnt[x] + Times(p, x)]
    /\ maxfd' = Later(maxfd, p)
    /\ ioq' = Append(ioq, t)
    /\ pds' = [pds EXCEPT ![t] = p]
    /\ told' = <<>>
    /\ UNCHANGED <<open, loopVars>>

(* Fault: another waiter does not keep a bit.                              *)
Uncount_BitsCleared(p) ==
    /\ cnt' = [x \in Fds \X Events |-> cnt[x] - Times(p, x)]
    /\ fdset' = fdset \ Pairs(p)

(* The descriptors of a pollq that leaves the ioq; a bit is cleared when   *)
(* its count drops to zero.                                                *)
Uncount(p) ==
    /\ cnt' = [x \in Fds \X Events |-> cnt[x] - Times(p, x)]
    /\ fdset' = fdset \ {x \in Pairs(p) : cnt[x] > 0 /\ cnt'[x] <= 0}

Dequeue(t) ==
    /\ ioq' = Unlink(ioq, t)
    /\ pds' = [pds EXCEPT ![t] = <<>>]

(* st_poll timed out or was interrupted.                                   *)
pollset_del(t) ==
    /\ loop = "none"
    /\ pds[t] # <<>>
    /\ Dequeue(t)
    /\ Uncount(pds[t])
    /\ told' = <<>>
    /\ UNCHANGED <<maxfd, open, loopVars>>

-----------------------------------------------------------------------------
(* select looks at the bits up to maxfd.  If a descriptor among them is    *)
(* not open it fails with EBADF; otherwise it returns the bits that are    *)
(* ready, after the timeout if there are none.                             *)
Seen == {x \in fdset : x[1] <= maxfd}

dispatch_select(events) ==
    /\ loop = "none"
    /\ \A x \in Seen : x[1] \in open
    /\ happened' = events
    /\ selected' = events \cap Seen
    /\ loop' = IF selected' = {} THEN "return" ELSE "notify"
    /\ maxfd' = IF selected' = {} THEN maxfd ELSE -1
    /\ scan' = 1
    /\ told' = <<>>
    /\ UNCHANGED <<ioq, pds, setVars, open>>

dispatch_badfd ==
    /\ loop = "none"
    /\ \E x \in Seen : x[1] \notin open
    /\ happened' = (Fds \ open) \X {"NVAL"}
    /\ selected' = {}
    /\ loop' = "badfd"
    /\ maxfd' = -1
    /\ scan' = 1
    /\ told' = <<>>
    /\ UNCHANGED <<ioq, pds, setVars, open>>

(* What the loop stores in pds->revents of one pollq.                      *)
LoopRevents(p) ==
    [i \in DOMAIN p |->
        IF loop = "badfd" THEN {e \in {"NVAL"} : p[i].fd \notin open}
        ELSE {e \in p[i].events : <<p[i].fd, e>> \in selected}]

Notified(p) == \E i \in DOMAIN p : LoopRevents(p)[i] # {}

InLoop == loop \in {"notify", "badfd"} /\ scan <= Len(ioq)

dispatch_notify ==
    LET t == ioq[scan] IN
    /\ InLoop
    /\ Notified(pds[t])
    /\ told' = <<t, LoopRevents(pds[t])>>
    /\ Dequeue(t)
    /\ Uncount(pds[t])
    /\ UNCHANGED <<maxfd, open, loopVars>>

(* Fault: maxfd is not built up again.                                     *)
dispatch_pass_MaxfdLost ==
    /\ InLoop
    /\ ~Notified(pds[ioq[scan]])
    /\ scan' = scan + 1
    /\ UNCHANGED <<maxfd, ioq, pds, setVars, open, happened, selected, loop,
                   told>>

(* Only the pollqs that stay count for maxfd.                              *)
dispatch_pass ==
    /\ InLoop
    /\ ~Notified(pds[ioq[scan]])
    /\ maxfd' = Later(maxfd, pds[ioq[scan]])
    /\ scan' = scan + 1
    /\ UNCHANGED <<ioq, pds, setVars, open, happened, selected, loop, told>>

dispatch_return ==
    /\ \/ loop = "return"
       \/ loop \in {"notify", "badfd"} /\ scan > Len(ioq)
    /\ happened' = {}
    /\ selected' = {}
    /\ loop' = "none"
    /\ scan' = 1
    /\ told' = <<>>
    /\ UNCHANGED <<ioq, pds, setVars, maxfd, open>>

-----------------------------------------------------------------------------
InUse(fd) == \E e \in Events : cnt[<<fd, e>>] # 0

(* st_netfd_close: refused while a thread waits for the descriptor.        *)
fd_close(fd) ==
    /\ loop = "none"
    /\ fd \in open
    /\ ~InUse(fd)
    /\ open' = open \ {fd}
    /\ UNCHANGED <<ioq, pds, setVars, maxfd, loopVars, told>>

(* The application closes a descriptor with close(2), "BAD!", whoever      *)
(* waits for it; or opens one, which may reuse the number.                 *)
raw_close(fd) ==
    /\ loop = "none"
    /\ fd \in open
    /\ open' = open \ {fd}
    /\ UNCHANGED <<ioq, pds, setVars, maxfd, loopVars, told>>

fd_open(fd) ==
    /\ loop = "none"
    /\ fd \in Fds \ open
    /\ open' = open \cup {fd}
    /\ UNCHANGED <<ioq, pds, setVars, maxfd, loopVars, told>>

Asked == UNION {Pairs(p) : p \in PollSets}

Next ==
    \/ \E t \in Threads : \/ \E p \in PollSets : pollset_add(t, p)
                          \/ pollset_del(t)
    \/ \E events \in SUBSET {x \in Asked : x[1] \in open} :
         dispatch_select(events)
    \/ dispatch_badfd
    \/ dispatch_notify
    \/ dispatch_pass
    \/ dispatch_return
    \/ \E fd \in Fds : fd_close(fd) \/ raw_close(fd) \/ fd_open(fd)

Spec == Init /\ [][Next]_vars

-----------------------------------------------------------------------------
TypeOK ==
    /\ ioq \in Seq(Threads)
    /\ pds \in [Threads -> PollSets \cup {<<>>}]
    /\ cnt \in [Fds \X Events -> Nat]
    /\ fdset \subseteq Fds \X Events
    /\ maxfd \in Fds \cup {-1}
    /\ open \subseteq Fds
    /\ happened \subseteq AllEvents
    /\ selected \subseteq Fds \X Events
    /\ loop \in {"none", "notify", "badfd", "return"}
    /\ scan \in Nat \ {0}

(* A reference count is the number of entries of waiting pollqs that ask   *)
(* for the event: no path off the ioq forgets one or counts it twice.      *)
CountsExact == \A x \in Fds \X Events : cnt[x] = TimesAsked(pds, x)

(* A bit is set if and only if somebody waits for it: one set for nobody   *)
(* makes select return at once, again and again, and one cleared too early *)
(* leaves a thread waiting for ever.                                       *)
FdSetsExact == fdset = UNION {Pairs(pds[t]) : t \in Threads}

(* select looks at every descriptor somebody waits for.                    *)
MaxfdCovers ==
    loop = "none" =>
        \A t \in Threads : \A d \in Descriptors(pds[t]) : d <= maxfd

=============================================================================
