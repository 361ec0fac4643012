------------------------------ MODULE STEpoll -------------------------------
(***************************************************************************)
(* The epoll event system of State Threads (event.c): reference counts per *)
(* descriptor and event, kept in step with the interest list of the kernel *)
(* by one epoll_ctl whenever the events wanted of a descriptor change.     *)
(*                                                                         *)
(* epoll_ctl and epoll_wait are modelled from their use: ADD fails for a   *)
(* descriptor that does not support epoll, MOD and DEL for one that is not *)
(* in the list; closing a descriptor takes it off; a forked child shares   *)
(* the list with its parent until it makes one of its own.                 *)
(***************************************************************************)
EXTENDS Queues, EventSets

CONSTANTS
    Threads,    \* threads that call st_poll
    PollSets,   \* the descriptor sets they pass
    Refused,    \* descriptors for which EPOLL_CTL_ADD fails
    Failures,   \* the events of Unasked that the kernel may report
    EVTLIST_SIZE,   \* the initial length of evtlist
    MaxOutside  \* bound on the steps of fork and parent_ctl

EpollAssumption ==
    /\ IsFiniteSet(Threads)
    /\ IsFiniteSet(Fds) /\ Refused \subseteq Fds
    /\ Failures \subseteq {"ERR", "HUP"}
    /\ EVTLIST_SIZE \in Nat \ {0}
    /\ MaxOutside \in Nat
    /\ PollSets \subseteq Seq(Entries) \ {<<>>}

VARIABLES
    ioq,        \* _ST_IOQ, by the thread of each pollq
    pds,        \* pq->pds of a thread on the ioq, else <<>>
    ep,         \* the counts, the interest list and evtlist: see Init
    open,       \* descriptors open in the kernel
    outside,    \* how many steps of fork and parent_ctl there were
    stale,      \* the pid recorded is not that of the process
    happened,   \* what there is to tell when epoll_wait is called
    revents,    \* fd_data[fd].revents
    evtlist,    \* the descriptors epoll_wait returned
    loop,       \* the loop dispatch is in: "none", "notify", "return"
    scan,       \* the position of that loop in ioq
    told        \* the thread notified last, and its revents

vars == <<ioq, pds, ep, open, outside, stale, happened, revents, evtlist,
          loop, scan, told>>

procVars == <<open, outside, stale>>
loopVars == <<happened, revents, evtlist, loop, scan>>

NoCounts == [x \in Fds \X Events |-> 0]
NoInterest == [fd \in Fds |-> {}]
NoRevents == [fd \in Fds |-> {}]

Init ==
    /\ ioq = <<>>
    /\ pds = [t \in Threads |-> <<>>]
    /\ ep = [cnt |-> NoCounts,          \* rd_ref_cnt, wr_ref_cnt, ex_ref_cnt
             interest |-> NoInterest,   \* the kernel's interest list
             n |-> 0,                   \* evtlist_cnt
             size |-> EVTLIST_SIZE]     \* evtlist_size
    /\ open = Fds
    /\ outside = 0
    /\ stale = FALSE
    /\ happened = {}
    /\ revents = NoRevents
    /\ evtlist = {}
    /\ loop = "none"
    /\ scan = 1
    /\ told = <<>>

(* _ST_EPOLL_EVENTS, for counts c.                                         *)
EpollEvents(c, fd) == {e \in Events : c[<<fd, e>>] # 0}

Counted(c, pd, d) ==
    [x \in Fds \X Events |->
        IF x[1] = pd.fd /\ x[2] \in pd.events THEN c[x] + d ELSE c[x]]

-----------------------------------------------------------------------------
(* One round of the loop of _st_epoll_pollset_del.  A descriptor that has  *)
(* fired is left to the end of dispatch.                                   *)
DelOne(e, pd) ==
    LET c == Counted(e.cnt, pd, -1)
        events == EpollEvents(c, pd.fd)
        change == /\ events # EpollEvents(e.cnt, pd.fd)
                  /\ revents[pd.fd] = {}
                  /\ e.interest[pd.fd] # {}     \* else epoll_ctl fails
    IN  [e EXCEPT !.cnt = c,
                  !.interest[pd.fd] = IF change THEN events ELSE @,
                  !.n = IF change /\ events = {} THEN @ - 1 ELSE @]

epoll_pollset_del(e, p) == FoldLeft(DelOne, e, p)

(* EPOLL_CTL_ADD of a descriptor that is there already, by another process *)
(* that shares the list, is taken for a success; the list of results grows *)
(* when it holds one too many.                                             *)
Registered(e, fd, events) ==
    [e EXCEPT !.interest[fd] = IF @ = {} THEN events ELSE @,
              !.n = @ + 1,
              !.size = IF e.n + 1 > @ THEN 2 * @ ELSE @]

Modified(e, fd, events) == [e EXCEPT !.interest[fd] = events]

(* One round of the second loop of _st_epoll_pollset_add: s.i entries have *)
(* been counted, and the last could not be registered if s.failed.         *)
AddOne(s, pd) ==
    LET old == EpollEvents(s.e.cnt, pd.fd)
        e == [s.e EXCEPT !.cnt = Counted(@, pd, 1)]
        events == EpollEvents(e.cnt, pd.fd)
        fails == /\ events # old
                 /\ IF old = {} THEN pd.fd \in Refused
                    ELSE e.interest[pd.fd] = {}
    IN  IF s.failed THEN s
        ELSE [e |-> IF fails \/ events = old THEN e
                    ELSE IF old = {} THEN Registered(e, pd.fd, events)
                    ELSE Modified(e, pd.fd, events),
              i |-> s.i + 1,
              failed |-> fails]

(* Fault: the entry that failed is not unrolled.                           *)
epoll_pollset_add_OneShort(e, p) ==
    LET s == FoldLeft(AddOne, [e |-> e, i |-> 0, failed |-> FALSE], p)
    IN  IF s.failed
        THEN [s EXCEPT !.e = epoll_pollset_del(s.e, SubSeq(p, 1, s.i - 1))]
        ELSE s

(* All of p is registered, or none of it.                                  *)
epoll_pollset_add(e, p) ==
    LET s == FoldLeft(AddOne, [e |-> e, i |-> 0, failed |-> FALSE], p)
    IN  IF s.failed
        THEN [s EXCEPT !.e = epoll_pollset_del(s.e, SubSeq(p, 1, s.i))]
        ELSE s

pollset_add(t, p) ==
    LET s == epoll_pollset_add(ep, p) IN
    /\ loop = "none"
    /\ pds[t] = <<>>
    /\ ep' = s.e
    /\ IF s.failed THEN UNCHANGED <<ioq, pds>>
       ELSE ioq' = Append(ioq, t) /\ pds' = [pds EXCEPT ![t] = p]
    /\ told' = <<>>
    /\ UNCHANGED <<procVars, loopVars>>

Dequeue(t) ==
    /\ ioq' = Unlink(ioq, t)
    /\ pds' = [pds EXCEPT ![t] = <<>>]

pollset_del(t) ==
    /\ loop = "none"
    /\ pds[t] # <<>>
    /\ Dequeue(t)
    /\ ep' = epoll_pollset_del(ep, pds[t])
    /\ told' = <<>>
    /\ UNCHANGED <<procVars, loopVars>>

-----------------------------------------------------------------------------
(* In a forked child everything on the ioq goes into a new interest list.  *)
Rebuilt ==
    LET empty == [ep EXCEPT !.cnt = NoCounts, !.interest = NoInterest, !.n = 0]
        again(e, t) == epoll_pollset_add(e, pds[t]).e
    IN  FoldLeft(again, empty, ioq)

(* What the kernel may report for interest list i.                         *)
Watched(i) == UNION {{fd} \X (i[fd] \cup Failures) : fd \in {d \in Fds : i[d] # {}}}

(* Errors count as all the events somebody waits for.                      *)
WithErrors(c, fd, r) ==
    IF r \cap {"ERR", "HUP"} # {} THEN r \cup EpollEvents(c, fd) ELSE r

(* epoll_wait returns at most as many descriptors as evtlist holds.        *)
dispatch_wait ==
    LET now == IF stale THEN Rebuilt ELSE ep IN
    /\ loop = "none"
    /\ ep' = now
    /\ stale' = FALSE
    /\ \E reported \in SUBSET Watched(now.interest) :
         /\ evtlist' = {x[1] : x \in reported}
         /\ Cardinality(evtlist') <= now.size
         /\ revents' = [fd \in Fds |-> WithErrors(now.cnt, fd,
                            {x[2] : x \in {y \in reported : y[1] = fd}})]
    /\ happened' = UNION {{fd} \X revents'[fd] : fd \in Fds}
    /\ loop' = IF evtlist' = {} THEN "return" ELSE "notify"
    /\ scan' = 1
    /\ told' = <<>>
    /\ UNCHANGED <<ioq, pds, open, outside>>

(* Fault: errors are left out.                                             *)
LoopRevents_AskedOnly(p) ==
    [i \in DOMAIN p |-> revents[p[i].fd] \cap p[i].events]

(* What the loop stores in pds->revents of one pollq.                      *)
LoopRevents(p) ==
    [i \in DOMAIN p |->
        revents[p[i].fd] \cap (p[i].events \cup {"ERR", "HUP"})]

Notified(p) == \E i \in DOMAIN p : LoopRevents(p)[i] # {}

InLoop == loop = "notify" /\ scan <= Len(ioq)

dispatch_notify ==
    LET t == ioq[scan] IN
    /\ InLoop
    /\ Notified(pds[t])
    /\ told' = <<t, LoopRevents(pds[t])>>
    /\ Dequeue(t)
    /\ ep' = epoll_pollset_del(ep, pds[t])
    /\ UNCHANGED <<procVars, loopVars>>

dispatch_pass ==
    /\ InLoop
    /\ ~Notified(pds[ioq[scan]])
    /\ scan' = scan + 1
    /\ UNCHANGED <<ioq, pds, ep, procVars, happened, revents, evtlist,
                   loop, told>>

(* Fault: descriptors that fired are left in the interest list.            *)
Settled_Left == ep

(* The interest in the descriptors that fired is brought up to date.       *)
Settled ==
    LET gone == {fd \in evtlist : EpollEvents(ep.cnt, fd) = {} /\
                                  ep.interest[fd] # {}}
    IN  [ep EXCEPT !.interest = [fd \in Fds |->
                        IF fd \in evtlist THEN EpollEvents(ep.cnt, fd)
                        ELSE ep.interest[fd]],
                   !.n = @ - Cardinality(gone)]

dispatch_return ==
    /\ loop = "return" \/ (loop = "notify" /\ scan > Len(ioq))
    /\ ep' = Settled
    /\ happened' = {}
    /\ revents' = NoRevents
    /\ evtlist' = {}
    /\ loop' = "none"
    /\ scan' = 1
    /\ told' = <<>>
    /\ UNCHANGED <<ioq, pds, procVars>>

-----------------------------------------------------------------------------
InUse(fd) == EpollEvents(ep.cnt, fd) # {}

(* st_netfd_close: refused while a thread waits for the descriptor.        *)
fd_close(fd) ==
    /\ loop = "none"
    /\ fd \in open
    /\ ~InUse(fd)
    /\ open' = open \ {fd}
    /\ ep' = [ep EXCEPT !.interest[fd] = IF stale THEN @ ELSE {}]
    /\ UNCHANGED <<ioq, pds, outside, stale, loopVars, told>>

fd_open(fd) ==
    /\ loop = "none"
    /\ fd \in Fds \ open
    /\ open' = open \cup {fd}
    /\ UNCHANGED <<ioq, pds, ep, outside, stale, loopVars, told>>

(* The application forks; this is the child from now on.                   *)
fork ==
    /\ loop = "none"
    /\ outside < MaxOutside
    /\ outside' = outside + 1
    /\ stale' = TRUE
    /\ UNCHANGED <<ioq, pds, ep, open, loopVars, told>>

(* The parent changes the interest list the child still shares with it.    *)
parent_ctl(fd, events) ==
    /\ loop = "none"
    /\ stale
    /\ outside < MaxOutside
    /\ events # ep.interest[fd]
    /\ outside' = outside + 1
    /\ ep' = [ep EXCEPT !.interest[fd] = events]
    /\ UNCHANGED <<ioq, pds, open, stale, loopVars, told>>

(* Threads poll open descriptors.                                          *)
Next ==
    \/ \E t \in Threads : \/ \E p \in PollSets : /\ Descriptors(p) \subseteq open
                                                 /\ pollset_add(t, p)
                          \/ pollset_del(t)
    \/ dispatch_wait
    \/ dispatch_notify
    \/ dispatch_pass
    \/ dispatch_return
    \/ \E fd \in Fds : fd_close(fd) \/ fd_open(fd)
    \/ \E fd \in Fds \ Refused : parent_ctl(fd, {}) \/ parent_ctl(fd, {"IN"})
    \/ fork

Spec == Init /\ [][Next]_vars

-----------------------------------------------------------------------------
TypeOK ==
    /\ ioq \in Seq(Threads)
    /\ pds \in [Threads -> PollSets \cup {<<>>}]
    /\ ep \in [cnt : [Fds \X Events -> Nat],
              interest : [Fds -> SUBSET Events],
              n : Int,
              size : Nat \ {0}]
    /\ open \subseteq Fds
    /\ outside \in 0..MaxOutside
    /\ stale \in BOOLEAN
    /\ happened \subseteq AllEvents
    /\ revents \in [Fds -> SUBSET (Events \cup Unasked)]
    /\ evtlist \subseteq Fds
    /\ loop \in {"none", "notify", "return"}
    /\ scan \in Nat \ {0}

(* A reference count is the number of entries of waiting pollqs that ask   *)
(* for the event, also after a registration that failed half way.          *)
CountsExact == \A x \in Fds \X Events : ep.cnt[x] = TimesAsked(pds, x)

(* Outside dispatch the kernel watches exactly the events that threads     *)
(* wait for, and evtlist_cnt is the number of descriptors it watches, all  *)
(* of which fit in evtlist; not in a forked child before its first         *)
(* dispatch, which cannot know what its parent does to the list.           *)
InterestExact ==
    loop = "none" /\ ~stale =>
        /\ ep.n <= ep.size
        /\ \A fd \in Fds :
             ep.interest[fd] = UNION {{e \in Events : <<fd, e>> \in Pairs(pds[t])}
                                        : t \in Threads}
        /\ ep.n = Cardinality({fd \in Fds : ep.interest[fd] # {}})

(* No descriptor is closed while a thread waits for it: st_netfd_close     *)
(* tells by the counts.                                                    *)
WaitedOpen == \A t \in Threads : Descriptors(pds[t]) \subseteq open

=============================================================================
