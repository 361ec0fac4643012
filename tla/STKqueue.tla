------------------------------ MODULE STKqueue ------------------------------
(***************************************************************************)
(* The kqueue event system of State Threads (event.c).  Filters to add are *)
(* collected until the next dispatch; filters fire once; deleting them is  *)
(* immediate and may fail.                                                 *)
(*                                                                         *)
(* kevent is modelled from its use: an addition that fails is reported as  *)
(* an event, before any other; of a list of deletions that are not all     *)
(* possible some are done; closing a descriptor deletes its filters; a     *)
(* forked child has no kqueue.                                             *)
(***************************************************************************)
EXTENDS Queues, EventSets

CONSTANTS
    Threads,    \* threads that call st_poll
    PollSets,   \* the descriptor sets they pass
    Refused,    \* descriptors that have no filters
    LIST_SIZE,  \* ST_KQ_MIN_EVTLIST_SIZE
    MaxAdds,    \* bound on the filters collected between two dispatches
    MaxForks    \* bound on forks

KqueueAssumption ==
    /\ IsFiniteSet(Threads)
    /\ Refused \subseteq Fds
    /\ LIST_SIZE \in Nat \ {0}
    /\ MaxAdds \in Nat
    /\ MaxForks \in Nat
    /\ PollSets \subseteq Seq(Entries) \ {<<>>}

Filters == Fds \X {"IN", "OUT"}

VARIABLES
    ioq,        \* _ST_IOQ, by the thread of each pollq
    pds,        \* pq->pds of a thread on the ioq, else <<>>
    cnt,        \* rd_ref_cnt and wr_ref_cnt
    kq,         \* the filters in the kernel's queue
    addlist,    \* the filters to be added
    addcnt,     \* addlist_cnt, in which a filter may count more than once
    size,       \* addlist_size and evtlist_size
    open,       \* descriptors open in the kernel
    forks,      \* how often the process has forked
    stale,      \* the pid recorded is not that of the process
    happened,   \* what kevent has reported
    revents,    \* fd_data[fd].revents
    dellist,    \* the filters to delete at the end of dispatch
    loop,       \* the loop dispatch is in: "none", "notify", "return"
    scan,       \* the position of that loop in ioq
    told        \* the thread notified last, and its revents

vars == <<ioq, pds, cnt, kq, addlist, addcnt, size, open, forks, stale,
          happened, revents, dellist, loop, scan, told>>

addVars == <<addlist, addcnt, size>>
procVars == <<open, forks, stale>>
loopVars == <<happened, revents, dellist, loop, scan>>

NoCounts == [x \in Filters |-> 0]
NoRevents == [fd \in Fds |-> {}]

Init ==
    /\ ioq = <<>>
    /\ pds = [t \in Threads |-> <<>>]
    /\ cnt = NoCounts
    /\ kq = {}
    /\ addlist = {}
    /\ addcnt = 0
    /\ size = LIST_SIZE
    /\ open = Fds
    /\ forks = 0
    /\ stale = FALSE
    /\ happened = {}
    /\ revents = NoRevents
    /\ dellist = {}
    /\ loop = "none"
    /\ scan = 1
    /\ told = <<>>

-----------------------------------------------------------------------------
(* Fault: room is made for one filter of each descriptor.                  *)
Room_One(s, n, p) ==
    LET doubled[k \in 0..n + Len(p)] ==
          IF k = 0 THEN s ELSE 2 * doubled[k - 1]
        enough == {k \in DOMAIN doubled : Len(p) <= doubled[k] - n}
    IN  doubled[Min(enough)]

(* _st_kq_addlist_expand: size s is doubled until there is room for two    *)
(* filters of each descriptor besides the n in the list.                   *)
Room(s, n, p) ==
    LET doubled[k \in 0..n + 2 * Len(p)] ==
          IF k = 0 THEN s ELSE 2 * doubled[k - 1]
        enough == {k \in DOMAIN doubled : 2 * Len(p) <= doubled[k] - n}
    IN  doubled[Min(enough)]

(* The filters of a set nobody waited for yet are collected.               *)
kq_pollset_add(k, p) ==
    LET new == {x \in Pairs(p) : k.cnt[x] = 0}
    IN  [cnt |-> [x \in Filters |-> k.cnt[x] + Times(p, x)],
         addlist |-> k.addlist \cup new,
         addcnt |-> k.addcnt + Cardinality(new),
         size |-> Room(k.size, k.addcnt, p)]

Lists == [cnt |-> cnt, addlist |-> addlist, addcnt |-> addcnt, size |-> size]

pollset_add(t, p) ==
    LET k == kq_pollset_add(Lists, p) IN
    /\ loop = "none"
    /\ pds[t] = <<>>
    /\ Pairs(p) \subseteq Filters     \* nothing else may be asked for
    /\ k.addcnt <= MaxAdds
    /\ cnt' = k.cnt
    /\ addlist' = k.addlist
    /\ addcnt' = k.addcnt
    /\ size' = k.size
    /\ ioq' = Append(ioq, t)
    /\ pds' = [pds EXCEPT ![t] = p]
    /\ told' = <<>>
    /\ UNCHANGED <<kq, procVars, loopVars>>

Dequeue(t) ==
    /\ ioq' = Unlink(ioq, t)
    /\ pds' = [pds EXCEPT ![t] = <<>>]

(* The filters whose last waiter leaves with set p.                        *)
Unused(p) == {x \in Pairs(p) : cnt[x] > 0 /\ cnt[x] <= Times(p, x)}

Uncount(p) == cnt' = [x \in Filters |-> cnt[x] - Times(p, x)]

(* Deletions stop at a filter that is not there; a filter left behind      *)
(* fires at most once.                                                     *)
Delete(filters) ==
    IF filters \subseteq kq THEN kq' = kq \ filters
    ELSE \E some \in SUBSET filters : kq' = kq \ some

(* st_poll timed out or was interrupted.                                   *)
pollset_del(t) ==
    /\ loop = "none"
    /\ pds[t] # <<>>
    /\ Dequeue(t)
    /\ Uncount(pds[t])
    /\ Delete(Unused(pds[t]))
    /\ told' = <<>>
    /\ UNCHANGED <<addVars, procVars, loopVars>>

-----------------------------------------------------------------------------
(* Fault: the counts of the old kqueue are kept.                           *)
Rebuilt_CountsKept ==
    FoldLeft(LAMBDA k, t : kq_pollset_add(k, pds[t]),
             [Lists EXCEPT !.addlist = {}, !.addcnt = 0], ioq)

(* In a forked child kevent fails: all of the ioq is collected once more.  *)
Rebuilt ==
    FoldLeft(LAMBDA k, t : kq_pollset_add(k, pds[t]),
             [Lists EXCEPT !.cnt = NoCounts, !.addlist = {}, !.addcnt = 0], ioq)

(* POLLNVAL if the descriptor is not open, POLLERR for any other error.    *)
Failure(fd) == IF fd \in open THEN "ERR" ELSE "NVAL"

(* One call of kevent adds the filters collected and reports events, which *)
(* takes the filters that fired out of the queue.                          *)
dispatch_wait ==
    LET now == IF stale THEN Rebuilt ELSE Lists
        bad == {x \in now.addlist : x[1] \in Refused \/ x[1] \notin open}
        all == (IF stale THEN {} ELSE kq) \cup (now.addlist \ bad)
    IN  /\ loop = "none"
        /\ stale' = FALSE
        /\ cnt' = now.cnt
        /\ addlist' = {}
        /\ addcnt' = 0
        /\ size' = now.size
        /\ \E fired \in IF bad # {} THEN {bad} ELSE SUBSET all :
             /\ Cardinality(fired) <= now.size
             /\ kq' = all \ fired
             /\ happened' = fired \cup {<<x[1], Failure(x[1])>> : x \in bad}
        /\ revents' = [fd \in Fds |-> {x[2] : x \in {y \in happened' : y[1] = fd}}]
        /\ loop' = IF happened' = {} THEN "return" ELSE "notify"
        /\ scan' = 1
        /\ told' = <<>>
        /\ UNCHANGED <<ioq, pds, open, forks, dellist>>

(* What the loop stores in pds->revents of one pollq.                      *)
LoopRevents(p) ==
    [i \in DOMAIN p |-> revents[p[i].fd] \cap (p[i].events \cup Unasked)]

Notified(p) == \E i \in DOMAIN p : LoopRevents(p)[i] # {}

InLoop == loop = "notify" /\ scan <= Len(ioq)

(* A filter that has not fired is deleted with its last waiter.            *)
dispatch_notify ==
    LET t == ioq[scan] IN
    /\ InLoop
    /\ Notified(pds[t])
    /\ told' = <<t, LoopRevents(pds[t])>>
    /\ Dequeue(t)
    /\ Uncount(pds[t])
    /\ dellist' = dellist \cup
                    {x \in Unused(pds[t]) : x[2] \notin revents[x[1]]}
    /\ UNCHANGED <<kq, addVars, procVars, happened, revents, loop, scan>>

dispatch_pass ==
    /\ InLoop
    /\ ~Notified(pds[ioq[scan]])
    /\ scan' = scan + 1
    /\ UNCHANGED <<ioq, pds, cnt, kq, addVars, procVars, happened, revents,
                   dellist, loop, told>>

dispatch_return ==
    /\ loop = "return" \/ (loop = "notify" /\ scan > Len(ioq))
    /\ Delete(dellist)
    /\ dellist' = {}
    /\ happened' = {}
    /\ revents' = NoRevents
    /\ loop' = "none"
    /\ scan' = 1
    /\ told' = <<>>
    /\ UNCHANGED <<ioq, pds, cnt, addVars, procVars>>

-----------------------------------------------------------------------------
(* Fault: only readers are looked for.                                     *)
InUse_Readers(fd) == cnt[<<fd, "IN">>] # 0

InUse(fd) == cnt[<<fd, "IN">>] # 0 \/ cnt[<<fd, "OUT">>] # 0

(* st_netfd_close: refused while a thread waits for the descriptor.        *)
fd_close(fd) ==
    /\ loop = "none"
    /\ fd \in open
    /\ ~InUse(fd)
    /\ open' = open \ {fd}
    /\ kq' = {x \in kq : x[1] # fd}
    /\ UNCHANGED <<ioq, pds, cnt, addVars, forks, stale, loopVars, told>>

fd_open(fd) ==
    /\ loop = "none"
    /\ fd \in Fds \ open
    /\ open' = open \cup {fd}
    /\ UNCHANGED <<ioq, pds, cnt, kq, addVars, forks, stale, loopVars, told>>

(* The application forks; this is the child from now on.                   *)
fork ==
    /\ loop = "none"
    /\ forks < MaxForks
    /\ forks' = forks + 1
    /\ stale' = TRUE
    /\ kq' = {}
    /\ UNCHANGED <<ioq, pds, cnt, addVars, open, loopVars, told>>

(* Threads poll open descriptors.                                          *)
Next ==
    \/ \E t \in Threads : \/ \E p \in PollSets : /\ Descriptors(p) \subseteq open
                                                 /\ pollset_add(t, p)
                          \/ pollset_del(t)
    \/ dispatch_wait
    \/ dispatch_notify
    \/ dispatch_pass
    \/ dispatch_return
    \/ \E fd \in Fds : fd_close(fd) \/ fd_open(fd)
    \/ fork

Spec == Init /\ [][Next]_vars

-----------------------------------------------------------------------------
TypeOK ==
    /\ ioq \in Seq(Threads)
    /\ pds \in [Threads -> PollSets \cup {<<>>}]
    /\ cnt \in [Filters -> Nat]
    /\ kq \subseteq Filters
    /\ addlist \subseteq Filters
    /\ addcnt \in 0..MaxAdds
    /\ size \in Nat \ {0}
    /\ open \subseteq Fds
    /\ forks \in 0..MaxForks
    /\ stale \in BOOLEAN
    /\ happened \subseteq AllEvents
    /\ revents \in [Fds -> SUBSET (Events \cup Unasked)]
    /\ dellist \subseteq Filters
    /\ loop \in {"none", "notify", "return"}
    /\ scan \in Nat \ {0}

(* A reference count is the number of entries of waiting pollqs that ask   *)
(* for the event, also for entries that did not fire.                      *)
CountsExact == \A x \in Filters : cnt[x] = TimesAsked(pds, x)

(* Whatever a thread waits for is in the kernel's queue or will be by the  *)
(* time the process waits: filters that fired, deletions that failed and   *)
(* an entry collected before its thread was interrupted lose none.         *)
NothingMissed ==
    loop = "none" /\ ~stale =>
        \A t \in Threads : Pairs(pds[t]) \subseteq kq \cup addlist

(* _st_kq_addlist_add writes inside the list (its ST_ASSERT), and the list *)
(* of results holds an error for each filter.                              *)
AddlistFits == addcnt <= size

(* No descriptor is closed while a thread waits for it: st_netfd_close     *)
(* tells by the counts.                                                    *)
WaitedOpen == \A t \in Threads : Descriptors(pds[t]) \subseteq open

=============================================================================
