----------------------------- MODULE STEventsys -----------------------------
(***************************************************************************)
(* The event systems of event.c behind one interface: st_set_eventsys      *)
(* chooses one, once, before anything waits.  They share the I/O queue and *)
(* the state of the loop of dispatch; each has data of its own.            *)
(***************************************************************************)
EXTENDS Queues, EventSets

CONSTANTS
    Threads,    \* threads that call st_poll
    PollSets,   \* the descriptor sets they pass to each event system
    Refused,    \* descriptors that epoll and kqueue cannot watch
    Failures,   \* the events of Unasked that epoll may report
    FD_SETSIZE, MIN_SIZE, GROWTH, EVTLIST_SIZE, LIST_SIZE,  \* see the systems
    MaxAdds,    \* bound on the filters collected between two dispatches
    MaxForks    \* bound on forks, and on what a parent does after one

VARIABLES
    eventsys,   \* _st_eventsys
    ioq, pds, open, happened, loop, scan, told,     \* shared
    cnt, fdset, maxfd, selected,                    \* select
    fdcnt, size, pollfds, at,                       \* poll
    ep, forks, stale, revents, evtlist,             \* epoll
    kq, addlist, addcnt, dellist                    \* kqueue, with cnt, size,
                                                    \* forks, stale, revents

shared == <<ioq, pds, open, happened, loop, scan, told>>
selectOnly == <<fdset, maxfd, selected>>
pollOnly == <<fdcnt, pollfds, at>>
epollOnly == <<ep, evtlist>>
kqueueOnly == <<kq, addlist, addcnt, dellist>>
forkVars == <<forks, stale, revents>>

vars == <<eventsys, shared, selectOnly, pollOnly, epollOnly, kqueueOnly,
          forkVars, cnt, size>>

Select == INSTANCE STSelect WITH PollSets <- PollSets["select"]
Poll == INSTANCE STPoll WITH PollSets <- PollSets["poll"]
Epoll == INSTANCE STEpoll WITH PollSets <- PollSets["epoll"],
                               outside <- forks, MaxOutside <- 2 * MaxForks
Kqueue == INSTANCE STKqueue WITH PollSets <- PollSets["kqueue"]

ASSUME EventsysAssumption ==
    /\ DOMAIN PollSets = {"select", "poll", "epoll", "kqueue"}
    /\ Select!SelectAssumption
    /\ Poll!PollAssumption
    /\ Epoll!EpollAssumption
    /\ Kqueue!KqueueAssumption

(* The data of a system that is not chosen.                                *)
NoSelect == fdset = {} /\ maxfd = -1 /\ selected = {}
NoPoll == fdcnt = 0 /\ pollfds = <<>> /\ at = 0
NoEpoll == ep = <<>> /\ evtlist = {}
NoKqueue == kq = {} /\ addlist = {} /\ addcnt = 0 /\ dellist = {}
NoFork == forks = 0 /\ stale = FALSE /\ revents = <<>>

(* st_set_eventsys fails once a system is chosen.                          *)
Init ==
    \/ /\ eventsys = "select"
       /\ Select!Init
       /\ NoPoll /\ NoEpoll /\ NoKqueue /\ NoFork /\ size = 0
    \/ /\ eventsys = "poll"
       /\ Poll!Init
       /\ NoSelect /\ NoEpoll /\ NoKqueue /\ NoFork /\ cnt = <<>>
    \/ /\ eventsys = "epoll"
       /\ Epoll!Init
       /\ NoSelect /\ NoPoll /\ NoKqueue /\ cnt = <<>> /\ size = 0
    \/ /\ eventsys = "kqueue"
       /\ Kqueue!Init
       /\ NoSelect /\ NoPoll /\ NoEpoll

Next ==
    /\ UNCHANGED eventsys
    /\ \/ /\ eventsys = "select"
          /\ Select!Next
          /\ UNCHANGED <<pollOnly, epollOnly, kqueueOnly, forkVars, size>>
       \/ /\ eventsys = "poll"
          /\ Poll!Next
          /\ UNCHANGED <<selectOnly, epollOnly, kqueueOnly, forkVars, cnt>>
       \/ /\ eventsys = "epoll"
          /\ Epoll!Next
          /\ UNCHANGED <<selectOnly, pollOnly, kqueueOnly, cnt, size>>
       \/ /\ eventsys = "kqueue"
          /\ Kqueue!Next
          /\ UNCHANGED <<selectOnly, pollOnly, epollOnly>>

Spec == Init /\ [][Next]_vars

-----------------------------------------------------------------------------
TypeOK ==
    /\ eventsys \in {"select", "poll", "epoll", "kqueue"}
    /\ eventsys = "select" => Select!TypeOK
    /\ eventsys = "poll" => Poll!TypeOK
    /\ eventsys = "epoll" => Epoll!TypeOK
    /\ eventsys = "kqueue" => Kqueue!TypeOK

(* The counts of descriptors are those of the waiting pollqs, whichever    *)
(* way a pollq came on or left the I/O queue.                              *)
CountsExact ==
    /\ eventsys = "select" => Select!CountsExact
    /\ eventsys = "poll" => Poll!CountExact
    /\ eventsys = "epoll" => Epoll!CountsExact
    /\ eventsys = "kqueue" => Kqueue!CountsExact

(* Before the process waits, the kernel is asked for whatever the threads  *)
(* wait for, and, except by kqueue, whose filters fire once, for nothing   *)
(* else.                                                                   *)
KernelAsked ==
    /\ eventsys = "select" => Select!FdSetsExact /\ Select!MaxfdCovers
    /\ eventsys = "epoll" => Epoll!InterestExact
    /\ eventsys = "kqueue" => Kqueue!NothingMissed

(* No array is written or read beyond its end.                             *)
ArraysFit ==
    /\ eventsys = "poll" => Poll!ArrayFits
    /\ eventsys = "kqueue" => Kqueue!AddlistFits

(* A thread waits for no descriptor that st_netfd_close has closed.        *)
WaitedOpen ==
    /\ eventsys = "epoll" => Epoll!WaitedOpen
    /\ eventsys = "kqueue" => Kqueue!WaitedOpen

(* Counts, arrays and open descriptors agree with who waits for them.      *)
TablesExact == TypeOK /\ CountsExact /\ ArraysFit /\ WaitedOpen

(* dispatch notifies exactly the threads that wait for some of what the    *)
(* kernel has reported, and tells each its own share of it.                *)
ES == INSTANCE EventSystem WITH
        PollSets <- UNION {PollSets[s] : s \in DOMAIN PollSets},
        waiting <- pds,
        hits <- IF loop = "none" THEN {}
                ELSE {t \in Threads : Concerned(pds[t], happened)}
ImplementsEventSystem == ES!Spec

=============================================================================
