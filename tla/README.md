# A verification of State Threads and of the frameworks beside it

This directory holds TLA+ models of `state-threads/`, the cooperative threads
library of this repository with its caches, of the task threads and the event
thread of `FrameWork/CommonUtilitiesLib-linux` (DSS), of the event loop of
`FrameWork/SimpleFrameWork`, and of the frame cache of the pusher in
`公司项目/mylive`; the TLC configurations that check them on small instances; and
proofs checked by TLAPS. Every definition is translated from the C and C++
source; `PROJECT.json` gives the file and lines of each under `map`.

## The repository

The repository collects independent libraries. Each is a system of its own;
only the ones marked * carry concurrency or state worth a model.

| part | state it keeps | operations | what is hard about it |
|---|---|---|---|
| * `state-threads/sched.c`, `common.h` | the current thread; per thread a state, flags, links and a saved context; run queue, zombie queue, I/O queue, timeout heap; the count of active threads | create, exit, join, interrupt, `st_poll`, the idle thread | one thread reachable from several queues; a wake-up and the run it causes are separate steps; interrupts at any time; who frees what at exit |
| * `state-threads/sync.c` | wait queues of condition variables and mutexes, mutex owners | sleep, wait, signal, broadcast, lock, unlock, trylock, destroy | woken threads stay linked until they run; hand-off against interrupt; signal against timeout; destroy against late unlinking |
| * `state-threads/event.c` | descriptor sets and reference counts, kernel registrations (`select`, `poll`, `kqueue`, `epoll`) | pollset add and delete, dispatch, descriptor open and close | counts kept on several paths; registration that fails half way; fork; a descriptor closed under a waiting thread |
| `state-threads/io.c` | net descriptors and their free list, the pipe that serialises accept | open, close, read, write, accept, connect | the accept token between processes |
| `state-threads/key.c`, `stk.c` | thread-specific values and destructors; the free list of stacks | set, get, cleanup; new, free | destructors at exit; a stack freed by the thread that runs on it |
| * `state-threads/extensions` | a cache of entries with reference counts and an order of use; a DNS cache on top of it; a helper process for file I/O | create, look up, insert, release, delete, empty; query, time out, retry | an entry evicted, replaced or deleted while it is used; replies that come late |
| `state-threads/md.h`, `md.S` | registers | context switch | below the model |
| `state-threads/examples` | | server, proxy, lookup | programs that use the library |
| * `FrameWork/SimpleFrameWork` | three descriptor sets, a queue of jobs, a list of timers | accept, add and delete jobs, run | a job or timer deleted while the loop walks its list; descriptors reused within a walk |
| * `CommonUtilitiesLib-linux`: `Task`, `OSQueue`, `OSHeap`, `OSMutexRW` | event words of tasks, queues and timer heaps of threads, a reader/writer mutex | signal, run, sleep, finish, delete, lock | a task signalled while it runs or is let go; lock order |
| * `CommonUtilitiesLib-linux`: `ev`, `EventContext`, `OSRef` | what is selected, by descriptor; contexts by id, with reference counts; descriptors to close | request events, select, hand out, clean up | any thread changes what is selected meanwhile; a context freed under the event thread; a descriptor closed under select |
| `CommonUtilitiesLib-linux`, the rest | timeouts and idle tasks, sockets, text and file utilities | | mostly sequential |
| `FrameWork/CommonUtilitiesLib-linux-windows` | the same library with Windows branches | | |
| `CommonTools` | containers, socket and thread wrappers, MD5, base64 | | sequential helpers |
| * `公司项目/mylive`: `FramesManager`, `PusherThread` | two queues of frames | push, poll, swap, read | the application fills one queue while the event loop swaps |
| `cxImage`, the rest of `公司项目/mylive` | vendored image libraries and live555 | | third-party code |

The parts of state-threads interact by calls and by shared queues only, in one
process thread: an API call runs to its end or to `_ST_SWITCH_CONTEXT`, where
the scheduler takes the head of the run queue or, if it is empty, the idle
thread. The idle thread calls the event system's dispatch function, which makes
threads with ready descriptors runnable, then `_st_vp_check_clock`, which does
the same for the expired ones, and switches away.

What makes the library correct is that these queues agree with the states of
the threads at every switch: nothing in the code checks it. A thread can be
woken by a signal, an unlock, the clock, a descriptor and an interrupt. Whoever
is first makes it runnable; the others have to notice, by its state. The woken
thread keeps its link on the wait queue, or its pollq on the I/O queue, until it
runs, and everybody who walks such a queue has to pass it over.

The DSS library has real threads. A task is alive in one place at a time (a
signal about to enqueue it, a queue, a heap, a thread), and only its event word
says so. The event thread reaches a context through an id it reads from select's
result, so three tables must agree at a moment when other threads change them:
the sets, the ids by descriptor, and the contexts by id. The sockets' tasks are
signalled by the event thread and run by the task threads; `Signal` is where
the two models meet.

In the loop of SimpleFrameWork and in the caches there is one thread and no
lock. What is hard there is the order: calls made from within a walk over the
very data they change, and references kept across waits.

## The modules

| module | what it models |
|---|---|
| `Queues` | the circular lists of `common.h` as sequences |
| `STSched` | the scheduler and the synchronisation primitives (`sched.c`, `sync.c`) |
| `SleepQueue` | abstract: what the timeout heap promises the scheduler |
| `FairMutex` | abstract: what a mutex promises its users |
| `SchedRefinement` | `STSched` implements `SleepQueue` and `FairMutex` |
| `TimeoutHeap` | the pointer heap of `sched.c`, which implements `SleepQueue` |
| `EventSets` | poll descriptors and events |
| `EventSystem` | abstract: what an event system promises the scheduler |
| `STSelect`, `STPoll`, `STEpoll`, `STKqueue` | the event systems of `event.c`, which implement `EventSystem` |
| `STEventsys` | the choice of one of them by `st_set_eventsys` |
| `LRUCache` | the cache of the extensions (`lrucache.c`) as functions |
| `CacheUsers` | users that share it and hold its entries |
| `SharedCache` | abstract: what users of a shared cache may rely on |
| `DNSCache` | name lookups through the cache (`dnscache.c`, `dnsres.c`) over a net that loses and delays |
| `OSMutexRW` | the reader/writer mutex of the DSS library (`OSMutexRW.cpp`) |
| `TaskPool` | its tasks and task threads (`Task.cpp`, `OSQueue.cpp`) |
| `TaskService` | abstract: what the library promises a task |
| `OSRefTable` | its reference table (`OSRef.cpp`) |
| `SelectEvents` | its events on top of select (`ev.cpp`) |
| `EventThread` | event contexts and the event thread (`EventContext.cpp`), on the two above |
| `Engine` | the event loop of SimpleFrameWork, its jobs, listener and timers |
| `FrameCache` | the frame cache of the pusher |
| `MCSched`, `MCHeap`, `MCEventsys`, `MCCache`, `MCEvents`, `MCEngine` | instances for TLC |
| `QueueProofs` | lemmas about queues, sums and finite sets |
| `CacheProofs` | the theorems about `CacheUsers` and about `DNSCache` |
| `EventThreadProofs` | the theorems about `EventThread` |
| `EngineFramesProofs` | the theorems about `Engine` and about `FrameCache` |
| `STSchedProofs`, `HeapProofs`, `TaskPoolProofs`, `EventsysProofs` | the theorems about `STSched`, `TimeoutHeap`, `TaskPool` and `STEventsys`, and that these implement their abstract specifications |

The modules meet at the abstract specifications. `STSched` keeps the sleeping
threads as a set with due times and chooses which descriptors are ready;
`SleepQueue` and `EventSystem` state what it relies on there, and the modules
of the heap and of the event systems show that the code below provides it.

The same holds for the others: `SharedCache` says of the cache, and `TaskService`
of the task threads, what their users may rely on. Where a component is small
enough, it is composed as it is: `CacheUsers` and `DNSCache` call the functions
of `LRUCache`, `EventThread` takes its steps from `OSRefTable` and
`SelectEvents`, `TaskPool` from `OSMutexRW`.

Definitions named with an underscore (`Filled_First`, `Finished_Dropped`) are
mistakes one could make in the code, next to the definition they would replace;
nothing uses them. They show that each property depends on the code.

### STSched: state

| variable | code |
|---|---|
| `cur` | `_st_this_thread` |
| `state` | `thread->state`; `UNUSED` before `st_thread_create`, `DEAD` after the stack, which holds the structure, was freed |
| `op`, `obj` | `thread->context`: the call a thread is inside and the object it works on; for the idle thread, the loop it is in |
| `runq`, `zombieq`, `ioq` | `_ST_RUNQ`, `_ST_ZOMBIEQ`, `_ST_IOQ` |
| `scan` | the variable `q` of the walk over the I/O queue |
| `sleepq`, `due` | `_ST_FL_ON_SLEEPQ` and `thread->due`; the heap is the set of its threads |
| `intr`, `tmdout` | `_ST_FL_INTERRUPT`, `_ST_FL_TIMEDOUT` |
| `wq` | `wait_q` of each mutex, condition variable and termination condition variable |
| `owner`, `live` | `mutex->owner`; objects not freed |
| `term` | threads with `thread->term` not `NULL` |
| `active` | `_st_active_count` |
| `ret` | what the last call of the current thread returned |

### STSched: actions

A call that does not block is one action. A call that blocks is two: the part
up to `_ST_SWITCH_CONTEXT`, which ends by choosing the next thread
(`vp_schedule`), and the part after it, the `_resume` action. Nothing else
interleaves, because the library runs in one process thread. Two walks are
split further so that each step is small: `st_cond_broadcast` wakes one waiter
per step, and the idle thread's loop is its test, one step per pollq, the clock
reading, one step per expired thread, and the switch. No other thread runs
between these steps (`cur` does not change), so the split adds no behaviour.

Abstractions. Which descriptors are ready is a choice made for each pollq.
Times are relative to `_ST_LAST_CLOCK`: the code only ever uses
`due - last_clock`. `st_usleep` of `NO_TIMEOUT` suspends. `st_poll` may fail to
register its descriptors. Memory allocation succeeds. A thread structure is
used once, so reuse of a freed structure is not modelled: `Valid` says which
pointers the application may still pass. The primordial thread's structure is
never freed, but after it has exited no call on it is allowed, as for others.
Objects are destroyed and created again under the same name.

### TimeoutHeap

`heap` holds the pointers (`ptr`, by slot: the root or a field `left` or `right`
of a thread, the values of the code's `_st_thread_t **p`), `heap_index` and
`_ST_SLEEPQ_SIZE`; `due`, `flagged` (`_ST_FL_ON_SLEEPQ`) and `expiring` (inside
the loop of `_st_vp_check_clock`) are as in `STSched`. `heap_insert` and
`heap_delete` are functions of the record. The bits of an index after the first are
the directions from the root, so a loop that walks down is a recursive function over
nodes (`InsertWay`, `SlotAt`): the way to node `n` is the way to `n \div 2` and one step
by the last bit. The loop that sifts is an iterated step (`Sift`), whose bound, the
size of the heap, is never reached before the loop of the code ends (`SiftIs` in
`HeapProofs`); `Exchanged` has the pointers that one round writes. The
index and the due time of a thread off the heap are reset to 0 so that states
that differ only there are one; the code leaves them and never reads them.

### The event systems

All four have the same variables for what `st_poll` shares with them: the I/O
queue, the descriptors of each waiting thread (`pds`), and the place of the loop
of `dispatch` in the queue. `pollset_add` and `pollset_del` are the calls of
`st_poll` before and after its switch, with the change of the I/O queue that
goes with them. `dispatch` is one action for the system call, with the result
the kernel chooses, one for each pollq (`dispatch_notify`, `dispatch_pass`), and
one for its end. No call of the library comes between them, so the split adds
no behaviour; `told` records the thread notified and its `revents`.

| module | state of its own |
|---|---|
| `STSelect` | `cnt` (`fd_ref_cnts`), `fdset` (the three bit sets), `maxfd` |
| `STPoll` | `fdcnt` and `size` of the array, the results copied back, the position `at` in it |
| `STEpoll` | in `ep` the counts, the interest list of the kernel, `evtlist_cnt` and `evtlist_size`; `revents` of each descriptor; whether the process has forked since |
| `STKqueue` | the counts, the filters in the kernel, the lists of filters to add and to delete; `revents`; the fork |

The kernel is modelled from its use. `select` fails if a bit up to `maxfd` is
set for a closed descriptor. `poll` answers with NVAL for one. `epoll_ctl` ADD
fails for descriptors without support for it (`Refused`), succeeds without
effect for a descriptor already in the list (the code takes `EEXIST` for
success), and MOD and DEL fail for one that is not. `kevent` reports additions
that fail before any event and may leave out deletions after one that fails.
`STEventsys` chooses one system in its initial states, as `st_set_eventsys`
does once before any thread can wait, and composes the four modules: the I/O
queue and the state of the loop are shared, a system that is not chosen keeps
its data as it was. Its properties are conjunctions over the systems.
`KernelAsked` for `select` says which bits are set, for `epoll` what is on the
interest list, for `kqueue` that each event waited for has a filter, in the
kernel or collected. `poll` has no such data: its array is built at each
dispatch, and `ArraysFit` says it is large enough, as it does for the addlist.

After a fork the child shares the epoll list with its parent, who may change it
(`parent_ctl`), until its first dispatch; it has no kqueue at all.

Applications close descriptors through `st_netfd_close`. For `select` and
`poll` they may also use `close(2)` under a waiting thread, which the code
expects ("BAD!", `event.c:402`) and survives. With `epoll` and `kqueue` the
kernel forgets such a descriptor and its waiter is told nothing; the models
leave that misuse out, and with it an `epoll_ctl` that fails when the child of
a fork registers everything again. Memory allocation, `epoll_create` and
`kqueue` succeed. The timeout handed to the kernel is left out: a dispatch may
return without events at any time.

### LRUCache, CacheUsers and DNSCache

No call of the cache gives up the processor, so each is a function from the
record of all it keeps (entries with key, weight, count and mark; table; list;
size and weight) to the next one. `Evicted` and `Inserted` keep the order of the
code: room is made before the entry of the same key is looked for, so an
insertion may evict entries and then fail, or evict one for an entry that it
would have replaced. A hash chain is a set: of the entries of one key at most
one is not marked for deletion (`OneLivePerKey`), so its order is never seen.
What is left of a freed entry is reset. `LRUCache` declares the variable `cache` for
the two modules that use it; the definitions of `DNSCache` that would have the names
of those of `CacheUsers` are called `DNSInit`, `DNSNext`, `DNSSpec` and so on, so that
`CacheProofs` can extend both.

`CacheUsers` adds users that keep to the interface and hold entries in between.
They hold an entry once at a time: a second reference of the same user is the
same for the cache as one of another user.

`DNSCache` models a lookup as the code runs it: from the call to the first query
without giving up the processor, then one step for each reply, timeout or
interrupt, and one for all that is done with a good reply (the count of
references goes up and down within these steps, and must come out right). The
net and the servers are external: datagrams are lost, delayed and reordered, and
a server may say anything. A port is given out again once the socket is closed,
so a late reply can reach a thread that asked something else. An id is not given
out while a datagram with it is under way, which 16 random bits make unlikely
and do not exclude. Hosts have names of at most 127 characters; the cache cuts
longer ones (`dnscache.c:137-140`), so that it would serve two hosts that differ
later as one. A datagram that is not the reply is passed over, and the
wait begins again with the full timeout, as in the code, where stray packets can
prolong a lookup for as long as they keep coming; `LookupReturns` therefore
rests on the wait timing out in the end.

### TaskPool and OSMutexRW

This library has real threads. A task is an event word with an alive bit
(`fEvents`, with `"alive"` for `kAlive`); a task thread takes tasks from its
timer heap and its queue, invokes `Run` under the reader/writer mutex, and then
deletes the task, lets it go, or puts it into its heap. Every operation on an
event word is atomic, and a queue has a mutex, so the actions are what happens
between two of these: `SignalTask` is `Signal` up to its `atomic_or`, `EnQueue`
the rest, with `sending` the task in between. `theTask` and `at` are the task
of a thread and its place in `Entry`. `Run` gets its events, may signal a task,
and returns any of the four ways (`RunReturns`; `CallLocked` includes
`ForceSameThread`). `holds` is what a thread has of the mutex.

Abstractions. `sThreadPicker` is any thread. The wait for a queue to fill ends
at any time, since it lasts 10 ms or until the next timer; signalling it makes
no difference then. A heap is the sequence of its tasks in order of time; `due`
counts down to 0, and ties are broken in any order. `Run` gets its events first
and signals at most once. `Signal` to a deleted task is left out, which `Task.h`
leaves to the caller, and so is `Signal` before `AddThreads` (see below). A locked
invocation that calls `CallLocked` again is followed by one that is not locked,
because `Entry` resets the request afterwards; the model does the same.

### EventThread, SelectEvents and OSRefTable

`SelectEvents` has the variables of `ev.cpp` under their names, with `sSet` and
`sReturned` for the read and write sets together. The pipe that wakes select is
descriptor 0. `asked` is what the kernel was asked, `openFDs` and `ready` are the
kernel's. Each stretch under `sMaxFDPosMutex`, and each system call, is one
step: a change (`ModWatch`, `RemoveEvent`) is one and the write to the pipe
(`WakeSelect`) another; the event thread copies the sets, enters select, leaves
it, drains the pipe, closes what was removed and hands out one descriptor per
step. So a change can come between the copy and the call, during the call, and
between two descriptors of one result. The scan begins at `sCurrentFDPos`
wherever `sMaxFDPos` is by then, and the result of select is not looked at again
when it fails, as in the code.

`EventThread` adds the contexts (`fFileDesc`, `fUniqueID`, `fEventReq`), the
place of each owner in `RequestEvent` or `Cleanup` (`owner`), and the place of
the event thread (`at`, `theCurrentEvent`, `ref`). A number of the kernel is
given out lowest first and again after it was closed. Unique ids come round
again: `UniqueIDs` lets the counter give any id that no context has. `told` is
the event `kReadEvent` of the context's task, from the event thread to the next
`RequestEvent`, and for a listener also the second that it sleeps between two
accepts when it has many connections (`SetIdleTimer`), after which its task runs and
processes the event itself.

Abstractions. `fWatchEventCalled`, which `Cleanup` does not reset, tells the
first `RequestEvent` from later ones; contexts are made anew for each socket in
the library's own code, and a context that is opened again here is a new one.
Owners wait to be told before they ask again unless they are in `Unprompted`.

`TCPListenerSocket::ProcessEvent` runs on the event thread, and while it does so the
owner may clean the listener up. What it accepts is a context of its own. It then
arms the listener again (`Accept`, which also is what it does if there is nothing to
accept), or has its task sleep (`AcceptAndSleep`; `RequestEvent` or `AcceptInTask` is
what the task does then), or accept has failed (`AcceptFails`). In that case it
signals the task of a session that does not begin and returns: the listener is not
armed and its task is not told. `failed` has the listeners of which that was the last
accept. Out of descriptors (`EMFILE`, `ENFILE`) the process exits, which is not
modelled.

### Engine

One action for each branch of the loop of `Engine::dispatch` and of
`TimeManager::Processor`: `cursor` and `cond` are the job and the set that is
looked at, `timerCursor` the timer. A `Processor` that is called on the way may
accept (`Accept`), ask for other conditions or start a timer (`Handle`). Its
result deletes the job or keeps it: the code takes 0 from a read, but anything
else from a write or an exception, for deletion, and so does `ToDelete`.
`returned` are the sets after select. Jobs go in at the tail of the queue. Time
is counted in passes, up to `Longest`. The clock may be set back
(`ClockSetBack`), after which the time that has passed is forgotten.

### FrameCache

`w` and `wi` are where the application is in `writeData`, `r` and `ri` where the
event loop is in `readData`: one step per container looked at, freed or filled.
The application holds the mutex from its first step to its last, and the event
loop takes it to swap only. `mFree` of a container is set by no constructor, so
it is any value at first; the first read frees all containers, without the
mutex. `before` marks the frames pushed by then, of which the properties say
nothing: one of them may be freed, or delivered half filled, in that window. The
state of `PusherThread` and the loop of live555 around the sources are not
modelled.

A frame may be larger than its container: `FrameContainer::writeData` then refuses it
(`FramesManager.cpp:34-36`), and `CacheManager::writeData`, which does not look at the
result, marks the container filled (`WriteContainer`, `Fill`). Any frame may be such a
one in the model; the containers of the pusher have 2 MB (`PusherThread.cpp:17`), and
the program in `demo/` puts frames together in 3 MB (`demo.cpp:127`). `stale` has the
containers whose last frame was refused. What such a container holds is the frame from
before, if that was thrown away, or nothing, if it was read, since reading sets the type
to 0. `FramesInOrder` is about the frames that were stored, not what a refused one
brings back. `FramesLeave` excepts the time that the sources are `Blocked`: next to be
read is a container of type 0, which is no source's. That may be for ever.

## What is checked

Each run of TLC explores all behaviours of its instance.

| run | what happens | what it shows |
|---|---|---|
| `sched_sync` | create, exit, interrupt, timed wait, signal, broadcast, lock, unlock, trylock, destroy | the inductive invariant and the queue, flag, hand-off and lifetime properties of mutexes and condition variables; what the calls return (`LockOutcome`, `WaitsCorrect`); mutexes implement `FairMutex` |
| `sched_blocking` | create, exit, join, interrupt, poll, sleep | ready descriptors, timeouts and interrupts of the same threads in every order: each is made runnable once; zombies wait for their joiner, the process ends after the last exit (`ExitsCorrect`); the scheduler implements `SleepQueue` |
| `sched_live` | create, exit, interrupt, poll, sleep | every runnable thread runs, interrupts are delivered (`NobodyForgotten`), the process ends, and timeouts are delivered if the idle thread gets to run |
| `heap` | insert, delete, expire | the tree is complete, addressed by `heap_index`, ordered, and implements `SleepQueue` |
| `eventsys` | add, delete, dispatch, close, open, fork | counts, bits, arrays and kernel registrations agree with the waiting threads (`TablesExact`, `KernelAsked`); whichever is chosen implements `EventSystem` |
| `cache` | create, insert, look up, release, delete, evict, empty | references, table, list and counters agree (`CacheCorrect`, `CacheWithinLimits`), entries leave in the order of their last use, and nothing in use is destroyed (`SharedCache`) |
| `dns` | lookups, queries, replies, losses, timeouts, interrupts | answers are those of the host asked for and not too old (`AnswersCorrect`), no reference or mark is left behind (`NothingPinned`), every lookup returns |
| `tasks` | signals, runs, timers, locked runs | a task is in one place, run by one thread, the one it asked for (`TasksPlaced`); the mutex agrees with its users and locked invocations are alone (`LockingCorrect`); the pool implements `TaskService`; every event reaches an invocation |
| `events` | a listener and a connection come and go, ask for events, get them | what is asked for is selected (`AskedIsSelected`), no context is used after its `Cleanup`, descriptors are closed last, no context stays deaf but a listener whose accept failed, every `Cleanup` returns |
| `engine` | accept, handle, delete, timers | sets, queues and the places of both walks agree (`WalksCorrect`), no event reaches a job that came later (`EventsOfTheirOwn`), every job and timer has its turn |
| `frames` | push, poll, swap, read | stored frames come out in order and once, and none stays for ever, except behind a container that a refused frame left empty |
| `two_writers` | two tasks that lock | a violation: see below |

### Bounds

Scheduler: three threads (four for joins and I/O), of which one is primordial,
one mutex and one condition variable. Three threads are the owner or signaller,
a waiter that is woken for another reason, and the waiter it must not displace;
the fourth makes zombies, joiners and interrupters distinct. More objects add
nothing: a thread is on one wait queue at a time, which `WaitQueuesExact`, a
part of the inductive invariant, states. Timeouts are 0, 1 and none, and the
clock advances by 0 or 1 per reading, so that a thread expires at once, later,
together with another, or never. Nothing else is bounded: there is no limit on
the number of calls. Threads other than the primordial one are interchangeable,
and the safety runs use that symmetry; the liveness runs do not.

`heap` has seven threads, a full tree of three levels, so that a deletion can
take any node of two levels above the last one and the moved thread can rise,
sink by one or two levels, or stay; three due times give equal and different
ones.

`eventsys` has three threads: one that is notified, one that shares
a descriptor with it and is not, and one that comes or goes meanwhile. The sets
they poll share a descriptor for the same and for different events, name one
descriptor twice, and include one the event system refuses, in `epoll` after an
entry it has already registered. `FD_SETSIZE`, the array of `poll`, `evtlist`
and the addlist are as small as they can be, so that they overflow or grow.
`MaxForks` bounds the forks (and, in `epoll`, forks and changes by the parent
together, by twice as many) and `MaxAdds` the filters collected between two
dispatches, which the code does not bound.

`cache` has four entries of two weights under two keys, with limits of three
entries and a weight of four: an insertion can evict none, one or several, fail
for its weight or because all are in use, and replace an entry that is in use, on
the list, or just evicted. Two users are enough for an entry that one deletes
while the other holds it. `dns` has two threads and two hosts, so that the late
reply of one lookup can meet the other thread, on the same port or not; two
queries per lookup make a retry; weights of 1 and 3 under a limit of 2 make
insertions that evict and ones that fail. `MaxTime` bounds the clock, with a TTL
of 1, so that an entry is found fresh, at its last moment, and expired.

`tasks` has three threads and two tasks. One event and one delay are enough: the
code treats all alike. Only one task calls `CallLocked`, because with two the
mutex fails (`two_writers`). Two tasks keep two threads busy at most; the cases
of a reader that comes while another reads and a writer waits are covered by the
proof of `LockingCorrect`, for any number of tasks and threads.

`events` has two contexts, two ids and two descriptors, as few as it takes for
each to be taken over by the other context, and for the event thread to hold an
event of one while the other is cleaned up. They read only; the write set is
scanned and empty. `Unprompted` is empty in the run; the proof has no such limit
on directions, contexts or owners. `engine` has a listener and one session that
comes and goes, two descriptors, and timers of one and two passes; the clock is
set back once. `frames` has queues of two containers and five frames of two
media: the application fills a queue, throws it away and fills it again, while
the reader swaps in between.

Deadlock is not checked in the scheduler's runs: a program whose threads all
wait for each other does stop, and the model ends when the process does.

### Fairness

Scheduler. `FairSpec`: the library's own steps are taken (weak fairness of the
idle loop and of the second halves of calls), since in one process thread nothing
can keep them from running, and a thread that is given the processor again and
again finally makes a call that gives it up (strong fairness of `GiveUp`),
which is the contract of cooperative scheduling. `TimedSpec` adds that the
clock advances while the idle thread keeps reading it; `sched_live` uses it.
`SleeperWakes` also assumes, in its statement, that the idle thread is scheduled
again and again: timers are looked at nowhere else, and a program in which some
thread is always runnable delivers no timeout.

`TaskPool`: threads run, `Run` returns, time passes, and a thread that waits for
the mutex finds it free some time, since locked invocations are at least 10 ms
apart (`Task.h`). `SignalledRuns` assumes in its statement that a thread which
keeps serving expired timers, or one task that signals itself, looks at its
queue now and then: the code does not see to that.

`EventThread`: the event thread and the owners run; a select that has something
returns it now and then, however often it is interrupted (strong fairness of
`LeaveSelect`); nothing is assumed of its timeout, so a change that is not
written to the pipe would be missed for ever. The owner of a listener,
which the event thread may take up again and again, gets the mutex of the table in
`UnRegister` some time while the listener is not used, as it is all through each select
(strong fairness of `RemoveContext`); for other contexts nothing more is assumed than
that the owner goes on.

`Engine`: the loop runs and Processors return (weak fairness), select is not
interrupted for ever when something is ready, and time passes (strong fairness).

`DNSCache`: a thread is scheduled, and its wait for a reply ends, with the reply
or the timeout. Nothing is assumed of the net. `FrameCache`: both threads run,
the mutex is given to the event loop when it is free, and each source polls
again and again, as it does ten milliseconds after it found nothing.

### Disagreements with documentation and comments

`two_writers`. `OSMutexRW.h` says of the active writer "only one". `LockWrite`
waits for active readers only, so a second writer enters beside the first.
`OneWriter` fails.

The following are visible in the models but have no run of their own.

- The reference of State Threads says a thread can be joined by one thread, that
  others get an error, and that a caller is not blocked if the target has
  already terminated. Between a successful join and the target's last run the
  target is runnable, its termination condition variable exists and nobody
  waits on it: a second join in that window (`sched.c:290`) blocks, and the
  target then goes away without signalling.
- It says an interrupt is delivered only when the thread is about to block.
  `st_mutex_lock` tests the flag first (`sync.c:294`) and fails with `EINTR`
  even on a free mutex.
- A comment in `TaskThread::Entry` says that `Run` will "100% definitely" be
  invoked after a signal. A signal before `AddThreads` (`Task.cpp:69`) sets the
  alive bit and enqueues nothing, and so does every later one. `TaskPool` leaves
  such signals out.
- `Job.h:19-22` says that a job whose Processor returns 0 is removed and deleted
  and that it is run again otherwise. `Engine.cpp:95` and `:104` do the opposite
  for a write or an exception, as `ToDelete` does.
- The first read of the frame cache frees all containers without the mutex while
  the application may be filling one (`FramesManager.cpp:107`).
- When accept fails with an error other than `EAGAIN`, `EMFILE` and `ENFILE`, the
  message written says "Clean up and continue." (`TCPListenerSocket.cpp:107`). The
  listener does not continue: its descriptor was taken out of the set when the event
  was handed out, `RequestEvent` is not called, and the task signalled is not the
  listener's. `AskedIsSelected` and `NobodyStaysDeaf` except such a listener
  (`failed`); without the exception both fail.
- `pusher_pushFrame` returns 1, "success" (`PusherAPI.hh:57`), for a frame that its
  container refused (`FramesManager.cpp:156`). If the container was read before, it is
  now filled and has type 0: `findMediaType` returns 0 to both sources, neither
  empties it, and the pusher sends nothing more (`Blocked`, which `FramesLeave`
  excepts). If its last frame was thrown away, that frame is sent, after later ones
  (`stale`, which `FramesInOrder` excepts). Without the exceptions both fail.

One behaviour is worth knowing although no document contradicts it: a thread
chosen by `st_cond_signal` and interrupted before it runs returns `EINTR`, and
the signal is lost to the other waiters.

## What is proved

The theorems hold for all values of the constants that satisfy the named
assumptions of the modules. Each rests on one inductive invariant, which is
itself a theorem: `Spec => []IInv`. The runs check the parts of it that are
stated as properties; TLC was used to find the rest.

| module | theorem | property |
|---|---|---|
| `STSchedProofs` | `InductiveInvariant` | `[]IInv` |
| | `TypeCorrect` | `[]TypeOK` |
| | `RunQueueCorrect` | `[]RunQueueExact` |
| | `DispatchCorrect` | `[]DispatchMeetsWaiters` |
| | `HandoffNotLost` | `[]NoLostHandoff` |
| | `DestroyCorrect` | `[]NoUseAfterDestroy` |
| | `LockOutcomeCorrect` | `LockOutcome` |
| | `ExitsCounted` | `ExitsCorrect` |
| | `WaitsEndCorrectly` | `WaitsCorrect` |
| | `SleepQueueUsed` | `UsesSleepQueue` |
| | `FairMutexImplemented` | `ImplementsFairMutex` |
| `HeapProofs` | `InductiveInvariant` | `[]IInv` |
| | `HeapAlwaysCorrect` | `[]HeapCorrect` |
| | `SleepQueueImplemented` | `ImplementsSleepQueue` |
| `TaskPoolProofs` | `InductiveInvariant` | `[]IInv` |
| | `TasksInPlace` | `[]TasksPlaced` |
| | `LocksCorrect` | `[]LockingCorrect`, with one locking task |
| | `ServiceImplemented` | `ImplementsTaskService` |
| `EventThreadProofs` | `InductiveInvariant` | `[]IInv` |
| | `ContextsStay` | `[]NoStaleContext` |
| | `DescriptorsClosedLast` | `[]ClosedLast` |
| | `AskedStaysSelected` | `[]AskedIsSelected` |
| `CacheProofs` | `InductiveInvariant` | `[]IInv` (of `CacheUsers`) |
| | `CacheAgrees` | `[]CacheCorrect` |
| | `CacheLimited` | `[]CacheWithinLimits` |
| | `EvictedInOrder` | `EvictionInOrder` |
| | `SharedCacheImplemented` | `ImplementsSharedCache` |
| | `DNSInductiveInvariant` | `[]DNSInv` (of `DNSCache`) |
| | `AnswersAreCorrect` | `[]AnswersCorrect` |
| | `AllCanMakeRoom` | `[]NothingPinned` |
| `EngineFramesProofs` | `InductiveInvariant` | `[]IInv` (of `Engine`) |
| | `SetsFollowJobs` | `[]WalksCorrect` |
| | `NoEventsOfOthers` | `EventsOfTheirOwn` |
| | `FramesInvariant` | `[]FramesInv` (of `FrameCache`) |
| | `FramesOrdered` | `[]FramesInOrder` |
| `EventsysProofs` | `InductiveInvariant` | `[]IInv` |
| | `TablesAlwaysExact` | `[]TablesExact` |
| | `KernelAlwaysAsked` | `[]KernelAsked` |
| | `EventsysImplements` | `ImplementsEventSystem` |

**STSched** (threads are a finite set with the primordial thread and without the
idle thread; the kinds of objects are disjoint; timeouts are naturals or
`NO_TIMEOUT`). None of the properties is inductive alone. That the run queue
holds each runnable thread once needs that whoever appends a thread found it in
a blocked state. For the dispatch loop, which does not look, that is
`DispatchMeetsWaiters`: every pollq still to be visited belongs to a thread in
`IO_WAIT`. It holds because the idle thread runs only on an empty run queue
(`IdleInOrder`), and a thread on the I/O queue is inside `st_poll`
(`IoQueueExact`), hence waiting, runnable or running (`CallMatchesState`), and
cannot be runnable with an empty run queue (`RunQueueExact` again) nor running
while the idle thread is (`OneRunning`). For the clock it is `SleepersWait`,
which needs that every wake-up deletes the thread from the heap. For signals and
unlocks it is the state test itself. `HandoffKept`, a thread that stopped waiting
for a mutex was interrupted or owns it, is what `NoLostHandoff` and `LockOutcome`
rest on, and it needs `WaitQueuesExact`: the thread found on a mutex's queue in
`LOCK_WAIT` waits for that mutex. `QueueProofs` supplies what `Unlink`, `Append`
and `Tail` do to a sequence without repetitions, and that the first waiter exists
if there is any. `WaitQueuesExact`, `SleepersWait`, `IoQueueExact` and
`OneRunning`, invariants one would state for their own sake, are checked with
`IInv` by `sched_sync` and covered by the proof.

`ExitsCounted` rests on a second invariant, `ActiveExact`: `_st_active_count` is
the number of threads created and not exited, and 0 once the idle thread has
ended its loop. Every step creates one thread, ends one or does neither
(`NextCounts`); the second half of an exit, after the join, does neither. An
exited thread that is neither a zombie nor freed is runnable or running, which
it cannot be when the idle thread runs on an empty run queue.

`WaitsEndCorrectly` needs `IInv` alone. A step moves no waiting thread, or wakes
the first waiter of one object (`FirstWoken`: `WaitQueuesExact` says that the
thread is on no other queue, and that only waiters of one kind are on a queue),
or is an interrupt or a step of the clock. `TimedoutScoped` says that a thread
still waiting has no `TIMEDOUT` left from before.

That the scheduler implements `SleepQueue` (`SleepQueueUsed`) takes the same
invariant and `DueZero`, threads off the heap have no due time left over. Every
context switch puts the caller on the heap or does nothing there: the caller was
not on it, because it runs and sleepers are blocked (`SleepersWait`). Every
wake-up takes its thread off. Due times move only in the clock step, and threads
go on the heap only when the idle thread is not in it (`IdleInOrder`).

That it implements `FairMutex` (`FairMutexImplemented`) is the same kind of proof.
The queue of the abstract mutex is what is left of the mutex's list when all but
the threads in `LOCK_WAIT` are taken out: a thread that an unlock or an interrupt
made runnable takes itself off the list only when it runs, and is not waiting any
more. So an interrupt is `GiveUp` at once and the unlinking that follows a stutter
(`GiveUpStep`, `LinkStep`), and the waiter that an unlock finds, the first in
`LOCK_WAIT` however many others stand before it, is the head of the abstract queue
(`FirstIsHead`), with all behind it in their order (`ReleaseStep`). Every other
step leaves the lists, the owners and who waits as they are (`MutexesKept`).

**TimeoutHeap** (`None` is no thread, timeouts and clock advances are naturals; any
set of threads). The invariant is `HeapCorrect` with `Awake`: a thread off the heap
has no due time. The proof does not follow pointers. It keeps the tree as a function
`N` from the nodes 1 to `n` to threads, each thread at one node (`Trees`), and `Shows`
says that the pointers and indices of a heap are those of `N`: the pointer in the slot
of node `k`, a field of the thread at `k \div 2`, is the thread at `k`, or `None` below
the last. Different nodes have different slots (`SlotFacts`), so a write to one changes
no other. `Node` of the model is then `N` (`TreeIsCorrect`, `CorrectHasTree`), by
induction from `n \div 2` to `n` (`TreeInduction`).

On its way down, `heap_insert` (`Inserting`) has a thread in hand: it is not in the
tree, which is otherwise complete and in order, the thread above is due no later than
it, and the nodes from the one reached on have their old threads. A thread that is due
later is taken in hand in its turn, and the one that takes its node takes its children
(`InsertStepKeeps`). An insertion into
the next free node ends there (`InsertAtEnd`). `heap_delete` takes the last thread off
and inserts it on the way to the node of the deleted one; what arrives there takes over
the deleted thread's children (`TakenOverIs`), and the tree is ordered but for that
node and its children, with the node's parent due no later than they
(`AlmostOrdered`). A round of the sift ends with the tree in order or exchanges the
thread with its younger child (`SwappedShows`) and leaves the one exception a level
deeper (`SiftStepKeeps`), so it ends within as many rounds as there are nodes
(`SiftIs`, by `LoopInvariant`). `DeleteIs` puts this together: the tree has all threads
but the deleted one, is complete and in order.

`SleepQueueImplemented`: the sleep queue is the set of threads in the tree, and the one
at the root is due first (`RootIsFirst`), so `_st_vp_check_clock` takes threads in the
order of `SleepQueue` and stops only when nobody is due.

**STEventsys** (threads are a finite set; the sets of descriptors polled are
sequences that are not empty; `epoll` has finitely many descriptors; the sizes the
arrays start with are above 0). `IInv` is the invariant of the system chosen:
`SelectInv`, `PollInv`, `EpollInv` or `KqueueInv`. All have two parts in common.
`Queued`: the I/O queue has each thread that waits, once. `LoopDone`: the pollqs that
the loop of `dispatch` has left on the queue are concerned by nothing that happened.
This is what makes the loop notify all it must, although a notified pollq leaves the
queue that is walked: the next one moves up to the place of the walk.

The counts are sums over the waiting threads (`TimesAsked`); the loops over the
entries of a pollq, also one that names a descriptor twice, are folds, and each has a
lemma with the value after `i` rounds (`LoopInvariant` in `QueueProofs` is the
induction on `i`). For `select`, the bits are the union of what the pollqs ask for,
and `maxfd` covers the pollqs passed while it is computed again; a bit may go just
when its count falls to 0, because a sum of naturals is 0 only if each of them is.
For `poll`, `Laid` says where in the array the results of each pollq still to come
are: at the sum of the lengths of those before it (`Ahead`), of which the notified one
is missing afterwards. For `epoll`, `Registry` says that the interest list is what the
counts ask for, except for descriptors with results, whose deletion waits for the end
of `dispatch`; that `evtlist_cnt` is the number of descriptors on it; and that the
list is as large. `epoll_pollset_add` that fails half way is undone by
`epoll_pollset_del` of the entries before, and leaves the counts as they were
(`EpAddIs`, `EpDelIs`); after a fork all is registered again, once for each pollq on
the queue (`EpRebuiltIs`). For `kqueue`, `Secured` says that each filter waited for is
in the kernel, collected for it, or has fired or failed in this `dispatch`, and no
filter that is collected for deletion is counted: the filter that fired is gone from
the kernel, and the one that `dispatch` adds again is that of a pollq that stays.

`EventsysImplements` takes for `hits` of `EventSystem` the threads that wait and are
concerned, as long as `dispatch` is in its loop. What a notified thread is told, which
the systems compute in four ways (from the bits, a slice of the array, the results of
each descriptor), is `Revents` in all of them (`SelectRevents`, `PollSlice`,
`EpollSlice` and their like); and when the loop has ended, `LoopDone` leaves nobody
who is concerned (`AllPassed`).

**TaskPool** (threads a finite set that is not empty and has no sender in it;
`LockingTasks` some of the tasks; delays above 0). That a task is in one place is
not inductive: `Placed` says it with places (`Here`) that are there or not, where
`TaskInOnePlace` counts, and the two agree as no task is twice in a queue or heap
(`NoRepeats`). That a task thread never takes up a task next to the one it has
needs `ThreadPlace`: it has one just while it serves it, and before `AddThreads`
nobody has any. That `Take` does not end a thread needs that deleted tasks are
nowhere, hence that they are not alive. Each step moves one task (`MoveLemma`) or
none. `LocksCorrect` assumes that at most one task calls `CallLocked`, because a
writer does not look for other writers (`two_writers`). Its invariant adds
`LockExact`, what `fState` is and that a writer holds the mutex without readers,
and `LockUse`: a thread has to do with the mutex just from `StartRun` to
`RunReturns`, as a writer just for a task with `fWriteLock`. So two writers would be
two threads with one task, which `Placed` excludes.

`ServiceImplemented` is the refinement. The phase of a task in `TaskService` is
computed from the place of the task (`PhaseExact`); as `Placed` gives it one
place, a step that moves a task changes one phase, as the service allows, and a
step that only moves the thread, the lock or a queue changes none.

**EventThread** (ids are naturals but not `NoCookie`; descriptors a finite set
without the pipe's). `TableExact`: what is in the table is a context
between its first `RequestEvent` and the end of its `UnRegister`, and its count is
1 while the event thread holds it and 0 otherwise. So the context that the event
thread has found is still registered, and `UnRegister` waits for it:
`NoStaleContext`.
`OwnDescriptors`: contexts have different descriptors, all open, until they are
removed, and what waits to be closed is nobody's. `WatchedOpen`: what is in the
sets is the descriptor of a context that watches it; what is in the copy for
select, or asked of it, is open, because descriptors that were watched are closed
by the event thread only, which is then not in select, and those that were never
watched are not in the copy. `ClosedLast` follows.

`AskedStaysSelected` needs more. `IdsExact`: the table finds each registered context
under its own id, because a new id is one that no context has. `SetBounded`: no
watched descriptor is above `sMaxFDPos`, also after `select_removeevent` searched for
the next lower one (`HighestType`). `Heard` and `Woken` say what `AskedIsSelected`
says, but from the change of the sets on, not only once `RequestEvent` returned, and
for the select that is being prepared as for the one in progress. Then the event
that disarms a descriptor finds the context it belongs to in the table
(`WaitEventHeard`), so `InFlight` holds until its task is told or, for a listener,
until the sets have it again or its accept has failed (`Answered`); the step of one context leaves the descriptors of all
others alone (`OwnBits`); and only the thread that is not in select empties the pipe.

**Engine** (in `EngineFramesProofs`; finite descriptors, started jobs and timers; at least one job).
`JobsExact`: the jobs on the queue are those with a descriptor, each once, each
with one of its own, all open and below `fMaxNumSockets`. `SetsExact`: the bits of
a job are what it asked for last, and no other bits are set. `ReturnedOpen`: what is
left of select's result belongs to open descriptors; since the kernel gives out
numbers of closed ones only, a new session finds none of it. `Walking`: the
cursors are on their queues, which needs that the walk is broken off when its job
or timer was deleted.

**FrameCache** (in `EngineFramesProofs`, which extends both modules, so the
definitions of this one are named after the frames: `FrameInit`, `FrameNext`,
`FrameSpec`; queues of any length, any number of frames). `Numbered`: frames have
numbers up to `pushed`. `Ordered`: as `FramesInOrder`, of the frames that are cached, not stale, and
were pushed after the first read (`NewFrame`). It is inductive only
with `FilledFromHead`, that what is filled in a queue has no gap before it
(`ReaderPlace`, `WriterPlace` say where each thread is in its walk): the writer
fills the first free container, which is behind all others only if frames leave
from the front.

**CacheUsers** (entries and users are finite sets, weights and limits naturals).
`Sound`: the list has the entries of the table that nobody uses, each once; `cur_size`
and `cur_weight` are the number and the sum of the weights of what is in the table,
marked for deletion or not; an entry is in the table and marked only while somebody
uses it; no two live entries have one key. `HeldExists`: what users hold is in the
table, reference counts are the numbers of holders, and what somebody made and did
not insert is his alone. The cache is written as functions from caches to caches, and
each has a lemma that says what it does to a sound cache (`CreatedSound`,
`TakenSound`, `ReleasedSound`, `DeletedSound`, `EvictedSound`, `LinkedSound`,
`EmptiedSound`). An insertion evicts entries one by one from the front of the list;
the lemmas take them together, as sums over sets (`Total` and its lemmas in
`QueueProofs`), as does `stx_cache_empty`. The limits hold because an insertion fails
when the entry does not fit after that (`InsertedSound`). `EvictedInOrder` is the
order half of the same argument: each operation leaves a list that is `Ordered` after
the old one, and what an insertion evicts begins it (`InsertEvicts`).
`SharedCacheImplemented` needs a second invariant, `NoneLost`: an entry has its key as
long as it exists, and stands in the table unless its maker has not put it there yet,
so the entries that exist are those that `SharedCache` says are in use (`AllUsed`) and
the cache leaks none.

**DNSCache** (the assumptions of the cache; ports and ids are not `NULL`, at least
one query for a host). What the functions of the cache do is taken from the lemmas
about them in the part on `CacheUsers`. `Rested`: between two steps the cache
is sound, all its entries are in the table, and none is marked or in use. Each path of
a lookup through the cache keeps it: a hit (`HitRests`), an entry that has expired
(`DeletedRests`), and an insertion that fits, replaces others or fails
(`InsertRests`). `NothingPinned` follows. `EntriesOfTheirHost` says that the data of an
entry is of its key; it is inductive only with `RepliesOfTheirHost`, that a datagram
on its way with the id of a waiting thread is about what that thread looks up. That
holds because a query takes an id that nothing on its way has, a thread that gives up,
times out or returns forgets its id, and a late reply, also to a port that has changed
hands, has an id that no thread waits for.

Out of reach for the prover, and checked by TLC only: liveness under fairness. All
other properties of the passing runs are theorems.

## Not modelled

The models stand for a small share of the repository's lines. Most of the rest is
vendored or a copy: the image libraries, live555, the DSS library for Windows.
Of the repository's own code the following is left out.

- `io.c`: loops around system calls that block in `st_poll`, which is modelled;
  the free list of net descriptors; the pipe by which processes take turns to
  accept. `key.c`: values and destructors of one thread. `stk.c`: a free list.
  That an exiting thread's stack is on the list while the thread still runs on it
  is safe because no thread is created before the switch, which is the atomicity
  of `st_thread_exit` in `STSched`.
- `stx_fileio.c`: a helper process reads files for threads and answers through a
  pipe of 1024-byte buffers. A reader that timed out leaves its answer in the
  pipe for the next.
- The parsing of DNS packets, the conversion of times to the argument of
  `poll` and `epoll_wait` (`event.c:531`).
- `RemoveThreads` and `GlobalUnlock` of the DSS library: nothing calls
  them. The first frees a thread while tasks on others may still enqueue on it, the
  second unlocks a mutex that `Entry` unlocks again. `RegisterOrResolve`, `TryUnRegister`
  and `Swap` of the reference table, `SnarfEventContext`, and the socket pool:
  nothing in the event library calls them. Timeout and idle tasks, which are users
  of what is modelled, each under one mutex.
- `end()` of the engine and the removal of a timer from outside, which nothing
  calls while the loop runs.
- Text, file and socket utilities, `CommonTools`, and the example programs:
  sequential code.

What would come next: the helper process of `stx_fileio.c`.
