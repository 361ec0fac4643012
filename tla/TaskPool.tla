------------------------------ MODULE TaskPool ------------------------------
(***************************************************************************)
(* The tasks and task threads of the task framework (Task.cpp), with their *)
(* blocking queues (OSQueue.cpp) and timer heaps (OSHeap.cpp), and the     *)
(* reader/writer mutex under which tasks run.                              *)
(*                                                                         *)
(* Each operation on the event word of a task is atomic (atomic.cpp), as   *)
(* is each on a queue, which has its mutex.  A timer heap belongs to its   *)
(* thread.  The wait for a queue to fill lasts 10 ms or until the next     *)
(* timer, so that it may end at any time whether or not it is signalled.   *)
(***************************************************************************)
EXTENDS OSMutexRW, Sequences

CONSTANTS
    Tasks,
    LockingTasks,   \* tasks whose Run may return CallLocked()
    Senders,        \* other threads, which signal tasks
    Events,         \* what they send
    Delays,         \* the times that Run returns
    NULL

ASSUME TaskAssumption ==
    /\ IsFiniteSet(Threads) /\ Threads # {}
    /\ Threads \cap Senders = {}
    /\ LockingTasks \subseteq Tasks
    /\ {"alive", "idle"} \cap Events = {}
    /\ Delays \subseteq Nat \ {0}
    /\ NULL \notin Tasks \cup Threads

VARIABLES
    started,        \* sNumTaskThreads > 0
    fEvents,        \* the events of each task, with "alive" for kAlive
    fUseThisThread,
    fWriteLock,
    deleted,        \* the tasks that were deleted
    sending,        \* the task a Signal has made alive and not yet enqueued
    fTaskQueue,
    fHeap,          \* the tasks in the heap of each thread, in order of time
    due,            \* the time until each is due
    theTask, at     \* the task of each thread and where it is in Entry

taskVars == <<fEvents, fUseThisThread, fWriteLock, deleted>>
placeVars == <<sending, fTaskQueue, fHeap, due>>
threadVars == <<theTask, at>>
vars == <<lockVars, started, taskVars, placeVars, threadVars>>

SeqRange(s) == {s[i] : i \in DOMAIN s}

TypeOK ==
    /\ LockTypeOK
    /\ started \in BOOLEAN
    /\ fEvents \in [Tasks -> SUBSET (Events \cup {"alive", "idle"})]
    /\ fUseThisThread \in [Tasks -> Threads \cup {NULL}]
    /\ fWriteLock \in [Tasks -> BOOLEAN]
    /\ deleted \subseteq Tasks
    /\ sending \in [Threads \cup Senders -> Tasks \cup {NULL}]
    /\ DOMAIN fTaskQueue = Threads /\ DOMAIN fHeap = Threads
    /\ \A th \in Threads : SeqRange(fTaskQueue[th]) \subseteq Tasks
    /\ \A th \in Threads : SeqRange(fHeap[th]) \subseteq Tasks
    /\ due \in [Tasks -> Nat]
    /\ theTask \in [Threads -> Tasks \cup {NULL}]
    /\ at \in [Threads -> {"off", "wait", "blocked", "exited", "lock", "locking",
                           "running", "ran", "delete", "finish", "sleep"}]

Init ==
    /\ LockInit
    /\ started = FALSE
    /\ fEvents = [t \in Tasks |-> {}]
    /\ fUseThisThread = [t \in Tasks |-> NULL]
    /\ fWriteLock = [t \in Tasks |-> FALSE]
    /\ deleted = {}
    /\ sending = [s \in Threads \cup Senders |-> NULL]
    /\ fTaskQueue = [th \in Threads |-> <<>>]
    /\ fHeap = [th \in Threads |-> <<>>]
    /\ due = [t \in Tasks |-> 0]
    /\ theTask = [th \in Threads |-> NULL]
    /\ at = [th \in Threads |-> "off"]

AddThreads ==
    /\ ~started
    /\ started' = TRUE
    /\ at' = [th \in Threads |-> "wait"]
    /\ UNCHANGED <<lockVars, taskVars, placeVars, theTask>>

-----------------------------------------------------------------------------
(* Task::Signal                                                            *)

(* Fault: every signal enqueues the task.                                  *)
ToEnqueue_Always(t) == started

(* Whether the signal that sets kAlive is the one that enqueues.           *)
ToEnqueue(t) == "alive" \notin fEvents[t] /\ started

(* Up to the atomic_or.  Signals to deleted tasks are left out: Task.h     *)
(* leaves them to the caller.                                              *)
SignalTask(s, t, e) ==
    /\ sending[s] = NULL
    /\ t \notin deleted
    /\ fEvents' = [fEvents EXCEPT ![t] = @ \cup {e, "alive"}]
    /\ sending' = [sending EXCEPT ![s] = IF ToEnqueue(t) THEN t ELSE NULL]
    /\ UNCHANGED <<lockVars, started, fUseThisThread, fWriteLock, deleted,
                   fTaskQueue, fHeap, due, theTask>>

Signal(s, t, e) ==
    /\ s \in Senders
    /\ started
    /\ SignalTask(s, t, e)
    /\ UNCHANGED at

(* Run signals a task, perhaps its own; once in each invocation.           *)
RunSignals(th, t, e) ==
    /\ at[th] = "running"
    /\ SignalTask(th, t, e)
    /\ at' = [at EXCEPT ![th] = "ran"]

(* Fault: any thread will do.                                              *)
MayUse_Any(t, th) == TRUE

(* Whether t may be put on th, which sThreadPicker chooses otherwise.      *)
MayUse(t, th) == fUseThisThread[t] \in {NULL, th}

(* Fault: in at the end where elements come out.                           *)
EnQueued_Front(q, t) == IF t \in SeqRange(q) THEN q ELSE <<t>> \o q

EnQueued(q, t) == IF t \in SeqRange(q) THEN q ELSE Append(q, t)

EnQueue(s) ==
    LET t == sending[s] IN
    /\ t # NULL
    /\ sending' = [sending EXCEPT ![s] = NULL]
    /\ \E th \in Threads :
         /\ MayUse(t, th)
         /\ fTaskQueue' = [fTaskQueue EXCEPT ![th] = EnQueued(@, t)]
    /\ UNCHANGED <<lockVars, started, taskVars, fHeap, due, threadVars>>

-----------------------------------------------------------------------------
(* TaskThread::WaitForTask                                                 *)

Expired(th) == fHeap[th] # <<>> /\ due[Head(fHeap[th])] = 0

(* The thread leaves WaitForTask with t; Entry returns if t is not Valid.  *)
Take(th, t) ==
    /\ theTask' = [theTask EXCEPT ![th] = t]
    /\ at' = [at EXCEPT ![th] = IF t \in deleted THEN "exited" ELSE "lock"]

TakeFromQueue(th) ==
    /\ Take(th, Head(fTaskQueue[th]))
    /\ fTaskQueue' = [fTaskQueue EXCEPT ![th] = Tail(@)]

ExtractMin(th) ==
    /\ at[th] = "wait"
    /\ Expired(th)
    /\ Take(th, Head(fHeap[th]))
    /\ fHeap' = [fHeap EXCEPT ![th] = Tail(@)]
    /\ UNCHANGED <<lockVars, started, taskVars, sending, fTaskQueue, due>>

DeQueueBlocking(th) ==
    /\ at[th] = "wait"
    /\ ~Expired(th)
    /\ \/ fTaskQueue[th] # <<>> /\ TakeFromQueue(th)
       \/ /\ fTaskQueue[th] = <<>>
          /\ at' = [at EXCEPT ![th] = "blocked"]
          /\ UNCHANGED <<theTask, fTaskQueue>>
    /\ UNCHANGED <<lockVars, started, taskVars, sending, fHeap, due>>

(* The wait in DeQueueBlocking ends.                                       *)
DeQueue(th) ==
    /\ at[th] = "blocked"
    /\ \/ fTaskQueue[th] # <<>> /\ TakeFromQueue(th)
       \/ /\ fTaskQueue[th] = <<>>
          /\ at' = [at EXCEPT ![th] = "wait"]
          /\ UNCHANGED <<theTask, fTaskQueue>>
    /\ UNCHANGED <<lockVars, started, taskVars, sending, fHeap, due>>

-----------------------------------------------------------------------------
(* TaskThread::Entry                                                       *)

(* The head of the loop, up to the locker.                                 *)
StartRun(th) ==
    LET t == theTask[th] IN
    /\ at[th] = "lock"
    /\ fUseThisThread' = [fUseThisThread EXCEPT ![t] = NULL]
    /\ IF fWriteLock[t] THEN LockWrite(th) ELSE LockRead(th)
    /\ at' = [at EXCEPT ![th] = "locking"]
    /\ UNCHANGED <<started, fEvents, fWriteLock, deleted, placeVars, theTask>>

(* The locker waits.                                                       *)
KeepLocking(th) ==
    /\ LockAgain(th)
    /\ UNCHANGED <<started, taskVars, placeVars, threadVars>>

LockWaitEnds(th) ==
    /\ WaitEnds(th)
    /\ UNCHANGED <<started, taskVars, placeVars, threadVars>>

(* Run begins and gets its events.                                         *)
GetEvents(th) ==
    /\ at[th] = "locking"
    /\ holds[th] \in {"read", "write"}
    /\ fEvents' = [fEvents EXCEPT ![theTask[th]] = @ \cap {"alive"}]
    /\ at' = [at EXCEPT ![th] = "running"]
    /\ UNCHANGED <<lockVars, started, fUseThisThread, fWriteLock, deleted,
                   placeVars, theTask>>

(* Run returns how, after it may have called ForceSameThread, which        *)
(* CallLocked does too, and the locker unlocks.                            *)
RunReturns(th, how, forced, locked) ==
    LET t == theTask[th] IN
    /\ at[th] \in {"running", "ran"}
    /\ sending[th] = NULL
    /\ locked => t \in LockingTasks /\ forced /\ how = "sleep"
    /\ fUseThisThread' = [fUseThisThread EXCEPT ![t] = IF forced THEN th ELSE @]
    /\ fWriteLock' = [fWriteLock EXCEPT ![t] = ~@ /\ locked]
    /\ Unlock(th)
    /\ at' = [at EXCEPT ![th] = how]
    /\ UNCHANGED <<started, fEvents, deleted, placeVars, theTask>>

Released(th) ==
    /\ theTask' = [theTask EXCEPT ![th] = NULL]
    /\ at' = [at EXCEPT ![th] = "wait"]

(* Run returned a negative number.                                         *)
DeleteTask(th) ==
    LET t == theTask[th] IN
    /\ at[th] = "delete"
    /\ deleted' = deleted \cup {t}
    /\ fEvents' = [fEvents EXCEPT ![t] = {}]
    /\ fUseThisThread' = [fUseThisThread EXCEPT ![t] = NULL]
    /\ Released(th)
    /\ UNCHANGED <<lockVars, started, fWriteLock, placeVars>>

(* Fault: events that came during Run are dropped.                         *)
Finished_Dropped(e) == {}

(* What compare_and_store(kAlive, 0) makes of the event word.              *)
Finished(e) == IF e = {"alive"} THEN {} ELSE e

(* Run returned 0: the task is let go, or invoked again at once.           *)
FinishTask(th) ==
    LET t == theTask[th] IN
    /\ at[th] = "finish"
    /\ fEvents' = [fEvents EXCEPT ![t] = Finished(@)]
    /\ \/ Finished(fEvents[t]) = {} /\ Released(th)
       \/ /\ Finished(fEvents[t]) # {}
          /\ at' = [at EXCEPT ![th] = "lock"]
          /\ UNCHANGED theTask
    /\ UNCHANGED <<lockVars, started, fUseThisThread, fWriteLock, deleted, placeVars>>

(* Run returned a time: the task goes to the timer heap, among those that  *)
(* are due at the same time anywhere.                                      *)
SleepTask(th, d) ==
    LET t == theTask[th] IN
    /\ at[th] = "sleep"
    /\ due' = [due EXCEPT ![t] = d]
    /\ \E i \in 0 .. Len(fHeap[th]) :
         /\ \A j \in 1 .. i : due[fHeap[th][j]] <= d
         /\ \A j \in i + 1 .. Len(fHeap[th]) : d <= due[fHeap[th][j]]
         /\ fHeap' = [fHeap EXCEPT ![th] =
                         SubSeq(@, 1, i) \o <<t>> \o SubSeq(@, i + 1, Len(@))]
    /\ fEvents' = [fEvents EXCEPT ![t] = @ \cup {"idle"}]
    /\ Released(th)
    /\ UNCHANGED <<lockVars, started, fUseThisThread, fWriteLock, deleted,
                   sending, fTaskQueue>>

(* Time passes.                                                            *)
Tick ==
    /\ \E t \in Tasks : due[t] > 0
    /\ due' = [t \in Tasks |-> IF due[t] > 0 THEN due[t] - 1 ELSE 0]
    /\ UNCHANGED <<lockVars, started, taskVars, sending, fTaskQueue, fHeap, threadVars>>

-----------------------------------------------------------------------------
ThreadStep(th) ==
    \/ ExtractMin(th) \/ DeQueueBlocking(th) \/ DeQueue(th)
    \/ StartRun(th) \/ KeepLocking(th) \/ GetEvents(th)
    \/ \E how \in {"delete", "finish", "sleep"}, forced, locked \in BOOLEAN :
         RunReturns(th, how, forced, locked)
    \/ DeleteTask(th) \/ FinishTask(th)
    \/ \E d \in Delays : SleepTask(th, d)

Next ==
    \/ AddThreads
    \/ \E s \in Senders, t \in Tasks, e \in Events : Signal(s, t, e)
    \/ \E th \in Threads, t \in Tasks, e \in Events : RunSignals(th, t, e)
    \/ \E s \in Threads \cup Senders : EnQueue(s)
    \/ \E th \in Threads : ThreadStep(th) \/ LockWaitEnds(th)
    \/ Tick

Spec == Init /\ [][Next]_vars

(* Threads run, Run returns, and time passes.  A thread that waits for the *)
(* mutex finds it free some time, as invocations that lock it for writing  *)
(* are at least 10 ms apart.                                               *)
Locked(th) == KeepLocking(th) /\ holds'[th] \in {"read", "write"}

FairSpec ==
    /\ Spec
    /\ WF_vars(AddThreads) /\ WF_vars(Tick)
    /\ \A s \in Threads \cup Senders : WF_vars(EnQueue(s))
    /\ \A th \in Threads : WF_vars(ThreadStep(th)) /\ SF_vars(Locked(th))

-----------------------------------------------------------------------------
(* Places where a task that is alive waits for its next invocation, or is  *)
(* invoked: a Signal about to enqueue it, a queue, a heap, a thread.       *)
Places(t) ==
    {<<"sending", s>> : s \in {s \in Threads \cup Senders : sending[s] = t}}
    \cup {<<"heap", th>> : th \in {th \in Threads : t \in SeqRange(fHeap[th])}}
    \cup {<<"thread", th>> : th \in {th \in Threads : theTask[th] = t}}
    \cup UNION {{<<"queue", th, i>> : i \in {i \in DOMAIN fTaskQueue[th] :
                                            fTaskQueue[th][i] = t}} : th \in Threads}

(* A task is in one place as long as kAlive is set and in none otherwise:  *)
(* it is never in two queues, nor enqueued or asleep while a thread runs   *)
(* it, nor anywhere once it is deleted.                                    *)
TaskInOnePlace ==
    \A t \in Tasks : Cardinality(Places(t)) = IF "alive" \in fEvents[t] THEN 1 ELSE 0

(* The invocation after ForceSameThread or CallLocked is on the thread     *)
(* that asked for it, whoever signals the task.                            *)
SameThread ==
    \A t \in Tasks, th \in Threads :
        /\ fUseThisThread[t] # NULL
        /\ t \in SeqRange(fTaskQueue[th]) \/ t \in SeqRange(fHeap[th]) \/ theTask[th] = t
        => fUseThisThread[t] = th

(* Tasks are where they may be.                                            *)
TasksPlaced == TypeOK /\ TaskInOnePlace /\ SameThread

InRun(th) == at[th] \in {"running", "ran"}

(* The invocation of a task that called CallLocked has no other next to it.*)
LockedRunsAlone ==
    \A th \in Threads :
        InRun(th) /\ fWriteLock[theTask[th]] => \A u \in Threads \ {th} : ~InRun(u)

(* The mutex agrees with its users, and keeps locked invocations alone.    *)
LockingCorrect == LockStateExact /\ LockedRunsAlone

(* The pool keeps the promises to its tasks.                               *)
Phase(t) ==
    IF t \in deleted THEN "deleted"
    ELSE IF "alive" \notin fEvents[t] THEN "idle"
    ELSE IF \E th \in Threads : t \in SeqRange(fHeap[th]) THEN "asleep"
    ELSE IF \E th \in Threads : theTask[th] = t /\ at[th] \notin {"lock", "locking"}
    THEN "running"
    ELSE "ready"

TS == INSTANCE TaskService WITH
        Idle <- "idle",
        phase <- [t \in Tasks |-> Phase(t)],
        pending <- [t \in Tasks |-> fEvents[t] \ {"alive"}]
ImplementsTaskService == TS!Spec

(* A thread may neglect its queue for ever: for a task that signals itself *)
(* in every invocation and returns 0, and for timers that are always due   *)
(* again by the time it looks.                                             *)
Busy(th) == (at[th] = "wait" /\ Expired(th)) \/ at[th] = "finish"
LooksAtQueue ==
    \A th \in Threads : []<>Busy(th) => []<><<DeQueueBlocking(th)>>_vars

(* "100% definitely the task's Run function WILL be invoked when another   *)
(* thread calls Signal": a task gets each event sent to it, unless it is   *)
(* deleted, if no thread neglects its queue.                               *)
SignalledRuns ==
    LooksAtQueue =>
        \A t \in Tasks, e \in Events :
            e \in fEvents[t] ~> e \notin fEvents[t]

=============================================================================
