------------------------------ MODULE STSched ------------------------------
(***************************************************************************)
(* The State Threads scheduler and its synchronisation primitives          *)
(* (state-threads/sched.c, sync.c and the queue macros of common.h).       *)
(*                                                                         *)
(* Threads are cooperative: the current thread runs until an API call      *)
(* switches context, so a call that does not block is one action, and a    *)
(* call that blocks is two, the part up to _ST_SWITCH_CONTEXT and the part *)
(* after it (the "_resume" action).  op[t] and obj[t] are the saved        *)
(* context: which call the thread is inside, and on which object.          *)
(*                                                                         *)
(* Times are kept relative to _ST_LAST_CLOCK: due[t] stands for            *)
(* thread->due - last_clock, the only way the code ever uses either.       *)
(***************************************************************************)
EXTENDS Queues, FiniteSets

CONSTANTS
    Threads,    \* thread structures a run may use, each at most once
    Main,       \* the primordial thread
    Idle,       \* the idle thread
    None,       \* the NULL pointer
    Mutexes,    \* st_mutex_t objects
    Conds,      \* st_cond_t objects of the application
    Timeouts,   \* timeouts passed to blocking calls, NO_TIMEOUT among them
    Elapsed,    \* clock advances seen by one _st_vp_check_clock
    Calls       \* the API calls the application makes

NO_TIMEOUT == -1        \* ST_UTIME_NO_TIMEOUT

CallNames == {"create", "exit", "join", "interrupt", "usleep", "timedwait",
              "signal", "broadcast", "lock", "unlock", "trylock", "poll",
              "destroy"}

(* A condition variable is an application's or the `term' of a joinable    *)
(* thread, named by that thread.                                           *)
Objects == Mutexes \cup Conds \cup Threads

ASSUME ThreadsAssumption ==
    /\ IsFiniteSet(Threads)
    /\ Main \in Threads
    /\ Idle \notin Threads
    /\ None \notin Objects \cup {Idle}

ASSUME ObjectsAssumption ==
    /\ Mutexes \cap Conds = {}
    /\ (Mutexes \cup Conds) \cap Threads = {}

ASSUME TimesAssumption ==
    Timeouts \subseteq Nat \cup {NO_TIMEOUT} /\ Elapsed \subseteq Nat

ASSUME CallsAssumption == Calls \subseteq CallNames

VARIABLES
    cur,        \* _st_this_thread
    state,      \* thread->state; UNUSED before creation, DEAD once freed
    op,         \* the call whose frame is saved in thread->context
    obj,        \* the object that call works on
    runq,       \* _ST_RUNQ
    zombieq,    \* _ST_ZOMBIEQ
    ioq,        \* _ST_IOQ, by the thread of each pollq
    scan,       \* the position of the dispatch loop in ioq
    sleepq,     \* threads with _ST_FL_ON_SLEEPQ, the nodes of the heap
    due,        \* thread->due relative to last_clock, 0 off the heap
    intr,       \* threads with _ST_FL_INTERRUPT
    tmdout,     \* threads with _ST_FL_TIMEDOUT
    wq,         \* wait_q of each mutex and condition variable
    owner,      \* mutex->owner
    live,       \* mutexes and condition variables not destroyed
    term,       \* threads whose `term' is not NULL
    active,     \* _st_active_count
    ret         \* what the last call of the current thread returned

vars == <<cur, state, op, obj, runq, zombieq, ioq, scan, sleepq, due, intr,
          tmdout, wq, owner, live, term, active, ret>>

(* Variables that tend to stay as they are together.                       *)
schedVars == <<state, runq, sleepq, due>>
ioVars == <<ioq, scan>>
flagVars == <<intr, tmdout>>
lockVars == <<owner, live>>
joinVars == <<zombieq, term, active>>
callVars == <<op, obj, ret>>

States == {"UNUSED", "RUNNING", "RUNNABLE", "IO_WAIT", "LOCK_WAIT",
           "COND_WAIT", "SLEEPING", "SUSPENDED", "ZOMBIE", "DEAD"}

(* Variants of the definitions that follow, each with a fault, for         *)
(* mutation runs: an interrupt that resumes a zombie, or queues again a    *)
(* thread that is already runnable.                                        *)
Blocked_OrZombie == {"IO_WAIT", "LOCK_WAIT", "COND_WAIT", "SLEEPING",
                     "SUSPENDED", "ZOMBIE"}
Blocked_OrRunnable == {"IO_WAIT", "LOCK_WAIT", "COND_WAIT", "SLEEPING",
                       "SUSPENDED", "RUNNABLE"}

(* The states in which a thread waits for somebody to make it runnable.    *)
Blocked == {"IO_WAIT", "LOCK_WAIT", "COND_WAIT", "SLEEPING", "SUSPENDED"}

(* The calls during which a thread is linked on obj's wait queue.          *)
WaitOps == {"timedwait", "join", "lock"}

Ops == WaitOps \cup {"user", "usleep", "poll", "broadcast", "exit", "done",
                     "loop", "dispatch", "clock", "halted"}

Rets == {"none", "ok", "timeout", "EINTR", "ETIME", "EINVAL", "EDEADLK",
         "EPERM", "EBUSY", "EFAIL"}

-----------------------------------------------------------------------------
(* st_init: the idle thread is created runnable but taken off the run      *)
(* queue, and the caller becomes the primordial thread.                    *)
Init ==
    /\ cur = Main
    /\ state = [t \in Threads \cup {Idle} |->
                  IF t = Main THEN "RUNNING"
                  ELSE IF t = Idle THEN "RUNNABLE" ELSE "UNUSED"]
    /\ op = [t \in Threads \cup {Idle} |->
                  IF t = Idle THEN "loop" ELSE "user"]
    /\ obj = [t \in Threads |-> None]
    /\ runq = <<>>
    /\ zombieq = {}
    /\ ioq = <<>>
    /\ scan = 1
    /\ sleepq = {}
    /\ due = [t \in Threads |-> 0]
    /\ intr = {}
    /\ tmdout = {}
    /\ wq = [o \in Objects |-> <<>>]
    /\ owner = [m \in Mutexes |-> None]
    /\ live = Mutexes \cup Conds
    /\ term = {}
    /\ active = 1
    /\ ret = "none"

-----------------------------------------------------------------------------
(* Building blocks.                                                        *)

(* The current thread is in application code and calls c.                  *)
InUserCode(t) == cur = t /\ t \in Threads /\ op[t] = "user"

Calling(t, c) == c \in Calls /\ InUserCode(t)

(* The current thread has just been switched to inside call o.             *)
Resumed(t, o) == cur = t /\ t \in Threads /\ op[t] = o

(* A pointer to u may be passed: u was created and is not yet freed.       *)
Valid(u) == state[u] \notin {"UNUSED", "DEAD"}

(* Fault: the newest runnable thread first.                                *)
vp_schedule_NewestFirst(st, rq) ==
    LET next == IF rq # <<>> THEN Last(rq) ELSE Idle
    IN  /\ cur' = next
        /\ state' = [st EXCEPT ![next] = "RUNNING"]
        /\ runq' = IF rq # <<>> THEN Front(rq) ELSE rq

(* _st_vp_schedule from thread states st and run queue rq.                 *)
vp_schedule(st, rq) ==
    LET next == IF rq # <<>> THEN Head(rq) ELSE Idle
    IN  /\ cur' = next
        /\ state' = [st EXCEPT ![next] = "RUNNING"]
        /\ runq' = IF rq # <<>> THEN Tail(rq) ELSE rq

add_sleep_q(t, d) ==
    /\ sleepq' = IF d = NO_TIMEOUT THEN sleepq ELSE sleepq \cup {t}
    /\ due' = IF d = NO_TIMEOUT THEN due ELSE [due EXCEPT ![t] = d]

(* Fault: the thread stays in the heap.                                    *)
del_sleep_q_Kept(t) == UNCHANGED <<sleepq, due>>

del_sleep_q(t) ==
    /\ sleepq' = sleepq \ {t}
    /\ due' = [due EXCEPT ![t] = 0]

(* A blocked thread goes back to the run queue; the caller keeps running.  *)
MakeRunnable(u) ==
    /\ state' = [state EXCEPT ![u] = "RUNNABLE"]
    /\ runq' = Append(runq, u)
    /\ del_sleep_q(u)

(* The part of a blocking call after it has queued itself: new state s,    *)
(* saved call o on object x, timeout d.                                    *)
SwitchOut(t, s, o, x, d) ==
    /\ op' = [op EXCEPT ![t] = o]
    /\ obj' = [obj EXCEPT ![t] = x]
    /\ ret' = "none"
    /\ add_sleep_q(t, d)
    /\ vp_schedule([state EXCEPT ![t] = s], runq)

(* Return r to the application without having switched.                    *)
ReturnNow(r) == ret' = r /\ UNCHANGED <<cur, op, obj>>

(* Return r from the call that had switched out.                           *)
ReturnFrom(t, r) ==
    /\ ret' = r
    /\ op' = [op EXCEPT ![t] = "user"]
    /\ obj' = [obj EXCEPT ![t] = None]
    /\ UNCHANGED cur

(* The check every blocking call starts with: a pending interrupt is       *)
(* consumed and the call fails with EINTR.                                 *)
EintrOnEntry(t) ==
    /\ t \in intr
    /\ intr' = intr \ {t}
    /\ ReturnNow("EINTR")
    /\ UNCHANGED <<tmdout, wq, schedVars, ioVars, lockVars, joinVars>>

(* Faults: only the head of the queue is looked at; the newest waiter.     *)
FirstIn_HeadOnly(o, s) ==
    {u \in Threads : wq[o] # <<>> /\ u = Head(wq[o]) /\ state[u] = s}
FirstIn_Newest(o, s) ==
    {u \in Threads : \E i \in 1..Len(wq[o]) :
        /\ wq[o][i] = u
        /\ state[u] = s
        /\ \A j \in (i + 1)..Len(wq[o]) : state[wq[o][j]] # s}

(* The first thread on o's wait queue still in state s, as a set: threads  *)
(* already timed out or interrupted keep their link until they run, and    *)
(* are passed over.                                                        *)
FirstIn(o, s) ==
    {u \in Threads : \E i \in 1..Len(wq[o]) :
        /\ wq[o][i] = u
        /\ state[u] = s
        /\ \A j \in 1..(i - 1) : state[wq[o][j]] # s}

-----------------------------------------------------------------------------
(* Thread creation and termination.                                        *)

st_thread_create(t, u, joinable) ==
    /\ Calling(t, "create")
    /\ state[u] = "UNUSED"
    /\ state' = [state EXCEPT ![u] = "RUNNABLE"]
    /\ runq' = Append(runq, u)
    /\ term' = IF joinable THEN term \cup {u} ELSE term
    /\ active' = active + 1
    /\ ReturnNow("ok")
    /\ UNCHANGED <<zombieq, sleepq, due, wq, ioVars, flagVars, lockVars>>

(* A joinable thread becomes a zombie, signals its termination condition   *)
(* variable and waits to be joined; any other frees its stack, which holds *)
(* the thread structure itself.  Either way another thread is switched to. *)
st_thread_exit(t) ==
    /\ Calling(t, "exit")
    /\ active' = active - 1
    /\ ret' = "none"
    /\ \/ /\ t \in term
          /\ zombieq' = zombieq \cup {t}
          /\ op' = [op EXCEPT ![t] = "exit"]
          /\ UNCHANGED intr
          /\ \/ \E u \in FirstIn(t, "COND_WAIT") :
                  /\ del_sleep_q(u)
                  /\ vp_schedule([state EXCEPT ![t] = "ZOMBIE",
                                               ![u] = "RUNNABLE"],
                                 Append(runq, u))
             \/ /\ FirstIn(t, "COND_WAIT") = {}
                /\ vp_schedule([state EXCEPT ![t] = "ZOMBIE"], runq)
                /\ UNCHANGED <<sleepq, due>>
       \/ /\ t \notin term
          /\ op' = [op EXCEPT ![t] = "done"]
          /\ intr' = intr \ {t}
          /\ vp_schedule([state EXCEPT ![t] = "DEAD"], runq)
          /\ UNCHANGED <<zombieq, sleepq, due>>
    /\ UNCHANGED <<obj, tmdout, wq, term, ioVars, lockVars>>

(* Fault: the exit is counted a second time.                               *)
st_thread_exit_resume_CountedAgain(t) ==
    /\ Resumed(t, "exit")
    /\ term' = term \ {t}
    /\ active' = active - 1
    /\ op' = [op EXCEPT ![t] = "done"]
    /\ intr' = intr \ {t}
    /\ ret' = "none"
    /\ vp_schedule([state EXCEPT ![t] = "DEAD"], runq)
    /\ UNCHANGED <<obj, zombieq, sleepq, due, tmdout, wq, ioVars, lockVars>>

(* After the join: st_cond_destroy(term) may fail with EBUSY, which is     *)
(* ignored; the waiters stay on a condition variable nobody can reach.     *)
st_thread_exit_resume(t) ==
    /\ Resumed(t, "exit")
    /\ term' = term \ {t}
    /\ op' = [op EXCEPT ![t] = "done"]
    /\ intr' = intr \ {t}
    /\ ret' = "none"
    /\ vp_schedule([state EXCEPT ![t] = "DEAD"], runq)
    /\ UNCHANGED <<obj, zombieq, sleepq, due, tmdout, wq, active, ioVars,
                   lockVars>>

(* The end of a successful join: the zombie is made runnable to finish.    *)
Reap(u) ==
    /\ state' = [state EXCEPT ![u] = "RUNNABLE"]
    /\ zombieq' = zombieq \ {u}
    /\ runq' = Append(runq, u)

st_thread_join(t, u) ==
    /\ Calling(t, "join")
    /\ Valid(u)
    /\ \/ /\ \/ u \notin term /\ ReturnNow("EINVAL")
             \/ u \in term /\ u = t /\ ReturnNow("EDEADLK")
             \/ u \in term /\ u # t /\ wq[u] # <<>> /\ ReturnNow("EINVAL")
          /\ UNCHANGED <<wq, schedVars, ioVars, flagVars, lockVars, joinVars>>
       \/ /\ u \in term \ {t} /\ wq[u] = <<>>
          /\ state[u] = "ZOMBIE"
          /\ Reap(u)
          /\ ReturnNow("ok")
          /\ UNCHANGED <<sleepq, due, wq, term, active, ioVars, flagVars,
                         lockVars>>
       \/ /\ u \in term \ {t} /\ wq[u] = <<>>
          /\ state[u] # "ZOMBIE"
          /\ EintrOnEntry(t)
       \/ /\ u \in term \ {t} /\ wq[u] = <<>>
          /\ state[u] # "ZOMBIE"
          /\ t \notin intr
          /\ wq' = [wq EXCEPT ![u] = Append(@, t)]
          /\ SwitchOut(t, "COND_WAIT", "join", u, NO_TIMEOUT)
          /\ UNCHANGED <<ioVars, flagVars, lockVars, joinVars>>

(* Faults: the link stays on the queue; the timeout is reported instead of *)
(* the interrupt.                                                          *)
LeaveWaitQueue_StillLinked(t) ==
    wq' = wq /\ tmdout' = tmdout \ {t} /\ intr' = intr \ {t}
TimedwaitResult_TimeoutFirst(t) ==
    IF t \in tmdout THEN "ETIME" ELSE IF t \in intr THEN "EINTR" ELSE "ok"

(* What st_cond_timedwait does after the switch, without its return.       *)
LeaveWaitQueue(t) ==
    /\ wq' = [wq EXCEPT ![obj[t]] = Unlink(@, t)]
    /\ tmdout' = tmdout \ {t}
    /\ intr' = intr \ {t}

TimedwaitResult(t) ==
    IF t \in intr THEN "EINTR" ELSE IF t \in tmdout THEN "ETIME" ELSE "ok"

(* The wait in the loop of st_thread_join ends; the loop is left with the  *)
(* error or because the thread is a zombie, and goes round otherwise.      *)
st_thread_join_resume(t) ==
    LET u == obj[t] IN
    /\ Resumed(t, "join")
    /\ \/ /\ TimedwaitResult(t) # "ok"
          /\ LeaveWaitQueue(t)
          /\ ReturnFrom(t, TimedwaitResult(t))
          /\ UNCHANGED <<zombieq, schedVars>>
       \/ /\ TimedwaitResult(t) = "ok" /\ state[u] = "ZOMBIE"
          /\ LeaveWaitQueue(t)
          /\ Reap(u)
          /\ ReturnFrom(t, "ok")
          /\ UNCHANGED <<sleepq, due>>
       \/ /\ TimedwaitResult(t) = "ok" /\ state[u] # "ZOMBIE"
          /\ wq' = [wq EXCEPT ![u] = Append(Unlink(@, t), t)]
          /\ SwitchOut(t, "COND_WAIT", "join", u, NO_TIMEOUT)
          /\ UNCHANGED <<zombieq, flagVars>>
    /\ UNCHANGED <<term, active, ioVars, lockVars>>

(* A zombie is left alone; a running or runnable thread keeps the flag for *)
(* its next blocking call; a blocked thread is made runnable, but stays    *)
(* linked on the wait queue or the ioq until it runs.                      *)
st_thread_interrupt(t, u) ==
    /\ Calling(t, "interrupt")
    /\ Valid(u)
    /\ \/ /\ state[u] = "ZOMBIE"
          /\ UNCHANGED <<intr, schedVars>>
       \/ /\ state[u] \in {"RUNNING", "RUNNABLE"}
          /\ intr' = intr \cup {u}
          /\ UNCHANGED schedVars
       \/ /\ state[u] \in Blocked
          /\ intr' = intr \cup {u}
          /\ MakeRunnable(u)
    /\ ReturnNow("ok")
    /\ UNCHANGED <<tmdout, wq, ioVars, lockVars, joinVars>>

-----------------------------------------------------------------------------
(* Sleeping and waiting for I/O.                                           *)

st_usleep(t, d) ==
    /\ Calling(t, "usleep")
    /\ \/ EintrOnEntry(t)
       \/ /\ t \notin intr
          /\ SwitchOut(t, IF d = NO_TIMEOUT THEN "SUSPENDED" ELSE "SLEEPING",
                       "usleep", None, d)
          /\ UNCHANGED <<wq, ioVars, flagVars, lockVars, joinVars>>

st_usleep_resume(t) ==
    /\ Resumed(t, "usleep")
    /\ intr' = intr \ {t}
    /\ ReturnFrom(t, IF t \in intr THEN "EINTR" ELSE "ok")
    /\ UNCHANGED <<tmdout, wq, schedVars, ioVars, lockVars, joinVars>>

(* pollset_add may refuse the descriptors (bad descriptor, no memory).     *)
st_poll(t, d) ==
    /\ Calling(t, "poll")
    /\ \/ EintrOnEntry(t)
       \/ /\ t \notin intr
          /\ ReturnNow("EFAIL")
          /\ UNCHANGED <<wq, schedVars, ioVars, flagVars, lockVars, joinVars>>
       \/ /\ t \notin intr
          /\ ioq' = Append(ioq, t)
          /\ SwitchOut(t, "IO_WAIT", "poll", None, d)
          /\ UNCHANGED <<scan, wq, flagVars, lockVars, joinVars>>

(* Fault: the pollq, on the stack of the call, stays on the ioq.           *)
st_poll_resume_StillLinked(t) ==
    /\ Resumed(t, "poll")
    /\ intr' = intr \ {t}
    /\ ReturnFrom(t, IF t \in intr THEN "EINTR" ELSE "timeout")
    /\ UNCHANGED <<tmdout, wq, schedVars, ioVars, lockVars, joinVars>>

(* A pollq still on the ioq was not notified: it is removed here, and the  *)
(* call timed out or was interrupted.                                      *)
st_poll_resume(t) ==
    LET on_ioq == t \in ToSet(ioq) IN
    /\ Resumed(t, "poll")
    /\ ioq' = IF on_ioq THEN Unlink(ioq, t) ELSE ioq
    /\ intr' = intr \ {t}
    /\ ReturnFrom(t, IF t \in intr THEN "EINTR"
                     ELSE IF on_ioq THEN "timeout" ELSE "ok")
    /\ UNCHANGED <<scan, tmdout, wq, schedVars, lockVars, joinVars>>

-----------------------------------------------------------------------------
(* Condition variables.                                                    *)

st_cond_timedwait(t, c, d) ==
    /\ Calling(t, "timedwait")
    /\ c \in live
    /\ \/ EintrOnEntry(t)
       \/ /\ t \notin intr
          /\ wq' = [wq EXCEPT ![c] = Append(@, t)]
          /\ SwitchOut(t, "COND_WAIT", "timedwait", c, d)
          /\ UNCHANGED <<ioVars, flagVars, lockVars, joinVars>>

st_cond_timedwait_resume(t) ==
    /\ Resumed(t, "timedwait")
    /\ LeaveWaitQueue(t)
    /\ ReturnFrom(t, TimedwaitResult(t))
    /\ UNCHANGED <<schedVars, ioVars, lockVars, joinVars>>

st_cond_signal(t, c) ==
    /\ Calling(t, "signal")
    /\ c \in live
    /\ \/ \E u \in FirstIn(c, "COND_WAIT") : MakeRunnable(u)
       \/ /\ FirstIn(c, "COND_WAIT") = {}
          /\ UNCHANGED schedVars
    /\ ReturnNow("ok")
    /\ UNCHANGED <<wq, ioVars, flagVars, lockVars, joinVars>>

(* st_cond_broadcast walks the queue; one step of the walk wakes one       *)
(* waiter, and the caller does nothing else until the walk ends.           *)
st_cond_broadcast(t, c) ==
    /\ Calling(t, "broadcast")
    /\ c \in live
    /\ op' = [op EXCEPT ![t] = "broadcast"]
    /\ obj' = [obj EXCEPT ![t] = c]
    /\ ret' = "none"
    /\ UNCHANGED <<cur, wq, schedVars, ioVars, flagVars, lockVars, joinVars>>

st_cond_broadcast_step(t) ==
    /\ Resumed(t, "broadcast")
    /\ \/ /\ \E u \in FirstIn(obj[t], "COND_WAIT") : MakeRunnable(u)
          /\ UNCHANGED <<cur, callVars>>
       \/ /\ FirstIn(obj[t], "COND_WAIT") = {}
          /\ ReturnFrom(t, "ok")
          /\ UNCHANGED schedVars
    /\ UNCHANGED <<wq, ioVars, flagVars, lockVars, joinVars>>

(* Fault: threads woken but not yet run do not count as users.             *)
st_cond_destroy_WaitersOnly(t, c) ==
    /\ Calling(t, "destroy")
    /\ c \in live
    /\ \/ FirstIn(c, "COND_WAIT") # {} /\ ReturnNow("EBUSY") /\ UNCHANGED live
       \/ FirstIn(c, "COND_WAIT") = {} /\ ReturnNow("ok") /\ live' = live \ {c}
    /\ UNCHANGED <<owner, wq, schedVars, ioVars, flagVars, joinVars>>

(* st_cond_new and st_cond_destroy: a condition variable with a linked     *)
(* thread, woken or not, cannot be destroyed.                              *)
st_cond_new(t, c) ==
    /\ Calling(t, "destroy")
    /\ c \notin live
    /\ live' = live \cup {c}
    /\ ReturnNow("ok")
    /\ UNCHANGED <<wq, owner, schedVars, ioVars, flagVars, joinVars>>

st_cond_destroy(t, c) ==
    /\ Calling(t, "destroy")
    /\ c \in live
    /\ \/ wq[c] # <<>> /\ ReturnNow("EBUSY") /\ UNCHANGED live
       \/ wq[c] = <<>> /\ ReturnNow("ok") /\ live' = live \ {c}
    /\ UNCHANGED <<wq, owner, schedVars, ioVars, flagVars, joinVars>>

-----------------------------------------------------------------------------
(* Mutexes.                                                                *)

st_mutex_lock(t, m) ==
    /\ Calling(t, "lock")
    /\ m \in live
    /\ \/ EintrOnEntry(t)
       \/ /\ t \notin intr
          /\ \/ /\ owner[m] = None
                /\ owner' = [owner EXCEPT ![m] = t]
                /\ ReturnNow("ok")
             \/ /\ owner[m] = t
                /\ ReturnNow("EDEADLK")
                /\ UNCHANGED owner
          /\ UNCHANGED <<wq, live, schedVars, ioVars, flagVars, joinVars>>
       \/ /\ t \notin intr
          /\ owner[m] \notin {None, t}
          /\ wq' = [wq EXCEPT ![m] = Append(@, t)]
          /\ SwitchOut(t, "LOCK_WAIT", "lock", m, NO_TIMEOUT)
          /\ UNCHANGED <<ioVars, flagVars, lockVars, joinVars>>

(* Fault: an interrupt after the hand-off makes the call fail.             *)
LockFailed_AnyInterrupt(t) == t \in intr

(* A thread that was handed the mutex keeps a pending interrupt for its    *)
(* next blocking call.                                                     *)
LockFailed(t) == t \in intr /\ owner[obj[t]] # t

st_mutex_lock_resume(t) ==
    /\ Resumed(t, "lock")
    /\ wq' = [wq EXCEPT ![obj[t]] = Unlink(@, t)]
    /\ intr' = IF LockFailed(t) THEN intr \ {t} ELSE intr
    /\ ReturnFrom(t, IF LockFailed(t) THEN "EINTR" ELSE "ok")
    /\ UNCHANGED <<tmdout, schedVars, ioVars, lockVars, joinVars>>

(* Unlocking hands the mutex over to the first thread still waiting.       *)
st_mutex_unlock(t, m) ==
    /\ Calling(t, "unlock")
    /\ m \in live
    /\ \/ /\ owner[m] # t
          /\ ReturnNow("EPERM")
          /\ UNCHANGED <<owner, state, runq>>
       \/ /\ owner[m] = t
          /\ ReturnNow("ok")
          /\ \/ \E u \in FirstIn(m, "LOCK_WAIT") :
                  /\ owner' = [owner EXCEPT ![m] = u]
                  /\ state' = [state EXCEPT ![u] = "RUNNABLE"]
                  /\ runq' = Append(runq, u)
             \/ /\ FirstIn(m, "LOCK_WAIT") = {}
                /\ owner' = [owner EXCEPT ![m] = None]
                /\ UNCHANGED <<state, runq>>
    /\ UNCHANGED <<sleepq, due, wq, live, ioVars, flagVars, joinVars>>

st_mutex_trylock(t, m) ==
    /\ Calling(t, "trylock")
    /\ m \in live
    /\ \/ owner[m] # None /\ ReturnNow("EBUSY") /\ UNCHANGED owner
       \/ /\ owner[m] = None
          /\ owner' = [owner EXCEPT ![m] = t]
          /\ ReturnNow("ok")
    /\ UNCHANGED <<wq, live, schedVars, ioVars, flagVars, joinVars>>

st_mutex_new(t, m) ==
    /\ Calling(t, "destroy")
    /\ m \notin live
    /\ live' = live \cup {m}
    /\ ReturnNow("ok")
    /\ UNCHANGED <<wq, owner, schedVars, ioVars, flagVars, joinVars>>

st_mutex_destroy(t, m) ==
    /\ Calling(t, "destroy")
    /\ m \in live
    /\ LET busy == owner[m] # None \/ wq[m] # <<>> IN
       \/ busy /\ ReturnNow("EBUSY") /\ UNCHANGED live
       \/ ~busy /\ ReturnNow("ok") /\ live' = live \ {m}
    /\ UNCHANGED <<wq, owner, schedVars, ioVars, flagVars, joinVars>>

-----------------------------------------------------------------------------
(* The idle thread.  Nothing else runs while its loop body executes, so    *)
(* the body is split at its inner loops.                                   *)

(* Fault: the loop goes on when the last thread has exited.                *)
idle_loop_OnceMore ==
    /\ cur = Idle /\ op[Idle] = "loop"
    /\ op' = [op EXCEPT ![Idle] = IF active >= 0 THEN "dispatch" ELSE "halted"]
    /\ scan' = 1
    /\ UNCHANGED <<cur, obj, ret, ioq, wq, schedVars, flagVars, lockVars,
                   joinVars>>

(* The loop test; the event system has returned when the walk starts.      *)
idle_loop ==
    /\ cur = Idle /\ op[Idle] = "loop"
    /\ op' = [op EXCEPT ![Idle] = IF active > 0 THEN "dispatch" ELSE "halted"]
    /\ scan' = 1
    /\ UNCHANGED <<cur, obj, ioq, wq, ret, schedVars, flagVars, lockVars,
                   joinVars>>

(* One pollq of the walk over the ioq: notified, or passed over.           *)
dispatch_notify ==
    /\ cur = Idle /\ op[Idle] = "dispatch"
    /\ scan <= Len(ioq)
    /\ MakeRunnable(ioq[scan])
    /\ ioq' = Unlink(ioq, ioq[scan])
    /\ UNCHANGED <<cur, scan, wq, flagVars, lockVars, joinVars, callVars>>

dispatch_pass ==
    /\ cur = Idle /\ op[Idle] = "dispatch"
    /\ scan <= Len(ioq)
    /\ scan' = scan + 1
    /\ UNCHANGED <<cur, ioq, wq, schedVars, flagVars, lockVars, joinVars,
                   callVars>>

(* Fault: the reading does not reach the comparison with the due times.    *)
read_clock_Stale(e) ==
    /\ cur = Idle /\ op[Idle] = "dispatch"
    /\ scan > Len(ioq)
    /\ op' = [op EXCEPT ![Idle] = "clock"]
    /\ scan' = 1
    /\ UNCHANGED <<cur, obj, ret, ioq, wq, schedVars, flagVars, lockVars,
                   joinVars>>

(* _st_vp_check_clock reads the clock, e after the last reading.           *)
read_clock(e) ==
    /\ cur = Idle /\ op[Idle] = "dispatch"
    /\ scan > Len(ioq)
    /\ op' = [op EXCEPT ![Idle] = "clock"]
    /\ scan' = 1
    /\ due' = [t \in Threads |-> IF t \in sleepq THEN due[t] - e ELSE due[t]]
    /\ UNCHANGED <<cur, state, obj, runq, ioq, sleepq, wq, ret, flagVars,
                   lockVars, joinVars>>

(* Fault: the flag is not set.                                             *)
MarkTimedout_Never(t) == tmdout

MarkTimedout(t) == IF state[t] = "COND_WAIT" THEN tmdout \cup {t} ELSE tmdout

(* One round of its loop: the root of the heap, when it is due.            *)
check_clock_expire(t) ==
    /\ cur = Idle /\ op[Idle] = "clock"
    /\ t \in sleepq
    /\ due[t] <= 0
    /\ \A u \in sleepq : due[t] <= due[u]
    /\ tmdout' = MarkTimedout(t)
    /\ MakeRunnable(t)
    /\ UNCHANGED <<cur, intr, wq, ioVars, lockVars, joinVars, callVars>>

(* The loop ends and the idle thread gives up the processor.               *)
idle_switch ==
    /\ cur = Idle /\ op[Idle] = "clock"
    /\ \A u \in sleepq : due[u] > 0
    /\ op' = [op EXCEPT ![Idle] = "loop"]
    /\ vp_schedule([state EXCEPT ![Idle] = "RUNNABLE"], runq)
    /\ UNCHANGED <<obj, sleepq, due, wq, ret, ioVars, flagVars, lockVars,
                   joinVars>>

-----------------------------------------------------------------------------
ThreadCall(t) ==
    \/ \E u \in Threads : \E j \in BOOLEAN : st_thread_create(t, u, j)
    \/ st_thread_exit(t)
    \/ \E u \in Threads : st_thread_join(t, u)
    \/ \E u \in Threads : st_thread_interrupt(t, u)

WaitCall(t) ==
    \/ \E d \in Timeouts : st_usleep(t, d)
    \/ \E d \in Timeouts : st_poll(t, d)
    \/ \E c \in Conds : \E d \in Timeouts : st_cond_timedwait(t, c, d)
    \/ \E m \in Mutexes : st_mutex_lock(t, m)

SyncCall(t) ==
    \/ \E c \in Conds : \/ st_cond_signal(t, c)
                        \/ st_cond_broadcast(t, c)
                        \/ st_cond_new(t, c)
                        \/ st_cond_destroy(t, c)
    \/ \E m \in Mutexes : \/ st_mutex_unlock(t, m)
                          \/ st_mutex_trylock(t, m)
                          \/ st_mutex_new(t, m)
                          \/ st_mutex_destroy(t, m)

Resume(t) ==
    \/ st_thread_exit_resume(t)
    \/ st_thread_join_resume(t)
    \/ st_usleep_resume(t)
    \/ st_poll_resume(t)
    \/ st_cond_timedwait_resume(t)
    \/ st_cond_broadcast_step(t)
    \/ st_mutex_lock_resume(t)

IdleStep ==
    \/ idle_loop
    \/ dispatch_notify
    \/ dispatch_pass
    \/ \E e \in Elapsed : read_clock(e)
    \/ \E t \in Threads : check_clock_expire(t)
    \/ idle_switch

Next ==
    \/ \E t \in Threads : \/ ThreadCall(t)
                          \/ WaitCall(t)
                          \/ SyncCall(t)
                          \/ Resume(t)
    \/ IdleStep

Spec == Init /\ [][Next]_vars

(***************************************************************************)
(* Fairness.  The library's own steps are taken: a resumed thread finishes *)
(* its call and the idle thread goes round its loop.  Of the application   *)
(* it is assumed, as cooperative scheduling must, that a thread which gets *)
(* the processor again and again at last makes a call that gives it up.    *)
(***************************************************************************)
GiveUp(t) ==
    /\ \/ WaitCall(t)
       \/ st_thread_exit(t)
       \/ \E u \in Threads : st_thread_join(t, u)
    /\ cur' # t

FairSpec ==
    /\ Spec
    /\ WF_vars(IdleStep)
    /\ \A t \in Threads : WF_vars(Resume(t)) /\ SF_vars(GiveUp(t))

(* Time passes while the idle thread keeps being scheduled.                *)
TimedSpec ==
    /\ FairSpec
    /\ SF_vars(\E e \in Elapsed \ {0} : read_clock(e))

-----------------------------------------------------------------------------
(***************************************************************************)
(* Invariants                                                              *)
(***************************************************************************)

(* Every variable has its type.                                            *)
TypeOK ==
    /\ cur \in Threads \cup {Idle}
    /\ state \in [Threads \cup {Idle} -> States]
    /\ op \in [Threads \cup {Idle} -> Ops]
    /\ obj \in [Threads -> Objects \cup {None}]
    /\ runq \in Seq(Threads)
    /\ zombieq \subseteq Threads
    /\ ioq \in Seq(Threads)
    /\ scan \in Nat \ {0}
    /\ sleepq \subseteq Threads
    /\ due \in [Threads -> Int]
    /\ intr \subseteq Threads
    /\ tmdout \subseteq Threads
    /\ wq \in [Objects -> Seq(Threads)]
    /\ owner \in [Mutexes -> Threads \cup {None}]
    /\ live \subseteq Mutexes \cup Conds
    /\ term \subseteq Threads
    /\ active \in Int
    /\ ret \in Rets


(* The run queue holds exactly the runnable threads, each once: a thread   *)
(* linked twice by two wake-ups (a signal and an expired timeout, an       *)
(* interrupt and a ready descriptor) would corrupt the list, and one not   *)
(* linked would never run again (ST_ASSERT in _st_vp_schedule).            *)
RunQueueExact ==
    /\ IsInjective(runq)
    /\ \A t \in Threads : t \in ToSet(runq) <=> state[t] = "RUNNABLE"

(* The current thread, and no other, is in state RUNNING.                  *)
OneRunning ==
    \A t \in Threads \cup {Idle} : state[t] = "RUNNING" <=> cur = t

(* A thread is linked on the wait queue of the object of the call it is    *)
(* inside and on no other queue, from the call to its return: whoever      *)
(* wakes it leaves the link for ST_REMOVE_LINK in the woken thread.        *)
WaitQueuesExact ==
    \A o \in Objects :
        /\ IsInjective(wq[o])
        /\ \A t \in Threads :
             t \in ToSet(wq[o]) <=> op[t] \in WaitOps /\ obj[t] = o

(* Only a thread that waits is in the timeout heap: every wake-up also     *)
(* takes the thread off it, or _st_vp_check_clock would queue it again.    *)
SleepersWait ==
    \A t \in sleepq : state[t] \in {"IO_WAIT", "COND_WAIT", "SLEEPING"}

(* A thread waiting for I/O is on the ioq, and a thread on the ioq is      *)
(* inside st_poll, whose stack frame holds the pollq.                      *)
IoQueueExact ==
    /\ IsInjective(ioq)
    /\ \A t \in Threads :
         /\ state[t] = "IO_WAIT" => t \in ToSet(ioq)
         /\ t \in ToSet(ioq) => op[t] = "poll"

(* The zombie queue, which shares its links with the run queue, holds      *)
(* exactly the zombies, which are joinable and stay so.                    *)
ZombieQueueExact ==
    \A t \in Threads :
        /\ t \in zombieq <=> state[t] = "ZOMBIE"
        /\ state[t] = "ZOMBIE" => t \in term

(* The dispatch loop notifies whatever pollq it meets without looking at   *)
(* the thread's state.  That is right only because it runs with an empty   *)
(* run queue: every thread still to be visited waits for I/O, although an  *)
(* interrupted or timed-out thread leaves its pollq on the ioq.            *)
DispatchMeetsWaiters ==
    cur = Idle /\ op[Idle] = "dispatch" =>
        \A i \in scan..Len(ioq) : state[ioq[i]] = "IO_WAIT"

(* No thread sleeps through an interrupt: a thread with the flag pending   *)
(* is running, about to run, or finished.                                  *)
InterruptedNotBlocked == \A t \in intr : state[t] \notin Blocked

(* The TIMEDOUT flag does not leak out of the wait it belongs to.          *)
TimedoutScoped ==
    \A t \in tmdout : /\ op[t] \in {"timedwait", "join"}
                      /\ state[t] \in {"RUNNABLE", "RUNNING"}

(* No hand-off is lost: a mutex some thread waits for has an owner, and    *)
(* the owner is not one of the waiters.                                    *)
NoLostHandoff ==
    \A t \in Threads :
        op[t] = "lock" /\ state[t] = "LOCK_WAIT" =>
            owner[obj[t]] \notin {None, t}

(* Destroying a mutex or a condition variable fails with EBUSY while any   *)
(* thread still has to unlink itself from it, so none touches freed        *)
(* memory when it resumes.                                                 *)
NoUseAfterDestroy ==
    /\ \A t \in Threads :
         op[t] \in {"timedwait", "lock", "broadcast"} => obj[t] \in live
    /\ \A m \in Mutexes \ live : owner[m] = None

(* The idle thread ends the process only when every thread has exited.     *)
ExitOnlyWhenDone ==
    op[Idle] = "halted" =>
        \A t \in Threads : state[t] \in {"UNUSED", "ZOMBIE", "DEAD"}

(* The state of a thread and the call it is inside belong together.        *)
CallMatchesState ==
    \A t \in Threads :
        /\ op[t] \in WaitOps \cup {"user", "usleep", "poll", "broadcast",
                                   "exit", "done"}
        /\ state[t] = "UNUSED" => op[t] = "user"
        /\ state[t] = "IO_WAIT" => op[t] = "poll"
        /\ state[t] = "LOCK_WAIT" => op[t] = "lock"
        /\ state[t] = "COND_WAIT" => op[t] \in {"timedwait", "join"}
        /\ state[t] \in {"SLEEPING", "SUSPENDED"} => op[t] = "usleep"
        /\ state[t] = "ZOMBIE" => op[t] = "exit"
        /\ state[t] = "DEAD" <=> op[t] = "done"
        /\ op[t] = "broadcast" => cur = t

(* A saved call works on an object of the kind it takes.                   *)
ObjectMatchesCall ==
    \A t \in Threads :
        /\ op[t] \in {"timedwait", "broadcast"} => obj[t] \in Conds
        /\ op[t] = "lock" => obj[t] \in Mutexes
        /\ op[t] = "join" => obj[t] \in Threads
        /\ op[t] \notin WaitOps \cup {"broadcast"} => obj[t] = None

(* The idle thread is never queued or blocked, and finds the run queue     *)
(* empty at the top of its loop.                                           *)
IdleInOrder ==
    /\ state[Idle] \in {"RUNNING", "RUNNABLE"}
    /\ op[Idle] \in {"loop", "dispatch", "clock", "halted"}
    /\ cur # Idle => op[Idle] = "loop"
    /\ cur = Idle /\ op[Idle] \in {"loop", "halted"} => runq = <<>>

(* A thread that stopped waiting for a mutex was interrupted or owns it.   *)
HandoffKept ==
    \A t \in Threads :
        op[t] = "lock" /\ state[t] # "LOCK_WAIT" =>
            t \in intr \/ owner[obj[t]] = t

(* The inductive invariant: no conjunct is inductive without the others,   *)
(* as every wake-up relies on the exactness of another queue.              *)
IInv ==
    /\ TypeOK
    /\ RunQueueExact
    /\ OneRunning
    /\ WaitQueuesExact
    /\ SleepersWait
    /\ IoQueueExact
    /\ ZombieQueueExact
    /\ DispatchMeetsWaiters
    /\ InterruptedNotBlocked
    /\ TimedoutScoped
    /\ NoLostHandoff
    /\ NoUseAfterDestroy
    /\ CallMatchesState
    /\ ObjectMatchesCall
    /\ IdleInOrder
    /\ HandoffKept

-----------------------------------------------------------------------------
(***************************************************************************)
(* Action properties                                                       *)
(***************************************************************************)

(* st_mutex_lock returns 0 to a thread that waited if and only if the      *)
(* thread owns the mutex, whatever interrupts arrive before or after the   *)
(* hand-off.                                                               *)
LockOutcome ==
    [][\A t \in Threads :
         cur = t /\ op[t] = "lock" /\ op'[t] = "user" =>
            (ret' = "ok" <=> owner[obj[t]] = t)]_vars

(* An interrupt is never dropped: the flag is cleared only by a call of    *)
(* the interrupted thread that reports EINTR, or by its termination.       *)
InterruptReported ==
    [][\A t \in intr : t \notin intr' =>
         (cur = t /\ ret' = "EINTR") \/ state'[t] = "DEAD"]_vars

(* What ends a wait on a condition variable decides how it is reported:    *)
(* the TIMEDOUT flag is set if and only if the clock ended it.             *)
TimeoutOnlyByClock ==
    [][\A t \in Threads :
         state[t] = "COND_WAIT" /\ state'[t] # "COND_WAIT" =>
            (t \in tmdout' <=> cur = Idle)]_vars

(* Waiters are served in order: a thread of the queue is not woken by a    *)
(* signal or an unlock while one that came before it keeps waiting.        *)
WokenInOrder ==
    [][\A o \in Objects : \A i, j \in 1..Len(wq[o]) :
         LET t == wq[o][i]  u == wq[o][j] IN
         /\ i < j /\ cur \in Threads
         /\ state[u] \in {"COND_WAIT", "LOCK_WAIT"} /\ state'[u] = "RUNNABLE"
         /\ u \notin intr'
         => state'[t] \notin {"COND_WAIT", "LOCK_WAIT"}]_vars

(* Whoever ends a wait, and whatever else happens before the thread runs   *)
(* again, the wait ends in its turn and reports why it ended.              *)
WaitsCorrect == InterruptReported /\ TimeoutOnlyByClock /\ WokenInOrder

(* Only a join brings a zombie back, once: neither an interrupt nor an     *)
(* expiring timeout may resume a thread that has exited.                   *)
ZombieLeftToJoin ==
    [][\A t \in Threads : op[t] = "exit" /\ state'[t] # state[t] =>
         \/ state[t] = "ZOMBIE" /\ t \notin zombieq' /\ ret' = "ok"
         \/ state[t] = "RUNNABLE" /\ cur' = t
         \/ cur = t /\ state'[t] = "DEAD"]_vars

(* An exit counts once: it ends neither the process too early nor twice.   *)
ExitsCorrect == []ExitOnlyWhenDone /\ ZombieLeftToJoin

-----------------------------------------------------------------------------
(***************************************************************************)
(* Liveness                                                                *)
(***************************************************************************)

(* A runnable thread gets the processor: the run queue is served in order  *)
(* and no wake-up loses a thread.                                          *)
RunnableRuns ==
    \A t \in Threads : state[t] = "RUNNABLE" ~> state[t] = "RUNNING"

(* An interrupt sent to a thread inside a blocking call ends that call,    *)
(* which consumes it (a mutex handed over first keeps it for later).       *)
InterruptDelivered ==
    \A t \in Threads :
        (t \in intr /\ op[t] \in {"usleep", "poll", "timedwait", "join"})
            ~> t \notin intr

(* Neither a runnable thread nor an interrupt is forgotten.                *)
NobodyForgotten == RunnableRuns /\ InterruptDelivered

(* The process ends once every thread has exited, joined or not.           *)
ProcessEnds == active = 0 ~> op[Idle] = "halted"

(* A thread that waits with a timeout wakes, as long as the idle thread is *)
(* scheduled: timers are only looked at when no thread is runnable.        *)
SleeperWakes ==
    []<>(cur = Idle) => \A t \in Threads : t \in sleepq ~> t \notin sleepq

=============================================================================
