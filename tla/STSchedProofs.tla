--------------------------- MODULE STSchedProofs ---------------------------
(***************************************************************************)
(* Proofs about the State Threads scheduler: IInv is an inductive          *)
(* invariant of STSched for any number of threads, mutexes and condition   *)
(* variables, any timeouts and any set of calls; the last parts count the  *)
(* threads that did not exit, say how waits end, and show that STSched     *)
(* uses its timeout heap and its mutexes as SleepQueue and FairMutex say.  *)
(***************************************************************************)
EXTENDS SchedRefinement, QueueProofs

-----------------------------------------------------------------------------
(* If some thread on a queue is in state s, the walk over the queue finds  *)
(* a first one; what it finds is on the queue and in that state.           *)
LEMMA FirstInLemma ==
  ASSUME TypeOK, NEW o \in Objects, NEW s
  PROVE  /\ \A u \in FirstIn(o, s) :
              u \in Threads /\ state[u] = s /\ u \in ToSet(wq[o])
         /\ FirstIn(o, s) = {} =>
              \A u \in Threads : u \in ToSet(wq[o]) => state[u] # s
<1>1. wq[o] \in Seq(Threads)
  BY DEF TypeOK
<1>2. \A u : u \in ToSet(wq[o]) <=> \E i \in 1..Len(wq[o]) : wq[o][i] = u
  BY <1>1, SeqDomain
<1>3. ASSUME NEW u \in FirstIn(o, s)
      PROVE  u \in Threads /\ state[u] = s /\ u \in ToSet(wq[o])
  BY <1>2, <1>3 DEF FirstIn
<1>4. ASSUME NEW u \in Threads, u \in ToSet(wq[o]), state[u] = s
      PROVE  FirstIn(o, s) # {}
  <2> DEFINE I == {i \in 1..Len(wq[o]) : state[wq[o][i]] = s}
  <2>1. I \subseteq Nat /\ I # {}
    BY <1>1, <1>2, <1>4
  <2>2. PICK i \in I : \A j \in I : i <= j
    BY <2>1, NatMin
  <2>3. wq[o][i] \in FirstIn(o, s)
    BY <1>1, <2>2 DEF FirstIn
  <2>4. QED
    BY <2>3
<1>5. QED
  BY <1>3, <1>4

-----------------------------------------------------------------------------
(* What the building blocks establish.                                     *)

(* _st_vp_schedule, from a state in which nobody is running.               *)
LEMMA ScheduleLemma ==
  ASSUME NEW st \in [Threads \cup {Idle} -> States], NEW rq \in Seq(Threads),
         IsInjective(rq),
         \A x \in Threads : x \in ToSet(rq) <=> st[x] = "RUNNABLE",
         \A x \in Threads \cup {Idle} : st[x] # "RUNNING",
         st[Idle] = "RUNNABLE",
         vp_schedule(st, rq)
  PROVE  /\ cur' \in Threads \cup {Idle}
         /\ state' \in [Threads \cup {Idle} -> States]
         /\ runq' \in Seq(Threads)
         /\ RunQueueExact'
         /\ OneRunning'
         /\ st[cur'] = "RUNNABLE"
         /\ state'[cur'] = "RUNNING"
         /\ \A x \in Threads \cup {Idle} : x # cur' => state'[x] = st[x]
         /\ cur' = Idle => runq' = <<>>
<1>1. CASE rq # <<>>
  <2>1. /\ Head(rq) \in Threads /\ Tail(rq) \in Seq(Threads)
        /\ IsInjective(Tail(rq))
        /\ \A x : x \in ToSet(Tail(rq)) <=> x \in ToSet(rq) /\ x # Head(rq)
        /\ Head(rq) \in ToSet(rq)
    BY <1>1, TailLemma
  <2>2. /\ cur' = Head(rq) /\ runq' = Tail(rq)
        /\ state' = [st EXCEPT ![Head(rq)] = "RUNNING"]
    BY <1>1 DEF vp_schedule
  <2>3. cur' # Idle
    BY <2>1, <2>2, ThreadsAssumption
  <2>4. RunQueueExact'
    BY <2>1, <2>2 DEF RunQueueExact
  <2>5. OneRunning'
    BY <2>1, <2>2 DEF OneRunning
  <2>6. QED
    BY <2>1, <2>2, <2>3, <2>4, <2>5 DEF States
<1>2. CASE rq = <<>>
  <2>1. /\ cur' = Idle /\ runq' = rq
        /\ state' = [st EXCEPT ![Idle] = "RUNNING"]
    BY <1>2 DEF vp_schedule
  <2>2. RunQueueExact'
    BY <2>1, ThreadsAssumption DEF RunQueueExact
  <2>3. OneRunning'
    BY <2>1 DEF OneRunning
  <2>4. QED
    BY <1>2, <2>1, <2>2, <2>3 DEF States
<1>3. QED
  BY <1>1, <1>2

(* A wake-up of a thread that is not queued.                               *)
LEMMA WakeLemma ==
  ASSUME IInv, NEW u \in Threads,
         state[u] \in Blocked \cup {"UNUSED", "ZOMBIE"},
         UNCHANGED cur,
         state' = [state EXCEPT ![u] = "RUNNABLE"],
         runq' = Append(runq, u)
  PROVE  /\ state' \in [Threads \cup {Idle} -> States]
         /\ runq' \in Seq(Threads)
         /\ RunQueueExact'
         /\ OneRunning'
         /\ state'[u] = "RUNNABLE"
         /\ \A x \in Threads \cup {Idle} : x # u => state'[x] = state[x]
<1> USE DEF IInv, TypeOK, Blocked, RunQueueExact, OneRunning
<1>1. u \notin ToSet(runq) /\ IsInjective(runq)
  OBVIOUS
<1>2. /\ runq' \in Seq(Threads) /\ IsInjective(runq')
      /\ \A x : x \in ToSet(runq') <=> x \in ToSet(runq) \/ x = u
  BY <1>1, AppendLemma
<1>3. /\ state' \in [Threads \cup {Idle} -> States]
      /\ state'[u] = "RUNNABLE"
      /\ \A x \in Threads \cup {Idle} : x # u => state'[x] = state[x]
  BY DEF States
<1>4. RunQueueExact'
  BY <1>1, <1>2, <1>3
<1>5. OneRunning'
  BY <1>3
<1>6. QED
  BY <1>2, <1>3, <1>4, <1>5


(* A pending interrupt is consumed at the entry of a blocking call.        *)
LEMMA EntryLemma ==
  ASSUME IInv, NEW t \in Threads, InUserCode(t), EintrOnEntry(t)
  PROVE  IInv'
<1>1. /\ ret' = "EINTR" /\ intr' = intr \ {t} /\ op[t] = "user"
      /\ UNCHANGED <<cur, op, obj, wq, state, runq, sleepq, due, ioq, scan,
                     tmdout, zombieq, term, active, owner, live>>
  BY DEF EintrOnEntry, ReturnNow, InUserCode, schedVars, ioVars, lockVars,
         joinVars
<1>2. TypeOK'
  BY <1>1 DEF IInv, TypeOK, Rets
<1>3. RunQueueExact' /\ OneRunning' /\ SleepersWait' /\ ZombieQueueExact'
  BY <1>1 DEF IInv, RunQueueExact, OneRunning, SleepersWait, ZombieQueueExact
<1>4. WaitQueuesExact' /\ IoQueueExact' /\ DispatchMeetsWaiters'
  BY <1>1 DEF IInv, WaitQueuesExact, IoQueueExact, DispatchMeetsWaiters
<1>5. InterruptedNotBlocked' /\ TimedoutScoped' /\ IdleInOrder'
  BY <1>1 DEF IInv, InterruptedNotBlocked, TimedoutScoped, IdleInOrder
<1>6. CallMatchesState' /\ ObjectMatchesCall'
  BY <1>1 DEF IInv, CallMatchesState, ObjectMatchesCall
<1>7. NoLostHandoff' /\ HandoffKept' /\ NoUseAfterDestroy'
  BY <1>1 DEF IInv, NoLostHandoff, HandoffKept, NoUseAfterDestroy
<1>8. QED
  BY <1>2, <1>3, <1>4, <1>5, <1>6, <1>7 DEF IInv

(* A blocked thread is made runnable by the current one; the flag of an    *)
(* interrupt may be set with it, and must be if it waits for a mutex.      *)
LEMMA WokenLemma ==
  ASSUME IInv, cur \in Threads, NEW u \in Threads, state[u] \in Blocked,
         MakeRunnable(u), ret' \in Rets,
         intr \subseteq intr', intr' \subseteq intr \cup {u},
         state[u] = "LOCK_WAIT" => u \in intr',
         UNCHANGED <<cur, op, obj, wq, tmdout, ioVars, lockVars, joinVars>>
  PROVE  IInv'
<1>1. /\ sleepq' = sleepq \ {u} /\ due' = [due EXCEPT ![u] = 0]
      /\ UNCHANGED <<ioq, scan, owner, live, zombieq, term, active>>
  BY DEF MakeRunnable, del_sleep_q, ioVars, lockVars, joinVars
<1>2. /\ state' \in [Threads \cup {Idle} -> States]
      /\ runq' \in Seq(Threads)
      /\ RunQueueExact'
      /\ OneRunning'
      /\ state'[u] = "RUNNABLE"
      /\ \A x \in Threads \cup {Idle} : x # u => state'[x] = state[x]
  BY WakeLemma DEF MakeRunnable
<1>3. cur # Idle /\ u # Idle
  BY ThreadsAssumption
<1>4. TypeOK'
  <2>1. due' \in [Threads -> Int] /\ sleepq' \subseteq Threads
    BY <1>1 DEF IInv, TypeOK
  <2>2. QED
    BY <2>1, <1>1, <1>2 DEF IInv, TypeOK
<1>5. SleepersWait' /\ IoQueueExact'
  BY <1>1, <1>2 DEF IInv, TypeOK, SleepersWait, IoQueueExact
<1>6. ZombieQueueExact' /\ InterruptedNotBlocked'
  BY <1>1, <1>2
  DEF IInv, TypeOK, ZombieQueueExact, InterruptedNotBlocked, Blocked
<1>7. WaitQueuesExact' /\ NoUseAfterDestroy' /\ ObjectMatchesCall'
  BY <1>1 DEF IInv, WaitQueuesExact, NoUseAfterDestroy, ObjectMatchesCall
<1>8. NoLostHandoff' /\ HandoffKept'
  BY <1>1, <1>2 DEF IInv, NoLostHandoff, HandoffKept, CallMatchesState,
                    Blocked
<1>9. CallMatchesState' /\ TimedoutScoped'
  BY <1>1, <1>2 DEF IInv, CallMatchesState, TimedoutScoped, TypeOK, Blocked
<1>10. IdleInOrder' /\ DispatchMeetsWaiters'
  BY <1>2, <1>3 DEF IInv, IdleInOrder, DispatchMeetsWaiters
<1>11. QED
  BY <1>2, <1>4, <1>5, <1>6, <1>7, <1>8, <1>9, <1>10 DEF IInv

(* The second half of a blocking call gives the processor to the head of   *)
(* the run queue, or to the idle thread.                                   *)
LEMMA SwitchOutLemma ==
  ASSUME IInv, NEW t \in Threads, cur = t, NEW s \in Blocked, NEW o, NEW x,
         NEW d \in Nat \cup {NO_TIMEOUT}, SwitchOut(t, s, o, x, d)
  PROVE  /\ cur' \in Threads \cup {Idle} /\ cur' # t
         /\ state' \in [Threads \cup {Idle} -> States]
         /\ runq' \in Seq(Threads)
         /\ RunQueueExact'
         /\ OneRunning'
         /\ state'[t] = s
         /\ state[cur'] = "RUNNABLE" /\ state'[cur'] = "RUNNING"
         /\ \A y \in Threads \cup {Idle} :
              y # t /\ y # cur' => state'[y] = state[y]
         /\ cur' = Idle => runq' = <<>>
<1> DEFINE st == [state EXCEPT ![t] = s]
<1>1. /\ st \in [Threads \cup {Idle} -> States] /\ st[t] = s
      /\ \A y \in Threads \cup {Idle} : y # t => st[y] = state[y]
  BY DEF IInv, TypeOK, States, Blocked
<1>2. /\ \A y \in Threads : y \in ToSet(runq) <=> st[y] = "RUNNABLE"
      /\ \A y \in Threads \cup {Idle} : st[y] # "RUNNING"
      /\ st[Idle] = "RUNNABLE"
  BY <1>1, ThreadsAssumption
  DEF IInv, RunQueueExact, OneRunning, IdleInOrder, Blocked
<1>3. runq \in Seq(Threads) /\ IsInjective(runq) /\ vp_schedule(st, runq)
  BY DEF IInv, TypeOK, RunQueueExact, SwitchOut
<1> HIDE DEF st
<1>4. /\ cur' \in Threads \cup {Idle}
      /\ state' \in [Threads \cup {Idle} -> States]
      /\ runq' \in Seq(Threads)
      /\ RunQueueExact'
      /\ OneRunning'
      /\ st[cur'] = "RUNNABLE"
      /\ state'[cur'] = "RUNNING"
      /\ \A y \in Threads \cup {Idle} : y # cur' => state'[y] = st[y]
      /\ cur' = Idle => runq' = <<>>
  BY <1>1, <1>2, <1>3, ScheduleLemma
<1>5. cur' # t
  BY <1>1, <1>4 DEF Blocked
<1>6. QED
  BY <1>1, <1>4, <1>5


(* The ways a call blocks: the saved call o on object x, in state s.       *)
BlockingCall(t, s, o, x, d) ==
  \/ o = "usleep" /\ x = None /\ s = "SLEEPING"
  \/ o = "usleep" /\ x = None /\ s = "SUSPENDED" /\ d = NO_TIMEOUT
  \/ o = "poll" /\ x = None /\ s = "IO_WAIT"
  \/ o = "timedwait" /\ s = "COND_WAIT" /\ x \in Conds \cap live
  \/ o = "join" /\ s = "COND_WAIT" /\ x \in Threads /\ d = NO_TIMEOUT
  \/ /\ o = "lock" /\ s = "LOCK_WAIT" /\ d = NO_TIMEOUT
     /\ x \in Mutexes \cap live /\ owner[x] \notin {None, t}

(* Blocking keeps everything but, for the caller to show, the exactness of *)
(* the wait queue it has joined.                                           *)
LEMMA BlockLemma ==
  ASSUME IInv, NEW t \in Threads, cur = t, op[t] # "poll",
         t \notin intr \cup tmdout,
         NEW s, NEW o, NEW x, NEW d \in Nat \cup {NO_TIMEOUT},
         BlockingCall(t, s, o, x, d), SwitchOut(t, s, o, x, d),
         UNCHANGED <<scan, flagVars, lockVars, joinVars>>,
         IF o = "poll" THEN ioq' = Append(ioq, t) ELSE UNCHANGED ioq,
         wq' \in [Objects -> Seq(Threads)], WaitQueuesExact'
  PROVE  IInv'
<1>1. s \in Blocked
  BY DEF BlockingCall, Blocked
<1>2. /\ cur' \in Threads \cup {Idle} /\ cur' # t
      /\ state' \in [Threads \cup {Idle} -> States]
      /\ runq' \in Seq(Threads)
      /\ RunQueueExact'
      /\ OneRunning'
      /\ state'[t] = s
      /\ state[cur'] = "RUNNABLE" /\ state'[cur'] = "RUNNING"
      /\ \A y \in Threads \cup {Idle} :
           y # t /\ y # cur' => state'[y] = state[y]
      /\ cur' = Idle => runq' = <<>>
  BY <1>1, SwitchOutLemma
<1>3. /\ op' = [op EXCEPT ![t] = o]
      /\ obj' = [obj EXCEPT ![t] = x]
      /\ ret' = "none"
      /\ add_sleep_q(t, d)
      /\ UNCHANGED <<scan, intr, tmdout, owner, live, zombieq, term, active>>
  BY DEF SwitchOut, flagVars, lockVars, joinVars
<1>4. /\ o \in WaitOps \cup {"usleep", "poll"} /\ x \in Objects \cup {None}
      /\ t # Idle /\ state[t] = "RUNNING"
      /\ op \in [Threads \cup {Idle} -> Ops]
      /\ obj \in [Threads -> Objects \cup {None}]
  BY ThreadsAssumption
  DEF BlockingCall, WaitOps, Objects, IInv, OneRunning, TypeOK
<1>5. /\ op'[t] = o /\ \A y \in Threads \cup {Idle} : y # t => op'[y] = op[y]
      /\ obj'[t] = x /\ \A y \in Threads : y # t => obj'[y] = obj[y]
  BY <1>3, <1>4
<1>6. ioq' \in Seq(Threads) /\ IoQueueExact'
  <2>1. t \notin ToSet(ioq) /\ ioq \in Seq(Threads) /\ IsInjective(ioq)
    BY DEF IInv, IoQueueExact, TypeOK
  <2>2. /\ ioq' \in Seq(Threads) /\ IsInjective(ioq')
        /\ \A y : y \in ToSet(ioq')
                    <=> y \in ToSet(ioq) \/ (o = "poll" /\ y = t)
    <3>1. CASE o = "poll"
      <4>1. ioq' = Append(ioq, t)
        BY <3>1
      <4>2. QED
        BY <2>1, <3>1, <4>1, AppendLemma
    <3>2. CASE o # "poll"
      BY <2>1, <3>2
    <3>3. QED
      BY <3>1, <3>2
  <2>3. QED
    BY <2>2, <1>2, <1>5 DEF IInv, IoQueueExact, BlockingCall
<1>18. TypeOK'
  BY <1>2, <1>3, <1>4, <1>6, SMTT(30)
  DEF IInv, TypeOK, add_sleep_q, Ops, WaitOps, Rets, NO_TIMEOUT
<1>7. SleepersWait'
  BY <1>2, <1>3, <1>4
  DEF IInv, SleepersWait, TypeOK, add_sleep_q, BlockingCall
<1>8. ZombieQueueExact'
  BY <1>1, <1>2, <1>3, <1>4 DEF IInv, ZombieQueueExact, Blocked
<1>9. DispatchMeetsWaiters' /\ IdleInOrder'
  BY <1>2, <1>4, <1>5, ThreadsAssumption
  DEF IInv, DispatchMeetsWaiters, IdleInOrder
<1>10. InterruptedNotBlocked'
  BY <1>2, <1>3, <1>4 DEF IInv, InterruptedNotBlocked, Blocked, TypeOK
<1>11. TimedoutScoped'
  BY <1>2, <1>3, <1>4, <1>5 DEF IInv, TimedoutScoped, TypeOK
<1>12. NoLostHandoff'
  BY <1>2, <1>3, <1>4, <1>5 DEF IInv, NoLostHandoff, BlockingCall
<1>13. NoUseAfterDestroy'
  BY <1>3, <1>4, <1>5 DEF IInv, NoUseAfterDestroy, BlockingCall
<1>14. CallMatchesState'
  BY <1>2, <1>4, <1>5 DEF IInv, CallMatchesState, BlockingCall, WaitOps
<1>15. ObjectMatchesCall'
  BY <1>4, <1>5 DEF IInv, ObjectMatchesCall, BlockingCall, WaitOps
<1>16. HandoffKept'
  BY <1>2, <1>3, <1>4, <1>5 DEF IInv, HandoffKept, BlockingCall
<1>17. QED
  BY <1>2, <1>6, <1>7, <1>8, <1>9, <1>10, <1>11, <1>12, <1>13, <1>14, <1>15,
     <1>16, <1>18
  DEF IInv


(* A call that returns at once and touches no thread.                      *)
LEMMA LockVarsLemma ==
  ASSUME IInv, NEW t \in Threads, InUserCode(t), NEW r \in Rets, ReturnNow(r),
         UNCHANGED <<wq, schedVars, ioVars, flagVars, joinVars>>,
         owner' \in [Mutexes -> Threads \cup {None}],
         live' \subseteq Mutexes \cup Conds,
         NoLostHandoff', NoUseAfterDestroy', HandoffKept'
  PROVE  IInv'
<1>1. /\ ret' = r
      /\ UNCHANGED <<cur, op, obj, wq, state, runq, sleepq, due, ioq, scan,
                     intr, tmdout, zombieq, term, active>>
  BY DEF ReturnNow, schedVars, ioVars, flagVars, joinVars
<1>2. TypeOK'
  BY <1>1 DEF IInv, TypeOK
<1>3. RunQueueExact' /\ OneRunning' /\ SleepersWait' /\ ZombieQueueExact'
  BY <1>1 DEF IInv, RunQueueExact, OneRunning, SleepersWait, ZombieQueueExact
<1>4. WaitQueuesExact' /\ IoQueueExact' /\ DispatchMeetsWaiters'
  BY <1>1 DEF IInv, WaitQueuesExact, IoQueueExact, DispatchMeetsWaiters
<1>5. InterruptedNotBlocked' /\ TimedoutScoped' /\ IdleInOrder'
  BY <1>1 DEF IInv, InterruptedNotBlocked, TimedoutScoped, IdleInOrder
<1>6. CallMatchesState' /\ ObjectMatchesCall'
  BY <1>1 DEF IInv, CallMatchesState, ObjectMatchesCall
<1>7. QED
  BY <1>2, <1>3, <1>4, <1>5, <1>6 DEF IInv

(* A thread that was switched to inside a blocking call returns from it.   *)
LEMMA ReturnLemma ==
  ASSUME IInv, NEW t \in Threads, cur = t,
         op[t] \in WaitOps \cup {"usleep", "poll", "broadcast"},
         NEW r \in Rets, ReturnFrom(t, r),
         UNCHANGED <<scan, schedVars, lockVars, term, active, zombieq>>,
         intr' \subseteq intr, intr \ intr' \subseteq {t},
         tmdout' = tmdout \ {t},
         wq' \in [Objects -> Seq(Threads)], ioq' \in Seq(Threads),
         WaitQueuesExact', IoQueueExact'
  PROVE  IInv'
<1>1. /\ ret' = r
      /\ op' = [op EXCEPT ![t] = "user"]
      /\ obj' = [obj EXCEPT ![t] = None]
      /\ UNCHANGED <<cur, state, runq, sleepq, due, scan, zombieq, term,
                     active, owner, live>>
  BY DEF ReturnFrom, schedVars, lockVars
<1>2. /\ t # Idle /\ state[t] = "RUNNING"
      /\ op \in [Threads \cup {Idle} -> Ops]
      /\ obj \in [Threads -> Objects \cup {None}]
  BY ThreadsAssumption DEF IInv, OneRunning, TypeOK
<1>3. /\ op'[t] = "user"
      /\ \A y \in Threads \cup {Idle} : y # t => op'[y] = op[y]
      /\ obj'[t] = None /\ \A y \in Threads : y # t => obj'[y] = obj[y]
  BY <1>1, <1>2
<1>4. TypeOK'
  BY <1>1, <1>2 DEF IInv, TypeOK, Ops
<1>5. RunQueueExact' /\ OneRunning' /\ SleepersWait' /\ ZombieQueueExact'
  BY <1>1 DEF IInv, RunQueueExact, OneRunning, SleepersWait, ZombieQueueExact
<1>6. DispatchMeetsWaiters' /\ IdleInOrder'
  BY <1>1, <1>2, <1>3 DEF IInv, DispatchMeetsWaiters, IdleInOrder
<1>7. InterruptedNotBlocked'
  BY <1>1 DEF IInv, InterruptedNotBlocked
<1>8. TimedoutScoped'
  BY <1>1, <1>3 DEF IInv, TimedoutScoped, TypeOK
<1>9. NoLostHandoff' /\ NoUseAfterDestroy'
  BY <1>1, <1>3 DEF IInv, NoLostHandoff, NoUseAfterDestroy
<1>10. CallMatchesState'
  BY <1>1, <1>2, <1>3 DEF IInv, CallMatchesState
<1>11. ObjectMatchesCall'
  BY <1>3 DEF IInv, ObjectMatchesCall, WaitOps
<1>12. HandoffKept'
  BY <1>1, <1>3 DEF IInv, HandoffKept
<1>13. QED
  BY <1>4, <1>5, <1>6, <1>7, <1>8, <1>9, <1>10, <1>11, <1>12 DEF IInv

(* A thread that starts to wait is linked at the end of a wait queue.      *)
LEMMA LinkLemma ==
  ASSUME IInv, NEW t \in Threads, cur = t, op[t] \notin WaitOps,
         NEW o \in WaitOps, NEW x \in Objects,
         op' = [op EXCEPT ![t] = o], obj' = [obj EXCEPT ![t] = x],
         wq' = [wq EXCEPT ![x] = Append(@, t)]
  PROVE  WaitQueuesExact' /\ wq' \in [Objects -> Seq(Threads)]
<1>1. wq \in [Objects -> Seq(Threads)] /\ op \in [Threads \cup {Idle} -> Ops]
      /\ obj \in [Threads -> Objects \cup {None}]
  BY DEF IInv, TypeOK
<1>2. wq[x] \in Seq(Threads) /\ IsInjective(wq[x]) /\ t \notin ToSet(wq[x])
  BY <1>1 DEF IInv, WaitQueuesExact
<1>3. /\ wq'[x] \in Seq(Threads) /\ IsInjective(wq'[x])
      /\ \A y : y \in ToSet(wq'[x]) <=> y \in ToSet(wq[x]) \/ y = t
      /\ \A p \in Objects : p # x => wq'[p] = wq[p]
  BY <1>1, <1>2, AppendLemma
<1>4. wq' \in [Objects -> Seq(Threads)]
  BY <1>1, <1>3
<1>5. /\ op'[t] = o /\ \A y \in Threads : y # t => op'[y] = op[y]
      /\ obj'[t] = x /\ \A y \in Threads : y # t => obj'[y] = obj[y]
  BY <1>1
<1>6. QED
  BY <1>3, <1>4, <1>5 DEF IInv, WaitQueuesExact

(* A thread that returns takes itself off the queue it is on.              *)
LEMMA UnlinkWaiterLemma ==
  ASSUME IInv, NEW t \in Threads, op[t] \in WaitOps, NEW o, o \notin WaitOps,
         op' = [op EXCEPT ![t] = o], obj' = [obj EXCEPT ![t] = None],
         wq' = [wq EXCEPT ![obj[t]] = Unlink(@, t)]
  PROVE  WaitQueuesExact' /\ wq' \in [Objects -> Seq(Threads)]
<1> DEFINE x == obj[t]
<1>1. /\ wq \in [Objects -> Seq(Threads)]
      /\ op \in [Threads \cup {Idle} -> Ops]
      /\ obj \in [Threads -> Objects \cup {None}]
  BY DEF IInv, TypeOK
<1>2. x \in Objects
  BY DEF IInv, ObjectMatchesCall, WaitOps, Objects
<1>3. wq[x] \in Seq(Threads) /\ IsInjective(wq[x]) /\ t \in ToSet(wq[x])
  BY <1>1, <1>2 DEF IInv, WaitQueuesExact
<1>4. /\ wq'[x] \in Seq(Threads) /\ IsInjective(wq'[x])
      /\ \A y : y \in ToSet(wq'[x]) <=> y \in ToSet(wq[x]) /\ y # t
      /\ \A p \in Objects : p # x => wq'[p] = wq[p]
  BY <1>1, <1>2, <1>3, UnlinkLemma
<1>5. wq' \in [Objects -> Seq(Threads)]
  BY <1>1, <1>4
<1>6. /\ op'[t] = o /\ \A y \in Threads : y # t => op'[y] = op[y]
      /\ obj'[t] = None /\ \A y \in Threads : y # t => obj'[y] = obj[y]
  BY <1>1
<1>7. QED
  BY <1>2, <1>4, <1>5, <1>6 DEF IInv, WaitQueuesExact

-----------------------------------------------------------------------------
(* Thread creation and termination.                                        *)

(* A new thread is runnable at once; its creator goes on.                 *)
LEMMA Create ==
  ASSUME IInv, NEW t \in Threads, NEW u \in Threads, NEW j \in BOOLEAN,
         st_thread_create(t, u, j)
  PROVE  IInv'
<1>1. /\ cur = t /\ state[u] = "UNUSED" /\ op[u] = "user"
      /\ state' = [state EXCEPT ![u] = "RUNNABLE"]
      /\ runq' = Append(runq, u)
      /\ term \subseteq term' /\ term' \subseteq term \cup {u}
      /\ active' = active + 1 /\ ret' = "ok"
      /\ UNCHANGED <<cur, op, obj, zombieq, sleepq, due, wq, ioq, scan, intr,
                     tmdout, owner, live>>
  BY DEF st_thread_create, Calling, InUserCode, ReturnNow, ioVars, flagVars,
         lockVars, IInv, CallMatchesState
<1>2. /\ state' \in [Threads \cup {Idle} -> States]
      /\ runq' \in Seq(Threads)
      /\ RunQueueExact'
      /\ OneRunning'
      /\ state'[u] = "RUNNABLE"
      /\ \A x \in Threads \cup {Idle} : x # u => state'[x] = state[x]
  BY <1>1, WakeLemma
<1>3. cur # Idle /\ u # Idle
  BY <1>1, ThreadsAssumption
<1>4. TypeOK'
  BY <1>1, <1>2 DEF IInv, TypeOK, Rets
<1>5. SleepersWait' /\ IoQueueExact'
  BY <1>1, <1>2 DEF IInv, TypeOK, SleepersWait, IoQueueExact
<1>6. ZombieQueueExact' /\ InterruptedNotBlocked'
  BY <1>1, <1>2
  DEF IInv, TypeOK, ZombieQueueExact, InterruptedNotBlocked, Blocked
<1>7. WaitQueuesExact' /\ NoUseAfterDestroy' /\ ObjectMatchesCall'
  BY <1>1 DEF IInv, WaitQueuesExact, NoUseAfterDestroy, ObjectMatchesCall
<1>8. NoLostHandoff' /\ HandoffKept'
  BY <1>1, <1>2 DEF IInv, NoLostHandoff, HandoffKept
<1>9. CallMatchesState' /\ TimedoutScoped'
  BY <1>1, <1>2 DEF IInv, CallMatchesState, TimedoutScoped, TypeOK
<1>10. IdleInOrder' /\ DispatchMeetsWaiters'
  BY <1>1, <1>2, <1>3 DEF IInv, IdleInOrder, DispatchMeetsWaiters
<1>11. QED
  BY <1>2, <1>4, <1>5, <1>6, <1>7, <1>8, <1>9, <1>10 DEF IInv

(* The current thread leaves, as a zombie or for good; W is the waiter of   *)
(* its termination that it wakes, if any.                                  *)
LEMMA ExitLemma ==
  ASSUME IInv, NEW t \in Threads, cur = t, op[t] \in {"user", "exit"},
         NEW W, \A x \in W : x \in Threads /\ state[x] = "COND_WAIT",
         NEW st \in [Threads \cup {Idle} -> States], NEW rq \in Seq(Threads),
         NEW s \in {"ZOMBIE", "DEAD"},
         st[t] = s, \A x \in W : st[x] = "RUNNABLE",
         \A x \in Threads \cup {Idle} : x # t /\ x \notin W => st[x] = state[x],
         IsInjective(rq),
         \A x : x \in ToSet(rq) <=> x \in ToSet(runq) \/ x \in W,
         vp_schedule(st, rq),
         op' = [op EXCEPT ![t] = IF s = "ZOMBIE" THEN "exit" ELSE "done"],
         zombieq' = IF s = "ZOMBIE" THEN zombieq \cup {t} ELSE zombieq,
         sleepq' = sleepq \ W, due' \in [Threads -> Int],
         intr' \subseteq intr, intr \ intr' \subseteq {t},
         term' \subseteq term, term \ term' \subseteq {t},
         s = "ZOMBIE" => t \in term',
         active' \in Int, ret' \in Rets,
         UNCHANGED <<obj, tmdout, wq, ioq, scan, owner, live>>
  PROVE  IInv'
<1>1. /\ t # Idle /\ state[t] = "RUNNING" /\ t \notin W
      /\ op \in [Threads \cup {Idle} -> Ops]
  BY ThreadsAssumption DEF IInv, OneRunning, TypeOK
<1>2. /\ \A x \in Threads : x \in ToSet(rq) <=> st[x] = "RUNNABLE"
      /\ \A x \in Threads \cup {Idle} : st[x] # "RUNNING"
      /\ st[Idle] = "RUNNABLE"
  <2>1. Idle \notin W /\ state[Idle] = "RUNNABLE"
    BY <1>1, ThreadsAssumption DEF IInv, IdleInOrder, OneRunning
  <2>2. QED
    BY <1>1, <2>1 DEF IInv, RunQueueExact, OneRunning
<1>3. /\ cur' \in Threads \cup {Idle}
      /\ state' \in [Threads \cup {Idle} -> States]
      /\ runq' \in Seq(Threads)
      /\ RunQueueExact'
      /\ OneRunning'
      /\ st[cur'] = "RUNNABLE"
      /\ state'[cur'] = "RUNNING"
      /\ \A x \in Threads \cup {Idle} : x # cur' => state'[x] = st[x]
      /\ cur' = Idle => runq' = <<>>
  BY <1>2, ScheduleLemma
<1>4. /\ op'[t] = IF s = "ZOMBIE" THEN "exit" ELSE "done"
      /\ \A y \in Threads \cup {Idle} : y # t => op'[y] = op[y]
  BY <1>1
<1>5. /\ state'[t] = s /\ cur' # t
      /\ \A x \in Threads \cup {Idle} :
           x # t => \/ state'[x] = state[x] /\ x \notin W
                    \/ state[x] = "RUNNABLE" /\ state'[x] = "RUNNING"
                    \/ /\ x \in W /\ state[x] = "COND_WAIT"
                       /\ state'[x] \in {"RUNNABLE", "RUNNING"}
  BY <1>1, <1>3
<1>6. \A x \in W : state'[x] \in {"RUNNABLE", "RUNNING"}
  BY <1>3
<1>7. TypeOK'
  BY <1>3, <1>1 DEF IInv, TypeOK, Ops
<1>8. WaitQueuesExact'
  BY <1>4 DEF IInv, WaitQueuesExact, WaitOps
<1>9. SleepersWait'
  BY <1>1, <1>5 DEF IInv, SleepersWait, TypeOK
<1>10. IoQueueExact'
  BY <1>1, <1>4, <1>5 DEF IInv, IoQueueExact
<1>11. ZombieQueueExact'
  BY <1>1, <1>5 DEF IInv, ZombieQueueExact
<1>12. DispatchMeetsWaiters' /\ IdleInOrder'
  BY <1>1, <1>3, <1>4, ThreadsAssumption
  DEF IInv, DispatchMeetsWaiters, IdleInOrder
<1>13. InterruptedNotBlocked'
  BY <1>1, <1>5 DEF IInv, InterruptedNotBlocked, Blocked, TypeOK
<1>14. TimedoutScoped'
  BY <1>1, <1>4, <1>5 DEF IInv, TimedoutScoped, TypeOK
<1>15. NoLostHandoff'
  BY <1>1, <1>4, <1>5 DEF IInv, NoLostHandoff
<1>16. NoUseAfterDestroy'
  BY <1>4 DEF IInv, NoUseAfterDestroy
<1>17. CallMatchesState'
  BY <1>1, <1>4, <1>5 DEF IInv, CallMatchesState, WaitOps
<1>18. ObjectMatchesCall'
  BY <1>4 DEF IInv, ObjectMatchesCall, WaitOps
<1>19. HandoffKept'
  BY <1>1, <1>4, <1>5 DEF IInv, HandoffKept
<1>20. QED
  BY <1>3, <1>7, <1>8, <1>9, <1>10, <1>11, <1>12, <1>13, <1>14, <1>15, <1>16,
     <1>17, <1>18, <1>19 DEF IInv

(* st_thread_exit of a joinable thread, with and without a waiter, and of  *)
(* any other.                                                              *)
LEMMA Exit ==
  ASSUME IInv, NEW t \in Threads, st_thread_exit(t)
  PROVE  IInv'
<1>1. /\ cur = t /\ op[t] = "user" /\ state[t] = "RUNNING"
      /\ active' \in Int /\ ret' \in Rets
      /\ UNCHANGED <<obj, tmdout, wq, ioq, scan, owner, live, term>>
  BY DEF st_thread_exit, Calling, InUserCode, ioVars, lockVars, Rets, IInv,
         TypeOK, OneRunning
<1>2. /\ state \in [Threads \cup {Idle} -> States]
      /\ runq \in Seq(Threads) /\ IsInjective(runq)
      /\ due \in [Threads -> Int]
      /\ \A x \in Threads : x \in ToSet(runq) <=> state[x] = "RUNNABLE"
  BY DEF IInv, TypeOK, RunQueueExact
<1>3. ASSUME t \in term, NEW u \in FirstIn(t, "COND_WAIT"), del_sleep_q(u),
             vp_schedule([state EXCEPT ![t] = "ZOMBIE", ![u] = "RUNNABLE"],
                         Append(runq, u)),
             zombieq' = zombieq \cup {t}, op' = [op EXCEPT ![t] = "exit"],
             UNCHANGED intr
      PROVE  IInv'
  <2> DEFINE st == [state EXCEPT ![t] = "ZOMBIE", ![u] = "RUNNABLE"]
  <2>1. u \in Threads /\ state[u] = "COND_WAIT"
    BY <1>3, FirstInLemma DEF IInv, Objects
  <2>2. /\ st \in [Threads \cup {Idle} -> States]
        /\ st[t] = "ZOMBIE" /\ st[u] = "RUNNABLE"
        /\ \A x \in Threads \cup {Idle} : x # t /\ x # u => st[x] = state[x]
    BY <1>1, <1>2, <2>1 DEF States
  <2> DEFINE W == {u}
             rq == Append(runq, u)
  <2>3. /\ rq \in Seq(Threads) /\ IsInjective(rq)
        /\ \A x : x \in ToSet(rq) <=> x \in ToSet(runq) \/ x = u
    BY <1>2, <2>1, AppendLemma
  <2>4. sleepq' = sleepq \ W /\ due' = [due EXCEPT ![u] = 0]
    BY <1>3 DEF del_sleep_q
  <2>5. due' \in [Threads -> Int]
    BY <1>2, <2>1, <2>4
  <2>6. vp_schedule(st, rq)
    BY <1>3
  <2>7. \A x : x \in W <=> x = u
    OBVIOUS
  <2> HIDE DEF st, W, rq
  <2>8. /\ \A x \in W : x \in Threads /\ state[x] = "COND_WAIT"
        /\ \A x \in W : st[x] = "RUNNABLE"
        /\ \A x \in Threads \cup {Idle} : x # t /\ x \notin W => st[x] = state[x]
        /\ \A x : x \in ToSet(rq) <=> x \in ToSet(runq) \/ x \in W
    BY <2>1, <2>2, <2>3, <2>7
  <2>9. /\ intr' \subseteq intr /\ intr \ intr' \subseteq {t}
        /\ term' \subseteq term
        /\ term \ term' \subseteq {t} /\ t \in term'
    BY <1>1, <1>3
  <2>10. QED
    BY <1>1, <1>3, <2>2, <2>3, <2>4, <2>5, <2>6, <2>8, <2>9, ExitLemma
<1>4. ASSUME t \in term, UNCHANGED <<intr, sleepq, due>>,
             vp_schedule([state EXCEPT ![t] = "ZOMBIE"], runq),
             zombieq' = zombieq \cup {t}, op' = [op EXCEPT ![t] = "exit"]
      PROVE  IInv'
  <2> DEFINE st == [state EXCEPT ![t] = "ZOMBIE"]
             W == {}
  <2>1. /\ st \in [Threads \cup {Idle} -> States] /\ st[t] = "ZOMBIE"
        /\ \A x \in Threads \cup {Idle} : x # t => st[x] = state[x]
    BY <1>1, <1>2 DEF States
  <2>2. vp_schedule(st, runq)
    BY <1>4
  <2>3. sleepq' = sleepq \ W /\ \A x : x \notin W
    BY <1>4
  <2> HIDE DEF st, W
  <2>4. QED
    BY <1>1, <1>2, <1>4, <2>1, <2>2, <2>3, ExitLemma
<1>5. ASSUME t \notin term, intr' = intr \ {t},
             UNCHANGED <<zombieq, sleepq, due>>,
             vp_schedule([state EXCEPT ![t] = "DEAD"], runq),
             op' = [op EXCEPT ![t] = "done"]
      PROVE  IInv'
  <2> DEFINE st == [state EXCEPT ![t] = "DEAD"]
             W == {}
  <2>1. /\ st \in [Threads \cup {Idle} -> States] /\ st[t] = "DEAD"
        /\ \A x \in Threads \cup {Idle} : x # t => st[x] = state[x]
    BY <1>1, <1>2 DEF States
  <2>2. vp_schedule(st, runq)
    BY <1>5
  <2>3. sleepq' = sleepq \ W /\ \A x : x \notin W
    BY <1>5
  <2> HIDE DEF st, W
  <2>4. QED
    BY <1>1, <1>2, <1>5, <2>1, <2>2, <2>3, ExitLemma
<1>6. QED
  BY <1>3, <1>4, <1>5 DEF st_thread_exit

(* A joined thread frees its structure.                                    *)
LEMMA ExitResume ==
  ASSUME IInv, NEW t \in Threads, st_thread_exit_resume(t)
  PROVE  IInv'
<1> DEFINE st == [state EXCEPT ![t] = "DEAD"]
           W == {}
<1>1. /\ cur = t /\ op[t] = "exit" /\ state[t] = "RUNNING"
      /\ active' \in Int /\ ret' \in Rets
      /\ term' = term \ {t} /\ intr' = intr \ {t}
      /\ op' = [op EXCEPT ![t] = "done"]
      /\ UNCHANGED <<obj, tmdout, wq, ioq, scan, owner, live, zombieq, sleepq,
                     due>>
  BY DEF st_thread_exit_resume, Resumed, ioVars, lockVars, Rets, IInv, TypeOK,
         OneRunning
<1>2. /\ runq \in Seq(Threads) /\ IsInjective(runq)
      /\ due' \in [Threads -> Int]
  BY <1>1 DEF IInv, TypeOK, RunQueueExact
<1>3. /\ st \in [Threads \cup {Idle} -> States] /\ st[t] = "DEAD"
      /\ \A x \in Threads \cup {Idle} : x # t => st[x] = state[x]
  BY <1>1 DEF States, IInv, TypeOK
<1>4. vp_schedule(st, runq)
  BY DEF st_thread_exit_resume
<1>5. sleepq' = sleepq \ W /\ \A x : x \notin W
  BY <1>1
<1> HIDE DEF st, W
<1>6. QED
  BY <1>1, <1>2, <1>3, <1>4, <1>5, ExitLemma

(* st_thread_join fails, reaps a zombie, or waits.                         *)
LEMMA Join ==
  ASSUME IInv, NEW t \in Threads, NEW u \in Threads, st_thread_join(t, u)
  PROVE  IInv'
<1>1. CASE EintrOnEntry(t)
  BY <1>1, EntryLemma DEF st_thread_join, Calling
<1>2. CASE /\ \E r \in Rets : ReturnNow(r)
           /\ UNCHANGED <<wq, schedVars, ioVars, flagVars, lockVars,
                          joinVars>>
  <2>1. InUserCode(t) /\ UNCHANGED <<state, op, obj, intr, owner, live>>
    BY <1>2
    DEF st_thread_join, Calling, schedVars, flagVars, lockVars, ReturnNow
  <2>2. NoLostHandoff' /\ NoUseAfterDestroy' /\ HandoffKept'
    BY <2>1 DEF IInv, NoLostHandoff, NoUseAfterDestroy, HandoffKept
  <2>3. QED
    BY <1>2, <2>1, <2>2, LockVarsLemma DEF IInv, TypeOK
<1>3. CASE /\ state[u] = "ZOMBIE" /\ Reap(u) /\ ReturnNow("ok")
           /\ UNCHANGED <<sleepq, due, wq, term, active, ioVars, flagVars,
                          lockVars>>
  <2>1. /\ state' \in [Threads \cup {Idle} -> States]
        /\ runq' \in Seq(Threads)
        /\ RunQueueExact'
        /\ OneRunning'
        /\ state'[u] = "RUNNABLE"
        /\ \A x \in Threads \cup {Idle} : x # u => state'[x] = state[x]
    BY <1>3, WakeLemma DEF Reap, ReturnNow
  <2>2. /\ InUserCode(t) /\ u # t /\ u # Idle /\ ret' = "ok"
        /\ zombieq' = zombieq \ {u}
        /\ UNCHANGED <<cur, op, obj, sleepq, due, wq, term, active, ioq, scan,
                       intr, tmdout, owner, live>>
    BY <1>3, ThreadsAssumption
    DEF st_thread_join, Calling, InUserCode, ReturnNow, Reap, ioVars,
        flagVars, lockVars, IInv, OneRunning
  <2>3. TypeOK'
    BY <2>1, <2>2 DEF IInv, TypeOK, Rets
  <2>4. /\ SleepersWait' /\ IoQueueExact'
        /\ ZombieQueueExact' /\ InterruptedNotBlocked'
    <3>1. SleepersWait'
      BY <1>3, <2>1, <2>2 DEF IInv, TypeOK, SleepersWait
    <3>2. IoQueueExact'
      BY <1>3, <2>1, <2>2 DEF IInv, IoQueueExact
    <3>3. ZombieQueueExact'
      BY <1>3, <2>1, <2>2 DEF IInv, ZombieQueueExact
    <3>4. InterruptedNotBlocked'
      BY <1>3, <2>1, <2>2 DEF IInv, TypeOK, InterruptedNotBlocked, Blocked
    <3>5. QED
      BY <3>1, <3>2, <3>3, <3>4
  <2>5. WaitQueuesExact' /\ NoUseAfterDestroy' /\ ObjectMatchesCall'
    BY <2>2 DEF IInv, WaitQueuesExact, NoUseAfterDestroy, ObjectMatchesCall
  <2>6. NoLostHandoff' /\ HandoffKept' /\ CallMatchesState' /\ TimedoutScoped'
    <3>1. NoLostHandoff'
      BY <1>3, <2>1, <2>2 DEF IInv, TypeOK, NoLostHandoff
    <3>2. HandoffKept'
      BY <1>3, <2>1, <2>2 DEF IInv, TypeOK, HandoffKept
    <3>3. CallMatchesState'
      BY <1>3, <2>1, <2>2 DEF IInv, TypeOK, CallMatchesState
    <3>4. TimedoutScoped'
      BY <1>3, <2>1, <2>2 DEF IInv, TypeOK, TimedoutScoped
    <3>5. QED
      BY <3>1, <3>2, <3>3, <3>4
  <2>7. DispatchMeetsWaiters' /\ IdleInOrder'
    BY <2>1, <2>2, ThreadsAssumption
    DEF IInv, DispatchMeetsWaiters, IdleInOrder, InUserCode
  <2>8. QED
    BY <2>1, <2>3, <2>4, <2>5, <2>6, <2>7 DEF IInv
<1>4. CASE /\ t \notin intr
           /\ wq' = [wq EXCEPT ![u] = Append(@, t)]
           /\ SwitchOut(t, "COND_WAIT", "join", u, NO_TIMEOUT)
           /\ UNCHANGED <<ioVars, flagVars, lockVars, joinVars>>
  <2>1. /\ cur = t /\ op[t] = "user" /\ t \notin intr \cup tmdout
        /\ u \in Objects
    BY <1>4
    DEF st_thread_join, Calling, InUserCode, IInv, TimedoutScoped, Objects
  <2>2. op' = [op EXCEPT ![t] = "join"] /\ obj' = [obj EXCEPT ![t] = u]
    BY <1>4 DEF SwitchOut
  <2>3. WaitQueuesExact' /\ wq' \in [Objects -> Seq(Threads)]
    BY <1>4, <2>1, <2>2, LinkLemma DEF WaitOps
  <2>4. UNCHANGED <<ioq, scan>>
    BY <1>4 DEF ioVars
  <2>5. QED
    BY <1>4, <2>1, <2>3, <2>4, BlockLemma DEF BlockingCall
<1>5. QED
  BY <1>1, <1>2, <1>3, <1>4 DEF st_thread_join, Rets

(* The loop of st_thread_join fails, reaps the zombie, or waits again.     *)
LEMMA JoinResume ==
  ASSUME IInv, NEW t \in Threads, st_thread_join_resume(t)
  PROVE  IInv'
<1> DEFINE u == obj[t]
<1>1. /\ cur = t /\ op[t] = "join" /\ op[t] \in WaitOps
      /\ "user" \notin WaitOps
      /\ u \in Threads /\ u \in Objects /\ state[t] = "RUNNING" /\ t # Idle
  BY ThreadsAssumption
  DEF st_thread_join_resume, Resumed, WaitOps, IInv, ObjectMatchesCall,
      OneRunning, Objects
<1>2. UNCHANGED <<term, active, ioq, scan, owner, live>>
  BY DEF st_thread_join_resume, ioVars, lockVars
<1>3. CASE /\ LeaveWaitQueue(t) /\ ReturnFrom(t, TimedwaitResult(t))
           /\ UNCHANGED <<zombieq, schedVars>>
  <2>1. TimedwaitResult(t) \in Rets
    BY DEF TimedwaitResult, Rets
  <2>2. /\ intr' = intr \ {t} /\ tmdout' = tmdout \ {t}
        /\ wq' = [wq EXCEPT ![obj[t]] = Unlink(@, t)]
        /\ op' = [op EXCEPT ![t] = "user"] /\ obj' = [obj EXCEPT ![t] = None]
        /\ UNCHANGED state
    BY <1>3 DEF LeaveWaitQueue, ReturnFrom, schedVars
  <2>3. WaitQueuesExact' /\ wq' \in [Objects -> Seq(Threads)]
    BY <1>1, <2>2, UnlinkWaiterLemma
  <2>4. IoQueueExact' /\ ioq' \in Seq(Threads)
    BY <1>1, <1>2, <2>2 DEF IInv, IoQueueExact, TypeOK
  <2>5. UNCHANGED lockVars
    BY <1>2 DEF lockVars
  <2>6. QED
    BY <1>1, <1>2, <1>3, <2>1, <2>2, <2>3, <2>4, <2>5, ReturnLemma
<1>4. CASE /\ state[u] = "ZOMBIE" /\ LeaveWaitQueue(t) /\ Reap(u)
           /\ ReturnFrom(t, "ok") /\ UNCHANGED <<sleepq, due>>
  <2>1. /\ intr' = intr \ {t} /\ tmdout' = tmdout \ {t}
        /\ wq' = [wq EXCEPT ![obj[t]] = Unlink(@, t)]
        /\ op' = [op EXCEPT ![t] = "user"] /\ obj' = [obj EXCEPT ![t] = None]
        /\ ret' = "ok" /\ zombieq' = zombieq \ {u}
        /\ UNCHANGED <<cur, sleepq, due>>
    BY <1>4 DEF LeaveWaitQueue, ReturnFrom, Reap
  <2>2. WaitQueuesExact' /\ wq' \in [Objects -> Seq(Threads)]
    BY <1>1, <2>1, UnlinkWaiterLemma
  <2>3. /\ state' \in [Threads \cup {Idle} -> States]
        /\ runq' \in Seq(Threads)
        /\ RunQueueExact'
        /\ OneRunning'
        /\ state'[u] = "RUNNABLE"
        /\ \A x \in Threads \cup {Idle} : x # u => state'[x] = state[x]
    BY <1>1, <1>4, <2>1, WakeLemma DEF Reap
  <2>4. /\ op \in [Threads \cup {Idle} -> Ops]
        /\ obj \in [Threads -> Objects \cup {None}]
    BY DEF IInv, TypeOK
  <2>5. /\ op'[t] = "user"
        /\ \A y \in Threads \cup {Idle} : y # t => op'[y] = op[y]
        /\ obj'[t] = None /\ \A y \in Threads : y # t => obj'[y] = obj[y]
        /\ op[u] = "exit" /\ u # t /\ u # Idle
    BY <1>1, <1>4, <2>1, <2>4, ThreadsAssumption DEF IInv, CallMatchesState
  <2>6. TypeOK'
    BY <1>2, <2>1, <2>2, <2>3, <2>4 DEF IInv, TypeOK, Rets, Ops
  <2>7. /\ SleepersWait' /\ IoQueueExact'
        /\ ZombieQueueExact' /\ InterruptedNotBlocked'
    <3>1. SleepersWait'
      BY <1>4, <2>1, <2>3 DEF IInv, TypeOK, SleepersWait
    <3>2. IoQueueExact'
      BY <1>1, <1>2, <1>4, <2>3, <2>5 DEF IInv, IoQueueExact
    <3>3. ZombieQueueExact'
      BY <1>2, <1>4, <2>1, <2>3 DEF IInv, ZombieQueueExact
    <3>4. InterruptedNotBlocked'
      BY <2>1, <2>3 DEF IInv, TypeOK, InterruptedNotBlocked, Blocked
    <3>5. QED
      BY <3>1, <3>2, <3>3, <3>4
  <2>8. NoUseAfterDestroy' /\ ObjectMatchesCall'
    BY <1>2, <2>5 DEF IInv, NoUseAfterDestroy, ObjectMatchesCall, WaitOps
  <2>9. NoLostHandoff' /\ HandoffKept'
    BY <1>1, <1>2, <1>4, <2>1, <2>3, <2>5 DEF IInv, NoLostHandoff, HandoffKept
  <2>10. CallMatchesState'
    BY <1>1, <1>4, <2>1, <2>3, <2>5 DEF IInv, CallMatchesState
  <2>11. TimedoutScoped'
    BY <1>1, <1>4, <2>1, <2>3, <2>5 DEF IInv, TimedoutScoped, TypeOK
  <2>12. DispatchMeetsWaiters' /\ IdleInOrder'
    BY <1>1, <2>1, <2>3, <2>5 DEF IInv, DispatchMeetsWaiters, IdleInOrder
  <2>13. QED
    BY <2>2, <2>3, <2>6, <2>7, <2>8, <2>9, <2>10, <2>11, <2>12 DEF IInv
<1>5. CASE /\ TimedwaitResult(t) = "ok"
           /\ wq' = [wq EXCEPT ![u] = Append(Unlink(@, t), t)]
           /\ SwitchOut(t, "COND_WAIT", "join", u, NO_TIMEOUT)
           /\ UNCHANGED <<zombieq, flagVars>>
  <2>1. t \notin intr \cup tmdout
    BY <1>5 DEF TimedwaitResult
  <2>2. op' = [op EXCEPT ![t] = "join"] /\ obj' = [obj EXCEPT ![t] = u]
    BY <1>5 DEF SwitchOut
  <2>3. /\ wq \in [Objects -> Seq(Threads)]
        /\ op \in [Threads \cup {Idle} -> Ops]
        /\ obj \in [Threads -> Objects \cup {None}]
    BY DEF IInv, TypeOK
  <2>4. wq[u] \in Seq(Threads) /\ IsInjective(wq[u]) /\ t \in ToSet(wq[u])
    BY <1>1, <2>3 DEF IInv, WaitQueuesExact
  <2> DEFINE v == Unlink(wq[u], t)
  <2>5. /\ v \in Seq(Threads) /\ IsInjective(v)
        /\ \A y : y \in ToSet(v) <=> y \in ToSet(wq[u]) /\ y # t
    BY <2>4, UnlinkLemma
  <2>6. wq' = [wq EXCEPT ![u] = Append(v, t)]
    BY <1>1, <1>5, <2>3
  <2> HIDE DEF v
  <2>7. /\ wq'[u] \in Seq(Threads) /\ IsInjective(wq'[u])
        /\ \A y : y \in ToSet(wq'[u]) <=> y \in ToSet(wq[u])
        /\ \A p \in Objects : p # u => wq'[p] = wq[p]
    BY <1>1, <2>3, <2>4, <2>5, <2>6, AppendLemma
  <2>8. wq' \in [Objects -> Seq(Threads)]
    BY <1>1, <2>3, <2>6, <2>7
  <2>9. /\ \A y \in Threads : op'[y] = op[y]
        /\ \A y \in Threads : obj'[y] = obj[y]
    BY <1>1, <2>2, <2>3
  <2>10. WaitQueuesExact'
    BY <1>1, <2>7, <2>9 DEF IInv, WaitQueuesExact
  <2>11. UNCHANGED <<scan, flagVars, lockVars, joinVars>>
    BY <1>2, <1>5 DEF lockVars, joinVars
  <2>12. QED
    BY <1>1, <1>2, <1>5, <2>1, <2>8, <2>10, <2>11, BlockLemma DEF BlockingCall
<1>6. QED
  BY <1>3, <1>4, <1>5 DEF st_thread_join_resume

(* An interrupt wakes a blocked thread and only marks any other.           *)
LEMMA Interrupt ==
  ASSUME IInv, NEW t \in Threads, NEW u \in Threads, st_thread_interrupt(t, u)
  PROVE  IInv'
<1>1. /\ cur = t /\ ret' = "ok" /\ ret' \in Rets
      /\ UNCHANGED <<cur, op, obj, wq, tmdout, ioVars, lockVars, joinVars>>
  BY DEF st_thread_interrupt, Calling, InUserCode, ReturnNow, Rets
<1>2. CASE MakeRunnable(u) /\ state[u] \in Blocked /\ intr' = intr \cup {u}
  BY <1>1, <1>2, WokenLemma
<1>3. CASE /\ UNCHANGED schedVars /\ state[u] \notin Blocked
           /\ intr \subseteq intr' /\ intr' \subseteq intr \cup {u}
  <2>1. UNCHANGED <<cur, op, obj, wq, state, runq, sleepq, due, ioq, scan,
                    tmdout, zombieq, term, active, owner, live>>
    BY <1>1, <1>3 DEF schedVars, ioVars, lockVars, joinVars
  <2>2. TypeOK'
    BY <1>1, <1>3, <2>1 DEF IInv, TypeOK
  <2>3. RunQueueExact' /\ OneRunning' /\ SleepersWait' /\ ZombieQueueExact'
    BY <2>1 DEF IInv, RunQueueExact, OneRunning, SleepersWait,
                ZombieQueueExact
  <2>4. WaitQueuesExact' /\ IoQueueExact' /\ DispatchMeetsWaiters'
    BY <2>1 DEF IInv, WaitQueuesExact, IoQueueExact, DispatchMeetsWaiters
  <2>5. InterruptedNotBlocked' /\ TimedoutScoped' /\ IdleInOrder'
    BY <1>3, <2>1 DEF IInv, InterruptedNotBlocked, TimedoutScoped, IdleInOrder
  <2>6. CallMatchesState' /\ ObjectMatchesCall'
    BY <2>1 DEF IInv, CallMatchesState, ObjectMatchesCall
  <2>7. NoLostHandoff' /\ HandoffKept' /\ NoUseAfterDestroy'
    BY <1>3, <2>1 DEF IInv, NoLostHandoff, HandoffKept, NoUseAfterDestroy
  <2>8. QED
    BY <2>2, <2>3, <2>4, <2>5, <2>6, <2>7 DEF IInv
<1>4. QED
  BY <1>2, <1>3 DEF st_thread_interrupt, Blocked

-----------------------------------------------------------------------------
(* Sleeping and waiting for I/O.                                           *)

(* st_usleep joins no queue but the heap.                                  *)
LEMMA Usleep ==
  ASSUME IInv, NEW t \in Threads, NEW d \in Timeouts, st_usleep(t, d)
  PROVE  IInv'
<1>1. CASE EintrOnEntry(t)
  BY <1>1, EntryLemma DEF st_usleep, Calling
<1>2. CASE t \notin intr
  <2>1. /\ cur = t /\ op[t] = "user" /\ t \notin intr \cup tmdout
        /\ d \in Nat \cup {NO_TIMEOUT}
    BY <1>2, TimesAssumption
    DEF st_usleep, Calling, InUserCode, IInv, TimedoutScoped
  <2>2. PICK s \in {"SLEEPING", "SUSPENDED"} :
             /\ SwitchOut(t, s, "usleep", None, d)
             /\ s = "SLEEPING" \/ d = NO_TIMEOUT
    BY <1>2 DEF st_usleep, EintrOnEntry
  <2>3. UNCHANGED <<wq, ioq, scan, flagVars, lockVars, joinVars>>
    BY <1>2 DEF st_usleep, EintrOnEntry, ioVars
  <2>4. op' = [op EXCEPT ![t] = "usleep"] /\ obj' = [obj EXCEPT ![t] = None]
    BY <2>2 DEF SwitchOut
  <2>5. WaitQueuesExact' /\ wq' \in [Objects -> Seq(Threads)]
    BY <2>1, <2>3, <2>4 DEF IInv, WaitQueuesExact, WaitOps, TypeOK
  <2>6. QED
    BY <2>1, <2>2, <2>3, <2>5, BlockLemma DEF BlockingCall
<1>3. QED
  BY <1>1, <1>2 DEF st_usleep

(* st_usleep returns.                                                      *)
LEMMA UsleepResume ==
  ASSUME IInv, NEW t \in Threads, st_usleep_resume(t)
  PROVE  IInv'
<1>1. cur = t /\ op[t] = "usleep"
  BY DEF st_usleep_resume, Resumed
<1>2. PICK r \in Rets : ReturnFrom(t, r)
  BY DEF st_usleep_resume, Rets
<1>3. /\ intr' = intr \ {t}
      /\ UNCHANGED <<tmdout, wq, ioq, scan, schedVars, lockVars, zombieq,
                     term, active>>
  BY DEF st_usleep_resume, ioVars, joinVars
<1>4. tmdout' = tmdout \ {t}
  BY <1>1, <1>3 DEF IInv, TimedoutScoped
<1>5. /\ op' = [op EXCEPT ![t] = "user"] /\ obj' = [obj EXCEPT ![t] = None]
      /\ UNCHANGED state
  BY <1>2, <1>3 DEF ReturnFrom, schedVars
<1>6. WaitQueuesExact'
  BY <1>1, <1>3, <1>5 DEF IInv, WaitQueuesExact, WaitOps, TypeOK
<1>7. IoQueueExact'
  BY <1>1, <1>3, <1>5 DEF IInv, IoQueueExact, TypeOK
<1>8. wq' \in [Objects -> Seq(Threads)] /\ ioq' \in Seq(Threads)
  BY <1>3 DEF IInv, TypeOK
<1>9. QED
  BY <1>1, <1>2, <1>3, <1>4, <1>6, <1>7, <1>8, ReturnLemma

(* st_poll links its pollq at the end of the ioq.                          *)
LEMMA Poll ==
  ASSUME IInv, NEW t \in Threads, NEW d \in Timeouts, st_poll(t, d)
  PROVE  IInv'
<1>1. CASE EintrOnEntry(t)
  BY <1>1, EntryLemma DEF st_poll, Calling
<1>2. CASE /\ ReturnNow("EFAIL")
           /\ UNCHANGED <<wq, schedVars, ioVars, flagVars, lockVars,
                          joinVars>>
  <2>1. InUserCode(t) /\ UNCHANGED <<state, op, obj, intr, owner, live>>
    BY <1>2 DEF st_poll, Calling, schedVars, flagVars, lockVars, ReturnNow
  <2>2. NoLostHandoff' /\ NoUseAfterDestroy' /\ HandoffKept'
    BY <2>1 DEF IInv, NoLostHandoff, NoUseAfterDestroy, HandoffKept
  <2>3. QED
    BY <1>2, <2>1, <2>2, LockVarsLemma DEF IInv, TypeOK, Rets
<1>3. CASE /\ t \notin intr
           /\ ioq' = Append(ioq, t)
           /\ SwitchOut(t, "IO_WAIT", "poll", None, d)
           /\ UNCHANGED <<scan, wq, flagVars, lockVars, joinVars>>
  <2>1. /\ cur = t /\ op[t] = "user" /\ t \notin intr \cup tmdout
        /\ d \in Nat \cup {NO_TIMEOUT}
    BY <1>3, TimesAssumption
    DEF st_poll, Calling, InUserCode, IInv, TimedoutScoped
  <2>2. op' = [op EXCEPT ![t] = "poll"] /\ obj' = [obj EXCEPT ![t] = None]
    BY <1>3 DEF SwitchOut
  <2>3. WaitQueuesExact' /\ wq' \in [Objects -> Seq(Threads)]
    BY <1>3, <2>1, <2>2 DEF IInv, WaitQueuesExact, WaitOps, TypeOK
  <2>4. QED
    BY <1>3, <2>1, <2>3, BlockLemma DEF BlockingCall
<1>4. QED
  BY <1>1, <1>2, <1>3 DEF st_poll

(* st_poll unlinks it, unless the dispatch has.                            *)
LEMMA PollResume ==
  ASSUME IInv, NEW t \in Threads, st_poll_resume(t)
  PROVE  IInv'
<1>1. cur = t /\ op[t] = "poll"
  BY DEF st_poll_resume, Resumed
<1>2. PICK r \in Rets : ReturnFrom(t, r)
  BY DEF st_poll_resume, Rets
<1>3. /\ intr' = intr \ {t}
      /\ UNCHANGED <<tmdout, wq, scan, schedVars, lockVars, zombieq, term,
                     active>>
  BY DEF st_poll_resume, joinVars
<1>4. tmdout' = tmdout \ {t}
  BY <1>1, <1>3 DEF IInv, TimedoutScoped
<1>5. /\ op' = [op EXCEPT ![t] = "user"] /\ obj' = [obj EXCEPT ![t] = None]
      /\ UNCHANGED state
  BY <1>2, <1>3 DEF ReturnFrom, schedVars
<1>6. WaitQueuesExact' /\ wq' \in [Objects -> Seq(Threads)]
  BY <1>1, <1>3, <1>5 DEF IInv, WaitQueuesExact, WaitOps, TypeOK
<1>7. /\ ioq' \in Seq(Threads) /\ IsInjective(ioq')
      /\ \A y : y \in ToSet(ioq') <=> y \in ToSet(ioq) /\ y # t
  <2>1. ioq \in Seq(Threads) /\ IsInjective(ioq)
    BY DEF IInv, TypeOK, IoQueueExact
  <2>2. CASE t \in ToSet(ioq)
    <3>1. ioq' = Unlink(ioq, t)
      BY <2>2 DEF st_poll_resume
    <3>2. QED
      BY <2>1, <2>2, <3>1, UnlinkLemma
  <2>3. CASE t \notin ToSet(ioq)
    <3>1. ioq' = ioq
      BY <2>3 DEF st_poll_resume
    <3>2. QED
      BY <2>1, <2>3, <3>1
  <2>4. QED
    BY <2>2, <2>3
<1>8. IoQueueExact'
  <2>1. state[t] = "RUNNING"
    BY <1>1 DEF IInv, OneRunning
  <2>2. QED
    BY <2>1, <1>5, <1>7 DEF IInv, IoQueueExact, TypeOK
<1>9. QED
  BY <1>1, <1>2, <1>3, <1>4, <1>6, <1>7, <1>8, ReturnLemma

-----------------------------------------------------------------------------
(* Condition variables.                                                    *)

(* st_cond_timedwait links the caller at the end of the wait queue.        *)
LEMMA Timedwait ==
  ASSUME IInv, NEW t \in Threads, NEW c \in Conds, NEW d \in Timeouts,
         st_cond_timedwait(t, c, d)
  PROVE  IInv'
<1>1. CASE EintrOnEntry(t)
  BY <1>1, EntryLemma DEF st_cond_timedwait, Calling
<1>2. CASE /\ t \notin intr
           /\ wq' = [wq EXCEPT ![c] = Append(@, t)]
           /\ SwitchOut(t, "COND_WAIT", "timedwait", c, d)
           /\ UNCHANGED <<ioVars, flagVars, lockVars, joinVars>>
  <2>1. /\ cur = t /\ op[t] = "user" /\ t \notin intr \cup tmdout
        /\ c \in live /\ d \in Nat \cup {NO_TIMEOUT} /\ c \in Objects
    BY <1>2, TimesAssumption
    DEF st_cond_timedwait, Calling, InUserCode, IInv, TimedoutScoped, Objects
  <2>2. op' = [op EXCEPT ![t] = "timedwait"] /\ obj' = [obj EXCEPT ![t] = c]
    BY <1>2 DEF SwitchOut
  <2>3. WaitQueuesExact' /\ wq' \in [Objects -> Seq(Threads)]
    BY <1>2, <2>1, <2>2, LinkLemma DEF WaitOps
  <2>4. UNCHANGED <<ioq, scan>>
    BY <1>2 DEF ioVars
  <2>5. QED
    BY <1>2, <2>1, <2>3, <2>4, BlockLemma DEF BlockingCall
<1>3. QED
  BY <1>1, <1>2 DEF st_cond_timedwait

(* st_cond_timedwait unlinks it, whoever ended the wait.                   *)
LEMMA TimedwaitResume ==
  ASSUME IInv, NEW t \in Threads, st_cond_timedwait_resume(t)
  PROVE  IInv'
<1>1. /\ cur = t /\ op[t] = "timedwait" /\ op[t] \in WaitOps
      /\ "user" \notin WaitOps
  BY DEF st_cond_timedwait_resume, Resumed, WaitOps
<1>2. PICK r \in Rets : ReturnFrom(t, r)
  BY DEF st_cond_timedwait_resume, TimedwaitResult, Rets
<1>3. /\ intr' = intr \ {t} /\ tmdout' = tmdout \ {t}
      /\ wq' = [wq EXCEPT ![obj[t]] = Unlink(@, t)]
      /\ UNCHANGED <<ioq, scan, state, schedVars, lockVars, zombieq, term,
                     active>>
  BY DEF st_cond_timedwait_resume, LeaveWaitQueue, joinVars, ioVars, schedVars
<1>5. /\ op' = [op EXCEPT ![t] = "user"] /\ obj' = [obj EXCEPT ![t] = None]
  BY <1>2, <1>3 DEF ReturnFrom
<1>6. WaitQueuesExact' /\ wq' \in [Objects -> Seq(Threads)]
  BY <1>1, <1>3, <1>5, UnlinkWaiterLemma
<1>7. IoQueueExact' /\ ioq' \in Seq(Threads)
  BY <1>1, <1>3, <1>5 DEF IInv, IoQueueExact, TypeOK
<1>9. QED
  BY <1>1, <1>2, <1>3, <1>6, <1>7, ReturnLemma

(* A signal wakes the first waiter, if there is one.                       *)
LEMMA Signal ==
  ASSUME IInv, NEW t \in Threads, NEW c \in Conds, st_cond_signal(t, c)
  PROVE  IInv'
<1>1. /\ InUserCode(t) /\ cur = t /\ ReturnNow("ok") /\ "ok" \in Rets
      /\ UNCHANGED <<cur, op, obj, intr, owner, live>>
      /\ UNCHANGED <<wq, tmdout, ioVars, flagVars, lockVars, joinVars>>
  BY DEF st_cond_signal, Calling, InUserCode, ReturnNow, Rets, flagVars,
         lockVars
<1>2. ASSUME NEW u \in FirstIn(c, "COND_WAIT"), MakeRunnable(u)
      PROVE  IInv'
  <2>1. u \in Threads /\ state[u] = "COND_WAIT"
    BY FirstInLemma DEF IInv, Objects
  <2>2. QED
    BY <1>1, <1>2, <2>1, WokenLemma DEF Blocked, ReturnNow
<1>3. CASE UNCHANGED schedVars
  <2>1. NoLostHandoff' /\ NoUseAfterDestroy' /\ HandoffKept'
    BY <1>1, <1>3
    DEF IInv, NoLostHandoff, NoUseAfterDestroy, HandoffKept, schedVars
  <2>2. QED
    BY <1>1, <1>3, <2>1, LockVarsLemma DEF IInv, TypeOK
<1>4. QED
  BY <1>2, <1>3 DEF st_cond_signal

(* A broadcast starts its walk over the wait queue.                        *)
LEMMA Broadcast ==
  ASSUME IInv, NEW t \in Threads, NEW c \in Conds, st_cond_broadcast(t, c)
  PROVE  IInv'
<1>1. /\ cur = t /\ op[t] = "user" /\ c \in live /\ state[t] = "RUNNING"
      /\ op' = [op EXCEPT ![t] = "broadcast"] /\ obj' = [obj EXCEPT ![t] = c]
      /\ ret' = "none" /\ t # Idle
      /\ UNCHANGED <<cur, ioq, scan, wq, state, runq, sleepq, due, intr,
                     tmdout, owner, live, zombieq, term, active>>
  BY ThreadsAssumption
  DEF st_cond_broadcast, Calling, InUserCode, IInv, OneRunning, schedVars,
      ioVars, flagVars, lockVars, joinVars
<1>2. /\ op \in [Threads \cup {Idle} -> Ops]
      /\ obj \in [Threads -> Objects \cup {None}]
      /\ op'[t] = "broadcast" /\ obj'[t] = c
      /\ \A y \in Threads \cup {Idle} : y # t => op'[y] = op[y]
      /\ \A y \in Threads : y # t => obj'[y] = obj[y]
  BY <1>1 DEF IInv, TypeOK
<1>3. TypeOK'
  BY <1>1, <1>2 DEF IInv, TypeOK, Ops, Rets, Objects
<1>4. RunQueueExact' /\ OneRunning' /\ SleepersWait' /\ ZombieQueueExact'
      /\ InterruptedNotBlocked'
  BY <1>1 DEF IInv, RunQueueExact, OneRunning, SleepersWait,
              ZombieQueueExact, InterruptedNotBlocked
<1>5. WaitQueuesExact' /\ IoQueueExact' /\ TimedoutScoped'
  BY <1>1, <1>2 DEF IInv, WaitQueuesExact, WaitOps, IoQueueExact,
                    TimedoutScoped, TypeOK
<1>6. NoLostHandoff' /\ HandoffKept' /\ NoUseAfterDestroy'
  BY <1>1, <1>2 DEF IInv, NoLostHandoff, HandoffKept, NoUseAfterDestroy
<1>7. CallMatchesState'
  BY <1>1, <1>2 DEF IInv, CallMatchesState
<1>8. ObjectMatchesCall'
  BY <1>1, <1>2 DEF IInv, ObjectMatchesCall, WaitOps
<1>9. IdleInOrder' /\ DispatchMeetsWaiters'
  BY <1>1, <1>2, ThreadsAssumption
  DEF IInv, IdleInOrder, DispatchMeetsWaiters
<1>10. QED
  BY <1>3, <1>4, <1>5, <1>6, <1>7, <1>8, <1>9 DEF IInv

(* One step of the walk: a waiter woken, or the end.                       *)
LEMMA BroadcastStep ==
  ASSUME IInv, NEW t \in Threads, st_cond_broadcast_step(t)
  PROVE  IInv'
<1> DEFINE c == obj[t]
<1>1. /\ cur = t /\ op[t] = "broadcast" /\ c \in Objects
      /\ UNCHANGED <<wq, ioVars, flagVars, lockVars, joinVars>>
      /\ UNCHANGED <<ioq, scan, intr, tmdout, zombieq, term, active>>
  BY DEF st_cond_broadcast_step, Resumed, ioVars, flagVars, joinVars, IInv,
         ObjectMatchesCall, Objects
<1>2. ASSUME NEW u \in FirstIn(c, "COND_WAIT"), MakeRunnable(u),
             UNCHANGED <<cur, callVars>>
      PROVE  IInv'
  <2>1. u \in Threads /\ state[u] = "COND_WAIT"
    BY <1>1, FirstInLemma DEF IInv
  <2>2. UNCHANGED <<cur, op, obj, ret>> /\ ret \in Rets
    BY <1>2 DEF callVars, IInv, TypeOK
  <2>3. QED
    BY <1>1, <1>2, <2>1, <2>2, WokenLemma DEF Blocked
<1>3. CASE ReturnFrom(t, "ok") /\ UNCHANGED schedVars
  <2>1. /\ op' = [op EXCEPT ![t] = "user"] /\ obj' = [obj EXCEPT ![t] = None]
        /\ UNCHANGED state /\ "ok" \in Rets
    BY <1>3 DEF ReturnFrom, schedVars, Rets
  <2>2. WaitQueuesExact' /\ wq' \in [Objects -> Seq(Threads)]
    BY <1>1, <2>1 DEF IInv, WaitQueuesExact, WaitOps, TypeOK
  <2>3. IoQueueExact' /\ ioq' \in Seq(Threads)
    BY <1>1, <2>1 DEF IInv, IoQueueExact, TypeOK
  <2>4. tmdout' = tmdout \ {t} /\ intr' \subseteq intr
        /\ intr \ intr' \subseteq {t}
    BY <1>1 DEF IInv, TimedoutScoped
  <2>5. QED
    BY <1>1, <1>3, <2>1, <2>2, <2>3, <2>4, ReturnLemma
<1>4. QED
  BY <1>2, <1>3 DEF st_cond_broadcast_step

(* Condition variables come and go only while nobody is linked on them.    *)
LEMMA CondNewDestroy ==
  ASSUME IInv, NEW t \in Threads, NEW c \in Conds,
         st_cond_new(t, c) \/ st_cond_destroy(t, c)
  PROVE  IInv'
<1>1. /\ InUserCode(t)
      /\ \E r \in Rets : ReturnNow(r)
      /\ UNCHANGED <<wq, owner, schedVars, ioVars, flagVars, joinVars>>
      /\ UNCHANGED <<state, op, obj, intr>>
      /\ live' \in SUBSET (live \cup {c})
      /\ live \ {c} \subseteq live'
      /\ wq[c] # <<>> => live \subseteq live'
  BY DEF st_cond_new, st_cond_destroy, Calling, ReturnNow, Rets, schedVars,
         flagVars
<1>2. NoLostHandoff' /\ HandoffKept'
  BY <1>1 DEF IInv, NoLostHandoff, HandoffKept
<1>3. NoUseAfterDestroy'
  <2>1. ASSUME NEW y \in Threads, op[y] \in {"timedwait", "lock"}, obj[y] = c
        PROVE  wq[c] # <<>>
    <3>1. y \in ToSet(wq[c])
      BY <2>1 DEF IInv, WaitQueuesExact, WaitOps, Objects
    <3>2. QED
      BY <3>1, EmptySeq, EmptyLemma
  <2>2. \A y \in Threads : op[y] # "broadcast"
    BY <1>1 DEF IInv, CallMatchesState, InUserCode
  <2>3. \A y \in Threads :
           op[y] \in {"timedwait", "lock", "broadcast"} => obj[y] \in live'
    BY <1>1, <2>1, <2>2 DEF IInv, NoUseAfterDestroy
  <2>4. \A m \in Mutexes \ live' : owner'[m] = None
    BY <1>1, ObjectsAssumption DEF IInv, NoUseAfterDestroy
  <2>5. QED
    BY <1>1, <2>3, <2>4 DEF NoUseAfterDestroy
<1>4. QED
  BY <1>1, <1>2, <1>3, LockVarsLemma DEF IInv, TypeOK

-----------------------------------------------------------------------------
(* Mutexes.                                                                *)

(* st_mutex_lock takes a free mutex or waits for its owner.                *)
LEMMA Lock ==
  ASSUME IInv, NEW t \in Threads, NEW m \in Mutexes, st_mutex_lock(t, m)
  PROVE  IInv'
<1>1. CASE EintrOnEntry(t)
  BY <1>1, EntryLemma DEF st_mutex_lock, Calling
<1>2. CASE /\ \/ /\ owner[m] = None
                 /\ owner' = [owner EXCEPT ![m] = t]
                 /\ ReturnNow("ok")
              \/ ReturnNow("EDEADLK") /\ UNCHANGED owner
           /\ UNCHANGED <<wq, live, schedVars, ioVars, flagVars, joinVars>>
  <2>1. /\ InUserCode(t) /\ m \in live
        /\ \E r \in Rets : ReturnNow(r)
        /\ UNCHANGED <<state, op, obj, intr>>
    BY <1>2 DEF st_mutex_lock, Calling, ReturnNow, Rets, schedVars, flagVars
  <2>2. NoLostHandoff'
    BY <1>2, <2>1 DEF IInv, NoLostHandoff, TypeOK, ObjectMatchesCall
  <2>3. HandoffKept'
    BY <1>2, <2>1, ThreadsAssumption
    DEF IInv, HandoffKept, TypeOK, ObjectMatchesCall, Objects
  <2>4. NoUseAfterDestroy'
    BY <1>2, <2>1 DEF IInv, NoUseAfterDestroy, TypeOK
  <2>5. QED
    BY <1>2, <2>1, <2>2, <2>3, <2>4, LockVarsLemma DEF IInv, TypeOK
<1>3. CASE /\ t \notin intr
           /\ owner[m] \notin {None, t}
           /\ wq' = [wq EXCEPT ![m] = Append(@, t)]
           /\ SwitchOut(t, "LOCK_WAIT", "lock", m, NO_TIMEOUT)
           /\ UNCHANGED <<ioVars, flagVars, lockVars, joinVars>>
  <2>1. /\ cur = t /\ op[t] = "user" /\ t \notin intr \cup tmdout
        /\ m \in live /\ m \in Objects
    BY <1>3
    DEF st_mutex_lock, Calling, InUserCode, IInv, TimedoutScoped, Objects
  <2>2. op' = [op EXCEPT ![t] = "lock"] /\ obj' = [obj EXCEPT ![t] = m]
    BY <1>3 DEF SwitchOut
  <2>3. WaitQueuesExact' /\ wq' \in [Objects -> Seq(Threads)]
    BY <1>3, <2>1, <2>2, LinkLemma DEF WaitOps
  <2>4. UNCHANGED <<ioq, scan>>
    BY <1>3 DEF ioVars
  <2>5. QED
    BY <1>3, <2>1, <2>3, <2>4, BlockLemma DEF BlockingCall
<1>4. QED
  BY <1>1, <1>2, <1>3 DEF st_mutex_lock

(* st_mutex_lock returns, with the mutex or interrupted.                   *)
LEMMA LockResume ==
  ASSUME IInv, NEW t \in Threads, st_mutex_lock_resume(t)
  PROVE  IInv'
<1>1. cur = t /\ op[t] = "lock" /\ op[t] \in WaitOps /\ "user" \notin WaitOps
  BY DEF st_mutex_lock_resume, Resumed, WaitOps
<1>2. PICK r \in Rets : ReturnFrom(t, r)
  BY DEF st_mutex_lock_resume, Rets
<1>3. /\ intr' \subseteq intr /\ intr \ intr' \subseteq {t}
      /\ wq' = [wq EXCEPT ![obj[t]] = Unlink(@, t)]
      /\ UNCHANGED <<ioq, scan, state, tmdout, schedVars, lockVars, zombieq,
                     term, active>>
  BY DEF st_mutex_lock_resume, joinVars, ioVars, schedVars
<1>4. tmdout' = tmdout \ {t}
  BY <1>1, <1>3 DEF IInv, TimedoutScoped
<1>5. /\ op' = [op EXCEPT ![t] = "user"] /\ obj' = [obj EXCEPT ![t] = None]
  BY <1>2, <1>3 DEF ReturnFrom
<1>6. WaitQueuesExact' /\ wq' \in [Objects -> Seq(Threads)]
  BY <1>1, <1>3, <1>5, UnlinkWaiterLemma
<1>7. IoQueueExact' /\ ioq' \in Seq(Threads)
  BY <1>1, <1>3, <1>5 DEF IInv, IoQueueExact, TypeOK
<1>9. QED
  BY <1>1, <1>2, <1>3, <1>4, <1>6, <1>7, ReturnLemma



(* An unlock hands over the mutex, frees it, or is refused.                *)
LEMMA Unlock ==
  ASSUME IInv, NEW t \in Threads, NEW m \in Mutexes, st_mutex_unlock(t, m)
  PROVE  IInv'
<1>1. /\ cur = t /\ op[t] = "user" /\ m \in live /\ m \in Objects
      /\ InUserCode(t) /\ t # Idle
      /\ UNCHANGED <<cur, op, obj, sleepq, due, wq, live, ioq, scan, intr,
                     tmdout, zombieq, term, active>>
      /\ UNCHANGED <<ioVars, flagVars, joinVars>>
  BY ThreadsAssumption
  DEF st_mutex_unlock, Calling, InUserCode, ReturnNow, ioVars, flagVars,
      joinVars, Objects
<1>2. \E r \in Rets : ReturnNow(r)
  BY DEF st_mutex_unlock, Rets
<1>3. ASSUME NEW u \in FirstIn(m, "LOCK_WAIT"), owner[m] = t,
             owner' = [owner EXCEPT ![m] = u],
             state' = [state EXCEPT ![u] = "RUNNABLE"],
             runq' = Append(runq, u)
      PROVE  IInv'
  <2>1. u \in Threads /\ state[u] = "LOCK_WAIT" /\ u \in ToSet(wq[m])
    BY <1>1, FirstInLemma DEF IInv
  <2>2. obj[u] = m /\ op[u] = "lock" /\ u # None /\ u # Idle
    BY <1>1, <2>1, ThreadsAssumption
    DEF IInv, WaitQueuesExact, CallMatchesState, Objects
  <2>3. /\ state' \in [Threads \cup {Idle} -> States]
        /\ runq' \in Seq(Threads)
        /\ RunQueueExact'
        /\ OneRunning'
        /\ state'[u] = "RUNNABLE"
        /\ \A x \in Threads \cup {Idle} : x # u => state'[x] = state[x]
    BY <1>1, <1>3, <2>1, WakeLemma DEF Blocked
  <2>4. /\ owner'[m] = u
        /\ \A n \in Mutexes : n # m => owner'[n] = owner[n]
    BY <1>3 DEF IInv, TypeOK
  <2>5. TypeOK'
    BY <1>1, <1>2, <1>3, <2>1, <2>3 DEF IInv, TypeOK, ReturnNow
  <2>6. SleepersWait' /\ IoQueueExact' /\ ZombieQueueExact'
    BY <1>1, <2>1, <2>3
    DEF IInv, TypeOK, SleepersWait, IoQueueExact, ZombieQueueExact
  <2>7. WaitQueuesExact' /\ ObjectMatchesCall'
    BY <1>1 DEF IInv, WaitQueuesExact, ObjectMatchesCall
  <2>8. InterruptedNotBlocked' /\ TimedoutScoped' /\ CallMatchesState'
    <3>1. InterruptedNotBlocked'
      BY <1>1, <2>1, <2>3 DEF IInv, TypeOK, Blocked, InterruptedNotBlocked
    <3>2. TimedoutScoped'
      BY <1>1, <2>1, <2>3 DEF IInv, TypeOK, Blocked, TimedoutScoped
    <3>3. CallMatchesState'
      BY <1>1, <2>1, <2>3 DEF IInv, TypeOK, Blocked, CallMatchesState
    <3>4. QED
      BY <3>1, <3>2, <3>3
  <2>9. NoUseAfterDestroy'
    BY <1>1, <2>4 DEF IInv, NoUseAfterDestroy
  <2>10. NoLostHandoff'
    BY <1>1, <2>1, <2>2, <2>3, <2>4
    DEF IInv, NoLostHandoff, ObjectMatchesCall
  <2>11. HandoffKept'
    BY <1>1, <1>3, <2>1, <2>2, <2>3, <2>4
    DEF IInv, HandoffKept, ObjectMatchesCall
  <2>12. IdleInOrder' /\ DispatchMeetsWaiters'
    BY <1>1, <2>2, <2>3 DEF IInv, IdleInOrder, DispatchMeetsWaiters
  <2>13. QED
    BY <2>3, <2>5, <2>6, <2>7, <2>8, <2>9, <2>10, <2>11, <2>12 DEF IInv
<1>4. CASE UNCHANGED <<state, runq, owner>>
  <2>1. NoLostHandoff' /\ NoUseAfterDestroy' /\ HandoffKept'
    BY <1>1, <1>4 DEF IInv, NoLostHandoff, NoUseAfterDestroy, HandoffKept
  <2>2. UNCHANGED schedVars
    BY <1>1, <1>4 DEF schedVars
  <2>3. QED
    BY <1>1, <1>2, <1>4, <2>1, <2>2, LockVarsLemma DEF IInv, TypeOK
<1>5. CASE /\ FirstIn(m, "LOCK_WAIT") = {} /\ owner[m] = t
           /\ owner' = [owner EXCEPT ![m] = None]
           /\ UNCHANGED <<state, runq>>
  <2>1. \A x \in Threads : x \in ToSet(wq[m]) => state[x] # "LOCK_WAIT"
    BY <1>1, <1>5, FirstInLemma DEF IInv
  <2>2. NoLostHandoff'
    BY <1>1, <1>5, <2>1
    DEF IInv, NoLostHandoff, WaitQueuesExact, ObjectMatchesCall, WaitOps,
        TypeOK
  <2>3. HandoffKept'
    BY <1>1, <1>5 DEF IInv, HandoffKept, ObjectMatchesCall, TypeOK
  <2>4. NoUseAfterDestroy'
    BY <1>1, <1>5 DEF IInv, NoUseAfterDestroy, TypeOK
  <2>5. owner' \in [Mutexes -> Threads \cup {None}] /\ UNCHANGED schedVars
    BY <1>1, <1>5 DEF IInv, TypeOK, schedVars
  <2>6. QED
    BY <1>1, <1>2, <2>2, <2>3, <2>4, <2>5, LockVarsLemma DEF IInv, TypeOK
<1>6. QED
  BY <1>3, <1>4, <1>5 DEF st_mutex_unlock

(* st_mutex_trylock takes a free mutex.                                    *)
LEMMA Trylock ==
  ASSUME IInv, NEW t \in Threads, NEW m \in Mutexes, st_mutex_trylock(t, m)
  PROVE  IInv'
<1>1. /\ InUserCode(t) /\ m \in live
      /\ \E r \in Rets : ReturnNow(r)
      /\ UNCHANGED <<wq, live, schedVars, ioVars, flagVars, joinVars>>
      /\ UNCHANGED <<state, op, obj, intr>>
      /\ \/ UNCHANGED owner
         \/ owner[m] = None /\ owner' = [owner EXCEPT ![m] = t]
  BY DEF st_mutex_trylock, Calling, ReturnNow, Rets, schedVars, flagVars
<1>2. NoLostHandoff'
  BY <1>1 DEF IInv, NoLostHandoff, TypeOK, ObjectMatchesCall
<1>3. HandoffKept'
  BY <1>1, ThreadsAssumption
  DEF IInv, HandoffKept, TypeOK, ObjectMatchesCall, Objects
<1>4. NoUseAfterDestroy'
  BY <1>1 DEF IInv, NoUseAfterDestroy, TypeOK
<1>5. QED
  BY <1>1, <1>2, <1>3, <1>4, LockVarsLemma DEF IInv, TypeOK

(* Mutexes likewise, and only while nobody owns them.                      *)
LEMMA MutexNewDestroy ==
  ASSUME IInv, NEW t \in Threads, NEW m \in Mutexes,
         st_mutex_new(t, m) \/ st_mutex_destroy(t, m)
  PROVE  IInv'
<1>1. /\ InUserCode(t)
      /\ \E r \in Rets : ReturnNow(r)
      /\ UNCHANGED <<wq, owner, schedVars, ioVars, flagVars, joinVars>>
      /\ UNCHANGED <<state, op, obj, intr>>
      /\ live' \in SUBSET (live \cup {m})
      /\ live \ {m} \subseteq live'
      /\ wq[m] # <<>> \/ (m \in live /\ owner[m] # None) =>
            live \subseteq live'
  BY DEF st_mutex_new, st_mutex_destroy, Calling, ReturnNow, Rets, schedVars,
         flagVars
<1>2. NoLostHandoff' /\ HandoffKept'
  BY <1>1 DEF IInv, NoLostHandoff, HandoffKept
<1>3. NoUseAfterDestroy'
  <2>1. ASSUME NEW y \in Threads, op[y] \in {"timedwait", "lock"}, obj[y] = m
        PROVE  wq[m] # <<>>
    <3>1. y \in ToSet(wq[m])
      BY <2>1 DEF IInv, WaitQueuesExact, WaitOps, Objects
    <3>2. QED
      BY <3>1, EmptySeq, EmptyLemma
  <2>2. \A y \in Threads : op[y] # "broadcast"
    BY <1>1 DEF IInv, CallMatchesState, InUserCode
  <2>3. \A y \in Threads :
           op[y] \in {"timedwait", "lock", "broadcast"} => obj[y] \in live'
    BY <1>1, <2>1, <2>2 DEF IInv, NoUseAfterDestroy
  <2>4. \A n \in Mutexes \ live' : owner'[n] = None
    BY <1>1 DEF IInv, NoUseAfterDestroy
  <2>5. QED
    BY <1>1, <2>3, <2>4 DEF NoUseAfterDestroy
<1>4. QED
  BY <1>1, <1>2, <1>3, LockVarsLemma DEF IInv, TypeOK

-----------------------------------------------------------------------------
(* The idle thread.                                                        *)

(* The idle thread finds the run queue empty, so that whoever is on the    *)
(* ioq waits for I/O when the walk over it starts.                         *)
LEMMA IdleLoop ==
  ASSUME IInv, idle_loop
  PROVE  IInv'
<1>1. /\ cur = Idle /\ op[Idle] = "loop" /\ runq = <<>> /\ scan' = 1
      /\ op' = [op EXCEPT ![Idle] = IF active > 0 THEN "dispatch" ELSE "halted"]
      /\ UNCHANGED <<cur, obj, ret, ioq, wq, state, runq, sleepq, due, intr,
                     tmdout, owner, live, zombieq, term, active>>
  BY DEF idle_loop, IInv, IdleInOrder, schedVars, flagVars, lockVars, joinVars
<1>2. /\ op \in [Threads \cup {Idle} -> Ops] /\ Idle \notin Threads
      /\ op'[Idle] \in {"dispatch", "halted"}
      /\ \A y \in Threads : op'[y] = op[y]
  BY <1>1, ThreadsAssumption DEF IInv, TypeOK
<1>3. DispatchMeetsWaiters'
  <2>1. ioq \in Seq(Threads) /\ \A y \in Threads : y \notin ToSet(runq)
    BY <1>1, EmptySeq, EmptyLemma DEF IInv, TypeOK
  <2>2. ASSUME NEW i \in 1..Len(ioq)
        PROVE  state[ioq[i]] = "IO_WAIT"
    <3>1. ioq[i] \in Threads /\ ioq[i] \in ToSet(ioq)
      BY <2>1, SeqDomain
    <3>2. op[ioq[i]] = "poll" /\ state[ioq[i]] \notin {"RUNNABLE", "RUNNING"}
      BY <1>1, <1>2, <2>1, <3>1
      DEF IInv, IoQueueExact, RunQueueExact, OneRunning
    <3>3. state[ioq[i]] \in States
      BY <3>1 DEF IInv, TypeOK
    <3>4. QED
      BY <3>1, <3>2, <3>3 DEF IInv, CallMatchesState, States
  <2>3. QED
    BY <1>1, <2>2 DEF DispatchMeetsWaiters
<1>4. TypeOK'
  BY <1>1, <1>2 DEF IInv, TypeOK, Ops
<1>5. /\ RunQueueExact' /\ OneRunning' /\ SleepersWait'
      /\ ZombieQueueExact' /\ InterruptedNotBlocked'
  BY <1>1
  DEF IInv, RunQueueExact, OneRunning, SleepersWait, ZombieQueueExact,
      InterruptedNotBlocked
<1>6. WaitQueuesExact' /\ IoQueueExact' /\ TimedoutScoped'
  BY <1>1, <1>2
  DEF IInv, WaitQueuesExact, IoQueueExact, TimedoutScoped, TypeOK
<1>7. NoLostHandoff' /\ HandoffKept' /\ NoUseAfterDestroy'
  BY <1>1, <1>2 DEF IInv, NoLostHandoff, HandoffKept, NoUseAfterDestroy
<1>8. CallMatchesState' /\ ObjectMatchesCall' /\ IdleInOrder'
  BY <1>1, <1>2 DEF IInv, CallMatchesState, ObjectMatchesCall, IdleInOrder
<1>9. QED
  BY <1>3, <1>4, <1>5, <1>6, <1>7, <1>8 DEF IInv

(* The walk notifies a thread; the rest of the ioq moves up by one.        *)
LEMMA DispatchNotify ==
  ASSUME IInv, dispatch_notify
  PROVE  IInv'
<1> DEFINE u == ioq[scan]
<1>1. /\ cur = Idle /\ op[Idle] = "dispatch" /\ scan \in 1..Len(ioq)
      /\ ioq \in Seq(Threads) /\ IsInjective(ioq) /\ u \in Threads
      /\ state[u] = "IO_WAIT" /\ Idle \notin Threads
      /\ scan \in scan..Len(ioq)
  BY ThreadsAssumption
  DEF dispatch_notify, IInv, TypeOK, IoQueueExact, DispatchMeetsWaiters
<1>2. u \in ToSet(ioq)
  BY <1>1, SeqDomain
<1>3. /\ ioq' = Unlink(ioq, u) /\ sleepq' = sleepq \ {u}
      /\ due' = [due EXCEPT ![u] = 0]
      /\ UNCHANGED <<cur, op, obj, ret, scan, wq, intr, tmdout, owner, live,
                     zombieq, term, active>>
  BY DEF dispatch_notify, MakeRunnable, del_sleep_q, flagVars, lockVars,
         joinVars, callVars
<1>4. /\ ioq' \in Seq(Threads) /\ IsInjective(ioq')
      /\ Len(ioq') = Len(ioq) - 1
      /\ \A x : x \in ToSet(ioq') <=> x \in ToSet(ioq) /\ x # u
      /\ \A j \in scan..(Len(ioq) - 1) : ioq'[j] = ioq[j + 1]
  BY <1>1, <1>2, <1>3, UnlinkLemma
<1>5. /\ state' \in [Threads \cup {Idle} -> States]
      /\ runq' \in Seq(Threads)
      /\ RunQueueExact'
      /\ OneRunning'
      /\ state'[u] = "RUNNABLE"
      /\ \A x \in Threads \cup {Idle} : x # u => state'[x] = state[x]
  BY <1>1, <1>3, WakeLemma DEF dispatch_notify, MakeRunnable, Blocked
<1> HIDE DEF u
<1>6. DispatchMeetsWaiters'
  <2>1. ASSUME NEW i \in scan..Len(ioq')
        PROVE  state'[ioq'[i]] = "IO_WAIT"
    <3>1. /\ i \in 1..Len(ioq') /\ i + 1 \in scan..Len(ioq)
          /\ ioq'[i] = ioq[i + 1]
      BY <1>1, <1>4, <2>1
    <3>2. ioq'[i] \in Threads /\ ioq'[i] \in ToSet(ioq')
      BY <1>4, <3>1, SeqDomain
    <3>3. ioq'[i] # u
      BY <1>4, <3>2
    <3>4. state[ioq[i + 1]] = "IO_WAIT"
      BY <1>1, <3>1 DEF IInv, DispatchMeetsWaiters
    <3>5. QED
      BY <1>5, <3>1, <3>2, <3>3, <3>4
  <2>2. QED
    BY <1>3, <2>1 DEF DispatchMeetsWaiters
<1>7. TypeOK'
  <2>1. due' \in [Threads -> Int] /\ sleepq' \subseteq Threads
    BY <1>1, <1>3 DEF IInv, TypeOK
  <2>2. QED
    BY <2>1, <1>3, <1>4, <1>5 DEF IInv, TypeOK
<1>8. /\ SleepersWait' /\ IoQueueExact'
      /\ ZombieQueueExact' /\ InterruptedNotBlocked'
  <2>1. SleepersWait'
    BY <1>1, <1>3, <1>4, <1>5 DEF IInv, TypeOK, SleepersWait
  <2>2. IoQueueExact'
    BY <1>1, <1>3, <1>4, <1>5 DEF IInv, IoQueueExact
  <2>3. ZombieQueueExact'
    BY <1>1, <1>3, <1>4, <1>5 DEF IInv, ZombieQueueExact
  <2>4. InterruptedNotBlocked'
    BY <1>1, <1>3, <1>4, <1>5 DEF IInv, TypeOK, InterruptedNotBlocked, Blocked
  <2>5. QED
    BY <2>1, <2>2, <2>3, <2>4
<1>9. WaitQueuesExact' /\ NoUseAfterDestroy' /\ ObjectMatchesCall'
  BY <1>3 DEF IInv, WaitQueuesExact, NoUseAfterDestroy, ObjectMatchesCall
<1>10. NoLostHandoff' /\ HandoffKept' /\ CallMatchesState' /\ TimedoutScoped'
  <2>1. NoLostHandoff'
    BY <1>1, <1>3, <1>5 DEF IInv, TypeOK, NoLostHandoff
  <2>2. HandoffKept'
    BY <1>1, <1>3, <1>5 DEF IInv, TypeOK, HandoffKept
  <2>3. CallMatchesState'
    BY <1>1, <1>3, <1>5 DEF IInv, TypeOK, CallMatchesState
  <2>4. TimedoutScoped'
    BY <1>1, <1>3, <1>5 DEF IInv, TypeOK, TimedoutScoped
  <2>5. QED
    BY <2>1, <2>2, <2>3, <2>4
<1>11. IdleInOrder'
  BY <1>1, <1>3, <1>5 DEF IInv, IdleInOrder
<1>12. QED
  BY <1>5, <1>6, <1>7, <1>8, <1>9, <1>10, <1>11 DEF IInv

(* The walk passes a pollq over.                                           *)
LEMMA DispatchPass ==
  ASSUME IInv, dispatch_pass
  PROVE  IInv'
<1>1. /\ scan' = scan + 1
      /\ UNCHANGED <<cur, op, obj, ret, ioq, wq, state, runq, sleepq, due,
                     intr, tmdout, owner, live, zombieq, term, active>>
  BY DEF dispatch_pass, schedVars, flagVars, lockVars, joinVars, callVars
<1>2. TypeOK' /\ DispatchMeetsWaiters'
  BY <1>1 DEF IInv, TypeOK, DispatchMeetsWaiters
<1>3. /\ RunQueueExact' /\ OneRunning' /\ SleepersWait'
      /\ ZombieQueueExact' /\ InterruptedNotBlocked'
  BY <1>1
  DEF IInv, RunQueueExact, OneRunning, SleepersWait, ZombieQueueExact,
      InterruptedNotBlocked
<1>4. WaitQueuesExact' /\ IoQueueExact' /\ TimedoutScoped'
  BY <1>1 DEF IInv, WaitQueuesExact, IoQueueExact, TimedoutScoped
<1>5. NoLostHandoff' /\ HandoffKept' /\ NoUseAfterDestroy'
  BY <1>1 DEF IInv, NoLostHandoff, HandoffKept, NoUseAfterDestroy
<1>6. CallMatchesState' /\ ObjectMatchesCall' /\ IdleInOrder'
  BY <1>1 DEF IInv, CallMatchesState, ObjectMatchesCall, IdleInOrder
<1>7. QED
  BY <1>2, <1>3, <1>4, <1>5, <1>6 DEF IInv

(* The clock advances.                                                     *)
LEMMA ReadClock ==
  ASSUME IInv, NEW e \in Elapsed, read_clock(e)
  PROVE  IInv'
<1>1. /\ cur = Idle /\ op[Idle] = "dispatch" /\ scan' = 1
      /\ op' = [op EXCEPT ![Idle] = "clock"]
      /\ due' = [t \in Threads |-> IF t \in sleepq THEN due[t] - e ELSE due[t]]
      /\ UNCHANGED <<cur, obj, ret, ioq, wq, state, runq, sleepq, intr,
                     tmdout, owner, live, zombieq, term, active>>
  BY DEF read_clock, flagVars, lockVars, joinVars
<1>2. /\ op \in [Threads \cup {Idle} -> Ops] /\ Idle \notin Threads
      /\ op'[Idle] = "clock" /\ \A y \in Threads : op'[y] = op[y]
  BY <1>1, ThreadsAssumption DEF IInv, TypeOK
<1>3. due' \in [Threads -> Int]
  BY <1>1, TimesAssumption DEF IInv, TypeOK
<1>4. TypeOK'
  BY <1>1, <1>2, <1>3 DEF IInv, TypeOK, Ops
<1>5. /\ RunQueueExact' /\ OneRunning' /\ SleepersWait'
      /\ ZombieQueueExact' /\ InterruptedNotBlocked'
  BY <1>1
  DEF IInv, RunQueueExact, OneRunning, SleepersWait, ZombieQueueExact,
      InterruptedNotBlocked
<1>6. /\ WaitQueuesExact' /\ IoQueueExact'
      /\ TimedoutScoped' /\ DispatchMeetsWaiters'
  BY <1>1, <1>2
  DEF IInv, WaitQueuesExact, IoQueueExact, TimedoutScoped, TypeOK,
      DispatchMeetsWaiters
<1>7. NoLostHandoff' /\ HandoffKept' /\ NoUseAfterDestroy'
  BY <1>1, <1>2 DEF IInv, NoLostHandoff, HandoffKept, NoUseAfterDestroy
<1>8. CallMatchesState' /\ ObjectMatchesCall' /\ IdleInOrder'
  BY <1>1, <1>2 DEF IInv, CallMatchesState, ObjectMatchesCall, IdleInOrder
<1>9. QED
  BY <1>4, <1>5, <1>6, <1>7, <1>8 DEF IInv

(* A timeout expires.                                                      *)
LEMMA CheckClockExpire ==
  ASSUME IInv, NEW t \in Threads, check_clock_expire(t)
  PROVE  IInv'
<1>1. /\ cur = Idle /\ op[Idle] = "clock" /\ t \in sleepq
      /\ state[t] \in {"IO_WAIT", "COND_WAIT", "SLEEPING"}
      /\ Idle \notin Threads
      /\ tmdout' = IF state[t] = "COND_WAIT" THEN tmdout \cup {t} ELSE tmdout
      /\ sleepq' = sleepq \ {t} /\ due' = [due EXCEPT ![t] = 0]
      /\ UNCHANGED <<cur, op, obj, ret, ioq, scan, wq, intr, owner, live,
                     zombieq, term, active>>
  BY ThreadsAssumption
  DEF check_clock_expire, MarkTimedout, MakeRunnable, del_sleep_q, ioVars,
      lockVars, joinVars, callVars, IInv, SleepersWait
<1>2. /\ state' \in [Threads \cup {Idle} -> States]
      /\ runq' \in Seq(Threads)
      /\ RunQueueExact'
      /\ OneRunning'
      /\ state'[t] = "RUNNABLE"
      /\ \A x \in Threads \cup {Idle} : x # t => state'[x] = state[x]
  BY <1>1, WakeLemma DEF check_clock_expire, MakeRunnable, Blocked
<1>3. TypeOK'
  <2>1. /\ due' \in [Threads -> Int] /\ sleepq' \subseteq Threads
        /\ tmdout' \subseteq Threads
    BY <1>1 DEF IInv, TypeOK
  <2>2. QED
    BY <2>1, <1>1, <1>2 DEF IInv, TypeOK
<1>4. /\ SleepersWait' /\ IoQueueExact'
      /\ ZombieQueueExact' /\ InterruptedNotBlocked'
  <2>1. SleepersWait'
    BY <1>1, <1>2 DEF IInv, TypeOK, SleepersWait
  <2>2. IoQueueExact'
    BY <1>1, <1>2 DEF IInv, IoQueueExact
  <2>3. ZombieQueueExact'
    BY <1>1, <1>2 DEF IInv, ZombieQueueExact
  <2>4. InterruptedNotBlocked'
    BY <1>1, <1>2 DEF IInv, TypeOK, InterruptedNotBlocked, Blocked
  <2>5. QED
    BY <2>1, <2>2, <2>3, <2>4
<1>5. WaitQueuesExact' /\ NoUseAfterDestroy' /\ ObjectMatchesCall'
  BY <1>1 DEF IInv, WaitQueuesExact, NoUseAfterDestroy, ObjectMatchesCall
<1>6. NoLostHandoff' /\ HandoffKept' /\ CallMatchesState' /\ TimedoutScoped'
  <2>1. NoLostHandoff'
    BY <1>1, <1>2 DEF IInv, TypeOK, NoLostHandoff
  <2>2. HandoffKept'
    BY <1>1, <1>2 DEF IInv, TypeOK, HandoffKept
  <2>3. CallMatchesState'
    BY <1>1, <1>2 DEF IInv, TypeOK, CallMatchesState
  <2>4. TimedoutScoped'
    BY <1>1, <1>2 DEF IInv, TypeOK, CallMatchesState, TimedoutScoped
  <2>5. QED
    BY <2>1, <2>2, <2>3, <2>4
<1>7. IdleInOrder' /\ DispatchMeetsWaiters'
  BY <1>1, <1>2 DEF IInv, IdleInOrder, DispatchMeetsWaiters
<1>8. QED
  BY <1>2, <1>3, <1>4, <1>5, <1>6, <1>7 DEF IInv

(* The idle thread switches to the head of the run queue.                  *)
LEMMA IdleSwitch ==
  ASSUME IInv, idle_switch
  PROVE  IInv'
<1> DEFINE st == [state EXCEPT ![Idle] = "RUNNABLE"]
<1>1. /\ cur = Idle /\ vp_schedule(st, runq)
      /\ op' = [op EXCEPT ![Idle] = "loop"]
      /\ UNCHANGED <<obj, ret, ioq, scan, wq, sleepq, due, intr, tmdout,
                     owner, live, zombieq, term, active>>
  BY DEF idle_switch, ioVars, flagVars, lockVars, joinVars
<1>2. /\ st \in [Threads \cup {Idle} -> States] /\ st[Idle] = "RUNNABLE"
      /\ \A x \in Threads : st[x] = state[x] /\ state[x] # "RUNNING"
      /\ Idle \notin Threads
  BY <1>1, ThreadsAssumption DEF IInv, TypeOK, OneRunning, States
<1> HIDE DEF st
<1>3. /\ cur' \in Threads \cup {Idle}
      /\ state' \in [Threads \cup {Idle} -> States]
      /\ runq' \in Seq(Threads)
      /\ RunQueueExact'
      /\ OneRunning'
      /\ st[cur'] = "RUNNABLE"
      /\ state'[cur'] = "RUNNING"
      /\ \A x \in Threads \cup {Idle} : x # cur' => state'[x] = st[x]
      /\ cur' = Idle => runq' = <<>>
  BY <1>1, <1>2, ScheduleLemma DEF IInv, TypeOK, RunQueueExact
<1>4. /\ op \in [Threads \cup {Idle} -> Ops] /\ op'[Idle] = "loop"
      /\ \A y \in Threads : op'[y] = op[y]
      /\ \A y \in Threads : \/ state'[y] = state[y]
                            \/ state[y] = "RUNNABLE" /\ state'[y] = "RUNNING"
  BY <1>1, <1>2, <1>3 DEF IInv, TypeOK
<1>5. TypeOK'
  BY <1>1, <1>3, <1>4 DEF IInv, TypeOK, Ops
<1>6. /\ SleepersWait' /\ IoQueueExact'
      /\ ZombieQueueExact' /\ InterruptedNotBlocked'
  <2>1. SleepersWait'
    BY <1>1, <1>4 DEF IInv, TypeOK, SleepersWait
  <2>2. IoQueueExact'
    BY <1>1, <1>4 DEF IInv, IoQueueExact
  <2>3. ZombieQueueExact'
    BY <1>1, <1>4 DEF IInv, ZombieQueueExact
  <2>4. InterruptedNotBlocked'
    BY <1>1, <1>4 DEF IInv, TypeOK, InterruptedNotBlocked, Blocked
  <2>5. QED
    BY <2>1, <2>2, <2>3, <2>4
<1>7. WaitQueuesExact' /\ NoUseAfterDestroy' /\ ObjectMatchesCall'
  BY <1>1, <1>4
  DEF IInv, WaitQueuesExact, NoUseAfterDestroy, ObjectMatchesCall
<1>8. NoLostHandoff' /\ HandoffKept' /\ TimedoutScoped'
  BY <1>1, <1>4 DEF IInv, NoLostHandoff, HandoffKept, TimedoutScoped, TypeOK
<1>9. CallMatchesState'
  BY <1>1, <1>2, <1>4 DEF IInv, CallMatchesState
<1>10. IdleInOrder' /\ DispatchMeetsWaiters'
  BY <1>2, <1>3, <1>4 DEF IdleInOrder, DispatchMeetsWaiters
<1>11. QED
  BY <1>3, <1>5, <1>6, <1>7, <1>8, <1>9, <1>10 DEF IInv

-----------------------------------------------------------------------------
(* The inductive invariant.                                                *)

(* The initial state.                                                      *)
LEMMA InitIInv ==
  Init => IInv
<1> SUFFICES ASSUME Init PROVE IInv
  OBVIOUS
<1>1. /\ cur = Main /\ Main \in Threads /\ Idle \notin Threads
      /\ state \in [Threads \cup {Idle} -> States]
      /\ op \in [Threads \cup {Idle} -> Ops]
      /\ state[Main] = "RUNNING" /\ state[Idle] = "RUNNABLE"
      /\ op[Idle] = "loop"
      /\ \A t \in Threads : /\ op[t] = "user" /\ obj[t] = None
                            /\ t # Main => state[t] = "UNUSED"
  BY ThreadsAssumption DEF Init, States, Ops
<1>2. /\ runq \in Seq(Threads) /\ Len(runq) = 0 /\ ioq \in Seq(Threads)
      /\ Len(ioq) = 0
      /\ \A o \in Objects : wq[o] \in Seq(Threads) /\ Len(wq[o]) = 0
  BY EmptySeq DEF Init
<1>3. TypeOK
  BY <1>1, <1>2 DEF Init, TypeOK, Rets
<1>4. RunQueueExact /\ WaitQueuesExact /\ IoQueueExact
  BY <1>1, <1>2, EmptyLemma
  DEF RunQueueExact, WaitQueuesExact, IoQueueExact, WaitOps
<1>5. /\ OneRunning /\ SleepersWait /\ ZombieQueueExact
      /\ InterruptedNotBlocked /\ TimedoutScoped
  BY <1>1
  DEF Init, OneRunning, SleepersWait, ZombieQueueExact, InterruptedNotBlocked,
      TimedoutScoped
<1>6. NoLostHandoff /\ HandoffKept /\ NoUseAfterDestroy
  BY <1>1 DEF Init, NoLostHandoff, HandoffKept, NoUseAfterDestroy
<1>7. /\ CallMatchesState /\ ObjectMatchesCall
      /\ IdleInOrder /\ DispatchMeetsWaiters
  BY <1>1
  DEF CallMatchesState, ObjectMatchesCall, IdleInOrder, DispatchMeetsWaiters,
      WaitOps
<1>8. QED
  BY <1>3, <1>4, <1>5, <1>6, <1>7 DEF IInv

(* Every step.                                                             *)
LEMMA NextIInv ==
  ASSUME IInv, [Next]_vars
  PROVE  IInv'
<1>1. ASSUME NEW t \in Threads, ThreadCall(t)
      PROVE  IInv'
  BY <1>1, Create, Exit, Join, Interrupt DEF ThreadCall
<1>2. ASSUME NEW t \in Threads, WaitCall(t)
      PROVE  IInv'
  BY <1>2, Usleep, Poll, Timedwait, Lock DEF WaitCall
<1>3. ASSUME NEW t \in Threads, SyncCall(t)
      PROVE  IInv'
  BY <1>3, Signal, Broadcast, CondNewDestroy, Unlock, Trylock, MutexNewDestroy
  DEF SyncCall
<1>4. ASSUME NEW t \in Threads, Resume(t)
      PROVE  IInv'
  BY <1>4, ExitResume, JoinResume, UsleepResume, PollResume, TimedwaitResume,
     BroadcastStep, LockResume
  DEF Resume
<1>5. CASE IdleStep
  BY <1>5, IdleLoop, DispatchNotify, DispatchPass, ReadClock,
     CheckClockExpire, IdleSwitch
  DEF IdleStep
<1>6. CASE UNCHANGED vars
  BY <1>6
  DEF vars, IInv, TypeOK, RunQueueExact, OneRunning, WaitQueuesExact,
      SleepersWait, IoQueueExact, ZombieQueueExact, DispatchMeetsWaiters,
      InterruptedNotBlocked, TimedoutScoped, NoLostHandoff, NoUseAfterDestroy,
      CallMatchesState, ObjectMatchesCall, IdleInOrder, HandoffKept
<1>7. QED
  BY <1>1, <1>2, <1>3, <1>4, <1>5, <1>6 DEF Next

(* IInv holds in every reachable state of every instance.                  *)
THEOREM InductiveInvariant == Spec => []IInv
<1>1. Init => IInv
  BY InitIInv
<1>2. IInv /\ [Next]_vars => IInv'
  BY NextIInv
<1>3. QED
  BY <1>1, <1>2, PTL DEF Spec


(* The parts of IInv that say what users of the library rely on.           *)

(* Every variable keeps its type, in every reachable state.                *)
THEOREM TypeCorrect == Spec => []TypeOK
BY InductiveInvariant, PTL DEF IInv

(* No wake-up queues a thread twice or forgets one: _ST_RUNQ holds exactly *)
(* the runnable threads, so _st_vp_schedule never resumes any other.       *)
THEOREM RunQueueCorrect == Spec => []RunQueueExact
BY InductiveInvariant, PTL DEF IInv

(* The dispatch loop of the event system only notifies threads that wait   *)
(* for I/O, although it does not look at their state.                      *)
THEOREM DispatchCorrect == Spec => []DispatchMeetsWaiters
BY InductiveInvariant, PTL DEF IInv

(* st_mutex_unlock never leaves a mutex free, or with a waiter as its      *)
(* owner, while some thread still waits for it.                            *)
THEOREM HandoffNotLost == Spec => []NoLostHandoff
BY InductiveInvariant, PTL DEF IInv

(* A mutex or condition variable is not destroyed under a thread that will *)
(* unlink itself from it.                                                  *)
THEOREM DestroyCorrect == Spec => []NoUseAfterDestroy
BY InductiveInvariant, PTL DEF IInv

-----------------------------------------------------------------------------
(* While a thread is inside st_mutex_lock, only its resumption moves it.   *)
LEMMA OnlyLockResumes ==
  ASSUME IInv, Next, NEW t \in Threads, cur = t, op[t] = "lock"
  PROVE  st_mutex_lock_resume(t)
<1>1. t # Idle
  BY ThreadsAssumption
<1>2. ASSUME NEW x \in Threads
      PROVE  ~ ThreadCall(x) /\ ~ WaitCall(x) /\ ~ SyncCall(x)
  <2>1. ~ InUserCode(x)
    BY DEF InUserCode
  <2>2. ~ ThreadCall(x)
    BY <2>1 DEF ThreadCall, st_thread_create, st_thread_exit, st_thread_join,
                st_thread_interrupt, Calling
  <2>3. ~ WaitCall(x)
    BY <2>1 DEF WaitCall, st_usleep, st_poll, st_cond_timedwait,
                st_mutex_lock, Calling
  <2>4. ~ SyncCall(x)
    BY <2>1 DEF SyncCall, st_cond_signal, st_cond_broadcast, st_cond_new,
                st_cond_destroy, st_mutex_unlock, st_mutex_trylock,
                st_mutex_new, st_mutex_destroy, Calling
  <2>5. QED
    BY <2>2, <2>3, <2>4
<1>3. ~ IdleStep
  BY <1>1 DEF IdleStep, idle_loop, dispatch_notify, dispatch_pass,
              read_clock, check_clock_expire, idle_switch
<1>4. ASSUME NEW x \in Threads, Resume(x)
      PROVE  st_mutex_lock_resume(t)
  BY <1>4 DEF Resume, Resumed, st_thread_exit_resume, st_thread_join_resume,
              st_usleep_resume, st_poll_resume, st_cond_timedwait_resume,
              st_cond_broadcast_step, st_mutex_lock_resume
<1>5. QED
  BY <1>2, <1>3, <1>4 DEF Next

(* st_mutex_lock returns 0 after waiting if and only if the caller owns    *)
(* the mutex: a hand-off and an interrupt cannot disagree about it.        *)
THEOREM LockOutcomeCorrect == Spec => LockOutcome
<1> DEFINE P == \A t \in Threads :
                  cur = t /\ op[t] = "lock" /\ op'[t] = "user" =>
                     (ret' = "ok" <=> owner[obj[t]] = t)
<1>1. IInv /\ [Next]_vars => [P]_vars
  <2> SUFFICES ASSUME IInv, Next,
                      NEW t \in Threads, cur = t, op[t] = "lock"
               PROVE  ret' = "ok" <=> owner[obj[t]] = t
    OBVIOUS
  <2>1. ret' = IF LockFailed(t) THEN "EINTR" ELSE "ok"
    BY OnlyLockResumes DEF st_mutex_lock_resume, ReturnFrom
  <2>2. t \in intr \/ owner[obj[t]] = t
    BY DEF IInv, HandoffKept, OneRunning
  <2>3. QED
    BY <2>1, <2>2 DEF LockFailed
<1>2. QED
  BY <1>1, InductiveInvariant, PTL DEF Spec, LockOutcome

-----------------------------------------------------------------------------
(* Exits.  _st_active_count is the number of threads that did not exit.    *)
Exited(t) == op[t] \in {"exit", "done"}
ActiveThreads == {t \in Threads : state[t] # "UNUSED" /\ ~Exited(t)}

ActiveExact ==
    /\ active = Cardinality(ActiveThreads)
    /\ op[Idle] = "halted" => active = 0

(* What a zombie may go through, as in ZombieLeftToJoin.                   *)
ZombieStep(t) ==
    op[t] = "exit" /\ state'[t] # state[t] =>
        \/ state[t] = "ZOMBIE" /\ t \notin zombieq' /\ ret' = "ok"
        \/ state[t] = "RUNNABLE" /\ cur' = t
        \/ cur = t /\ state'[t] = "DEAD"

(* A step without a new thread or an exit.                                 *)
NobodyExits ==
    /\ active' = active
    /\ \A t \in Threads :
          /\ state'[t] = "UNUSED" <=> state[t] = "UNUSED"
          /\ Exited(t)' <=> Exited(t)
          /\ ZombieStep(t)

(* The caller blocks.                                                      *)
LEMMA SwitchKeeps ==
  ASSUME IInv, NEW t \in Threads, cur = t, ~Exited(t), UNCHANGED active,
         NEW s \in Blocked, NEW o \in WaitOps \cup {"usleep", "poll"}, NEW x,
         NEW d \in Nat \cup {NO_TIMEOUT}, SwitchOut(t, s, o, x, d)
  PROVE  NobodyExits
<1>1. /\ cur' # t /\ state'[t] = s /\ state[cur'] = "RUNNABLE"
      /\ state'[cur'] = "RUNNING"
      /\ \A y \in Threads : y # t /\ y # cur' => state'[y] = state[y]
  BY SwitchOutLemma
<1>2. state[t] = "RUNNING"
  BY DEF IInv, OneRunning
<1>3. /\ op'[t] = o /\ \A y \in Threads : y # t => op'[y] = op[y]
  BY DEF SwitchOut, IInv, TypeOK
<1>4. QED
  BY <1>1, <1>2, <1>3 DEF NobodyExits, Exited, ZombieStep, Blocked, WaitOps

(* A blocked thread is woken.                                              *)
LEMMA WakeKeeps ==
  ASSUME IInv, NEW u \in Threads, state[u] \in Blocked,
         state' = [state EXCEPT ![u] = "RUNNABLE"], UNCHANGED <<op, active>>
  PROVE  NobodyExits
<1>1. state'[u] = "RUNNABLE" /\ \A y \in Threads : y # u => state'[y] = state[y]
  BY DEF IInv, TypeOK
<1>2. op[u] # "exit"
  BY DEF IInv, CallMatchesState, Blocked
<1>3. QED
  BY <1>1, <1>2 DEF NobodyExits, Exited, ZombieStep, Blocked

(* A join finds a zombie.                                                  *)
LEMMA ReapKeeps ==
  ASSUME IInv, NEW t \in Threads, NEW u \in Threads, t # u, cur = t, ~Exited(t),
         state[u] = "ZOMBIE", Reap(u), ret' = "ok", UNCHANGED active,
         op' = op \/ op' = [op EXCEPT ![t] = "user"]
  PROVE  NobodyExits
<1>1. /\ state'[u] = "RUNNABLE" /\ u \notin zombieq'
      /\ \A y \in Threads : y # u => state'[y] = state[y]
  BY DEF Reap, IInv, TypeOK
<1>2. \A y \in Threads : op'[y] = op[y] \/ (y = t /\ op'[y] = "user")
  BY DEF IInv, TypeOK
<1>3. QED
  BY <1>1, <1>2 DEF NobodyExits, Exited, ZombieStep

(* No state changes.                                                       *)
LEMMA StayKeeps ==
  ASSUME UNCHANGED <<state, active>>, \A y \in Threads : Exited(y)' <=> Exited(y)
  PROVE  NobodyExits
BY DEF NobodyExits, ZombieStep

(* The calls, other than creating a thread and exiting.                    *)
LEMMA CallsKeep ==
  ASSUME IInv, NEW t \in Threads,
         \/ \E u \in Threads : st_thread_join(t, u) \/ st_thread_interrupt(t, u)
         \/ WaitCall(t)
  PROVE  NobodyExits
<1> USE DEF Calling, InUserCode, ReturnNow
<1>1. cur = t /\ op[t] = "user" /\ ~Exited(t)
  BY DEF st_thread_join, st_thread_interrupt, WaitCall, st_usleep, st_poll,
         st_cond_timedwait, st_mutex_lock, Exited
<1>2. \A d \in Timeouts : d \in Nat \cup {NO_TIMEOUT}
  BY TimesAssumption
<1>3. ASSUME EintrOnEntry(t) PROVE NobodyExits
  BY <1>3, StayKeeps DEF EintrOnEntry, schedVars, joinVars, Exited
<1>4. ASSUME UNCHANGED <<state, op, active>> PROVE NobodyExits
  BY <1>4, StayKeeps DEF Exited
<1>5. CASE \E u \in Threads : st_thread_join(t, u)
  <2> PICK u \in Threads : st_thread_join(t, u)
    BY <1>5
  <2>1. \/ UNCHANGED <<state, op, active>>
        \/ /\ state[u] = "ZOMBIE" /\ u # t /\ Reap(u) /\ ret' = "ok" /\ op' = op
           /\ active' = active
        \/ EintrOnEntry(t)
        \/ SwitchOut(t, "COND_WAIT", "join", u, NO_TIMEOUT) /\ active' = active
    BY DEF st_thread_join, schedVars, joinVars
  <2>2. ASSUME SwitchOut(t, "COND_WAIT", "join", u, NO_TIMEOUT), active' = active
        PROVE  NobodyExits
    BY <1>1, <2>2, SwitchKeeps DEF Blocked, WaitOps
  <2> QED
    BY <1>1, <1>3, <1>4, <2>1, <2>2, ReapKeeps
<1>6. CASE \E u \in Threads : st_thread_interrupt(t, u)
  <2> PICK u \in Threads : st_thread_interrupt(t, u)
    BY <1>6
  <2>1. /\ op' = op /\ active' = active
        /\ \/ UNCHANGED state
           \/ state[u] \in Blocked /\ state' = [state EXCEPT ![u] = "RUNNABLE"]
    BY DEF st_thread_interrupt, MakeRunnable, schedVars, joinVars
  <2> QED
    BY <1>4, <2>1, WakeKeeps
<1>7. CASE WaitCall(t)
  <2>1. CASE \E d \in Timeouts : st_usleep(t, d)
    <3> PICK d \in Timeouts : st_usleep(t, d)
      BY <2>1
    <3> PICK s \in {"SUSPENDED", "SLEEPING"} :
               s = IF d = NO_TIMEOUT THEN "SUSPENDED" ELSE "SLEEPING"
      OBVIOUS
    <3>1. \/ EintrOnEntry(t)
          \/ SwitchOut(t, s, "usleep", None, d) /\ active' = active
      BY DEF st_usleep, joinVars
    <3>2. ASSUME SwitchOut(t, s, "usleep", None, d), active' = active PROVE NobodyExits
      BY <1>1, <1>2, <3>2, SwitchKeeps DEF Blocked
    <3> QED
      BY <1>3, <3>1, <3>2
  <2>2. CASE \E d \in Timeouts : st_poll(t, d)
    <3> PICK d \in Timeouts : st_poll(t, d)
      BY <2>2
    <3>1. \/ EintrOnEntry(t)
          \/ UNCHANGED <<state, op, active>>
          \/ SwitchOut(t, "IO_WAIT", "poll", None, d) /\ active' = active
      BY DEF st_poll, schedVars, joinVars
    <3>2. ASSUME SwitchOut(t, "IO_WAIT", "poll", None, d), active' = active
          PROVE  NobodyExits
      BY <1>1, <1>2, <3>2, SwitchKeeps DEF Blocked
    <3> QED
      BY <1>3, <1>4, <3>1, <3>2
  <2>3. CASE \E c \in Conds : \E d \in Timeouts : st_cond_timedwait(t, c, d)
    <3> PICK c \in Conds, d \in Timeouts : st_cond_timedwait(t, c, d)
      BY <2>3
    <3>1. \/ EintrOnEntry(t)
          \/ SwitchOut(t, "COND_WAIT", "timedwait", c, d) /\ active' = active
      BY DEF st_cond_timedwait, joinVars
    <3>2. ASSUME SwitchOut(t, "COND_WAIT", "timedwait", c, d), active' = active
          PROVE  NobodyExits
      BY <1>1, <1>2, <3>2, SwitchKeeps DEF Blocked, WaitOps
    <3> QED
      BY <1>3, <3>1, <3>2
  <2>4. CASE \E m \in Mutexes : st_mutex_lock(t, m)
    <3> PICK m \in Mutexes : st_mutex_lock(t, m)
      BY <2>4
    <3>1. \/ EintrOnEntry(t)
          \/ UNCHANGED <<state, op, active>>
          \/ SwitchOut(t, "LOCK_WAIT", "lock", m, NO_TIMEOUT) /\ active' = active
      BY DEF st_mutex_lock, schedVars, joinVars
    <3>2. ASSUME SwitchOut(t, "LOCK_WAIT", "lock", m, NO_TIMEOUT), active' = active
          PROVE  NobodyExits
      BY <1>1, <3>2, SwitchKeeps DEF Blocked, WaitOps
    <3> QED
      BY <1>3, <1>4, <3>1, <3>2
  <2> QED
    BY <1>7, <2>1, <2>2, <2>3, <2>4 DEF WaitCall
<1> QED
  BY <1>5, <1>6, <1>7

(* Signals, broadcasts and unlocks wake blocked threads only.              *)
LEMMA SyncKeeps ==
  ASSUME IInv, NEW t \in Threads, SyncCall(t)
  PROVE  NobodyExits
<1>1. /\ UNCHANGED active /\ ~Exited(t) /\ op \in [Threads \cup {Idle} -> Ops]
      /\ \/ UNCHANGED <<state, op>>
         \/ UNCHANGED state /\ op' = [op EXCEPT ![t] = "broadcast"]
         \/ /\ UNCHANGED op
            /\ \E u \in Threads : /\ state[u] \in Blocked
                                  /\ state' = [state EXCEPT ![u] = "RUNNABLE"]
  <2> USE DEF Calling, InUserCode, ReturnNow, Exited, joinVars, schedVars
  <2>1. op \in [Threads \cup {Idle} -> Ops] /\ TypeOK
    BY DEF IInv, TypeOK
  <2>2. CASE \E c \in Conds : st_cond_signal(t, c)
    <3> PICK c \in Conds : st_cond_signal(t, c)
      BY <2>2
    <3>1. \A u \in FirstIn(c, "COND_WAIT") : u \in Threads /\ state[u] \in Blocked
      BY <2>1, FirstInLemma DEF Objects, Blocked
    <3> QED
      BY <2>1, <3>1 DEF st_cond_signal, MakeRunnable
  <2>3. CASE \E c \in Conds : \/ st_cond_broadcast(t, c) \/ st_cond_new(t, c)
                             \/ st_cond_destroy(t, c)
    BY <2>1, <2>3 DEF st_cond_broadcast, st_cond_new, st_cond_destroy
  <2>4. CASE \E m \in Mutexes : st_mutex_unlock(t, m)
    <3> PICK m \in Mutexes : st_mutex_unlock(t, m)
      BY <2>4
    <3>1. \A u \in FirstIn(m, "LOCK_WAIT") : u \in Threads /\ state[u] \in Blocked
      BY <2>1, FirstInLemma DEF Objects, Blocked
    <3> QED
      BY <2>1, <3>1 DEF st_mutex_unlock
  <2>5. CASE \E m \in Mutexes : \/ st_mutex_trylock(t, m) \/ st_mutex_new(t, m)
                               \/ st_mutex_destroy(t, m)
    BY <2>1, <2>5 DEF st_mutex_trylock, st_mutex_new, st_mutex_destroy
  <2> QED
    BY <2>2, <2>3, <2>4, <2>5 DEF SyncCall
<1>2. CASE UNCHANGED <<state, op>>
  BY <1>1, <1>2, StayKeeps DEF Exited
<1>3. CASE UNCHANGED state /\ op' = [op EXCEPT ![t] = "broadcast"]
  BY <1>1, <1>3, StayKeeps DEF Exited
<1> QED
  BY <1>1, <1>2, <1>3, WakeKeeps

(* An exiting thread t leaves the processor in state s, having woken W.    *)
LEMMA LeavingLemma ==
  ASSUME IInv, NEW t \in Threads, cur = t, NEW s \in {"ZOMBIE", "DEAD"},
         NEW W, \A x \in W : x \in Threads /\ state[x] = "COND_WAIT",
         NEW st \in [Threads \cup {Idle} -> States], NEW rq \in Seq(Threads),
         IsInjective(rq),
         \A x : x \in ToSet(rq) <=> x \in ToSet(runq) \/ x \in W,
         st[t] = s, \A x \in W : st[x] = "RUNNABLE",
         \A x \in Threads \cup {Idle} : x # t /\ x \notin W => st[x] = state[x],
         vp_schedule(st, rq)
  PROVE  /\ state'[t] = s
         /\ \A y \in Threads : y # t =>
              /\ state'[y] = "UNUSED" <=> state[y] = "UNUSED"
              /\ op[y] = "exit" /\ state'[y] # state[y] =>
                   state[y] = "RUNNABLE" /\ cur' = y
<1>1. /\ t # Idle /\ Idle \notin Threads /\ Idle \notin W
      /\ state[Idle] = "RUNNABLE"
      /\ \A x \in Threads \cup {Idle} : state[x] = "RUNNING" <=> x = t
      /\ \A x \in Threads : x \in ToSet(runq) <=> state[x] = "RUNNABLE"
      /\ t \notin W
  BY ThreadsAssumption DEF IInv, OneRunning, IdleInOrder, RunQueueExact
<1>2. /\ st[Idle] = "RUNNABLE"
      /\ \A x \in Threads \cup {Idle} : st[x] # "RUNNING"
      /\ \A x \in Threads : x \in ToSet(rq) <=> st[x] = "RUNNABLE"
  BY <1>1
<1>3. /\ cur' \in Threads \cup {Idle}
      /\ st[cur'] = "RUNNABLE" /\ state'[cur'] = "RUNNING"
      /\ \A x \in Threads \cup {Idle} : x # cur' => state'[x] = st[x]
  BY <1>2, ScheduleLemma
<1>4. \A x \in W : op[x] # "exit"
  BY DEF IInv, CallMatchesState
<1>5. cur' # t
  BY <1>3
<1> QED
  BY <1>1, <1>3, <1>4, <1>5

(* Resumed calls; a joined thread frees itself, and was not active before. *)
LEMMA ResumesKeep ==
  ASSUME IInv, NEW t \in Threads, Resume(t)
  PROVE  NobodyExits
<1> USE DEF Resumed
<1>1. /\ cur = t /\ state[t] = "RUNNING" /\ TypeOK
      /\ op \in [Threads \cup {Idle} -> Ops]
      /\ state \in [Threads \cup {Idle} -> States]
  BY DEF IInv, OneRunning, TypeOK, Resume, st_thread_exit_resume,
         st_thread_join_resume, st_usleep_resume, st_poll_resume,
         st_cond_timedwait_resume, st_cond_broadcast_step, st_mutex_lock_resume
<1>2. ASSUME ~Exited(t), op' = [op EXCEPT ![t] = "user"], UNCHANGED <<state, active>>
      PROVE  NobodyExits
  BY <1>1, <1>2, StayKeeps DEF Exited
<1>3. CASE st_thread_exit_resume(t)
  <2> DEFINE st == [state EXCEPT ![t] = "DEAD"]
             W == {}
  <2>1. /\ st \in [Threads \cup {Idle} -> States] /\ st[t] = "DEAD"
        /\ \A x \in Threads \cup {Idle} : x # t => st[x] = state[x]
        /\ runq \in Seq(Threads) /\ IsInjective(runq)
    BY <1>1 DEF States, IInv, TypeOK, RunQueueExact
  <2>2. vp_schedule(st, runq) /\ \A x : x \notin W
    BY <1>3 DEF st_thread_exit_resume
  <2> HIDE DEF st, W
  <2>3. /\ state'[t] = "DEAD"
        /\ \A y \in Threads : y # t =>
              /\ state'[y] = "UNUSED" <=> state[y] = "UNUSED"
              /\ op[y] = "exit" /\ state'[y] # state[y] =>
                   state[y] = "RUNNABLE" /\ cur' = y
    BY <1>1, <2>1, <2>2, LeavingLemma
  <2>4. /\ op[t] = "exit" /\ op'[t] = "done" /\ active' = active
        /\ \A y \in Threads : y # t => op'[y] = op[y]
    BY <1>1, <1>3 DEF st_thread_exit_resume
  <2> QED
    BY <1>1, <2>3, <2>4 DEF NobodyExits, Exited, ZombieStep
<1>4. CASE st_thread_join_resume(t)
  <2> DEFINE u == obj[t]
  <2>1. /\ op[t] = "join" /\ ~Exited(t) /\ active' = active /\ u \in Threads
    BY <1>4 DEF st_thread_join_resume, Exited, IInv, ObjectMatchesCall
  <2>2. \/ op' = [op EXCEPT ![t] = "user"] /\ UNCHANGED state
        \/ /\ state[u] = "ZOMBIE" /\ Reap(u) /\ ret' = "ok"
           /\ op' = [op EXCEPT ![t] = "user"]
        \/ SwitchOut(t, "COND_WAIT", "join", u, NO_TIMEOUT)
    BY <1>4 DEF st_thread_join_resume, ReturnFrom, schedVars
  <2>3. ASSUME state[u] = "ZOMBIE", Reap(u), ret' = "ok",
               op' = [op EXCEPT ![t] = "user"]
        PROVE  NobodyExits
    <3>1. t # u
      BY <1>1, <2>3
    <3> QED
      BY <1>1, <2>1, <2>3, <3>1, ReapKeeps
  <2>4. ASSUME SwitchOut(t, "COND_WAIT", "join", u, NO_TIMEOUT) PROVE NobodyExits
    BY <1>1, <2>1, <2>4, SwitchKeeps DEF Blocked, WaitOps
  <2> QED
    BY <1>2, <2>1, <2>2, <2>3, <2>4
<1>5. CASE st_cond_broadcast_step(t)
  <2>1. /\ op[t] = "broadcast" /\ ~Exited(t) /\ active' = active /\ obj[t] \in Objects
    BY <1>5 DEF st_cond_broadcast_step, Exited, joinVars, IInv,
                ObjectMatchesCall, Objects
  <2>2. \/ /\ op' = op
           /\ \E u \in FirstIn(obj[t], "COND_WAIT") :
                 state' = [state EXCEPT ![u] = "RUNNABLE"]
        \/ op' = [op EXCEPT ![t] = "user"] /\ UNCHANGED state
    BY <1>5 DEF st_cond_broadcast_step, MakeRunnable, callVars, schedVars,
                ReturnFrom
  <2>3. \A u \in FirstIn(obj[t], "COND_WAIT") : u \in Threads /\ state[u] \in Blocked
    BY <1>1, <2>1, FirstInLemma DEF Blocked
  <2> QED
    BY <1>2, <2>1, <2>2, <2>3, WakeKeeps
<1>6. CASE \/ st_usleep_resume(t) \/ st_poll_resume(t)
           \/ st_cond_timedwait_resume(t) \/ st_mutex_lock_resume(t)
  <2>1. /\ ~Exited(t) /\ op' = [op EXCEPT ![t] = "user"]
        /\ UNCHANGED <<state, active>>
    BY <1>6 DEF st_usleep_resume, st_poll_resume, st_cond_timedwait_resume,
                st_mutex_lock_resume, Exited, ReturnFrom, schedVars, joinVars
  <2> QED
    BY <1>2, <2>1
<1> QED
  BY <1>3, <1>4, <1>5, <1>6 DEF Resume

(* The idle thread wakes threads that wait for I/O or time.                *)
LEMMA IdleKeeps ==
  ASSUME IInv, IdleStep
  PROVE  NobodyExits
<1>1. /\ cur = Idle /\ UNCHANGED active /\ Idle \notin Threads /\ TypeOK
      /\ op \in [Threads \cup {Idle} -> Ops]
      /\ state \in [Threads \cup {Idle} -> States]
  BY ThreadsAssumption
  DEF IdleStep, idle_loop, dispatch_notify, dispatch_pass, read_clock,
      check_clock_expire, idle_switch, joinVars, IInv, TypeOK
<1>2. \A t \in Threads : op'[t] = op[t]
  BY <1>1 DEF IdleStep, idle_loop, dispatch_notify, dispatch_pass, read_clock,
              check_clock_expire, idle_switch, callVars
<1>3. CASE UNCHANGED state
  BY <1>1, <1>2, <1>3, StayKeeps DEF Exited
<1>4. CASE dispatch_notify
  <2>1. /\ ioq[scan] \in Threads /\ state[ioq[scan]] \in Blocked
    <3>1. /\ scan \in scan..Len(ioq) /\ ioq[scan] \in Threads
      BY <1>1, <1>4 DEF TypeOK, dispatch_notify
    <3> QED
      BY <1>1, <1>4, <3>1 DEF dispatch_notify, IInv, DispatchMeetsWaiters, Blocked
  <2>2. op' = op /\ state' = [state EXCEPT ![ioq[scan]] = "RUNNABLE"]
    BY <1>4 DEF dispatch_notify, MakeRunnable, callVars
  <2> QED
    BY <1>1, <2>1, <2>2, WakeKeeps
<1>5. CASE \E t \in Threads : check_clock_expire(t)
  <2> PICK t \in Threads : check_clock_expire(t)
    BY <1>5
  <2>1. state[t] \in Blocked
    BY DEF check_clock_expire, IInv, SleepersWait, Blocked
  <2>2. op' = op /\ state' = [state EXCEPT ![t] = "RUNNABLE"]
    BY DEF check_clock_expire, MakeRunnable, callVars
  <2> QED
    BY <1>1, <2>1, <2>2, WakeKeeps
<1>6. CASE idle_switch
  <2> DEFINE st == [state EXCEPT ![Idle] = "RUNNABLE"]
  <2>1. vp_schedule(st, runq)
    BY <1>6 DEF idle_switch
  <2>2. /\ st \in [Threads \cup {Idle} -> States] /\ st[Idle] = "RUNNABLE"
        /\ \A x \in Threads : st[x] = state[x] /\ state[x] # "RUNNING"
    BY <1>1 DEF IInv, OneRunning, States
  <2>3. /\ runq \in Seq(Threads) /\ IsInjective(runq)
        /\ \A x \in Threads : x \in ToSet(runq) <=> state[x] = "RUNNABLE"
    BY DEF IInv, TypeOK, RunQueueExact
  <2> HIDE DEF st
  <2>4. /\ st[cur'] = "RUNNABLE" /\ state'[cur'] = "RUNNING"
        /\ \A x \in Threads \cup {Idle} : x # cur' => state'[x] = st[x]
    BY <2>1, <2>2, <2>3, ScheduleLemma
  <2> QED
    BY <1>1, <1>2, <2>2, <2>4 DEF NobodyExits, Exited, ZombieStep
<1> QED
  BY <1>3, <1>4, <1>5, <1>6
  DEF IdleStep, idle_loop, dispatch_pass, read_clock, schedVars

(* A new thread is active.                                                 *)
LEMMA CreateCounts ==
  ASSUME IInv, NEW t \in Threads, NEW u \in Threads, NEW j \in BOOLEAN,
         st_thread_create(t, u, j)
  PROVE  /\ ActiveThreads' = ActiveThreads \cup {u} /\ u \notin ActiveThreads
         /\ active' = active + 1
         /\ \A y \in Threads : ZombieStep(y)
<1>1. /\ state[u] = "UNUSED" /\ op[u] = "user" /\ op' = op
      /\ state' = [state EXCEPT ![u] = "RUNNABLE"]
      /\ active' = active + 1
      /\ state \in [Threads \cup {Idle} -> States]
  BY DEF st_thread_create, ReturnNow, IInv, CallMatchesState, TypeOK
<1>2. state'[u] = "RUNNABLE" /\ \A y \in Threads : y # u => state'[y] = state[y]
  BY <1>1
<1> QED
  BY <1>1, <1>2 DEF ActiveThreads, Exited, ZombieStep

(* st_thread_exit ends one active thread.                                  *)
LEMMA ExitCounts ==
  ASSUME IInv, NEW t \in Threads, st_thread_exit(t)
  PROVE  /\ ActiveThreads' = ActiveThreads \ {t} /\ t \in ActiveThreads
         /\ active' = active - 1
         /\ \A y \in Threads : ZombieStep(y)
<1> DEFINE Left(s) ==
             /\ state'[t] = s
             /\ \A y \in Threads : y # t =>
                  /\ state'[y] = "UNUSED" <=> state[y] = "UNUSED"
                  /\ op[y] = "exit" /\ state'[y] # state[y] =>
                       state[y] = "RUNNABLE" /\ cur' = y
<1>1. /\ cur = t /\ op[t] = "user" /\ state[t] = "RUNNING"
      /\ active' = active - 1 /\ TypeOK
      /\ state \in [Threads \cup {Idle} -> States]
      /\ runq \in Seq(Threads) /\ IsInjective(runq)
      /\ op \in [Threads \cup {Idle} -> Ops]
  BY DEF st_thread_exit, Calling, InUserCode, IInv, TypeOK, OneRunning,
         RunQueueExact
<1>2. ASSUME NEW u \in FirstIn(t, "COND_WAIT"),
             vp_schedule([state EXCEPT ![t] = "ZOMBIE", ![u] = "RUNNABLE"],
                         Append(runq, u))
      PROVE  Left("ZOMBIE")
  <2> DEFINE st == [state EXCEPT ![t] = "ZOMBIE", ![u] = "RUNNABLE"]
             W == {u}
             rq == Append(runq, u)
  <2>1. u \in Threads /\ state[u] = "COND_WAIT"
    BY <1>1, <1>2, FirstInLemma DEF Objects
  <2>2. /\ st \in [Threads \cup {Idle} -> States]
        /\ st[t] = "ZOMBIE" /\ st[u] = "RUNNABLE"
        /\ \A x \in Threads \cup {Idle} : x # t /\ x # u => st[x] = state[x]
    BY <1>1, <2>1 DEF States
  <2>3. /\ rq \in Seq(Threads) /\ IsInjective(rq)
        /\ \A x : x \in ToSet(rq) <=> x \in ToSet(runq) \/ x = u
    BY <1>1, <2>1, <2>2, AppendLemma DEF IInv, RunQueueExact
  <2>4. vp_schedule(st, rq) /\ \A x : x \in W <=> x = u
    BY <1>2
  <2> HIDE DEF st, W, rq
  <2>5. /\ \A x \in W : x \in Threads /\ state[x] = "COND_WAIT"
        /\ \A x \in W : st[x] = "RUNNABLE"
        /\ \A x \in Threads \cup {Idle} : x # t /\ x \notin W => st[x] = state[x]
        /\ \A x : x \in ToSet(rq) <=> x \in ToSet(runq) \/ x \in W
    BY <2>1, <2>2, <2>3, <2>4
  <2> QED
    BY <1>1, <2>2, <2>3, <2>4, <2>5, LeavingLemma
<1>3. ASSUME NEW s \in {"ZOMBIE", "DEAD"},
             vp_schedule([state EXCEPT ![t] = s], runq)
      PROVE  Left(s)
  <2> DEFINE st == [state EXCEPT ![t] = s]
             W == {}
  <2>1. /\ st \in [Threads \cup {Idle} -> States] /\ st[t] = s
        /\ \A x \in Threads \cup {Idle} : x # t => st[x] = state[x]
    BY <1>1 DEF States
  <2>2. vp_schedule(st, runq) /\ \A x : x \notin W
    BY <1>3
  <2> HIDE DEF st, W
  <2> QED
    BY <1>1, <2>1, <2>2, LeavingLemma
<1>4. Left("ZOMBIE") \/ Left("DEAD")
  BY <1>2, <1>3 DEF st_thread_exit
<1>5. op'[t] \in {"exit", "done"} /\ \A y \in Threads : y # t => op'[y] = op[y]
  BY <1>1 DEF st_thread_exit
<1>6. state'[t] \in {"ZOMBIE", "DEAD"}
  BY <1>4
<1>7. \A y \in Threads : y # t =>
        /\ state'[y] = "UNUSED" <=> state[y] = "UNUSED"
        /\ op[y] = "exit" /\ state'[y] # state[y] =>
             state[y] = "RUNNABLE" /\ cur' = y
  BY <1>4
<1>8. \A y \in Threads : ZombieStep(y)
  BY <1>1, <1>7 DEF ZombieStep
<1>9. /\ t \in ActiveThreads /\ t \notin ActiveThreads'
      /\ \A y \in Threads : y # t => (y \in ActiveThreads' <=> y \in ActiveThreads)
  BY <1>1, <1>5, <1>7 DEF ActiveThreads, Exited
<1>10. ActiveThreads \subseteq Threads /\ ActiveThreads' \subseteq Threads
  BY DEF ActiveThreads
<1> QED
  BY <1>1, <1>8, <1>9, <1>10

(* The active threads can be counted.                                      *)
LEMMA ActiveFinite ==
  /\ ActiveThreads \subseteq Threads
  /\ IsFiniteSet(ActiveThreads)
BY ThreadsAssumption, FS_Subset DEF ActiveThreads

(* A step creates one thread, ends one, or does neither.                   *)
LEMMA NextCounts ==
  ASSUME IInv, [Next]_vars
  PROVE  \/ NobodyExits
         \/ \E t, u \in Threads : \E j \in BOOLEAN : st_thread_create(t, u, j)
         \/ \E t \in Threads : st_thread_exit(t)
<1>1. CASE UNCHANGED vars
  BY <1>1, StayKeeps DEF vars, Exited
<1>2. ASSUME NEW t \in Threads, ThreadCall(t), ~ st_thread_exit(t),
             \A u \in Threads : \A j \in BOOLEAN : ~ st_thread_create(t, u, j)
      PROVE  NobodyExits
  BY <1>2, CallsKeep DEF ThreadCall
<1> QED
  BY <1>1, <1>2, CallsKeep, SyncKeeps, ResumesKeep, IdleKeeps DEF Next

(* Only the loop test of the idle thread ends the process.                 *)
LEMMA OnlyLoopHalts ==
  ASSUME IInv, [Next]_vars, op'[Idle] = "halted"
  PROVE  op[Idle] = "halted" \/ ~ active > 0
<1>1. Idle \notin Threads /\ op \in [Threads \cup {Idle} -> Ops]
  BY ThreadsAssumption DEF IInv, TypeOK
<1>2. ASSUME NEW t \in Threads, op' = op \/ \E o : op' = [op EXCEPT ![t] = o]
      PROVE  op[Idle] = "halted"
  BY <1>1, <1>2
<1> USE DEF ReturnNow, EintrOnEntry, SwitchOut
<1>3. ASSUME NEW t \in Threads, ThreadCall(t)
      PROVE  op' = op \/ \E o : op' = [op EXCEPT ![t] = o]
  <2>1. ASSUME NEW u \in Threads,
               st_thread_join(t, u) \/ st_thread_interrupt(t, u)
        PROVE  op' = op \/ \E o : op' = [op EXCEPT ![t] = o]
    BY <2>1 DEF st_thread_join, st_thread_interrupt
  <2> QED
    BY <1>3, <2>1 DEF ThreadCall, st_thread_create, st_thread_exit
<1>4. ASSUME NEW t \in Threads, WaitCall(t)
      PROVE  op' = op \/ \E o : op' = [op EXCEPT ![t] = o]
  BY <1>4 DEF WaitCall, st_usleep, st_poll, st_cond_timedwait, st_mutex_lock
<1>5. ASSUME NEW t \in Threads, SyncCall(t)
      PROVE  op' = op \/ \E o : op' = [op EXCEPT ![t] = o]
  BY <1>5
  DEF SyncCall, st_cond_signal, st_cond_broadcast, st_cond_new,
      st_cond_destroy, st_mutex_unlock, st_mutex_trylock, st_mutex_new,
      st_mutex_destroy
<1>6. ASSUME NEW t \in Threads, Resume(t)
      PROVE  op' = op \/ \E o : op' = [op EXCEPT ![t] = o]
  BY <1>6
  DEF Resume, ReturnFrom, callVars, st_thread_exit_resume,
      st_thread_join_resume, st_usleep_resume, st_poll_resume,
      st_cond_timedwait_resume, st_cond_broadcast_step, st_mutex_lock_resume
<1>7. CASE IdleStep
  <2>1. \/ op' = op
        \/ op' = [op EXCEPT ![Idle] = IF active > 0 THEN "dispatch" ELSE "halted"]
        \/ op' = [op EXCEPT ![Idle] = "clock"]
        \/ op' = [op EXCEPT ![Idle] = "loop"]
    BY <1>7 DEF IdleStep, idle_loop, dispatch_notify, dispatch_pass,
                read_clock, check_clock_expire, idle_switch, callVars
  <2> QED
    BY <1>1, <2>1
<1>8. CASE UNCHANGED vars
  BY <1>8 DEF vars
<1> QED
  BY <1>2, <1>3, <1>4, <1>5, <1>6, <1>7, <1>8 DEF Next

(* So the count stays exact.                                               *)
LEMMA ActiveStep ==
  ASSUME IInv, ActiveExact, [Next]_vars
  PROVE  ActiveExact' /\ \A t \in Threads : ZombieStep(t)
<1>1. CASE \E t, u \in Threads : \E j \in BOOLEAN : st_thread_create(t, u, j)
  <2> PICK t \in Threads, u \in Threads, j \in BOOLEAN : st_thread_create(t, u, j)
    BY <1>1
  <2>1. op' = op /\ op[Idle] # "halted"
    BY ThreadsAssumption
    DEF st_thread_create, Calling, InUserCode, ReturnNow, IInv, IdleInOrder
  <2>2. Cardinality(ActiveThreads') = Cardinality(ActiveThreads) + 1
    BY CreateCounts, ActiveFinite, FS_AddElement
  <2> QED
    BY <2>1, <2>2, CreateCounts DEF ActiveExact
<1>2. CASE \E t \in Threads : st_thread_exit(t)
  <2> PICK t \in Threads : st_thread_exit(t)
    BY <1>2
  <2>1. op'[Idle] = op[Idle] /\ op[Idle] # "halted"
    BY ThreadsAssumption
    DEF st_thread_exit, Calling, InUserCode, IInv, IdleInOrder, TypeOK
  <2>2. Cardinality(ActiveThreads') = Cardinality(ActiveThreads) - 1
    BY ExitCounts, ActiveFinite, FS_RemoveElement
  <2> QED
    BY <2>1, <2>2, ExitCounts DEF ActiveExact
<1>3. CASE NobodyExits
  <2>1. ActiveThreads' = ActiveThreads /\ active' = active
    BY <1>3 DEF NobodyExits, ActiveThreads
  <2>2. Cardinality(ActiveThreads) \in Nat
    BY ActiveFinite, FS_CardinalityType
  <2>3. op'[Idle] = "halted" => op[Idle] = "halted" \/ ~ active > 0
    BY OnlyLoopHalts
  <2> QED
    BY <1>3, <2>1, <2>2, <2>3 DEF ActiveExact, NobodyExits
<1> QED
  BY <1>1, <1>2, <1>3, NextCounts

(* The process ends only when every thread has exited, and only a join     *)
(* brings a zombie back, to finish: _st_active_count is exact.             *)
THEOREM ExitsCounted == Spec => ExitsCorrect
<1>1. Init => ActiveExact
  <2> SUFFICES ASSUME Init PROVE ActiveExact
    OBVIOUS
  <2>1. ActiveThreads = {Main}
    BY ThreadsAssumption DEF Init, ActiveThreads, Exited
  <2> QED
    BY <2>1, FS_Singleton DEF Init, ActiveExact
<1>2. IInv /\ ActiveExact /\ [Next]_vars => ActiveExact'
  BY ActiveStep
<1>3. IInv /\ ActiveExact => ExitOnlyWhenDone
  <2> SUFFICES ASSUME IInv, ActiveExact, op[Idle] = "halted",
                      NEW t \in Threads
               PROVE  state[t] \in {"UNUSED", "ZOMBIE", "DEAD"}
    BY DEF ExitOnlyWhenDone
  <2>1. t \notin ActiveThreads
    BY ActiveFinite, FS_EmptySet DEF ActiveExact
  <2>2. state[t] # "RUNNABLE" /\ state[t] # "RUNNING"
    <3>1. cur = Idle /\ runq = <<>>
      BY DEF IInv, IdleInOrder
    <3>2. t \notin ToSet(<<>>) /\ t # Idle
      BY ThreadsAssumption DEF ToSet
    <3> QED
      BY <3>1, <3>2 DEF IInv, RunQueueExact, OneRunning
  <2>3. state[t] = "UNUSED" \/ op[t] \in {"exit", "done"}
    BY <2>1 DEF ActiveThreads, Exited
  <2> QED
    BY <2>2, <2>3 DEF IInv, TypeOK, States, CallMatchesState
<1>4. IInv /\ ActiveExact /\ [Next]_vars =>
        [\A t \in Threads : op[t] = "exit" /\ state'[t] # state[t] =>
           \/ state[t] = "ZOMBIE" /\ t \notin zombieq' /\ ret' = "ok"
           \/ state[t] = "RUNNABLE" /\ cur' = t
           \/ cur = t /\ state'[t] = "DEAD"]_vars
  BY ActiveStep DEF ZombieStep
<1>5. QED
  BY <1>1, <1>2, <1>3, <1>4, InductiveInvariant, PTL
  DEF Spec, ExitsCorrect, ZombieLeftToJoin

-----------------------------------------------------------------------------
(* How waits end.  One step of InterruptReported, TimeoutOnlyByClock and   *)
(* WokenInOrder.                                                           *)
Reported(t) ==
    t \in intr /\ t \notin intr' =>
        (cur = t /\ ret' = "EINTR") \/ state'[t] = "DEAD"

ClockTells(t) ==
    state[t] = "COND_WAIT" /\ state'[t] # "COND_WAIT" =>
        (t \in tmdout' <=> cur = Idle)

InTurn(o, i, j) ==
    /\ i < j /\ cur \in Threads
    /\ state[wq[o][j]] \in {"COND_WAIT", "LOCK_WAIT"}
    /\ state'[wq[o][j]] = "RUNNABLE"
    /\ wq[o][j] \notin intr'
    => state'[wq[o][i]] \notin {"COND_WAIT", "LOCK_WAIT"}

WaitsEnd ==
    /\ \A t \in Threads : Reported(t) /\ ClockTells(t)
    /\ \A o \in Objects : \A i, j \in 1..Len(wq[o]) : InTurn(o, i, j)

(* Nobody who waits is woken, except by an interrupt.                      *)
NobodyWoken ==
    \A t \in Threads :
        /\ state[t] = "COND_WAIT" => state'[t] = "COND_WAIT"
        /\ state[t] = "LOCK_WAIT" => state'[t] # "RUNNABLE"

(* What is on a queue is a thread.                                         *)
LEMMA OnQueue ==
  ASSUME TypeOK, NEW o \in Objects, NEW i \in 1..Len(wq[o])
  PROVE  wq[o][i] \in Threads
BY DEF TypeOK

(* A step that wakes nobody leaves the waits as they are.                  *)
LEMMA NobodyWokenKeeps ==
  ASSUME IInv, NobodyWoken, \A t \in Threads : Reported(t)
  PROVE  WaitsEnd
<1>1. ASSUME NEW o \in Objects, NEW i \in 1..Len(wq[o]), NEW j \in 1..Len(wq[o])
      PROVE  InTurn(o, i, j)
  <2>1. wq[o][j] \in Threads
    BY OnQueue DEF IInv
  <2> QED
    BY <2>1 DEF InTurn, NobodyWoken
<1> QED
  BY <1>1 DEF WaitsEnd, NobodyWoken, ClockTells

(* A signal, a broadcast, an unlock or an exit wakes the first waiter of x *)
(* in state s; the rest wait on.                                           *)
LEMMA FirstWoken ==
  ASSUME IInv, cur \in Threads, NEW x \in Objects,
         NEW s \in {"COND_WAIT", "LOCK_WAIT"},
         x \in Mutexes <=> s = "LOCK_WAIT", NEW u \in FirstIn(x, s),
         tmdout' = tmdout, \A t \in Threads : Reported(t),
         \A t \in Threads : t # u =>
            state[t] \in {"COND_WAIT", "LOCK_WAIT"} <=>
                state'[t] \in {"COND_WAIT", "LOCK_WAIT"},
         \A t \in Threads : t # u /\ state[t] \in {"COND_WAIT", "LOCK_WAIT"} =>
            state'[t] = state[t]
  PROVE  WaitsEnd
<1>1. cur # Idle /\ TypeOK
  BY ThreadsAssumption DEF IInv
<1>2. PICK k \in 1..Len(wq[x]) :
             /\ wq[x][k] = u
             /\ state[u] = s
             /\ \A l \in 1..(k - 1) : state[wq[x][l]] # s
  BY DEF FirstIn
<1>3. u \in Threads
  BY DEF FirstIn
<1>4. ASSUME NEW t \in Threads PROVE ClockTells(t)
  BY <1>1, <1>4 DEF ClockTells, IInv, TimedoutScoped
<1>5. ASSUME NEW o \in Objects, NEW i \in 1..Len(wq[o]), NEW j \in 1..Len(wq[o]),
             i < j, state[wq[o][j]] \in {"COND_WAIT", "LOCK_WAIT"},
             state'[wq[o][j]] = "RUNNABLE"
      PROVE  state'[wq[o][i]] \notin {"COND_WAIT", "LOCK_WAIT"}
  <2>1. wq[o][i] \in Threads /\ wq[o][j] \in Threads
    BY <1>1, OnQueue
  <2>2. wq[o][j] = u
    BY <1>5, <2>1
  <2>3. o = x
    <3>1. /\ u \in ToSet(wq[o]) /\ u \in ToSet(wq[x])
      BY <1>1, <1>2, <2>2, SeqDomain DEF TypeOK
    <3> QED
      BY <1>3, <3>1 DEF IInv, WaitQueuesExact
  <2>4. j = k
    BY <1>2, <2>2, <2>3 DEF IInv, WaitQueuesExact, IsInjective, TypeOK
  <2>5. state[wq[x][i]] # s /\ wq[x][i] # u
    BY <1>2, <1>5, <2>3, <2>4
  <2>6. wq[x][i] \in ToSet(wq[x])
    BY <1>1, <2>3, SeqDomain DEF TypeOK
  <2>7. op[wq[x][i]] \in WaitOps /\ obj[wq[x][i]] = x
    BY <2>1, <2>3, <2>6 DEF IInv, WaitQueuesExact
  <2>8. state[wq[x][i]] \notin {"COND_WAIT", "LOCK_WAIT"}
    BY <2>1, <2>3, <2>5, <2>7, ObjectsAssumption
    DEF IInv, CallMatchesState, ObjectMatchesCall
  <2> QED
    BY <2>1, <2>3, <2>5, <2>8
<1>6. \A o \in Objects : \A i, j \in 1..Len(wq[o]) : InTurn(o, i, j)
  BY <1>5 DEF InTurn
<1> QED
  BY <1>4, <1>6 DEF WaitsEnd

(* Waiting threads stay as they are.                                       *)
Quiet ==
    \A t \in Threads :
        state'[t] # state[t] => state[t] \notin {"COND_WAIT", "LOCK_WAIT"}

(* The caller t may use up its interrupt, if it says so or dies.           *)
MayReport(t) ==
    \/ intr \subseteq intr'
    \/ /\ intr' = intr \ {t}
       /\ t \in intr => ret' = "EINTR" \/ state'[t] = "DEAD"

(* A step of t that moves no waiting thread.                               *)
LEMMA QuietKeeps ==
  ASSUME IInv, NEW t \in Threads, cur = t, Quiet, MayReport(t)
  PROVE  WaitsEnd
<1>1. \A y \in Threads : Reported(y)
  BY DEF MayReport, Reported
<1>2. NobodyWoken
  BY DEF Quiet, NobodyWoken
<1> QED
  BY <1>1, <1>2, NobodyWokenKeeps

(* A blocking call moves the caller and the next thread.                   *)
LEMMA SwitchQuiet ==
  ASSUME IInv, NEW t \in Threads, cur = t, NEW s \in Blocked, NEW o, NEW x,
         NEW d \in Nat \cup {NO_TIMEOUT}, SwitchOut(t, s, o, x, d)
  PROVE  Quiet
<1>1. /\ state[cur'] = "RUNNABLE" /\ state[t] = "RUNNING"
      /\ \A y \in Threads : y # t /\ y # cur' => state'[y] = state[y]
  BY SwitchOutLemma DEF IInv, OneRunning
<1> QED
  BY <1>1 DEF Quiet

(* A join moves a zombie.                                                  *)
LEMMA ReapQuiet ==
  ASSUME IInv, NEW u \in Threads, state[u] = "ZOMBIE", Reap(u)
  PROVE  Quiet
BY DEF Reap, Quiet, IInv, TypeOK

(* An exit that wakes nobody.                                              *)
LEMMA LeavingQuiet ==
  ASSUME IInv, NEW t \in Threads, cur = t, NEW s \in {"ZOMBIE", "DEAD"},
         vp_schedule([state EXCEPT ![t] = s], runq)
  PROVE  Quiet /\ state'[t] = s
<1> DEFINE st == [state EXCEPT ![t] = s]
<1>1. /\ t # Idle /\ Idle \notin Threads /\ state[Idle] = "RUNNABLE"
      /\ \A x \in Threads \cup {Idle} : state[x] = "RUNNING" <=> x = t
      /\ \A x \in Threads : x \in ToSet(runq) <=> state[x] = "RUNNABLE"
      /\ state \in [Threads \cup {Idle} -> States]
      /\ runq \in Seq(Threads) /\ IsInjective(runq)
  BY ThreadsAssumption DEF IInv, TypeOK, OneRunning, IdleInOrder, RunQueueExact
<1>2. /\ st \in [Threads \cup {Idle} -> States] /\ st[t] = s
      /\ \A x \in Threads \cup {Idle} : x # t => st[x] = state[x]
  BY <1>1 DEF States
<1>3. vp_schedule(st, runq)
  OBVIOUS
<1> HIDE DEF st
<1>4. /\ st[Idle] = "RUNNABLE"
      /\ \A x \in Threads \cup {Idle} : st[x] # "RUNNING"
      /\ \A x \in Threads : x \in ToSet(runq) <=> st[x] = "RUNNABLE"
  BY <1>1, <1>2
<1>5. /\ st[cur'] = "RUNNABLE"
      /\ \A x \in Threads \cup {Idle} : x # cur' => state'[x] = st[x]
  BY <1>1, <1>2, <1>3, <1>4, ScheduleLemma
<1> QED
  BY <1>1, <1>2, <1>5 DEF Quiet

(* An exit wakes the first thread that joins, if any.                      *)
LEMMA ExitWaits ==
  ASSUME IInv, NEW t \in Threads, st_thread_exit(t)
  PROVE  WaitsEnd
<1>1. /\ cur = t /\ op[t] = "user" /\ state[t] = "RUNNING"
      /\ tmdout' = tmdout /\ TypeOK
      /\ state \in [Threads \cup {Idle} -> States]
      /\ runq \in Seq(Threads) /\ IsInjective(runq)
      /\ \A x \in Threads : x \in ToSet(runq) <=> state[x] = "RUNNABLE"
  BY DEF st_thread_exit, Calling, InUserCode, IInv, TypeOK, OneRunning,
         RunQueueExact
<1>2. ASSUME NEW u \in FirstIn(t, "COND_WAIT"), intr' = intr,
             vp_schedule([state EXCEPT ![t] = "ZOMBIE", ![u] = "RUNNABLE"],
                         Append(runq, u))
      PROVE  WaitsEnd
  <2> DEFINE st == [state EXCEPT ![t] = "ZOMBIE", ![u] = "RUNNABLE"]
             rq == Append(runq, u)
  <2>1. u \in Threads /\ state[u] = "COND_WAIT"
    BY <1>1, <1>2, FirstInLemma DEF Objects
  <2>2. /\ st \in [Threads \cup {Idle} -> States]
        /\ st[t] = "ZOMBIE" /\ st[u] = "RUNNABLE"
        /\ \A x \in Threads \cup {Idle} : x # t /\ x # u => st[x] = state[x]
    BY <1>1, <2>1 DEF States
  <2>3. /\ rq \in Seq(Threads) /\ IsInjective(rq)
        /\ \A x : x \in ToSet(rq) <=> x \in ToSet(runq) \/ x = u
    BY <1>1, <2>1, <2>2, AppendLemma DEF IInv, RunQueueExact
  <2>4. vp_schedule(st, rq)
    BY <1>2
  <2> HIDE DEF st, rq
  <2>5. \A x \in Threads : x \in ToSet(rq) <=> st[x] = "RUNNABLE"
    BY <1>1, <2>1, <2>2, <2>3
  <2>6. /\ st[Idle] = "RUNNABLE"
        /\ \A x \in Threads \cup {Idle} : st[x] # "RUNNING"
    <3>1. /\ state[Idle] = "RUNNABLE" /\ Idle # t /\ Idle # u
          /\ \A x \in Threads \cup {Idle} : x # t => state[x] # "RUNNING"
      BY <1>1, <2>1, ThreadsAssumption DEF IInv, OneRunning, IdleInOrder
    <3> QED
      BY <2>1, <2>2, <3>1
  <2>7. /\ st[cur'] = "RUNNABLE" /\ state'[cur'] = "RUNNING"
        /\ \A y \in Threads \cup {Idle} : y # cur' => state'[y] = st[y]
    BY <2>2, <2>3, <2>4, <2>5, <2>6, ScheduleLemma
  <2>8. ASSUME NEW y \in Threads, y # u, state'[y] # state[y]
        PROVE  /\ state[y] \notin {"COND_WAIT", "LOCK_WAIT"}
               /\ state'[y] \notin {"COND_WAIT", "LOCK_WAIT"}
    <3>1. CASE y = t
      BY <1>1, <2>2, <2>7, <3>1
    <3>2. CASE y # t
      <4>1. st[y] = state[y]
        BY <2>2, <2>8, <3>2
      <4>2. y = cur'
        BY <2>7, <2>8, <4>1
      <4> QED
        BY <2>7, <4>1, <4>2
    <3> QED
      BY <3>1, <3>2
  <2>9. /\ t \in Objects /\ t \notin Mutexes /\ \A y \in Threads : Reported(y)
    BY <1>2, ObjectsAssumption DEF Objects, Reported
  <2> QED
    BY <1>1, <1>2, <2>8, <2>9, FirstWoken
<1>3. ASSUME NEW s \in {"ZOMBIE", "DEAD"},
             vp_schedule([state EXCEPT ![t] = s], runq),
             intr' = intr \/ (s = "DEAD" /\ intr' = intr \ {t})
      PROVE  WaitsEnd
  BY <1>1, <1>3, LeavingQuiet, QuietKeeps DEF MayReport
<1>4. \/ \E u \in FirstIn(t, "COND_WAIT") :
            /\ intr' = intr
            /\ vp_schedule([state EXCEPT ![t] = "ZOMBIE", ![u] = "RUNNABLE"],
                           Append(runq, u))
      \/ intr' = intr /\ vp_schedule([state EXCEPT ![t] = "ZOMBIE"], runq)
      \/ intr' = intr \ {t} /\ vp_schedule([state EXCEPT ![t] = "DEAD"], runq)
  BY DEF st_thread_exit
<1> QED
  BY <1>2, <1>3, <1>4

(* Calls that wake nobody.                                                 *)
LEMMA CallWaits ==
  ASSUME IInv, NEW t \in Threads,
         \/ \E u \in Threads : \E j \in BOOLEAN : st_thread_create(t, u, j)
         \/ \E u \in Threads : st_thread_join(t, u)
         \/ WaitCall(t)
  PROVE  WaitsEnd
<1> USE DEF Calling, InUserCode, ReturnNow, EintrOnEntry
<1>1. cur = t
  BY DEF st_thread_create, st_thread_join, WaitCall, st_usleep, st_poll,
         st_cond_timedwait, st_mutex_lock
<1>2. \A d \in Timeouts : d \in Nat \cup {NO_TIMEOUT}
  BY TimesAssumption
<1>3. ASSUME UNCHANGED state, MayReport(t) PROVE Quiet /\ MayReport(t)
  BY <1>3 DEF Quiet
<1>4. CASE \E u \in Threads : \E j \in BOOLEAN : st_thread_create(t, u, j)
  <2> PICK u \in Threads, j \in BOOLEAN : st_thread_create(t, u, j)
    BY <1>4
  <2>1. Quiet
    BY DEF st_thread_create, Quiet, IInv, TypeOK
  <2>2. intr \subseteq intr'
    BY DEF st_thread_create, flagVars
  <2> QED
    BY <1>1, <2>1, <2>2, QuietKeeps DEF MayReport
<1>5. CASE \E u \in Threads : st_thread_join(t, u)
  <2> PICK u \in Threads : st_thread_join(t, u)
    BY <1>5
  <2>1. /\ \/ UNCHANGED state
           \/ state[u] = "ZOMBIE" /\ Reap(u)
           \/ SwitchOut(t, "COND_WAIT", "join", u, NO_TIMEOUT)
        /\ MayReport(t)
    BY DEF st_thread_join, schedVars, flagVars, MayReport
  <2>2. UNCHANGED state => Quiet
    BY DEF Quiet
  <2> QED
    BY <1>1, <2>1, <2>2, ReapQuiet, SwitchQuiet, QuietKeeps DEF Blocked
<1>6. CASE \E d \in Timeouts : st_usleep(t, d)
  <2> PICK d \in Timeouts : st_usleep(t, d)
    BY <1>6
  <2> PICK s \in {"SUSPENDED", "SLEEPING"} :
             s = IF d = NO_TIMEOUT THEN "SUSPENDED" ELSE "SLEEPING"
    OBVIOUS
  <2>1. /\ UNCHANGED state \/ SwitchOut(t, s, "usleep", None, d)
        /\ MayReport(t)
    BY DEF st_usleep, schedVars, flagVars, MayReport
  <2>2. UNCHANGED state => Quiet
    BY DEF Quiet
  <2> QED
    BY <1>1, <1>2, <2>1, <2>2, SwitchQuiet, QuietKeeps DEF Blocked
<1>7. CASE \E d \in Timeouts : st_poll(t, d)
  <2> PICK d \in Timeouts : st_poll(t, d)
    BY <1>7
  <2>1. /\ UNCHANGED state \/ SwitchOut(t, "IO_WAIT", "poll", None, d)
        /\ MayReport(t)
    BY DEF st_poll, schedVars, flagVars, MayReport
  <2>2. UNCHANGED state => Quiet
    BY DEF Quiet
  <2> QED
    BY <1>1, <1>2, <2>1, <2>2, SwitchQuiet, QuietKeeps DEF Blocked
<1>8. CASE \E c \in Conds : \E d \in Timeouts : st_cond_timedwait(t, c, d)
  <2> PICK c \in Conds, d \in Timeouts : st_cond_timedwait(t, c, d)
    BY <1>8
  <2>1. /\ UNCHANGED state \/ SwitchOut(t, "COND_WAIT", "timedwait", c, d)
        /\ MayReport(t)
    BY DEF st_cond_timedwait, schedVars, flagVars, MayReport
  <2>2. UNCHANGED state => Quiet
    BY DEF Quiet
  <2> QED
    BY <1>1, <1>2, <2>1, <2>2, SwitchQuiet, QuietKeeps DEF Blocked
<1>9. CASE \E m \in Mutexes : st_mutex_lock(t, m)
  <2> PICK m \in Mutexes : st_mutex_lock(t, m)
    BY <1>9
  <2>1. /\ UNCHANGED state \/ SwitchOut(t, "LOCK_WAIT", "lock", m, NO_TIMEOUT)
        /\ MayReport(t)
    BY DEF st_mutex_lock, schedVars, flagVars, MayReport
  <2>2. UNCHANGED state => Quiet
    BY DEF Quiet
  <2> QED
    BY <1>1, <2>1, <2>2, SwitchQuiet, QuietKeeps DEF Blocked
<1> QED
  BY <1>4, <1>5, <1>6, <1>7, <1>8, <1>9 DEF WaitCall

(* An interrupt wakes a thread out of its turn, and says so.               *)
LEMMA InterruptWaits ==
  ASSUME IInv, NEW t \in Threads, NEW u \in Threads, st_thread_interrupt(t, u)
  PROVE  WaitsEnd
<1>1. /\ cur = t /\ cur # Idle /\ TypeOK /\ tmdout' = tmdout
      /\ intr \subseteq intr'
      /\ \/ UNCHANGED state
         \/ state' = [state EXCEPT ![u] = "RUNNABLE"] /\ u \in intr'
  BY ThreadsAssumption
  DEF st_thread_interrupt, Calling, InUserCode, schedVars, MakeRunnable, IInv
<1>2. \A y \in Threads : y # u \/ u \notin intr' => state'[y] = state[y]
  BY <1>1 DEF TypeOK
<1>3. ASSUME NEW y \in Threads PROVE Reported(y) /\ ClockTells(y)
  BY <1>1, <1>2 DEF Reported, ClockTells, IInv, TimedoutScoped
<1>4. ASSUME NEW o \in Objects, NEW i \in 1..Len(wq[o]), NEW j \in 1..Len(wq[o])
      PROVE  InTurn(o, i, j)
  <2>1. wq[o][j] \in Threads
    BY <1>1, OnQueue
  <2> QED
    BY <1>2, <2>1 DEF InTurn
<1> QED
  BY <1>3, <1>4 DEF WaitsEnd

(* Signals and unlocks wake the first waiter.                              *)
LEMMA SyncWaits ==
  ASSUME IInv, NEW t \in Threads, SyncCall(t)
  PROVE  WaitsEnd
<1>1. /\ cur = t /\ TypeOK /\ intr' = intr /\ tmdout' = tmdout
      /\ state \in [Threads \cup {Idle} -> States]
  BY DEF SyncCall, Calling, InUserCode, flagVars, IInv, TypeOK, st_cond_signal,
         st_cond_broadcast, st_cond_new, st_cond_destroy, st_mutex_unlock,
         st_mutex_trylock, st_mutex_new, st_mutex_destroy
<1>2. \A y \in Threads : Reported(y)
  BY <1>1 DEF Reported
<1>3. ASSUME NEW x \in Objects, NEW s \in {"COND_WAIT", "LOCK_WAIT"},
             x \in Mutexes <=> s = "LOCK_WAIT", NEW u \in FirstIn(x, s),
             state' = [state EXCEPT ![u] = "RUNNABLE"]
      PROVE  WaitsEnd
  <2>1. \A y \in Threads : y # u => state'[y] = state[y]
    BY <1>1, <1>3
  <2> QED
    BY <1>1, <1>2, <1>3, <2>1, FirstWoken
<1>4. UNCHANGED state => WaitsEnd
  BY <1>1, QuietKeeps DEF Quiet, MayReport
<1>5. CASE \E c \in Conds : st_cond_signal(t, c)
  <2> PICK c \in Conds : st_cond_signal(t, c)
    BY <1>5
  <2>1. c \in Objects /\ c \notin Mutexes
    BY ObjectsAssumption DEF Objects
  <2>2. \/ \E u \in FirstIn(c, "COND_WAIT") :
              state' = [state EXCEPT ![u] = "RUNNABLE"]
        \/ UNCHANGED state
    BY DEF st_cond_signal, MakeRunnable, schedVars
  <2> QED
    BY <1>3, <1>4, <2>1, <2>2
<1>6. CASE \E m \in Mutexes : st_mutex_unlock(t, m)
  <2> PICK m \in Mutexes : st_mutex_unlock(t, m)
    BY <1>6
  <2>1. \/ \E u \in FirstIn(m, "LOCK_WAIT") :
              state' = [state EXCEPT ![u] = "RUNNABLE"]
        \/ UNCHANGED state
    BY DEF st_mutex_unlock
  <2> QED
    BY <1>3, <1>4, <2>1 DEF Objects
<1>7. CASE UNCHANGED state
  BY <1>4, <1>7
<1> QED
  BY <1>5, <1>6, <1>7
  DEF SyncCall, schedVars, st_cond_broadcast, st_cond_new, st_cond_destroy,
      st_mutex_trylock, st_mutex_new, st_mutex_destroy

(* A resumed thread reports its own interrupt.                             *)
LEMMA ResumeWaits ==
  ASSUME IInv, NEW t \in Threads, Resume(t)
  PROVE  WaitsEnd
<1> USE DEF Resumed
<1>1. /\ cur = t /\ TypeOK /\ state \in [Threads \cup {Idle} -> States]
  BY DEF IInv, TypeOK, Resume, st_thread_exit_resume, st_thread_join_resume,
         st_usleep_resume, st_poll_resume, st_cond_timedwait_resume,
         st_cond_broadcast_step, st_mutex_lock_resume
<1>2. UNCHANGED state /\ MayReport(t) => WaitsEnd
  BY <1>1, QuietKeeps DEF Quiet
<1>3. CASE st_thread_exit_resume(t)
  <2>1. vp_schedule([state EXCEPT ![t] = "DEAD"], runq) /\ intr' = intr \ {t}
    BY <1>3 DEF st_thread_exit_resume
  <2> QED
    BY <1>1, <2>1, LeavingQuiet, QuietKeeps DEF MayReport
<1>4. CASE st_thread_join_resume(t)
  <2> DEFINE u == obj[t]
  <2>1. u \in Threads
    BY <1>4 DEF st_thread_join_resume, IInv, ObjectMatchesCall
  <2>2. MayReport(t)
    BY <1>4 DEF st_thread_join_resume, LeaveWaitQueue, TimedwaitResult,
                ReturnFrom, flagVars, MayReport
  <2>3. \/ UNCHANGED state
        \/ state[u] = "ZOMBIE" /\ Reap(u)
        \/ SwitchOut(t, "COND_WAIT", "join", u, NO_TIMEOUT)
    BY <1>4 DEF st_thread_join_resume, schedVars
  <2> QED
    BY <1>1, <1>2, <2>1, <2>2, <2>3, ReapQuiet, SwitchQuiet, QuietKeeps
    DEF Blocked
<1>5. CASE st_cond_broadcast_step(t)
  <2>1. /\ obj[t] \in Objects /\ obj[t] \notin Mutexes
        /\ intr' = intr /\ tmdout' = tmdout
    BY <1>5, ObjectsAssumption
    DEF st_cond_broadcast_step, flagVars, IInv, ObjectMatchesCall, Objects
  <2>2. \A y \in Threads : Reported(y)
    BY <2>1 DEF Reported
  <2>3. ASSUME NEW u \in FirstIn(obj[t], "COND_WAIT"),
               state' = [state EXCEPT ![u] = "RUNNABLE"]
        PROVE  WaitsEnd
    <3>1. \A y \in Threads : y # u => state'[y] = state[y]
      BY <1>1, <2>3
    <3> QED
      BY <1>1, <2>1, <2>2, <2>3, <3>1, FirstWoken
  <2>4. \/ \E u \in FirstIn(obj[t], "COND_WAIT") :
              state' = [state EXCEPT ![u] = "RUNNABLE"]
        \/ UNCHANGED state
    BY <1>5 DEF st_cond_broadcast_step, MakeRunnable, schedVars
  <2> QED
    BY <1>2, <2>1, <2>3, <2>4 DEF MayReport
<1>6. CASE st_usleep_resume(t) \/ st_poll_resume(t)
  BY <1>2, <1>6 DEF st_usleep_resume, st_poll_resume, ReturnFrom, schedVars,
                    MayReport
<1>7. CASE st_cond_timedwait_resume(t)
  BY <1>2, <1>7 DEF st_cond_timedwait_resume, LeaveWaitQueue, TimedwaitResult,
                    ReturnFrom, schedVars, MayReport
<1>8. CASE st_mutex_lock_resume(t)
  BY <1>2, <1>8 DEF st_mutex_lock_resume, ReturnFrom, schedVars, MayReport
<1> QED
  BY <1>3, <1>4, <1>5, <1>6, <1>7, <1>8 DEF Resume

(* The clock alone sets TIMEDOUT.                                          *)
LEMMA IdleWaits ==
  ASSUME IInv, IdleStep
  PROVE  WaitsEnd
<1>1. /\ cur = Idle /\ Idle \notin Threads /\ intr' = intr /\ TypeOK
      /\ state \in [Threads \cup {Idle} -> States]
  BY ThreadsAssumption
  DEF IdleStep, idle_loop, dispatch_notify, dispatch_pass, read_clock,
      check_clock_expire, idle_switch, flagVars, IInv, TypeOK
<1>2. ASSUME \A y \in Threads : ClockTells(y) PROVE WaitsEnd
  BY <1>1, <1>2 DEF WaitsEnd, Reported, InTurn
<1>3. ASSUME \A y \in Threads : state[y] = "COND_WAIT" => state'[y] = "COND_WAIT"
      PROVE  WaitsEnd
  BY <1>2, <1>3 DEF ClockTells
<1>4. CASE dispatch_notify
  <2>1. /\ ioq[scan] \in Threads /\ state[ioq[scan]] = "IO_WAIT"
    <3>1. /\ scan \in scan..Len(ioq) /\ ioq[scan] \in Threads
      BY <1>1, <1>4 DEF TypeOK, dispatch_notify
    <3> QED
      BY <1>1, <1>4, <3>1 DEF dispatch_notify, IInv, DispatchMeetsWaiters
  <2>2. state' = [state EXCEPT ![ioq[scan]] = "RUNNABLE"]
    BY <1>4 DEF dispatch_notify, MakeRunnable
  <2> QED
    BY <1>1, <1>3, <2>1, <2>2
<1>5. CASE \E t \in Threads : check_clock_expire(t)
  <2> PICK t \in Threads : check_clock_expire(t)
    BY <1>5
  <2>1. /\ state' = [state EXCEPT ![t] = "RUNNABLE"]
        /\ state[t] = "COND_WAIT" => t \in tmdout'
    BY DEF check_clock_expire, MakeRunnable, MarkTimedout
  <2>2. \A y \in Threads : y # t => state'[y] = state[y]
    BY <1>1, <2>1
  <2> QED
    BY <1>1, <1>2, <2>1, <2>2 DEF ClockTells
<1>6. CASE idle_switch
  <2> DEFINE st == [state EXCEPT ![Idle] = "RUNNABLE"]
  <2>1. vp_schedule(st, runq)
    BY <1>6 DEF idle_switch
  <2>2. /\ st \in [Threads \cup {Idle} -> States] /\ st[Idle] = "RUNNABLE"
        /\ \A x \in Threads : st[x] = state[x] /\ state[x] # "RUNNING"
    BY <1>1 DEF IInv, OneRunning, States
  <2>3. /\ runq \in Seq(Threads) /\ IsInjective(runq)
        /\ \A x \in Threads : x \in ToSet(runq) <=> state[x] = "RUNNABLE"
    BY DEF IInv, TypeOK, RunQueueExact
  <2> HIDE DEF st
  <2>4. /\ st[cur'] = "RUNNABLE"
        /\ \A x \in Threads \cup {Idle} : x # cur' => state'[x] = st[x]
    BY <2>1, <2>2, <2>3, ScheduleLemma
  <2> QED
    BY <1>3, <2>2, <2>4
<1>7. CASE UNCHANGED state
  BY <1>3, <1>7
<1> QED
  BY <1>4, <1>5, <1>6, <1>7
  DEF IdleStep, idle_loop, dispatch_pass, read_clock, schedVars

(* Every step.                                                             *)
LEMMA NextWaits ==
  ASSUME IInv, Next
  PROVE  WaitsEnd
<1>1. ASSUME NEW t \in Threads, ThreadCall(t) PROVE WaitsEnd
  BY <1>1, CallWaits, ExitWaits, InterruptWaits DEF ThreadCall
<1> QED
  BY <1>1, CallWaits, SyncWaits, ResumeWaits, IdleWaits DEF Next

(* Whatever ends a wait, the wait says so: an interrupt is reported once,  *)
(* a timeout if and only if the clock ended the wait on a condition        *)
(* variable, and signals and unlocks serve the waiters in order.           *)
THEOREM WaitsEndCorrectly == Spec => WaitsCorrect
<1>1. IInv /\ [Next]_vars =>
        [\A t \in intr : t \notin intr' =>
           (cur = t /\ ret' = "EINTR") \/ state'[t] = "DEAD"]_vars
  BY NextWaits DEF WaitsEnd, Reported, IInv, TypeOK
<1>2. IInv /\ [Next]_vars =>
        [\A t \in Threads :
           state[t] = "COND_WAIT" /\ state'[t] # "COND_WAIT" =>
              (t \in tmdout' <=> cur = Idle)]_vars
  BY NextWaits DEF WaitsEnd, ClockTells
<1>3. IInv /\ [Next]_vars =>
        [\A o \in Objects : \A i, j \in 1..Len(wq[o]) :
           LET t == wq[o][i]  u == wq[o][j] IN
           /\ i < j /\ cur \in Threads
           /\ state[u] \in {"COND_WAIT", "LOCK_WAIT"} /\ state'[u] = "RUNNABLE"
           /\ u \notin intr'
           => state'[t] \notin {"COND_WAIT", "LOCK_WAIT"}]_vars
  BY NextWaits DEF WaitsEnd, InTurn
<1>4. QED
  BY <1>1, <1>2, <1>3, InductiveInvariant, PTL
  DEF Spec, WaitsCorrect, InterruptReported, TimeoutOnlyByClock, WokenInOrder

-----------------------------------------------------------------------------
(* What the scheduler does with the timeout heap.                          *)

(* Threads off the heap have no due time.                                  *)
DueZero == \A t \in Threads \ sleepq : due[t] = 0

SInv == IInv /\ DueZero

(* What a step of a thread may do to the heap.                             *)
SleepStep(t) ==
    /\ cur = t
    /\ op'[Idle] = op[Idle]
    /\ \/ UNCHANGED <<sleepq, due>>
       \/ \E u \in Threads : del_sleep_q(u)
       \/ \E d \in Timeouts : add_sleep_q(t, d)

LEMMA NoTimeout ==
    ASSUME NEW t \in Threads, add_sleep_q(t, NO_TIMEOUT)
    PROVE  UNCHANGED <<sleepq, due>>
BY DEF add_sleep_q

LEMMA CallsSleep ==
    ASSUME IInv, NEW t \in Threads, ThreadCall(t) \/ WaitCall(t)
    PROVE  SleepStep(t)
<1> USE DEF Calling, InUserCode, ReturnNow
<1>1. Idle \notin Threads /\ op \in [Threads \cup {Idle} -> Ops]
  BY ThreadsAssumption DEF IInv, TypeOK
<1>2. \A x : [op EXCEPT ![t] = x][Idle] = op[Idle]
  BY <1>1
<1>3. ASSUME EintrOnEntry(t), cur = t PROVE SleepStep(t)
  BY <1>3 DEF EintrOnEntry, SleepStep, schedVars
<1>4. ASSUME NEW s, NEW o, NEW x, NEW d, SwitchOut(t, s, o, x, d), cur = t,
             d \in Timeouts \cup {NO_TIMEOUT}
      PROVE  SleepStep(t)
  BY <1>2, <1>4, NoTimeout DEF SwitchOut, SleepStep
<1>5. CASE ThreadCall(t)
  <2>1. CASE \E u \in Threads : \E j \in BOOLEAN : st_thread_create(t, u, j)
    BY <2>1 DEF st_thread_create, SleepStep
  <2>2. CASE st_thread_exit(t)
    BY <1>2, <2>2 DEF st_thread_exit, SleepStep, FirstIn
  <2>3. CASE \E u \in Threads : st_thread_join(t, u)
    <3> PICK u \in Threads : st_thread_join(t, u)
      BY <2>3
    <3>1. \/ UNCHANGED <<sleepq, due, op>>
          \/ EintrOnEntry(t)
          \/ SwitchOut(t, "COND_WAIT", "join", u, NO_TIMEOUT)
      BY DEF st_thread_join, schedVars
    <3>2. cur = t
      BY DEF st_thread_join
    <3> QED BY <1>3, <1>4, <3>1, <3>2 DEF SleepStep
  <2>4. CASE \E u \in Threads : st_thread_interrupt(t, u)
    BY <2>4 DEF st_thread_interrupt, MakeRunnable, SleepStep, schedVars
  <2> QED BY <1>5, <2>1, <2>2, <2>3, <2>4 DEF ThreadCall
<1>6. CASE WaitCall(t)
  <2>1. CASE \E d \in Timeouts : st_usleep(t, d)
    <3> PICK d \in Timeouts : st_usleep(t, d)
      BY <2>1
    <3>1. CASE EintrOnEntry(t)
      BY <1>3, <3>1 DEF st_usleep
    <3>2. CASE SwitchOut(t, IF d = NO_TIMEOUT THEN "SUSPENDED" ELSE "SLEEPING", "usleep", None, d)
      BY <1>2, <3>2 DEF st_usleep, SwitchOut, SleepStep
    <3> QED BY <3>1, <3>2 DEF st_usleep
  <2>2. CASE \E d \in Timeouts : st_poll(t, d)
    <3> PICK d \in Timeouts : st_poll(t, d)
      BY <2>2
    <3>1. CASE EintrOnEntry(t)
      BY <1>3, <3>1 DEF st_poll
    <3>2. CASE UNCHANGED <<sleepq, due, op>>
      BY <3>2 DEF st_poll, SleepStep
    <3>3. CASE SwitchOut(t, "IO_WAIT", "poll", None, d)
      BY <1>4, <3>3 DEF st_poll
    <3> QED BY <3>1, <3>2, <3>3 DEF st_poll, schedVars
  <2>3. CASE \E c \in Conds : \E d \in Timeouts : st_cond_timedwait(t, c, d)
    <3> PICK c \in Conds, d \in Timeouts : st_cond_timedwait(t, c, d)
      BY <2>3
    <3> QED BY <1>3, <1>4 DEF st_cond_timedwait
  <2>4. CASE \E m \in Mutexes : st_mutex_lock(t, m)
    <3> PICK m \in Mutexes : st_mutex_lock(t, m)
      BY <2>4
    <3>1. CASE EintrOnEntry(t)
      BY <1>3, <3>1 DEF st_mutex_lock
    <3>2. CASE UNCHANGED <<sleepq, due, op>>
      BY <3>2 DEF st_mutex_lock, SleepStep
    <3>3. CASE SwitchOut(t, "LOCK_WAIT", "lock", m, NO_TIMEOUT)
      BY <1>4, <3>3 DEF st_mutex_lock
    <3> QED BY <3>1, <3>2, <3>3 DEF st_mutex_lock, schedVars
  <2> QED BY <1>6, <2>1, <2>2, <2>3, <2>4 DEF WaitCall
<1> QED BY <1>5, <1>6

LEMMA OthersSleep ==
    ASSUME IInv, NEW t \in Threads, SyncCall(t) \/ Resume(t)
    PROVE  SleepStep(t)
<1> USE DEF Calling, InUserCode, ReturnNow, Resumed
<1>1. Idle \notin Threads /\ op \in [Threads \cup {Idle} -> Ops]
  BY ThreadsAssumption DEF IInv, TypeOK
<1>2. \A x : [op EXCEPT ![t] = x][Idle] = op[Idle]
  BY <1>1
<1>3. CASE \E c \in Conds : \/ st_cond_signal(t, c) \/ st_cond_broadcast(t, c)
                            \/ st_cond_new(t, c) \/ st_cond_destroy(t, c)
  <2>1. CASE \E c \in Conds : st_cond_signal(t, c)
    BY <2>1 DEF st_cond_signal, FirstIn, MakeRunnable, SleepStep, schedVars
  <2>2. CASE \E c \in Conds : st_cond_broadcast(t, c)
    BY <1>2, <2>2 DEF st_cond_broadcast, SleepStep, schedVars
  <2>3. CASE \E c \in Conds : st_cond_new(t, c) \/ st_cond_destroy(t, c)
    BY <2>3 DEF st_cond_new, st_cond_destroy, SleepStep, schedVars
  <2> QED BY <1>3, <2>1, <2>2, <2>3
<1>4. CASE \E m \in Mutexes : \/ st_mutex_unlock(t, m) \/ st_mutex_trylock(t, m)
                              \/ st_mutex_new(t, m) \/ st_mutex_destroy(t, m)
  BY <1>4 DEF st_mutex_unlock, st_mutex_trylock, st_mutex_new, st_mutex_destroy,
              SleepStep, schedVars
<1>5. CASE Resume(t)
  <2>1. CASE st_thread_exit_resume(t)
    BY <1>2, <2>1 DEF st_thread_exit_resume, SleepStep
  <2>2. CASE st_thread_join_resume(t)
    BY <1>2, <2>2, NoTimeout
       DEF st_thread_join_resume, SwitchOut, ReturnFrom, SleepStep, schedVars
  <2>3. CASE st_usleep_resume(t) \/ st_poll_resume(t)
    BY <1>2, <2>3 DEF st_usleep_resume, st_poll_resume, ReturnFrom, SleepStep, schedVars
  <2>4. CASE st_cond_timedwait_resume(t) \/ st_mutex_lock_resume(t)
    BY <1>2, <2>4
       DEF st_cond_timedwait_resume, st_mutex_lock_resume, ReturnFrom, SleepStep, schedVars
  <2>5. CASE st_cond_broadcast_step(t)
    BY <1>2, <2>5 DEF st_cond_broadcast_step, FirstIn, MakeRunnable, ReturnFrom,
                      SleepStep, schedVars, callVars
  <2> QED BY <1>5, <2>1, <2>2, <2>3, <2>4, <2>5 DEF Resume
<1> QED BY <1>3, <1>4, <1>5 DEF SyncCall

-----------------------------------------------------------------------------
(* A thread that is taken off the heap, if it is there.                    *)
LEMMA DeleteSteps ==
    ASSUME SInv, NEW u \in Threads, del_sleep_q(u)
    PROVE  /\ DueZero'
           /\ UNCHANGED <<sleepq, due>> \/ u \in sleepq
<1>1. due \in [Threads -> Int] /\ sleepq \subseteq Threads
  BY DEF SInv, IInv, TypeOK
<1>2. DueZero'
  BY <1>1 DEF SInv, DueZero, del_sleep_q
<1>3. u \notin sleepq => UNCHANGED <<sleepq, due>>
  <2>1. u \notin sleepq => due[u] = 0
    BY DEF SInv, DueZero
  <2> QED BY <1>1, <2>1 DEF del_sleep_q
<1> QED BY <1>2, <1>3

(* A thread that runs is not on the heap, and the clock is not being read. *)
LEMMA ThreadSleeps ==
    ASSUME SInv, NEW t \in Threads, SleepStep(t)
    PROVE  DueZero' /\ [SQ!Next]_(SQ!vars)
<1>1. /\ due \in [Threads -> Int] /\ sleepq \subseteq Threads
      /\ t # Idle /\ op[Idle] = "loop" /\ t \notin sleepq
  BY ThreadsAssumption DEF SInv, IInv, TypeOK, SleepStep, IdleInOrder, OneRunning, SleepersWait
<1>2. op'[Idle] = op[Idle]
  BY DEF SleepStep
<1>3. CASE UNCHANGED <<sleepq, due>>
  BY <1>2, <1>3 DEF SInv, DueZero, SQ!vars
<1>4. CASE \E u \in Threads : del_sleep_q(u)
  <2> PICK u \in Threads : del_sleep_q(u)
    BY <1>4
  <2>1. DueZero' /\ (UNCHANGED <<sleepq, due>> \/ u \in sleepq)
    BY DeleteSteps
  <2>2. u \in sleepq => SQ!Delete(u)
    BY <1>1, <1>2 DEF SQ!Delete, SQ!Remove, del_sleep_q
  <2> QED BY <1>3, <2>1, <2>2 DEF SQ!Next
<1>5. CASE \E d \in Timeouts : add_sleep_q(t, d)
  <2> PICK d \in Timeouts : add_sleep_q(t, d)
    BY <1>5
  <2>1. CASE d = NO_TIMEOUT
    BY <1>3, <2>1, NoTimeout
  <2>2. CASE d # NO_TIMEOUT
    <3>1. SQ!Add(t, d)
      BY <1>1, <1>2, <2>2 DEF SQ!Add, add_sleep_q
    <3>2. DueZero'
      BY <1>1, <2>2 DEF SInv, DueZero, add_sleep_q
    <3> QED BY <2>2, <3>1, <3>2 DEF SQ!Next
  <2> QED BY <2>1, <2>2
<1> QED BY <1>3, <1>4, <1>5 DEF SleepStep

LEMMA IdleSleeps ==
    ASSUME SInv, IdleStep
    PROVE  DueZero' /\ [SQ!Next]_(SQ!vars)
<1>1. /\ due \in [Threads -> Int] /\ sleepq \subseteq Threads
      /\ op \in [Threads \cup {Idle} -> Ops] /\ ioq \in Seq(Threads) /\ scan \in Nat \ {0}
  BY DEF SInv, IInv, TypeOK
<1>2. ASSUME UNCHANGED <<sleepq, due>> PROVE DueZero'
  BY <1>2 DEF SInv, DueZero
<1>3. CASE idle_loop \/ dispatch_pass
  <2>1. /\ UNCHANGED <<sleepq, due>>
        /\ op'[Idle] # "clock" /\ op[Idle] # "clock"
    BY <1>1, <1>3 DEF idle_loop, dispatch_pass, schedVars, callVars
  <2> QED BY <1>2, <2>1 DEF SQ!vars
<1>4. CASE dispatch_notify
  <2>1. /\ op[Idle] = "dispatch" /\ op' = op /\ scan \in 1..Len(ioq)
        /\ del_sleep_q(ioq[scan])
    BY <1>1, <1>4 DEF dispatch_notify, MakeRunnable, callVars
  <2> PICK u \in Threads : u = ioq[scan]
    BY <1>1, <2>1
  <2>2. DueZero' /\ (UNCHANGED <<sleepq, due>> \/ u \in sleepq)
    BY <2>1, DeleteSteps
  <2>3. u \in sleepq => SQ!Delete(u)
    BY <2>1 DEF SQ!Delete, SQ!Remove, del_sleep_q
  <2> QED BY <2>1, <2>2, <2>3 DEF SQ!Next, SQ!vars
<1>5. CASE \E e \in Elapsed : read_clock(e)
  <2> PICK e \in Elapsed : read_clock(e)
    BY <1>5
  <2>1. op[Idle] = "dispatch" /\ op'[Idle] = "clock"
    BY <1>1 DEF read_clock
  <2>2. SQ!ReadClock(e)
    BY <2>1 DEF SQ!ReadClock, read_clock
  <2>3. DueZero'
    BY DEF read_clock, SInv, DueZero
  <2> QED BY <2>2, <2>3 DEF SQ!Next
<1>6. CASE \E t \in Threads : check_clock_expire(t)
  <2> PICK t \in Threads : check_clock_expire(t)
    BY <1>6
  <2>1. op[Idle] = "clock" /\ op' = op /\ del_sleep_q(t)
    BY DEF check_clock_expire, MakeRunnable, callVars
  <2>2. SQ!Expire(t)
    BY <2>1 DEF SQ!Expire, SQ!Remove, check_clock_expire, del_sleep_q
  <2>3. DueZero'
    BY <2>1, DeleteSteps
  <2> QED BY <2>2, <2>3 DEF SQ!Next
<1>7. CASE idle_switch
  <2>1. op[Idle] = "clock" /\ op'[Idle] = "loop" /\ UNCHANGED <<sleepq, due>>
    BY <1>1, <1>7 DEF idle_switch
  <2>2. SQ!Stop
    BY <1>7, <2>1 DEF SQ!Stop, idle_switch
  <2> QED BY <1>2, <2>1, <2>2 DEF SQ!Next
<1> QED BY <1>3, <1>4, <1>5, <1>6, <1>7 DEF IdleStep

LEMMA NextSleeps == SInv /\ [Next]_vars => DueZero' /\ [SQ!Next]_(SQ!vars)
<1> SUFFICES ASSUME SInv, [Next]_vars PROVE DueZero' /\ [SQ!Next]_(SQ!vars)
  OBVIOUS
<1>1. CASE \E t \in Threads : ThreadCall(t) \/ WaitCall(t) \/ SyncCall(t) \/ Resume(t)
  <2> PICK t \in Threads : ThreadCall(t) \/ WaitCall(t) \/ SyncCall(t) \/ Resume(t)
    BY <1>1
  <2>1. SleepStep(t)
    BY CallsSleep, OthersSleep DEF SInv
  <2> QED BY <2>1, ThreadSleeps
<1>2. CASE IdleStep
  BY <1>2, IdleSleeps
<1>3. CASE UNCHANGED vars
  BY <1>3 DEF vars, SInv, DueZero, SQ!vars
<1> QED BY <1>1, <1>2, <1>3 DEF Next

(* The scheduler implements the sleep queue: whatever wakes a thread takes *)
(* it off the heap, only calls that block put threads there, and the clock *)
(* wakes those that are due, in order (sched.c:_st_add_sleep_q,            *)
(* _st_del_sleep_q and _st_vp_check_clock).                                *)
THEOREM SleepQueueUsed == Spec => UsesSleepQueue
<1>1. Init => SQ!Init /\ DueZero
  BY DEF Init, SQ!Init, DueZero
<1>2. IInv /\ DueZero /\ [Next]_vars => DueZero' /\ [SQ!Next]_(SQ!vars)
  BY NextSleeps DEF SInv
<1> QED BY <1>1, <1>2, InductiveInvariant, PTL DEF Spec, UsesSleepQueue, SQ!Spec


-----------------------------------------------------------------------------
(* What the scheduler does with its mutexes.  The threads still waiting    *)
(* for a mutex, and what the refinement mapping gives FairMutex.           *)
LockWait(t) == state[t] = "LOCK_WAIT"
Waits == [m \in Mutexes |-> Only(wq[m], StillWaiting)]

(* A step that gives or takes no mutex, and moves no thread that waits for *)
(* one.                                                                    *)
LockersKept == \A x \in Threads : state'[x] = "LOCK_WAIT" <=> LockWait(x)
MutexQueuesKept == \A m \in Mutexes : wq'[m] = wq[m]
MutexesKept == LockersKept /\ MutexQueuesKept /\ UNCHANGED owner

LEMMA KeptStutters == MutexesKept => UNCHANGED FM!vars
<1> SUFFICES ASSUME MutexesKept PROVE UNCHANGED FM!vars
  OBVIOUS
<1>1. StillWaiting' = StillWaiting
  BY DEF MutexesKept, LockersKept, LockWait, StillWaiting
<1>2. Waits' = Waits
  BY <1>1 DEF Waits, MutexesKept, MutexQueuesKept
<1> QED
  BY <1>2 DEF FM!vars, Waits, MutexesKept

(* The waiting threads of a mutex, in the order they came.                 *)
LEMMA WaitsAre ==
  ASSUME IInv, NEW m \in Mutexes
  PROVE  /\ Waits[m] \in Seq(Threads) /\ IsInjective(Waits[m])
         /\ wq[m] \in Seq(Threads) /\ IsInjective(wq[m])
         /\ \A x : x \in ToSet(Waits[m]) <=> x \in ToSet(wq[m]) /\ x \in StillWaiting
         /\ \A x, y : Before(Waits[m], x, y) <=>
                         Before(wq[m], x, y) /\ x \in StillWaiting /\ y \in StillWaiting
<1>1. wq[m] \in Seq(Threads) /\ IsInjective(wq[m])
  BY DEF IInv, TypeOK, WaitQueuesExact, Objects
<1>2. Waits[m] = Only(wq[m], StillWaiting)
  BY DEF Waits
<1> QED
  BY <1>1, <1>2, OnlyLemma

(* A thread that waits for a mutex is on its queue and on no other.        *)
LEMMA WaiterIs ==
  ASSUME IInv, NEW m \in Mutexes, NEW t \in Threads
  PROVE  t \in ToSet(Waits[m]) <=> LockWait(t) /\ obj[t] = m
<1>1. t \in ToSet(wq[m]) <=> op[t] \in WaitOps /\ obj[t] = m
  BY DEF IInv, WaitQueuesExact, Objects
<1>2. LockWait(t) => op[t] = "lock"
  BY DEF LockWait, IInv, CallMatchesState
<1> QED
  BY <1>1, <1>2, WaitsAre DEF LockWait, StillWaiting, WaitOps

(* Whom the dispatcher picks was runnable.                                 *)
LEMMA ScheduleLockers ==
  ASSUME NEW st \in [Threads \cup {Idle} -> States], NEW rq \in Seq(Threads),
         \A x \in ToSet(rq) : st[x] = "RUNNABLE", vp_schedule(st, rq)
  PROVE  \A x \in Threads : state'[x] = "LOCK_WAIT" <=> st[x] = "LOCK_WAIT"
<1> DEFINE next == IF rq # <<>> THEN Head(rq) ELSE Idle
<1>1. state' = [st EXCEPT ![next] = "RUNNING"]
  BY DEF vp_schedule
<1>2. rq # <<>> => Head(rq) \in Threads /\ Head(rq) \in ToSet(rq)
  <2>1. rq # <<>> => 1 \in 1..Len(rq) /\ Head(rq) = rq[1] /\ rq[1] \in Threads
    OBVIOUS
  <2> QED
    BY <2>1, SeqDomain
<1>3. next = Idle \/ (next \in Threads /\ st[next] = "RUNNABLE")
  BY <1>2
<1> HIDE DEF next
<1> QED
  BY <1>1, <1>3, ThreadsAssumption

(* A thread that blocks waits for a mutex only in state LOCK_WAIT.         *)
LEMMA BlockLockers ==
  ASSUME IInv, NEW t \in Threads, cur = t, NEW s \in States \ {"RUNNABLE"},
         vp_schedule([state EXCEPT ![t] = s], runq)
  PROVE  \A x \in Threads : state'[x] = "LOCK_WAIT" <=>
                               LockWait(x) \/ (x = t /\ s = "LOCK_WAIT")
<1> DEFINE st == [state EXCEPT ![t] = s]
<1>1. /\ state \in [Threads \cup {Idle} -> States] /\ runq \in Seq(Threads)
      /\ \A x \in Threads : x \in ToSet(runq) <=> state[x] = "RUNNABLE"
      /\ state[t] = "RUNNING"
  BY DEF IInv, TypeOK, RunQueueExact, OneRunning
<1>2. /\ st \in [Threads \cup {Idle} -> States] /\ st[t] = s
      /\ \A x \in Threads : x # t => st[x] = state[x]
      /\ vp_schedule(st, runq)
  BY <1>1
<1>3. \A x \in ToSet(runq) : x \in Threads
  BY <1>1, SeqDomain
<1> HIDE DEF st
<1>4. \A x \in Threads : state'[x] = "LOCK_WAIT" <=> st[x] = "LOCK_WAIT"
  BY <1>1, <1>2, <1>3, ScheduleLockers
<1> QED
  BY <1>1, <1>2, <1>4 DEF LockWait

LEMMA SwitchLockers ==
  ASSUME IInv, NEW t \in Threads, cur = t, NEW s \in Blocked, NEW o, NEW x, NEW d,
         SwitchOut(t, s, o, x, d)
  PROVE  /\ \A y \in Threads : state'[y] = "LOCK_WAIT" <=>
                                  LockWait(y) \/ (y = t /\ s = "LOCK_WAIT")
         /\ s # "LOCK_WAIT" => LockersKept
BY BlockLockers DEF SwitchOut, Blocked, States, LockersKept

(* A thread that waits for something else is woken.                        *)
LEMMA WakeLockers ==
  ASSUME IInv, NEW u \in Threads, ~ LockWait(u),
         state' = [state EXCEPT ![u] = "RUNNABLE"]
  PROVE  LockersKept
BY DEF LockersKept, LockWait, IInv, TypeOK


(* A mutex no thread waits for.                                            *)
LEMMA NoneWaits ==
  ASSUME IInv, NEW m \in Mutexes, \A t \in Threads : LockWait(t) => obj[t] # m
  PROVE  Waits[m] = <<>>
<1>1. Waits[m] \in Seq(Threads)
  BY WaitsAre
<1>2. Waits[m] # <<>> => Waits[m][1] \in Threads /\ Waits[m][1] \in ToSet(Waits[m])
  <2>1. Waits[m] # <<>> => 1 \in 1..Len(Waits[m]) /\ Waits[m][1] \in Threads
    BY <1>1
  <2> QED
    BY <1>1, <2>1, SeqDomain
<1> QED
  BY <1>2, WaiterIs

(* A mutex that is free is taken.                                          *)
LEMMA AcquireStep ==
  ASSUME IInv, NEW t \in Threads, NEW m \in Mutexes, owner[m] = None,
         owner' = [owner EXCEPT ![m] = t], UNCHANGED <<wq, state>>
  PROVE  FM!Acquire(t, m)
<1>1. \A x \in Threads : LockWait(x) => obj[x] # m
  BY DEF LockWait, IInv, NoLostHandoff, CallMatchesState
<1>2. Waits[m] = <<>> /\ Waits' = Waits
  BY <1>1, NoneWaits DEF Waits, StillWaiting
<1> QED
  BY <1>2 DEF FM!Acquire, Waits

(* A thread starts to wait: it comes last.                                 *)
LEMMA WaitStep ==
  ASSUME IInv, NEW t \in Threads, NEW m \in Mutexes, cur = t, op[t] = "user",
         owner[m] \notin {None, t}, UNCHANGED owner,
         wq' = [wq EXCEPT ![m] = Append(@, t)],
         SwitchOut(t, "LOCK_WAIT", "lock", m, NO_TIMEOUT)
  PROVE  FM!Wait(t, m)
<1>1. \A x \in Threads : x \in StillWaiting' <=> x \in StillWaiting \/ x = t
  BY SwitchLockers DEF StillWaiting, LockWait, Blocked
<1>2. ASSUME NEW n \in Mutexes
      PROVE  /\ wq[n] \in Seq(Threads) /\ IsInjective(wq[n])
             /\ \A x \in ToSet(wq[n]) : x \in Threads
             /\ t \notin ToSet(wq[n])
             /\ wq'[n] = IF n = m THEN Append(wq[n], t) ELSE wq[n]
  <2>1. wq[n] \in Seq(Threads) /\ IsInjective(wq[n])
    BY WaitsAre
  <2>2. t \notin ToSet(wq[n])
    BY DEF IInv, WaitQueuesExact, Objects, WaitOps
  <2>3. wq'[n] = IF n = m THEN Append(wq[n], t) ELSE wq[n]
    BY DEF IInv, TypeOK, Objects
  <2> QED
    BY <2>1, <2>2, <2>3, SeqDomain
<1>3. ASSUME NEW n \in Mutexes
      PROVE  Only(wq[n], StillWaiting') = Waits[n]
  <2>1. \A x \in ToSet(wq[n]) : x \in StillWaiting' <=> x \in StillWaiting
    BY <1>1, <1>2
  <2> QED
    BY <1>2, <2>1, OnlySame DEF Waits
<1>4. Only(Append(wq[m], t), StillWaiting') = Append(Only(wq[m], StillWaiting'), t)
  BY <1>1, <1>2, OnlyAppend
<1>5. Waits' = [n \in Mutexes |-> Only(wq'[n], StillWaiting')]
  BY DEF Waits
<1>6. Waits' = [Waits EXCEPT ![m] = Append(@, t)]
  <2>1. \A n \in Mutexes : Waits'[n] = IF n = m THEN Append(Waits[n], t) ELSE Waits[n]
    BY <1>2, <1>3, <1>4, <1>5
  <2>2. Waits = [n \in Mutexes |-> Waits[n]] /\ Waits' = [n \in Mutexes |-> Waits'[n]]
    BY DEF Waits
  <2> HIDE DEF Waits
  <2> QED
    BY <2>1, <2>2
<1> QED
  BY <1>6 DEF FM!Wait, Waits

(* A thread stops waiting: the others keep their order.                    *)
LEMMA LeaveStep ==
  ASSUME IInv, NEW u \in Threads, LockWait(u), UNCHANGED wq,
         state' = [state EXCEPT ![u] = "RUNNABLE"]
  PROVE  /\ obj[u] \in Mutexes /\ u \in ToSet(Waits[obj[u]])
         /\ Waits' = [Waits EXCEPT ![obj[u]] = Unlink(@, u)]
<1> DEFINE m == obj[u]
<1>1. /\ m \in Mutexes
      /\ \A n \in Mutexes : u \in ToSet(wq[n]) <=> n = m
  <2>1. op[u] = "lock" /\ m \in Mutexes
    BY DEF LockWait, IInv, CallMatchesState, ObjectMatchesCall
  <2> QED
    BY <2>1 DEF IInv, WaitQueuesExact, WaitOps, Objects
<1> HIDE DEF m
<1>2. /\ \A x \in Threads : x \in StillWaiting' <=> x \in StillWaiting /\ x # u
      /\ u \in StillWaiting
  BY DEF StillWaiting, LockWait, IInv, TypeOK
<1>3. ASSUME NEW n \in Mutexes
      PROVE  /\ wq[n] \in Seq(Threads) /\ IsInjective(wq[n])
             /\ \A x \in ToSet(wq[n]) : x \in Threads
  BY WaitsAre, SeqDomain
<1>4. Only(wq[m], StillWaiting') = Unlink(Waits[m], u)
  <2>1. \A x \in ToSet(wq[m]) : x \in StillWaiting' <=> x \in StillWaiting /\ x # u
    BY <1>1, <1>2, <1>3
  <2>2. Only(wq[m], StillWaiting') = Unlink(Only(wq[m], StillWaiting), u)
    BY <1>1, <1>2, <1>3, <2>1, OnlyLess
  <2> QED
    BY <1>1, <2>2 DEF Waits
<1>5. ASSUME NEW n \in Mutexes, n # m
      PROVE  Only(wq[n], StillWaiting') = Waits[n]
  <2>1. \A x \in ToSet(wq[n]) : x \in StillWaiting' <=> x \in StillWaiting
    BY <1>1, <1>2, <1>3, <1>5
  <2> QED
    BY <1>3, <2>1, OnlySame DEF Waits
<1>6. Waits' = [n \in Mutexes |-> Only(wq[n], StillWaiting')]
  BY DEF Waits
<1>7. Waits' = [Waits EXCEPT ![m] = Unlink(@, u)]
  <2>1. \A n \in Mutexes : Waits'[n] = IF n = m THEN Unlink(Waits[n], u) ELSE Waits[n]
    BY <1>1, <1>4, <1>5, <1>6
  <2>2. Waits = [n \in Mutexes |-> Waits[n]] /\ Waits' = [n \in Mutexes |-> Waits'[n]]
    BY DEF Waits
  <2> HIDE DEF Waits
  <2> QED
    BY <2>1, <2>2
<1>8. u \in ToSet(Waits[m])
  BY <1>1, WaiterIs DEF m
<1> QED
  BY <1>1, <1>7, <1>8 DEF m

(* An interrupted thread gives up.                                         *)
LEMMA GiveUpStep ==
  ASSUME IInv, NEW u \in Threads, LockWait(u), UNCHANGED <<wq, owner>>,
         state' = [state EXCEPT ![u] = "RUNNABLE"]
  PROVE  FM!GiveUp(u, obj[u])
<1>1. /\ obj[u] \in Mutexes /\ u \in ToSet(Waits[obj[u]])
      /\ Waits' = [Waits EXCEPT ![obj[u]] = Unlink(@, u)]
  BY LeaveStep
<1>2. PICK m \in Mutexes : m = obj[u]
  BY <1>1
<1>3. \E i \in 1..Len(Waits[m]) : Waits[m][i] = u
  BY <1>1, <1>2, WaitsAre, SeqDomain
<1>4. Waits' = [Waits EXCEPT ![m] = Unlink(Waits[m], u)]
  BY <1>1, <1>2
<1>5. FM!Unlink(Waits[m], u) = Unlink(Waits[m], u)
  BY DEF FM!Unlink, Unlink, FM!RemoveAt, RemoveAt
<1>6. FM!GiveUp(u, m)
  BY <1>3, <1>4, <1>5 DEF FM!GiveUp, Waits
<1> QED
  BY <1>2, <1>6

(* A mutex passes to the thread that waited longest, or to nobody.         *)
LEMMA FirstIsHead ==
  ASSUME IInv, NEW m \in Mutexes, NEW u \in FirstIn(m, "LOCK_WAIT")
  PROVE  /\ u \in Threads /\ LockWait(u) /\ obj[u] = m
         /\ Waits[m] # <<>> /\ u = Head(Waits[m])
<1>1. PICK k \in 1..Len(wq[m]) :
        /\ wq[m][k] = u /\ state[u] = "LOCK_WAIT" /\ u \in Threads
        /\ \A j \in 1..(k - 1) : state[wq[m][j]] # "LOCK_WAIT"
  BY DEF FirstIn
<1>2. /\ Waits[m] \in Seq(Threads) /\ IsInjective(Waits[m])
      /\ wq[m] \in Seq(Threads) /\ IsInjective(wq[m])
      /\ \A x : x \in ToSet(Waits[m]) <=> x \in ToSet(wq[m]) /\ x \in StillWaiting
      /\ \A x, y : Before(Waits[m], x, y) =>
                      Before(wq[m], x, y) /\ x \in StillWaiting
  BY WaitsAre
<1>3. u \in ToSet(wq[m]) /\ u \in StillWaiting
  BY <1>1, <1>2, SeqDomain DEF StillWaiting
<1>4. u \in ToSet(Waits[m])
  BY <1>2, <1>3
<1>5. PICK i \in 1..Len(Waits[m]) : Waits[m][i] = u
  BY <1>2, <1>4, SeqDomain
<1>6. ASSUME i # 1 PROVE FALSE
  <2> DEFINE h == Waits[m][1]
  <2>1. 1 \in 1..Len(Waits[m]) /\ 1 < i
    BY <1>2, <1>5, <1>6
  <2>2. Before(Waits[m], h, u)
    BY <1>2, <1>5, <2>1, BeforeDef
  <2>3. Before(wq[m], h, u) /\ h \in StillWaiting
    BY <1>2, <2>2
  <2> HIDE DEF h
  <2>4. PICK a, b \in 1..Len(wq[m]) : a < b /\ wq[m][a] = h /\ wq[m][b] = u
    BY <1>2, <2>3, BeforeDef
  <2>5. b = k
    BY <1>1, <1>2, <2>4, SeqDomain
  <2>6. a \in 1..(k - 1)
    BY <1>2, <2>4, <2>5
  <2> QED
    BY <1>1, <2>3, <2>4, <2>6 DEF StillWaiting
<1>7. Waits[m] # <<>> /\ u = Head(Waits[m])
  BY <1>2, <1>5, <1>6
<1> QED
  BY <1>1, <1>4, <1>7, WaiterIs DEF LockWait

LEMMA ReleaseStep ==
  ASSUME IInv, NEW t \in Threads, NEW m \in Mutexes, owner[m] = t, UNCHANGED wq,
         \/ \E u \in FirstIn(m, "LOCK_WAIT") :
               /\ owner' = [owner EXCEPT ![m] = u]
               /\ state' = [state EXCEPT ![u] = "RUNNABLE"]
         \/ /\ FirstIn(m, "LOCK_WAIT") = {}
            /\ owner' = [owner EXCEPT ![m] = None]
            /\ UNCHANGED state
  PROVE  FM!Release(m)
<1>1. owner[m] # None
  BY ThreadsAssumption DEF Objects
<1>2. ASSUME NEW u \in FirstIn(m, "LOCK_WAIT"), owner' = [owner EXCEPT ![m] = u],
             state' = [state EXCEPT ![u] = "RUNNABLE"]
      PROVE  FM!Release(m)
  <2>1. /\ u \in Threads /\ LockWait(u) /\ obj[u] = m
        /\ Waits[m] # <<>> /\ u = Head(Waits[m])
    BY FirstIsHead
  <2>2. Waits' = [Waits EXCEPT ![m] = Unlink(@, u)]
    BY <1>2, <2>1, LeaveStep
  <2>3. Unlink(Waits[m], u) = Tail(Waits[m])
    BY <2>1, WaitsAre, UnlinkHead
  <2>4. Waits' = [Waits EXCEPT ![m] = Tail(@)]
    BY <2>2, <2>3
  <2> QED
    BY <1>1, <1>2, <2>1, <2>4 DEF FM!Release, Waits
<1>3. ASSUME FirstIn(m, "LOCK_WAIT") = {}, owner' = [owner EXCEPT ![m] = None],
             UNCHANGED state
      PROVE  FM!Release(m)
  <2>1. \A x \in Threads : x \in ToSet(wq[m]) => state[x] # "LOCK_WAIT"
    BY <1>3, FirstInLemma DEF IInv, Objects
  <2>2. \A x \in Threads : LockWait(x) => obj[x] # m
    BY <2>1, WaiterIs, WaitsAre DEF LockWait
  <2>3. Waits[m] = <<>> /\ Waits' = Waits
    BY <1>3, <2>2, NoneWaits DEF Waits, StillWaiting
  <2> QED
    BY <1>1, <1>3, <2>3 DEF FM!Release, Waits
<1> QED
  BY <1>2, <1>3

(* A thread that no longer waits unlinks itself.                           *)
LEMMA LinkStep ==
  ASSUME IInv, NEW t \in Threads, NEW m \in Mutexes, ~ LockWait(t),
         t \in ToSet(wq[m]), wq' = [wq EXCEPT ![m] = Unlink(@, t)],
         UNCHANGED <<state, owner>>
  PROVE  UNCHANGED FM!vars
<1>1. /\ wq[m] \in Seq(Threads) /\ IsInjective(wq[m])
      /\ StillWaiting' = StillWaiting /\ t \notin StillWaiting
  BY WaitsAre DEF StillWaiting, LockWait
<1>2. Only(Unlink(wq[m], t), StillWaiting) = Only(wq[m], StillWaiting)
  BY <1>1, OnlyUnlink
<1>3. \A n \in Mutexes : wq'[n] = IF n = m THEN Unlink(wq[m], t) ELSE wq[n]
  BY DEF IInv, TypeOK, Objects
<1>4. Waits' = Waits
  BY <1>1, <1>2, <1>3 DEF Waits
<1> QED
  BY <1>4 DEF FM!vars, Waits


LEMMA StateStays == UNCHANGED state => LockersKept
BY DEF LockersKept, LockWait

LEMMA QueuesStay == UNCHANGED wq => MutexQueuesKept
BY DEF MutexQueuesKept

(* The queue of a condition variable, or of a thread's end, is not that of *)
(* a mutex.                                                                *)
LEMMA OthersQueue ==
  ASSUME IInv, NEW c \in Conds \cup Threads, NEW q, wq' = [wq EXCEPT ![c] = q]
  PROVE  MutexQueuesKept
BY ObjectsAssumption DEF MutexQueuesKept, IInv, TypeOK, Objects

(* An exit wakes one that waits to join, who waits for no mutex.           *)
LEMMA ExitLockers ==
  ASSUME IInv, NEW t \in Threads, st_thread_exit(t)
  PROVE  LockersKept
<1>1. /\ cur = t /\ op[t] = "user" /\ state[t] = "RUNNING" /\ TypeOK
      /\ state \in [Threads \cup {Idle} -> States]
      /\ runq \in Seq(Threads)
      /\ \A x \in Threads : x \in ToSet(runq) <=> state[x] = "RUNNABLE"
  BY DEF st_thread_exit, Calling, InUserCode, IInv, TypeOK, OneRunning, RunQueueExact
<1>2. ASSUME NEW u \in FirstIn(t, "COND_WAIT"),
             vp_schedule([state EXCEPT ![t] = "ZOMBIE", ![u] = "RUNNABLE"],
                         Append(runq, u))
      PROVE  LockersKept
  <2> DEFINE st == [state EXCEPT ![t] = "ZOMBIE", ![u] = "RUNNABLE"]
             rq == Append(runq, u)
  <2>1. u \in Threads /\ state[u] = "COND_WAIT"
    BY <1>1, <1>2, FirstInLemma DEF Objects
  <2>2. /\ st \in [Threads \cup {Idle} -> States]
        /\ st[t] = "ZOMBIE" /\ st[u] = "RUNNABLE"
        /\ \A x \in Threads \cup {Idle} : x # t /\ x # u => st[x] = state[x]
    BY <1>1, <2>1 DEF States
  <2>3. /\ rq \in Seq(Threads)
        /\ \A x : x \in ToSet(rq) <=> x \in ToSet(runq) \/ x = u
    BY <1>1, <2>1, AppendLemma
  <2>4. vp_schedule(st, rq) /\ \A x \in ToSet(runq) : x \in Threads
    BY <1>1, <1>2, SeqDomain
  <2> HIDE DEF st, rq
  <2>5. \A x \in ToSet(rq) : st[x] = "RUNNABLE"
    BY <1>1, <2>2, <2>3, <2>4
  <2>6. \A x \in Threads : state'[x] = "LOCK_WAIT" <=> st[x] = "LOCK_WAIT"
    BY <2>2, <2>3, <2>4, <2>5, ScheduleLockers
  <2> QED
    BY <1>1, <2>1, <2>2, <2>6 DEF LockersKept, LockWait
<1>3. ASSUME NEW s \in {"ZOMBIE", "DEAD"},
             vp_schedule([state EXCEPT ![t] = s], runq)
      PROVE  LockersKept
  BY <1>1, <1>3, BlockLockers DEF LockersKept, States
<1> QED
  BY <1>2, <1>3 DEF st_thread_exit

(* Calls about threads: only an interrupt concerns a mutex, and makes one  *)
(* that waits give up.                                                     *)
LEMMA ThreadMutexes ==
  ASSUME IInv, NEW t \in Threads, ThreadCall(t)
  PROVE  [FM!Next]_(FM!vars)
<1> USE DEF Calling, InUserCode, ReturnNow
<1>1. MutexesKept => [FM!Next]_(FM!vars)
  BY KeptStutters
<1>2. CASE \E u \in Threads : \E j \in BOOLEAN : st_thread_create(t, u, j)
  <2> PICK u \in Threads, j \in BOOLEAN : st_thread_create(t, u, j)
    BY <1>2
  <2>1. LockersKept
    BY WakeLockers DEF st_thread_create, LockWait
  <2> QED
    BY <1>1, <2>1, QueuesStay DEF st_thread_create, lockVars, MutexesKept
<1>3. CASE st_thread_exit(t)
  BY <1>1, <1>3, ExitLockers, QueuesStay DEF st_thread_exit, lockVars, MutexesKept
<1>4. CASE \E u \in Threads : st_thread_join(t, u)
  <2> PICK u \in Threads : st_thread_join(t, u)
    BY <1>4
  <2>1. /\ cur = t /\ UNCHANGED owner
        /\ \/ UNCHANGED <<wq, state>>
           \/ UNCHANGED wq /\ state[u] = "ZOMBIE" /\ Reap(u)
           \/ /\ wq' = [wq EXCEPT ![u] = Append(@, t)]
              /\ SwitchOut(t, "COND_WAIT", "join", u, NO_TIMEOUT)
    BY DEF st_thread_join, EintrOnEntry, schedVars, lockVars
  <2>2. state[u] = "ZOMBIE" /\ Reap(u) => LockersKept
    BY WakeLockers DEF Reap, LockWait
  <2>3. SwitchOut(t, "COND_WAIT", "join", u, NO_TIMEOUT) => LockersKept
    BY <2>1, SwitchLockers DEF Blocked
  <2>4. wq' = [wq EXCEPT ![u] = Append(@, t)] => MutexQueuesKept
    BY OthersQueue
  <2> QED
    BY <1>1, <2>1, <2>2, <2>3, <2>4, StateStays, QueuesStay DEF MutexesKept
<1>5. CASE \E u \in Threads : st_thread_interrupt(t, u)
  <2> PICK u \in Threads : st_thread_interrupt(t, u)
    BY <1>5
  <2>1. /\ UNCHANGED <<wq, owner>>
        /\ UNCHANGED state \/ state' = [state EXCEPT ![u] = "RUNNABLE"]
    BY DEF st_thread_interrupt, MakeRunnable, schedVars, lockVars
  <2>2. CASE LockWait(u) /\ state' = [state EXCEPT ![u] = "RUNNABLE"]
    <3>1. FM!GiveUp(u, obj[u])
      BY <2>1, <2>2, GiveUpStep
    <3>2. obj[u] \in Mutexes
      BY <2>2 DEF LockWait, IInv, CallMatchesState, ObjectMatchesCall
    <3> QED
      BY <3>1, <3>2 DEF FM!Next
  <2>3. CASE ~ LockWait(u) /\ state' = [state EXCEPT ![u] = "RUNNABLE"]
    BY <1>1, <2>1, <2>3, WakeLockers, QueuesStay DEF MutexesKept
  <2>4. CASE UNCHANGED state
    BY <1>1, <2>1, <2>4, StateStays, QueuesStay DEF MutexesKept
  <2> QED
    BY <2>1, <2>2, <2>3, <2>4
<1> QED
  BY <1>2, <1>3, <1>4, <1>5 DEF ThreadCall

(* Calls that block.                                                       *)
LEMMA CallMutexes ==
  ASSUME IInv, NEW t \in Threads, WaitCall(t)
  PROVE  [FM!Next]_(FM!vars)
<1> USE DEF Calling, InUserCode, ReturnNow
<1>1. MutexesKept => [FM!Next]_(FM!vars)
  BY KeptStutters
<1>2. ASSUME UNCHANGED <<state, wq, owner>> PROVE MutexesKept
  BY <1>2, StateStays, QueuesStay DEF MutexesKept
<1>3. ASSUME EintrOnEntry(t) PROVE MutexesKept
  BY <1>2, <1>3 DEF EintrOnEntry, schedVars, lockVars
<1>4. ASSUME NEW s \in Blocked, s # "LOCK_WAIT", NEW o, NEW x, NEW d,
             cur = t, SwitchOut(t, s, o, x, d), MutexQueuesKept, UNCHANGED owner
      PROVE  MutexesKept
  BY <1>4, SwitchLockers DEF MutexesKept
<1>5. CASE \E d \in Timeouts : st_usleep(t, d)
  <2> PICK d \in Timeouts : st_usleep(t, d)
    BY <1>5
  <2> PICK s \in {"SUSPENDED", "SLEEPING"} :
             s = IF d = NO_TIMEOUT THEN "SUSPENDED" ELSE "SLEEPING"
    OBVIOUS
  <2>1. \/ EintrOnEntry(t)
        \/ cur = t /\ SwitchOut(t, s, "usleep", None, d) /\ UNCHANGED <<wq, owner>>
    BY DEF st_usleep, lockVars
  <2> QED
    BY <1>1, <1>3, <1>4, <2>1, QueuesStay DEF Blocked
<1>6. CASE \E d \in Timeouts : st_poll(t, d)
  <2> PICK d \in Timeouts : st_poll(t, d)
    BY <1>6
  <2>1. \/ EintrOnEntry(t)
        \/ UNCHANGED <<state, wq, owner>>
        \/ cur = t /\ SwitchOut(t, "IO_WAIT", "poll", None, d) /\ UNCHANGED <<wq, owner>>
    BY DEF st_poll, lockVars, schedVars
  <2> QED
    BY <1>1, <1>2, <1>3, <1>4, <2>1, QueuesStay DEF Blocked
<1>7. CASE \E c \in Conds : \E d \in Timeouts : st_cond_timedwait(t, c, d)
  <2> PICK c \in Conds, d \in Timeouts : st_cond_timedwait(t, c, d)
    BY <1>7
  <2>1. \/ EintrOnEntry(t)
        \/ /\ cur = t /\ SwitchOut(t, "COND_WAIT", "timedwait", c, d)
           /\ wq' = [wq EXCEPT ![c] = Append(@, t)] /\ UNCHANGED owner
    BY DEF st_cond_timedwait, lockVars
  <2> QED
    BY <1>1, <1>3, <1>4, <2>1, OthersQueue DEF Blocked
<1>8. CASE \E m \in Mutexes : st_mutex_lock(t, m)
  <2> PICK m \in Mutexes : st_mutex_lock(t, m)
    BY <1>8
  <2>1. \/ EintrOnEntry(t)
        \/ UNCHANGED <<state, wq, owner>>
        \/ /\ owner[m] = None /\ owner' = [owner EXCEPT ![m] = t]
           /\ UNCHANGED <<state, wq>>
        \/ /\ cur = t /\ op[t] = "user" /\ owner[m] \notin {None, t}
           /\ wq' = [wq EXCEPT ![m] = Append(@, t)] /\ UNCHANGED owner
           /\ SwitchOut(t, "LOCK_WAIT", "lock", m, NO_TIMEOUT)
    BY DEF st_mutex_lock, lockVars, schedVars
  <2> QED
    BY <1>1, <1>2, <1>3, <2>1, AcquireStep, WaitStep DEF FM!Next
<1> QED
  BY <1>5, <1>6, <1>7, <1>8 DEF WaitCall

(* Calls that do not block.                                                *)
LEMMA SyncMutexes ==
  ASSUME IInv, NEW t \in Threads, SyncCall(t)
  PROVE  [FM!Next]_(FM!vars)
<1> USE DEF Calling, InUserCode, ReturnNow
<1>1. MutexesKept => [FM!Next]_(FM!vars)
  BY KeptStutters
<1>2. ASSUME UNCHANGED <<state, wq, owner>> PROVE MutexesKept
  BY <1>2, StateStays, QueuesStay DEF MutexesKept
<1>3. CASE \E c \in Conds : st_cond_signal(t, c)
  <2> PICK c \in Conds : st_cond_signal(t, c)
    BY <1>3
  <2>1. /\ UNCHANGED <<wq, owner>>
        /\ \/ \E u \in FirstIn(c, "COND_WAIT") : state' = [state EXCEPT ![u] = "RUNNABLE"]
           \/ UNCHANGED state
    BY DEF st_cond_signal, MakeRunnable, schedVars, lockVars
  <2>2. \A u \in FirstIn(c, "COND_WAIT") : u \in Threads /\ ~ LockWait(u)
    BY DEF FirstIn, LockWait
  <2>3. LockersKept
    BY <2>1, <2>2, WakeLockers, StateStays
  <2> QED
    BY <1>1, <2>1, <2>3, QueuesStay DEF MutexesKept
<1>4. CASE \E c \in Conds : \/ st_cond_broadcast(t, c) \/ st_cond_new(t, c)
                            \/ st_cond_destroy(t, c)
  BY <1>1, <1>2, <1>4 DEF st_cond_broadcast, st_cond_new, st_cond_destroy, schedVars,
                          lockVars
<1>5. CASE \E m \in Mutexes : st_mutex_unlock(t, m)
  <2> PICK m \in Mutexes : st_mutex_unlock(t, m)
    BY <1>5
  <2>1. \/ UNCHANGED <<state, wq, owner>>
        \/ /\ owner[m] = t /\ UNCHANGED wq
           /\ \/ \E u \in FirstIn(m, "LOCK_WAIT") :
                    /\ owner' = [owner EXCEPT ![m] = u]
                    /\ state' = [state EXCEPT ![u] = "RUNNABLE"]
              \/ /\ FirstIn(m, "LOCK_WAIT") = {}
                 /\ owner' = [owner EXCEPT ![m] = None]
                 /\ UNCHANGED state
    BY DEF st_mutex_unlock
  <2> QED
    BY <1>1, <1>2, <2>1, ReleaseStep DEF FM!Next
<1>6. CASE \E m \in Mutexes : st_mutex_trylock(t, m)
  <2> PICK m \in Mutexes : st_mutex_trylock(t, m)
    BY <1>6
  <2>1. /\ UNCHANGED <<state, wq>>
        /\ \/ UNCHANGED owner
           \/ owner[m] = None /\ owner' = [owner EXCEPT ![m] = t]
    BY DEF st_mutex_trylock, schedVars
  <2> QED
    BY <1>1, <1>2, <2>1, AcquireStep DEF FM!Next
<1>7. CASE \E m \in Mutexes : st_mutex_new(t, m) \/ st_mutex_destroy(t, m)
  BY <1>1, <1>2, <1>7 DEF st_mutex_new, st_mutex_destroy, schedVars
<1> QED
  BY <1>3, <1>4, <1>5, <1>6, <1>7 DEF SyncCall

(* Resumed calls: a thread that waited for a mutex unlinks itself, and     *)
(* changes nothing that the others see.                                    *)
LEMMA ResumeMutexes ==
  ASSUME IInv, NEW t \in Threads, Resume(t)
  PROVE  [FM!Next]_(FM!vars)
<1> USE DEF Resumed
<1>1. MutexesKept => [FM!Next]_(FM!vars)
  BY KeptStutters
<1>2. /\ cur = t /\ state[t] = "RUNNING"
      /\ obj[t] \in Objects \cup {None}
  BY DEF IInv, OneRunning, TypeOK, Resume, st_thread_exit_resume,
         st_thread_join_resume, st_usleep_resume, st_poll_resume,
         st_cond_timedwait_resume, st_cond_broadcast_step, st_mutex_lock_resume
<1>3. CASE st_thread_exit_resume(t)
  <2>1. vp_schedule([state EXCEPT ![t] = "DEAD"], runq) /\ UNCHANGED <<wq, owner>>
    BY <1>3 DEF st_thread_exit_resume, lockVars
  <2>2. LockersKept
    BY <1>2, <2>1, BlockLockers DEF LockersKept, States
  <2> QED
    BY <1>1, <2>1, <2>2, QueuesStay DEF MutexesKept
<1>4. CASE st_thread_join_resume(t)
  <2> PICK u \in Threads : u = obj[t]
    BY <1>4 DEF st_thread_join_resume, IInv, ObjectMatchesCall
  <2>1. /\ UNCHANGED owner
        /\ \E q : wq' = [wq EXCEPT ![u] = q]
        /\ \/ UNCHANGED state
           \/ state[u] = "ZOMBIE" /\ Reap(u)
           \/ SwitchOut(t, "COND_WAIT", "join", u, NO_TIMEOUT)
    BY <1>4 DEF st_thread_join_resume, LeaveWaitQueue, schedVars, lockVars
  <2>2. state[u] = "ZOMBIE" /\ Reap(u) => LockersKept
    BY WakeLockers DEF Reap, LockWait
  <2>3. SwitchOut(t, "COND_WAIT", "join", u, NO_TIMEOUT) => LockersKept
    BY <1>2, SwitchLockers DEF Blocked
  <2>4. MutexQueuesKept
    BY <2>1, OthersQueue
  <2> QED
    BY <1>1, <2>1, <2>2, <2>3, <2>4, StateStays DEF MutexesKept
<1>5. CASE st_usleep_resume(t) \/ st_poll_resume(t)
  BY <1>1, <1>5, StateStays, QueuesStay
  DEF st_usleep_resume, st_poll_resume, ReturnFrom, schedVars, lockVars, MutexesKept
<1>6. CASE st_cond_timedwait_resume(t)
  <2> PICK c \in Conds : c = obj[t]
    BY <1>6 DEF st_cond_timedwait_resume, IInv, ObjectMatchesCall
  <2>1. UNCHANGED <<state, owner>> /\ \E q : wq' = [wq EXCEPT ![c] = q]
    BY <1>6 DEF st_cond_timedwait_resume, LeaveWaitQueue, ReturnFrom, schedVars, lockVars
  <2> QED
    BY <1>1, <2>1, OthersQueue, StateStays DEF MutexesKept
<1>7. CASE st_cond_broadcast_step(t)
  <2>1. /\ UNCHANGED <<wq, owner>>
        /\ \/ \E u \in FirstIn(obj[t], "COND_WAIT") :
                 state' = [state EXCEPT ![u] = "RUNNABLE"]
           \/ UNCHANGED state
    BY <1>7 DEF st_cond_broadcast_step, MakeRunnable, ReturnFrom, schedVars, lockVars
  <2>2. \A u \in FirstIn(obj[t], "COND_WAIT") : u \in Threads /\ ~ LockWait(u)
    BY DEF FirstIn, LockWait
  <2>3. LockersKept
    BY <2>1, <2>2, WakeLockers, StateStays
  <2> QED
    BY <1>1, <2>1, <2>3, QueuesStay DEF MutexesKept
<1>8. CASE st_mutex_lock_resume(t)
  <2> PICK m \in Mutexes : m = obj[t]
    BY <1>8 DEF st_mutex_lock_resume, IInv, ObjectMatchesCall
  <2>1. /\ wq' = [wq EXCEPT ![m] = Unlink(@, t)] /\ UNCHANGED <<state, owner>>
        /\ op[t] = "lock"
    BY <1>8 DEF st_mutex_lock_resume, schedVars, lockVars
  <2>2. t \in ToSet(wq[m])
    BY <2>1 DEF IInv, WaitQueuesExact, WaitOps, Objects
  <2> QED
    BY <1>2, <2>1, <2>2, LinkStep DEF LockWait
<1> QED
  BY <1>3, <1>4, <1>5, <1>6, <1>7, <1>8 DEF Resume

(* The idle thread wakes no thread that waits for a mutex.                 *)
LEMMA IdleMutexes ==
  ASSUME IInv, IdleStep
  PROVE  [FM!Next]_(FM!vars)
<1>1. /\ UNCHANGED <<wq, owner>> /\ cur = Idle /\ TypeOK
      /\ state \in [Threads \cup {Idle} -> States]
  BY DEF IdleStep, idle_loop, dispatch_notify, dispatch_pass, read_clock,
         check_clock_expire, idle_switch, lockVars, IInv, TypeOK
<1>2. ASSUME LockersKept PROVE [FM!Next]_(FM!vars)
  BY <1>1, <1>2, KeptStutters, QueuesStay DEF MutexesKept
<1>3. CASE dispatch_notify
  <2>1. scan \in scan..Len(ioq) /\ ioq[scan] \in Threads
    BY <1>1, <1>3 DEF TypeOK, dispatch_notify
  <2>2. ~ LockWait(ioq[scan])
    BY <1>1, <1>3, <2>1 DEF dispatch_notify, IInv, DispatchMeetsWaiters, LockWait
  <2>3. state' = [state EXCEPT ![ioq[scan]] = "RUNNABLE"]
    BY <1>3 DEF dispatch_notify, MakeRunnable
  <2> QED
    BY <1>2, <2>1, <2>2, <2>3, WakeLockers
<1>4. CASE \E t \in Threads : check_clock_expire(t)
  <2> PICK t \in Threads : check_clock_expire(t)
    BY <1>4
  <2>1. /\ state' = [state EXCEPT ![t] = "RUNNABLE"] /\ ~ LockWait(t)
    BY DEF check_clock_expire, MakeRunnable, IInv, SleepersWait, LockWait
  <2> QED
    BY <1>2, <2>1, WakeLockers
<1>5. CASE idle_switch
  <2> DEFINE st == [state EXCEPT ![Idle] = "RUNNABLE"]
  <2>1. vp_schedule(st, runq)
    BY <1>5 DEF idle_switch
  <2>2. /\ st \in [Threads \cup {Idle} -> States]
        /\ \A x \in Threads : st[x] = state[x]
    BY <1>1, ThreadsAssumption DEF States
  <2>3. /\ runq \in Seq(Threads)
        /\ \A x \in ToSet(runq) : x \in Threads /\ state[x] = "RUNNABLE"
    BY SeqDomain DEF IInv, TypeOK, RunQueueExact
  <2> HIDE DEF st
  <2> QED
    BY <1>2, <2>1, <2>2, <2>3, ScheduleLockers DEF LockersKept, LockWait
<1>6. CASE UNCHANGED state
  BY <1>2, <1>6, StateStays
<1> QED
  BY <1>3, <1>4, <1>5, <1>6
  DEF IdleStep, idle_loop, dispatch_pass, read_clock, schedVars

(* The mutexes implement FairMutex: whoever waits gets the mutex from its  *)
(* owner, the longest waiting first, or gives up, although threads that    *)
(* gave up and owners that did not run yet are still linked on its queue   *)
(* (sync.c:st_mutex_lock, st_mutex_unlock, sched.c:st_thread_interrupt).   *)
THEOREM FairMutexImplemented == Spec => ImplementsFairMutex
<1>1. Init => FM!Init
  <2> SUFFICES ASSUME Init PROVE FM!Init
    OBVIOUS
  <2>1. IInv
    BY InitIInv
  <2>2. \A m \in Mutexes : Waits[m] = <<>>
    <3>1. \A t \in Threads : ~ LockWait(t)
      BY ThreadsAssumption DEF Init, LockWait
    <3> QED
      BY <2>1, <3>1, NoneWaits
  <2> QED
    BY <2>2 DEF Init, FM!Init, Waits
<1>2. IInv /\ [Next]_vars => [FM!Next]_(FM!vars)
  <2> SUFFICES ASSUME IInv, [Next]_vars PROVE [FM!Next]_(FM!vars)
    OBVIOUS
  <2>1. CASE UNCHANGED vars
    BY <2>1, KeptStutters, StateStays, QueuesStay DEF vars, MutexesKept
  <2>2. CASE Next
    BY <2>2, ThreadMutexes, CallMutexes, SyncMutexes, ResumeMutexes, IdleMutexes DEF Next
  <2> QED
    BY <2>1, <2>2
<1> QED
  BY <1>1, <1>2, InductiveInvariant, PTL DEF Spec, ImplementsFairMutex, FM!Spec

=============================================================================
