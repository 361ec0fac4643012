------------------------------- MODULE Engine -------------------------------
(***************************************************************************)
(* The event loop of SimpleFrameWork (Engine.cpp), with its queue of event *)
(* jobs (EventJob.cpp, ObjectQueue.cpp), the listener (TCPListener.cpp)    *)
(* and the timers (TimeManager.cpp, TimeoutJob.cpp).  There is one thread: *)
(* it walks the timers, selects, and walks the jobs, and the Processor of  *)
(* a job that it calls on the way may add to what is walked.               *)
(*                                                                         *)
(* Time is counted in passes of 10 ms and, for each timer and for the time *)
(* since the last look at them, only up to Longest.                        *)
(***************************************************************************)
EXTENDS Naturals, FiniteSets, Sequences

CONSTANTS
    Jobs, Listeners,
    Started,        \* the jobs that main starts
    FDs,
    Requests,       \* what the jobs that are no listeners ask for
    Timers,
    Longest,        \* no timer has a timeout as long as this
    timeout,        \* of each timer
    MaxClockSets,   \* how often the clock is set back
    NULL

Conditions == {"read", "write", "exception"}

ASSUME EngineAssumption ==
    /\ Listeners \subseteq Jobs /\ Started \subseteq Jobs /\ Started # {}
    /\ IsFiniteSet(Started) /\ IsFiniteSet(Timers)
    /\ FDs \subseteq Nat /\ IsFiniteSet(FDs) /\ Cardinality(Started) <= Cardinality(FDs)
    /\ Requests \subseteq (SUBSET Conditions) \ {{}}
    /\ Longest \in Nat
    /\ timeout \in [Timers -> 1 .. Longest]
    /\ MaxClockSets \in Nat
    /\ NULL \notin Jobs \cup Timers \cup FDs

VARIABLES
    fSet,               \* fReadSet, fWriteSet and fExceptionSet
    fMaxNumSockets,
    eventQueue,
    sock,               \* the descriptor of each job, NULL: no such job
    conditionSet,       \* what each job asked for last
    returned,           \* the sets that select filled in
    cursor, cond,       \* the job that is looked at, and for what
    result,             \* what its Processor returned
    openFDs, ready,     \* the kernel's
    timeoutQueue,
    currentTimeout,     \* of each timer
    sinceLastSync,      \* the time since fLastSyncTime
    addedTime,          \* timeSinceLastSync of this look at the timers
    timerCursor,
    clockSets,
    at

setVars == <<fSet, fMaxNumSockets, eventQueue, sock, conditionSet, openFDs>>
walkVars == <<returned, cursor, cond, result>>
timerVars == <<timeoutQueue, currentTimeout, addedTime, timerCursor>>
vars == <<setVars, walkVars, ready, timerVars, sinceLastSync, clockSets, at>>

SeqRange(s) == {s[i] : i \in DOMAIN s}
Bits(fd) == {fd} \X Conditions

TypeOK ==
    /\ fSet \subseteq FDs \X Conditions
    /\ fMaxNumSockets \in Nat
    /\ eventQueue \in Seq(Jobs) /\ timeoutQueue \in Seq(Timers)
    /\ sock \in [Jobs -> FDs \cup {NULL}]
    /\ conditionSet \in [Jobs -> SUBSET Conditions]
    /\ returned \subseteq FDs \X Conditions
    /\ cursor \in Jobs \cup {NULL} /\ cond \in Conditions /\ result \in 0 .. 1
    /\ openFDs \subseteq FDs /\ ready \subseteq FDs \X Conditions
    /\ currentTimeout \in [Timers -> 0 .. Longest]
    /\ sinceLastSync \in 0 .. Longest /\ addedTime \in 0 .. Longest
    /\ timerCursor \in Timers \cup {NULL}
    /\ clockSets \in 0 .. MaxClockSets
    /\ at \in {"sync", "timers", "select", "jobs", "result"}

-----------------------------------------------------------------------------
(* Queues.  Elements come in at the tail; iterators start at the head.     *)

EnQueued(q, e) == IF e \in SeqRange(q) THEN q ELSE Append(q, e)

HeadOf(q) == IF q = <<>> THEN NULL ELSE Head(q)

Position(q, e) == CHOOSE i \in DOMAIN q : q[i] = e

(* The element after e, and the queue without e; e is on the queue.        *)
Following(q, e) ==
    LET p == Position(q, e) IN IF p = Len(q) THEN NULL ELSE q[p + 1]

Removed(q, e) ==
    LET p == Position(q, e)
    IN  [i \in 1 .. Len(q) - 1 |-> IF i < p THEN q[i] ELSE q[i + 1]]

-----------------------------------------------------------------------------
(* The sets.                                                               *)

(* addEvent, called by Signal, for a job on descriptor fd.                 *)
AddEvent(j, fd, cs) ==
    /\ fSet' = (fSet \ Bits(fd)) \cup ({fd} \X cs)
    /\ conditionSet' = [conditionSet EXCEPT ![j] = cs]
    /\ fMaxNumSockets' = IF fd + 1 >= fMaxNumSockets THEN fd + 1 ELSE fMaxNumSockets
    /\ eventQueue' = EnQueued(eventQueue, j)

(* Fault: the sets keep the descriptor.                                    *)
DelEvent_KeepBits(j) ==
    /\ fMaxNumSockets' = IF sock[j] + 1 = fMaxNumSockets THEN fMaxNumSockets - 1
                                                         ELSE fMaxNumSockets
    /\ eventQueue' = Removed(eventQueue, j)
    /\ openFDs' = openFDs \ {sock[j]}
    /\ ready' = ready \ Bits(sock[j])
    /\ sock' = [sock EXCEPT ![j] = NULL]
    /\ conditionSet' = [conditionSet EXCEPT ![j] = {}]
    /\ UNCHANGED fSet

(* Fault: the count falls whichever job goes.                              *)
DelEvent_CountFalls(j) ==
    /\ fSet' = fSet \ Bits(sock[j])
    /\ fMaxNumSockets' = fMaxNumSockets - 1
    /\ eventQueue' = Removed(eventQueue, j)
    /\ openFDs' = openFDs \ {sock[j]}
    /\ ready' = ready \ Bits(sock[j])
    /\ sock' = [sock EXCEPT ![j] = NULL]
    /\ conditionSet' = [conditionSet EXCEPT ![j] = {}]

(* delEvent: the job is deleted, and its socket is closed with it.         *)
DelEvent(j) ==
    /\ fSet' = fSet \ Bits(sock[j])
    /\ fMaxNumSockets' = IF sock[j] + 1 = fMaxNumSockets THEN fMaxNumSockets - 1
                                                         ELSE fMaxNumSockets
    /\ eventQueue' = Removed(eventQueue, j)
    /\ openFDs' = openFDs \ {sock[j]}
    /\ ready' = ready \ Bits(sock[j])
    /\ sock' = [sock EXCEPT ![j] = NULL]
    /\ conditionSet' = [conditionSet EXCEPT ![j] = {}]

LowestFree(fd) == fd \in FDs \ openFDs /\ \A f \in FDs \ openFDs : fd <= f

-----------------------------------------------------------------------------
Distinct(q) == \A i, j \in DOMAIN q : q[i] = q[j] => i = j

Orders(S) == {q \in [1 .. Cardinality(S) -> S] : Distinct(q) /\ SeqRange(q) = S}

(* main has started some jobs and the timers, in any order; the first look *)
(* at the timers comes half a century after fLastSyncTime.                 *)
Init ==
    /\ eventQueue \in Orders(Started)
    /\ openFDs = {fd \in FDs : Cardinality({f \in FDs : f < fd}) < Cardinality(Started)}
    /\ sock \in {f \in [Jobs -> openFDs \cup {NULL}] :
                    /\ \A j \in Jobs : f[j] = NULL <=> j \notin Started
                    /\ \A i, j \in Started : f[i] = f[j] => i = j
                    /\ \A fd \in openFDs : \E j \in Started : f[j] = fd}
    /\ fSet = openFDs \X {"read"}
    /\ fMaxNumSockets \in {fd + 1 : fd \in openFDs}
    /\ \A fd \in openFDs : fd < fMaxNumSockets
    /\ conditionSet = [j \in Jobs |-> IF j \in Started THEN {"read"} ELSE {}]
    /\ ready = {} /\ returned = {}
    /\ cursor = NULL /\ cond = "read" /\ result = 0
    /\ timeoutQueue \in Orders(Timers)
    /\ currentTimeout = [t \in Timers |-> 0]
    /\ sinceLastSync = Longest /\ addedTime = 0
    /\ timerCursor = NULL
    /\ clockSets = 0
    /\ at = "sync"

-----------------------------------------------------------------------------
(* TimeManager::Processor.                                                 *)

Capped(n) == IF n > Longest THEN Longest ELSE n

(* The time since the last look is found ...                               *)
Synchronize ==
    /\ at = "sync"
    /\ addedTime' = sinceLastSync
    /\ sinceLastSync' = 0
    /\ timerCursor' = HeadOf(timeoutQueue)
    /\ at' = "timers"
    /\ UNCHANGED <<setVars, walkVars, ready, timeoutQueue, currentTimeout, clockSets>>

(* ... unless the clock was set back: then it is forgotten.                *)
ClockSetBack ==
    /\ at = "sync"
    /\ clockSets < MaxClockSets
    /\ clockSets' = clockSets + 1
    /\ sinceLastSync' = 0
    /\ at' = "select"
    /\ UNCHANGED <<setVars, walkVars, ready, timerVars>>

(* Fault: a timer is only given what passed since the last look.           *)
Elapsed_Last(t) == addedTime

(* addCurrentScheduleTime.                                                 *)
Elapsed(t) == Capped(currentTimeout[t] + addedTime)

(* It is added to the timers, one by one.                                  *)
PassTimer ==
    LET t == timerCursor IN
    /\ at = "timers"
    /\ t # NULL
    /\ Elapsed(t) < timeout[t]
    /\ currentTimeout' = [currentTimeout EXCEPT ![t] = Elapsed(t)]
    /\ timerCursor' = Following(timeoutQueue, t)
    /\ UNCHANGED <<setVars, walkVars, ready, timeoutQueue, addedTime, sinceLastSync,
                   clockSets, at>>

Due(t) == at = "timers" /\ t = timerCursor /\ Elapsed(t) >= timeout[t]

(* The Processor of one that is due returns something but 0 ...            *)
RunTimer(t) ==
    /\ Due(t)
    /\ currentTimeout' = [currentTimeout EXCEPT ![t] = 0]
    /\ timerCursor' = Following(timeoutQueue, t)
    /\ UNCHANGED <<setVars, walkVars, ready, timeoutQueue, addedTime, sinceLastSync,
                   clockSets, at>>

(* Fault: the walk goes on from the timer that was deleted.                *)
AfterDeleted_GoOn(t) == timerCursor' = t /\ at' = "timers"

(* After a deletion the timers are looked at again from the head.          *)
AfterDeleted(t) == timerCursor' = NULL /\ at' = "sync"

(* ... or 0: it is deleted.                                                *)
RunTimerDelete(t) ==
    /\ Due(t)
    /\ timeoutQueue' = Removed(timeoutQueue, t)
    /\ currentTimeout' = [currentTimeout EXCEPT ![t] = 0]
    /\ addedTime' = 0
    /\ AfterDeleted(t)
    /\ UNCHANGED <<setVars, walkVars, ready, sinceLastSync, clockSets>>

TimersDone ==
    /\ at = "timers"
    /\ timerCursor = NULL
    /\ addedTime' = 0
    /\ at' = "select"
    /\ UNCHANGED <<setVars, walkVars, ready, timeoutQueue, currentTimeout, timerCursor,
                   sinceLastSync, clockSets>>

-----------------------------------------------------------------------------
(* Engine::dispatch.                                                       *)

Asked == {b \in fSet : b[1] < fMaxNumSockets}
AskedOpen == \A b \in Asked : b[1] \in openFDs

(* Something is ready.                                                     *)
Select ==
    /\ at = "select"
    /\ AskedOpen
    /\ Asked \cap ready # {}
    /\ returned' = Asked \cap ready
    /\ cursor' = HeadOf(eventQueue)
    /\ cond' = "read"
    /\ at' = "jobs"
    /\ UNCHANGED <<setVars, result, ready, timerVars, sinceLastSync, clockSets>>

(* Nothing is, for 10 ms.                                                  *)
SelectTimesOut ==
    /\ at = "select"
    /\ AskedOpen
    /\ Asked \cap ready = {}
    /\ sinceLastSync' = Capped(sinceLastSync + 1)
    /\ at' = "sync"
    /\ UNCHANGED <<setVars, walkVars, ready, timerVars, clockSets>>

(* It is interrupted, or fails with EBADF.                                 *)
SelectFails ==
    /\ at = "select"
    /\ at' = "sync"
    /\ UNCHANGED <<setVars, walkVars, ready, timerVars, sinceLastSync, clockSets>>

Selected == {<<sock[cursor], cond>>} \subseteq returned \cap fSet

(* The walk is over, or was broken off after a deletion.                   *)
WalkEnds ==
    /\ returned' = {}
    /\ cursor' = NULL
    /\ cond' = "read"
    /\ at' = "sync"

(* On to the next condition, or the next job.                              *)
WalkGoesOn ==
    /\ at' = "jobs"
    /\ UNCHANGED returned
    /\ \/ cond = "read" /\ cond' = "write" /\ UNCHANGED cursor
       \/ cond = "write" /\ cond' = "exception" /\ UNCHANGED cursor
       \/ cond = "exception" /\ cond' = "read" /\ cursor' = Following(eventQueue, cursor)

WalkDone ==
    /\ at = "jobs"
    /\ cursor = NULL
    /\ WalkEnds
    /\ UNCHANGED <<setVars, result, ready, timerVars, sinceLastSync, clockSets>>

NotSelected ==
    /\ at = "jobs"
    /\ cursor # NULL /\ ~Selected
    /\ WalkGoesOn
    /\ UNCHANGED <<setVars, result, ready, timerVars, sinceLastSync, clockSets>>

Processor(j, r) ==
    /\ at = "jobs"
    /\ cursor = j /\ Selected
    /\ result' = r
    /\ at' = "result"
    /\ UNCHANGED <<returned, cursor, cond, currentTimeout, addedTime, timerCursor,
                   sinceLastSync, clockSets>>

(* TCPListener::Processor: it accepts, and the new session asks to read.   *)
Accept(l, s) ==
    \E fd \in FDs :
        /\ l \in Listeners /\ s \notin Listeners
        /\ sock[s] = NULL
        /\ LowestFree(fd)
        /\ Processor(l, 1)
        /\ AddEvent(s, fd, {"read"})
        /\ sock' = [sock EXCEPT ![s] = fd]
        /\ openFDs' = openFDs \cup {fd}
        /\ ready' \in {ready, ready \ Bits(sock[l])}
        /\ UNCHANGED timeoutQueue

(* accept fails.                                                           *)
AcceptNothing(l) ==
    /\ l \in Listeners
    /\ Processor(l, 1)
    /\ ready' = ready \ Bits(sock[l])
    /\ UNCHANGED <<setVars, timeoutQueue>>

(* The Processor of a session handles what there is; it may ask for other  *)
(* conditions or start a timer.                                            *)
Handle(j, r) ==
    /\ j \notin Listeners
    /\ Processor(j, r)
    /\ ready' \in {ready, ready \ {<<sock[j], cond>>}}
    /\ \/ UNCHANGED <<fSet, conditionSet, fMaxNumSockets, eventQueue>>
       \/ \E cs \in Requests : AddEvent(j, sock[j], cs)
    /\ timeoutQueue' \in {timeoutQueue} \cup {EnQueued(timeoutQueue, t) : t \in Timers}
    /\ UNCHANGED <<sock, openFDs>>

(* What the loop makes of the result.                                      *)
ToDelete(r, c) == IF c = "read" THEN r = 0 ELSE r # 0

(* Fault: the walk goes on to the next job after a deletion.               *)
AfterDelEvent_GoOn ==
    /\ at' = "jobs"
    /\ cond' = "read" /\ cursor' = Following(eventQueue, cursor)
    /\ UNCHANGED returned

AfterDelEvent == WalkEnds

DeleteJob ==
    /\ at = "result"
    /\ ToDelete(result, cond)
    /\ DelEvent(cursor)
    /\ AfterDelEvent
    /\ UNCHANGED <<result, timerVars, sinceLastSync, clockSets>>

KeepJob ==
    /\ at = "result"
    /\ ~ToDelete(result, cond)
    /\ WalkGoesOn
    /\ UNCHANGED <<setVars, result, ready, timerVars, sinceLastSync, clockSets>>

-----------------------------------------------------------------------------
(* What happens meanwhile is only noticed at the next select.              *)
BecomeReady ==
    \E b \in fSet :
        /\ at = "select"
        /\ b[1] \in openFDs /\ b \notin ready
        /\ ready' = ready \cup {b}
        /\ UNCHANGED <<setVars, walkVars, timerVars, sinceLastSync, clockSets, at>>

Tick ==
    /\ at = "select"
    /\ sinceLastSync < Longest
    /\ sinceLastSync' = sinceLastSync + 1
    /\ UNCHANGED <<setVars, walkVars, ready, timerVars, clockSets, at>>

RunProcessor ==
    \/ \E l, s \in Jobs : Accept(l, s)
    \/ \E l \in Jobs : AcceptNothing(l)
    \/ \E j \in Jobs, r \in 0 .. 1 : Handle(j, r)

EngineStep ==
    \/ Synchronize \/ PassTimer \/ TimersDone
    \/ \E t \in Timers : RunTimer(t) \/ RunTimerDelete(t)
    \/ Select \/ SelectTimesOut
    \/ WalkDone \/ NotSelected \/ RunProcessor \/ DeleteJob \/ KeepJob

Next == EngineStep \/ SelectFails \/ ClockSetBack \/ BecomeReady \/ Tick

Spec == Init /\ [][Next]_vars

(* The loop runs, Processors return, time passes, and select is not        *)
(* interrupted for ever when something is ready.                           *)
FairSpec == Spec /\ WF_vars(EngineStep) /\ SF_vars(Select) /\ SF_vars(Tick)

-----------------------------------------------------------------------------
(* What select is asked is what the jobs asked for, all of it: a job loses *)
(* no event to another that comes or goes, and no descriptor is asked for  *)
(* once it is closed.                                                      *)
AskedByJobs ==
    /\ Asked = UNION {{sock[j]} \X conditionSet[j] : j \in SeqRange(eventQueue)}
    /\ \A j \in Jobs : (j \in SeqRange(eventQueue)) <=> (sock[j] # NULL)
    /\ \A i, k \in Jobs : sock[i] = sock[k] /\ sock[i] # NULL => i = k
    /\ \A j \in Jobs : sock[j] # NULL => sock[j] \in openFDs

(* The loop only looks at jobs and timers that were not deleted.           *)
CursorsLive ==
    /\ cursor # NULL => cursor \in SeqRange(eventQueue)
    /\ timerCursor # NULL => timerCursor \in SeqRange(timeoutQueue)

(* Sets, queues and the places of the walks agree.                         *)
WalksCorrect == TypeOK /\ AskedByJobs /\ CursorsLive

(* A job is not called for an event of another that had its descriptor     *)
(* before: what select returned was there for those who still have it.     *)
EventsOfTheirOwn ==
    [][\A j \in Jobs : sock[j] = NULL /\ sock'[j] # NULL
                       => Bits(sock'[j]) \cap returned' = {}]_vars

(* A job that something is ready for is called some time, however many     *)
(* others are accepted and deleted.                                        *)
Neglected(j) ==
    /\ sock[j] # NULL
    /\ ({sock[j]} \X conditionSet[j]) \cap ready # {}
    /\ ~(at = "result" /\ cursor = j)

NobodyNeglected == \A j \in Jobs : []<>~Neglected(j)

(* A timer that was started runs, and runs again until it is deleted.      *)
TimersRun ==
    \A t \in Timers : []<>(t \notin SeqRange(timeoutQueue) \/ Due(t))

=============================================================================
