------------------------- MODULE EngineFramesProofs -------------------------
(***************************************************************************)
(* Theorems about Engine and about FrameCache, which share nothing.        *)
(*                                                                         *)
(* Engine, for any jobs, descriptors and timers: the loop asks for what    *)
(* the jobs asked for, looks only at jobs and timers that were not         *)
(* deleted, and calls no job for an event of another.                      *)
(*                                                                         *)
(* FrameCache, for queues of any length, any number of frames and any      *)
(* media: every variable keeps its type, and the frames pushed after the   *)
(* first read are delivered in order.                                      *)
(***************************************************************************)
EXTENDS Engine, FrameCache, FiniteSetTheorems, TLAPS

(* A job has a descriptor to itself as long as it is on the queue.         *)
JobsExact ==
    /\ Distinct(eventQueue)
    /\ \A j \in Jobs : j \in SeqRange(eventQueue) <=> sock[j] # NULL
    /\ \A i, j \in Jobs : sock[i] = sock[j] /\ sock[i] # NULL => i = j
    /\ \A j \in Jobs : sock[j] # NULL => sock[j] \in openFDs /\ sock[j] < fMaxNumSockets

(* The sets hold what the jobs asked for last.                             *)
SetsExact ==
    \A fd \in FDs, c \in Conditions :
        <<fd, c>> \in fSet <=> \E j \in Jobs : sock[j] = fd /\ c \in conditionSet[j]

(* What select returned was there for descriptors that are open still.     *)
ReturnedOpen == \A b \in returned : b[1] \in openFDs

(* The walk over the jobs is at one of them while its Processor returns.    *)
Walking == CursorsLive /\ (at = "result" => cursor # NULL)

IInv == TypeOK /\ JobsExact /\ SetsExact /\ ReturnedOpen /\ Walking

(* The same in three parts, as few steps change more than one of them.     *)
SetsInv ==
    /\ fSet \subseteq FDs \X Conditions
    /\ fMaxNumSockets \in Nat
    /\ eventQueue \in Seq(Jobs)
    /\ sock \in [Jobs -> FDs \cup {NULL}]
    /\ conditionSet \in [Jobs -> SUBSET Conditions]
    /\ openFDs \subseteq FDs
    /\ JobsExact /\ SetsExact

WalkInv ==
    /\ returned \subseteq FDs \X Conditions /\ ready \subseteq FDs \X Conditions
    /\ cursor \in Jobs \cup {NULL} /\ cond \in Conditions /\ result \in 0 .. 1
    /\ ReturnedOpen
    /\ cursor # NULL => cursor \in SeqRange(eventQueue)
    /\ at = "result" => cursor # NULL

TimerInv ==
    /\ timeoutQueue \in Seq(Timers)
    /\ currentTimeout \in [Timers -> 0 .. Longest]
    /\ sinceLastSync \in 0 .. Longest /\ addedTime \in 0 .. Longest
    /\ timerCursor \in Timers \cup {NULL}
    /\ timerCursor # NULL => timerCursor \in SeqRange(timeoutQueue)
    /\ clockSets \in 0 .. MaxClockSets
    /\ at \in {"sync", "timers", "select", "jobs", "result"}

-----------------------------------------------------------------------------
(* Queues.                                                                 *)

LEMMA RangeFacts ==
    ASSUME NEW S, NEW q \in Seq(S)
    PROVE  /\ DOMAIN q = 1..Len(q) /\ Len(q) \in Nat
           /\ \A x : x \in SeqRange(q) <=> \E i \in 1..Len(q) : q[i] = x
           /\ SeqRange(q) \subseteq S
           /\ Distinct(q) <=> \A i, j \in 1..Len(q) : q[i] = q[j] => i = j
BY DEF SeqRange, Distinct

LEMMA PositionFacts ==
    ASSUME NEW S, NEW q \in Seq(S), NEW e \in SeqRange(q)
    PROVE  Position(q, e) \in 1..Len(q) /\ q[Position(q, e)] = e
<1>1. \E i \in DOMAIN q : q[i] = e
  BY RangeFacts
<1> QED BY <1>1, RangeFacts DEF Position

LEMMA HeadLemma ==
    ASSUME NEW S, NEW q \in Seq(S)
    PROVE  HeadOf(q) = NULL \/ HeadOf(q) \in SeqRange(q)
<1>1. CASE q # <<>>
  <2>1. Head(q) = q[1] /\ 1 \in 1..Len(q)
    BY <1>1
  <2> QED BY <1>1, <2>1, RangeFacts DEF HeadOf
<1> QED BY <1>1 DEF HeadOf

LEMMA FollowingLemma ==
    ASSUME NEW S, NEW q \in Seq(S), NEW e \in SeqRange(q)
    PROVE  Following(q, e) = NULL \/ Following(q, e) \in SeqRange(q)
<1> DEFINE p == Position(q, e)
<1>1. p \in 1..Len(q)
  BY PositionFacts
<1>2. CASE p # Len(q)
  <2>1. p + 1 \in 1..Len(q)
    BY <1>1, <1>2, RangeFacts
  <2> QED BY <1>2, <2>1, RangeFacts DEF Following
<1> QED BY <1>2 DEF Following

LEMMA EnQueuedLemma ==
    ASSUME NEW S, NEW q \in Seq(S), NEW e \in S
    PROVE  /\ EnQueued(q, e) \in Seq(S)
           /\ \A x : x \in SeqRange(EnQueued(q, e)) <=> x \in SeqRange(q) \/ x = e
           /\ Distinct(q) => Distinct(EnQueued(q, e))
<1>1. CASE e \in SeqRange(q)
  BY <1>1 DEF EnQueued
<1>2. CASE e \notin SeqRange(q)
  <2> DEFINE u == Append(q, e)
  <2>1. EnQueued(q, e) = u /\ u \in Seq(S) /\ Len(u) = Len(q) + 1 /\ Len(q) \in Nat
    BY <1>2 DEF EnQueued
  <2>2. \A i \in 1..Len(u) : u[i] = IF i = Len(u) THEN e ELSE q[i]
    BY <2>1
  <2> HIDE DEF u
  <2>3. \A x : x \in SeqRange(u) <=> x \in SeqRange(q) \/ x = e
    <3>1. /\ \A x : x \in SeqRange(u) <=> \E i \in 1..Len(u) : u[i] = x
          /\ \A x : x \in SeqRange(q) <=> \E i \in 1..Len(q) : q[i] = x
      BY <2>1, RangeFacts
    <3>2. \A i \in 1..Len(u) : i = Len(u) \/ i \in 1..Len(q)
      BY <2>1
    <3>3. Len(u) \in 1..Len(u) /\ \A i \in 1..Len(q) : i \in 1..Len(u) /\ i # Len(u)
      BY <2>1
    <3> QED BY <2>2, <3>1, <3>2, <3>3
  <2>4. ASSUME Distinct(q) PROVE Distinct(u)
    <3>1. \A i \in 1..Len(q) : q[i] # e
      BY <1>2, RangeFacts
    <3>2. \A i \in 1..Len(u) : i # Len(u) => i \in 1..Len(q)
      BY <2>1
    <3>3. \A i, j \in 1..Len(q) : q[i] = q[j] => i = j
      BY <2>4, RangeFacts
    <3>4. \A i, j \in 1..Len(u) : u[i] = u[j] => i = j
      BY <2>2, <3>1, <3>2, <3>3
    <3> QED BY <2>1, <3>4, RangeFacts
  <2> QED BY <2>1, <2>3, <2>4
<1> QED BY <1>1, <1>2

LEMMA RemovedLemma ==
    ASSUME NEW S, NEW q \in Seq(S), NEW e \in SeqRange(q)
    PROVE  /\ Removed(q, e) \in Seq(S)
           /\ Distinct(q) => /\ Distinct(Removed(q, e))
                             /\ \A x : x \in SeqRange(Removed(q, e))
                                        <=> x \in SeqRange(q) /\ x # e
<1> DEFINE p == Position(q, e)
           u == Removed(q, e)
           n == Len(q) - 1
<1>1. p \in 1..Len(q) /\ q[p] = e /\ Len(q) \in Nat
  BY PositionFacts, RangeFacts
<1>2. n \in Nat
  BY <1>1
<1>3. \A i \in 1..n : i \in 1..Len(q) /\ i + 1 \in 1..Len(q)
  BY <1>1
<1>4. u = [i \in 1..n |-> IF i < p THEN q[i] ELSE q[i + 1]]
  BY DEF Removed
<1>5. u \in Seq(S) /\ Len(u) = n
  <2>1. \A i \in 1..n : (IF i < p THEN q[i] ELSE q[i + 1]) \in S
    BY <1>3
  <2>2. u \in [1..n -> S]
    BY <1>4, <2>1
  <2> QED BY <1>2, <2>2
<1>6. \A i \in 1..n : u[i] = IF i < p THEN q[i] ELSE q[i + 1]
  BY <1>4
<1> HIDE DEF p, u, n
<1>7. ASSUME Distinct(q) PROVE Distinct(u) /\ \A x : x \in SeqRange(u)
                                                    <=> x \in SeqRange(q) /\ x # e
  <2>1. \A i, j \in 1..Len(q) : q[i] = q[j] => i = j
    BY <1>7, RangeFacts
  <2>2. ASSUME NEW i \in 1..n, NEW j \in 1..n, u[i] = u[j] PROVE i = j
    BY <1>1, <1>2, <1>3, <1>6, <2>1, <2>2
  <2>3. Distinct(u)
    BY <1>5, <2>2, RangeFacts
  <2>4. ASSUME NEW x, x \in SeqRange(u) PROVE x \in SeqRange(q) /\ x # e
    <3>1. PICK i \in 1..n : u[i] = x
      BY <1>5, <2>4, RangeFacts
    <3>2. CASE i < p
      <4>1. x = q[i] /\ i \in 1..Len(q) /\ i # p
        BY <1>1, <1>3, <1>6, <3>1, <3>2
      <4> QED BY <1>1, <2>1, <4>1, RangeFacts
    <3>3. CASE ~(i < p)
      <4>1. x = q[i + 1] /\ i + 1 \in 1..Len(q) /\ i + 1 # p
        BY <1>1, <1>3, <1>6, <3>1, <3>3
      <4> QED BY <1>1, <2>1, <4>1, RangeFacts
    <3> QED BY <3>2, <3>3
  <2>5. ASSUME NEW x, x \in SeqRange(q), x # e PROVE x \in SeqRange(u)
    <3>1. PICK i \in 1..Len(q) : q[i] = x
      BY <2>5, RangeFacts
    <3>2. i # p
      BY <1>1, <2>5, <3>1
    <3>3. CASE i < p
      <4>1. i \in 1..n /\ u[i] = x
        BY <1>1, <1>6, <3>1, <3>3 DEF n
      <4> QED BY <1>5, <4>1, RangeFacts
    <3>4. CASE p < i
      <4>1. i - 1 \in 1..n /\ ~(i - 1 < p) /\ (i - 1) + 1 = i
        BY <1>1, <3>1, <3>4 DEF n
      <4>2. u[i - 1] = x
        BY <1>6, <3>1, <4>1
      <4> QED BY <1>5, <4>1, <4>2, RangeFacts
    <3> QED BY <1>1, <3>2, <3>3, <3>4
  <2> QED BY <2>3, <2>4, <2>5
<1> QED BY <1>5, <1>7 DEF u
-----------------------------------------------------------------------------
LEMMA InParts == IInv <=> SetsInv /\ WalkInv /\ TimerInv
BY DEF IInv, SetsInv, WalkInv, TimerInv, TypeOK, Walking, CursorsLive

LEMMA ConstantFacts ==
    /\ Started \subseteq Jobs /\ FDs \subseteq Nat /\ NULL \notin Jobs \cup Timers \cup FDs
    /\ Longest \in Nat /\ MaxClockSets \in Nat
    /\ timeout \in [Timers -> 1 .. Longest]
    /\ \A cs \in Requests : cs \subseteq Conditions
    /\ Started # {} /\ IsFiniteSet(Started) /\ IsFiniteSet(Timers) /\ IsFiniteSet(FDs)
BY EngineAssumption DEF EngineAssumption

(* What a step that leaves the variables of a part alone keeps.            *)
LEMMA SetsKept ==
    ASSUME SetsInv, UNCHANGED setVars
    PROVE  SetsInv'
BY DEF SetsInv, setVars, JobsExact, SetsExact, Distinct, SeqRange

LEMMA WalkKept ==
    ASSUME WalkInv, UNCHANGED <<walkVars, ready, eventQueue, openFDs>>, at' # "result"
    PROVE  WalkInv'
BY DEF WalkInv, walkVars, ReturnedOpen, SeqRange

LEMMA TimerKept ==
    ASSUME TimerInv, UNCHANGED <<timerVars, sinceLastSync, clockSets>>,
           at' \in {"sync", "timers", "select", "jobs", "result"}
    PROVE  TimerInv'
BY DEF TimerInv, timerVars, SeqRange

-----------------------------------------------------------------------------
(* The steps of the timers.                                                *)

LEMMA CappedFacts ==
    /\ \A n \in Nat : Capped(n) \in 0 .. Longest
    /\ TimerInv => \A t \in Timers : Elapsed(t) \in 0 .. Longest
<1>1. \A n \in Nat : Capped(n) \in 0 .. Longest
  BY ConstantFacts DEF Capped
<1>2. ASSUME TimerInv, NEW t \in Timers PROVE Elapsed(t) \in 0 .. Longest
  <2>1. currentTimeout[t] + addedTime \in Nat
    BY <1>2, ConstantFacts DEF TimerInv
  <2> QED BY <1>1, <2>1 DEF Elapsed
<1> QED BY <1>1, <1>2

(* The timer that is looked at next is on the queue.                       *)
LEMMA NextTimer ==
    ASSUME TimerInv
    PROVE  /\ HeadOf(timeoutQueue) \in Timers \cup {NULL}
           /\ HeadOf(timeoutQueue) # NULL => HeadOf(timeoutQueue) \in SeqRange(timeoutQueue)
           /\ timerCursor # NULL =>
                LET n == Following(timeoutQueue, timerCursor)
                IN  n \in Timers \cup {NULL} /\ (n # NULL => n \in SeqRange(timeoutQueue))
<1>1. timeoutQueue \in Seq(Timers)
  BY DEF TimerInv
<1>2. SeqRange(timeoutQueue) \subseteq Timers
  BY <1>1, RangeFacts
<1>3. HeadOf(timeoutQueue) = NULL \/ HeadOf(timeoutQueue) \in SeqRange(timeoutQueue)
  BY <1>1, HeadLemma
<1>4. ASSUME timerCursor # NULL
      PROVE  \/ Following(timeoutQueue, timerCursor) = NULL
             \/ Following(timeoutQueue, timerCursor) \in SeqRange(timeoutQueue)
  BY <1>1, <1>4, FollowingLemma DEF TimerInv
<1> QED BY <1>2, <1>3, <1>4

LEMMA TimerStep ==
    ASSUME TimerInv,
           \/ Synchronize \/ ClockSetBack \/ PassTimer \/ TimersDone
           \/ SelectTimesOut \/ SelectFails \/ Tick
           \/ \E t \in Timers : RunTimer(t) \/ RunTimerDelete(t)
    PROVE  TimerInv'
<1> USE ConstantFacts, NextTimer
<1>0. 0 \in 0 .. Longest
  OBVIOUS
<1>1. CASE Synchronize
  BY <1>0, <1>1 DEF TimerInv, Synchronize, SeqRange
<1>2. CASE ClockSetBack
  <2>1. clockSets' \in 0 .. MaxClockSets
    BY <1>2 DEF TimerInv, ClockSetBack
  <2> QED BY <1>0, <1>2, <2>1 DEF TimerInv, ClockSetBack, timerVars, SeqRange
<1>3. CASE PassTimer
  <2>1. timerCursor \in Timers
    BY <1>3 DEF PassTimer, TimerInv
  <2>2. Elapsed(timerCursor) \in 0 .. Longest
    BY <2>1, CappedFacts
  <2>3. currentTimeout' \in [Timers -> 0 .. Longest]
    BY <1>3, <2>2 DEF PassTimer, TimerInv
  <2> QED BY <1>3, <2>3 DEF PassTimer, TimerInv, SeqRange
<1>4. CASE TimersDone
  BY <1>0, <1>4 DEF TimerInv, TimersDone, SeqRange
<1>5. CASE SelectTimesOut
  <2>1. sinceLastSync + 1 \in Nat
    BY DEF TimerInv
  <2>2. sinceLastSync' \in 0 .. Longest
    BY <1>5, <2>1, CappedFacts DEF SelectTimesOut
  <2> QED BY <1>5, <2>2 DEF TimerInv, SelectTimesOut, timerVars, SeqRange
<1>6. CASE SelectFails
  BY <1>6, TimerKept DEF SelectFails
<1>7. CASE Tick
  <2>1. sinceLastSync' \in 0 .. Longest
    BY <1>7 DEF Tick, TimerInv
  <2> QED BY <1>7, <2>1 DEF TimerInv, Tick, timerVars, SeqRange
<1>8. ASSUME NEW t \in Timers, RunTimer(t) PROVE TimerInv'
  BY <1>0, <1>8 DEF RunTimer, Due, TimerInv, SeqRange
<1>9. ASSUME NEW t \in Timers, RunTimerDelete(t) PROVE TimerInv'
  <2>1. t \in SeqRange(timeoutQueue) /\ timeoutQueue \in Seq(Timers)
    BY <1>9 DEF RunTimerDelete, Due, TimerInv
  <2>2. timeoutQueue' \in Seq(Timers)
    BY <1>9, <2>1, RemovedLemma DEF RunTimerDelete
  <2> QED BY <1>0, <1>9, <2>2 DEF RunTimerDelete, AfterDeleted, TimerInv
<1> QED BY <1>1, <1>2, <1>3, <1>4, <1>5, <1>6, <1>7, <1>8, <1>9
-----------------------------------------------------------------------------
(* The steps of the walk over the jobs that leave jobs and sets alone.     *)

(* The job that is looked at next is on the queue.                         *)
LEMMA NextJob ==
    ASSUME SetsInv, WalkInv
    PROVE  /\ HeadOf(eventQueue) \in Jobs \cup {NULL}
           /\ HeadOf(eventQueue) # NULL => HeadOf(eventQueue) \in SeqRange(eventQueue)
           /\ cursor # NULL =>
                LET n == Following(eventQueue, cursor)
                IN  n \in Jobs \cup {NULL} /\ (n # NULL => n \in SeqRange(eventQueue))
<1>1. eventQueue \in Seq(Jobs)
  BY DEF SetsInv
<1>2. SeqRange(eventQueue) \subseteq Jobs
  BY <1>1, RangeFacts
<1>3. HeadOf(eventQueue) = NULL \/ HeadOf(eventQueue) \in SeqRange(eventQueue)
  BY <1>1, HeadLemma
<1>4. ASSUME cursor # NULL
      PROVE  \/ Following(eventQueue, cursor) = NULL
             \/ Following(eventQueue, cursor) \in SeqRange(eventQueue)
  BY <1>1, <1>4, FollowingLemma DEF WalkInv
<1> QED BY <1>2, <1>3, <1>4

LEMMA WalkGoesOnLemma ==
    ASSUME SetsInv, WalkInv, cursor # NULL, WalkGoesOn,
           UNCHANGED <<result, ready, eventQueue, openFDs>>
    PROVE  WalkInv'
<1>1. returned' = returned /\ at' = "jobs" /\ cond' \in Conditions
  BY DEF WalkGoesOn, Conditions
<1>2. cursor' = cursor \/ cursor' = Following(eventQueue, cursor)
  BY DEF WalkGoesOn
<1>3. cursor' \in Jobs \cup {NULL} /\ (cursor' # NULL => cursor' \in SeqRange(eventQueue))
  BY <1>2, NextJob DEF WalkInv
<1> QED BY <1>1, <1>3 DEF WalkInv, ReturnedOpen, SeqRange

LEMMA WalkEndsLemma ==
    ASSUME WalkInv, WalkEnds, ready' \subseteq FDs \X Conditions, result' = result
    PROVE  WalkInv'
BY DEF WalkInv, WalkEnds, ReturnedOpen, Conditions

(* While a Processor runs the job stays where it is.                       *)
LEMMA ProcessorLemma ==
    ASSUME WalkInv, SetsInv,
           NEW j \in Jobs, NEW res \in 0 .. 1, Processor(j, res),
           ready' \subseteq FDs \X Conditions,
           SeqRange(eventQueue) \subseteq SeqRange(eventQueue'), openFDs \subseteq openFDs'
    PROVE  WalkInv'
<1>1. UNCHANGED <<returned, cursor, cond>> /\ result' = res /\ cursor = j /\ j # NULL
  BY ConstantFacts DEF Processor
<1>2. cursor' \in SeqRange(eventQueue)'
  BY <1>1 DEF WalkInv, SeqRange
<1> QED BY <1>1, <1>2 DEF WalkInv, ReturnedOpen

LEMMA QuietWalkStep ==
    ASSUME SetsInv, WalkInv, TimerInv,
           \/ Select \/ WalkDone \/ NotSelected \/ KeepJob \/ BecomeReady
           \/ \E l \in Jobs : AcceptNothing(l)
    PROVE  SetsInv' /\ WalkInv' /\ TimerInv'
<1> USE ConstantFacts
<1>1. CASE Select
  <2>1. returned' \subseteq FDs \X Conditions /\ \A b \in returned' : b[1] \in openFDs
    BY <1>1 DEF Select, WalkInv, Asked, AskedOpen
  <2>2. WalkInv'
    BY <1>1, <2>1, NextJob DEF Select, WalkInv, ReturnedOpen, setVars, SeqRange, Conditions
  <2>3. SetsInv' /\ TimerInv'
    BY <1>1, SetsKept, TimerKept DEF Select
  <2> QED BY <2>2, <2>3
<1>2. CASE WalkDone
  <2>1. SetsInv' /\ TimerInv' /\ ready' \subseteq FDs \X Conditions
    BY <1>2, SetsKept, TimerKept DEF WalkDone, WalkEnds, WalkInv
  <2> QED BY <1>2, <2>1, WalkEndsLemma DEF WalkDone
<1>3. CASE NotSelected
  <2>1. SetsInv' /\ TimerInv'
    BY <1>3, SetsKept, TimerKept DEF NotSelected, WalkGoesOn
  <2> QED BY <1>3, <2>1, WalkGoesOnLemma DEF NotSelected, setVars
<1>4. CASE KeepJob
  <2>1. SetsInv' /\ TimerInv'
    BY <1>4, SetsKept, TimerKept DEF KeepJob, WalkGoesOn
  <2> QED BY <1>4, <2>1, WalkGoesOnLemma DEF KeepJob, setVars, WalkInv
<1>5. CASE BecomeReady
  <2>1. SetsInv'
    BY <1>5, SetsKept DEF BecomeReady
  <2>2. TimerInv'
    BY <1>5, TimerKept DEF BecomeReady, TimerInv
  <2>3. ready' \subseteq FDs \X Conditions
    BY <1>5 DEF BecomeReady, WalkInv, SetsInv
  <2>4. WalkInv'
    BY <1>5, <2>3 DEF BecomeReady, WalkInv, walkVars, setVars, ReturnedOpen, SeqRange
  <2> QED BY <2>1, <2>2, <2>4
<1>6. ASSUME NEW l \in Jobs, AcceptNothing(l) PROVE SetsInv' /\ WalkInv' /\ TimerInv'
  <2>1. SetsInv'
    BY <1>6, SetsKept DEF AcceptNothing
  <2>2. /\ ready' \subseteq FDs \X Conditions
        /\ Processor(l, 1) /\ 1 \in 0 .. 1
        /\ UNCHANGED <<eventQueue, openFDs, timeoutQueue>>
    BY <1>6 DEF AcceptNothing, WalkInv, setVars
  <2>3. WalkInv'
    BY <2>2, ProcessorLemma
  <2>4. TimerInv'
    BY <2>2 DEF TimerInv, Processor, SeqRange
  <2> QED BY <2>1, <2>3, <2>4
<1> QED BY <1>1, <1>2, <1>3, <1>4, <1>5, <1>6
-----------------------------------------------------------------------------
(* addEvent and delEvent.                                                  *)

LEMMA AddEventLemma ==
    ASSUME SetsInv,
           NEW j \in Jobs, NEW fd \in FDs, NEW cs \in SUBSET Conditions, AddEvent(j, fd, cs),
           sock' = [sock EXCEPT ![j] = fd], openFDs' = openFDs \cup {fd},
           sock[j] = NULL \/ sock[j] = fd,
           \A i \in Jobs : i # j => sock[i] # fd
    PROVE  SetsInv' /\ SeqRange(eventQueue) \subseteq SeqRange(eventQueue')
<1> USE ConstantFacts
<1>1. /\ eventQueue' \in Seq(Jobs) /\ Distinct(eventQueue')
      /\ \A x : x \in SeqRange(eventQueue') <=> x \in SeqRange(eventQueue) \/ x = j
  BY EnQueuedLemma DEF AddEvent, SetsInv, JobsExact
<1>2. /\ sock' \in [Jobs -> FDs \cup {NULL}]
      /\ \A i \in Jobs : sock'[i] = IF i = j THEN fd ELSE sock[i]
  BY DEF SetsInv
<1>3. /\ conditionSet' \in [Jobs -> SUBSET Conditions]
      /\ \A i \in Jobs : conditionSet'[i] = IF i = j THEN cs ELSE conditionSet[i]
  BY DEF SetsInv, AddEvent
<1>4. /\ fMaxNumSockets \in Nat /\ fMaxNumSockets' \in Nat /\ fd < fMaxNumSockets'
      /\ \A n \in Nat : n < fMaxNumSockets => n < fMaxNumSockets'
  BY DEF SetsInv, AddEvent
<1>5. fSet' = (fSet \ Bits(fd)) \cup ({fd} \X cs) /\ fSet' \subseteq FDs \X Conditions
  BY DEF SetsInv, AddEvent
<1>6. Distinct(eventQueue)' /\ \A i \in Jobs : i \in SeqRange(eventQueue)' <=> sock'[i] # NULL
  <2>1. \A i \in Jobs : i \in SeqRange(eventQueue) <=> sock[i] # NULL
    BY DEF SetsInv, JobsExact
  <2>2. \A i \in Jobs : i \in SeqRange(eventQueue') <=> sock'[i] # NULL
    BY <1>1, <1>2, <2>1
  <2> QED BY <1>1, <2>2 DEF Distinct, SeqRange
<1>7. \A i, k \in Jobs : sock'[i] = sock'[k] /\ sock'[i] # NULL => i = k
  BY <1>2 DEF SetsInv, JobsExact
<1>8. \A i \in Jobs : sock'[i] # NULL => sock'[i] \in openFDs' /\ sock'[i] < fMaxNumSockets'
  <2>1. ASSUME NEW i \in Jobs, i # j, sock[i] # NULL
        PROVE  sock[i] \in openFDs /\ sock[i] < fMaxNumSockets'
    BY <1>4, <2>1 DEF SetsInv, JobsExact
  <2> QED BY <1>2, <1>4, <2>1
<1>9. JobsExact'
  BY <1>6, <1>7, <1>8 DEF JobsExact
<1>10. ASSUME NEW f \in FDs, NEW c \in Conditions
       PROVE  <<f, c>> \in fSet' <=> \E i \in Jobs : sock'[i] = f /\ c \in conditionSet'[i]
  <2>1. CASE f = fd
    <3>1. <<f, c>> \in fSet' <=> c \in cs
      BY <1>5, <2>1 DEF Bits
    <3>2. \A i \in Jobs : sock'[i] = f <=> i = j
      BY <1>2, <2>1
    <3> QED BY <1>3, <3>1, <3>2
  <2>2. CASE f # fd
    <3>1. <<f, c>> \in fSet' <=> <<f, c>> \in fSet
      BY <1>5, <2>2 DEF Bits
    <3>2. <<f, c>> \in fSet <=> \E i \in Jobs : sock[i] = f /\ c \in conditionSet[i]
      BY DEF SetsInv, SetsExact
    <3>3. \A i \in Jobs : sock'[i] = f => i # j
      BY <1>2, <2>2
    <3>4. \A i \in Jobs : sock[i] = f => i # j
      BY <2>2
    <3> QED BY <1>2, <1>3, <3>1, <3>2, <3>3, <3>4
  <2> QED BY <2>1, <2>2
<1>11. SetsExact'
  BY <1>10 DEF SetsExact
<1>12. SeqRange(eventQueue) \subseteq SeqRange(eventQueue') /\ openFDs' \subseteq FDs
  BY <1>1 DEF SetsInv
<1> QED BY <1>1, <1>2, <1>3, <1>4, <1>5, <1>9, <1>11, <1>12 DEF SetsInv

LEMMA DelEventLemma ==
    ASSUME SetsInv, NEW j \in Jobs, j \in SeqRange(eventQueue), DelEvent(j)
    PROVE  SetsInv'
<1> USE ConstantFacts
<1> DEFINE fd == sock[j]
<1>1. fd \in FDs /\ fd \in openFDs /\ fd # NULL
  BY DEF SetsInv, JobsExact
<1>2. /\ eventQueue' \in Seq(Jobs) /\ Distinct(eventQueue')
      /\ \A x : x \in SeqRange(eventQueue') <=> x \in SeqRange(eventQueue) /\ x # j
  BY RemovedLemma DEF DelEvent, SetsInv, JobsExact
<1>3. /\ sock' \in [Jobs -> FDs \cup {NULL}]
      /\ \A i \in Jobs : sock'[i] = IF i = j THEN NULL ELSE sock[i]
  BY DEF SetsInv, DelEvent
<1>4. /\ conditionSet' \in [Jobs -> SUBSET Conditions]
      /\ \A i \in Jobs : conditionSet'[i] = IF i = j THEN {} ELSE conditionSet[i]
  BY DEF SetsInv, DelEvent
<1>5. \A i \in Jobs : i # j => sock[i] # fd
  BY <1>1 DEF SetsInv, JobsExact
<1>6. /\ fMaxNumSockets' \in Nat
      /\ \A n \in Nat : n < fMaxNumSockets /\ n # fd => n < fMaxNumSockets'
  <2>1. fd \in Nat /\ fMaxNumSockets \in Nat /\ fd < fMaxNumSockets
    BY <1>1 DEF SetsInv, JobsExact
  <2>2. fMaxNumSockets' = IF fd + 1 = fMaxNumSockets THEN fMaxNumSockets - 1
                                                     ELSE fMaxNumSockets
    BY DEF DelEvent
  <2> HIDE DEF fd
  <2> QED BY <2>1, <2>2
<1>7. fSet' = fSet \ Bits(fd) /\ fSet' \subseteq FDs \X Conditions
  BY DEF SetsInv, DelEvent
<1>8. openFDs' = openFDs \ {fd} /\ openFDs' \subseteq FDs
  BY DEF SetsInv, DelEvent
<1> HIDE DEF fd
<1>9. Distinct(eventQueue)' /\ \A i \in Jobs : i \in SeqRange(eventQueue)' <=> sock'[i] # NULL
  <2>1. \A i \in Jobs : i \in SeqRange(eventQueue) <=> sock[i] # NULL
    BY DEF SetsInv, JobsExact
  <2>2. \A i \in Jobs : i \in SeqRange(eventQueue') <=> sock'[i] # NULL
    BY <1>2, <1>3, <2>1
  <2> QED BY <1>2, <2>2 DEF Distinct, SeqRange
<1>10. \A i, k \in Jobs : sock'[i] = sock'[k] /\ sock'[i] # NULL => i = k
  BY <1>3 DEF SetsInv, JobsExact
<1>11. ASSUME NEW i \in Jobs, sock'[i] # NULL
       PROVE  sock'[i] \in openFDs' /\ sock'[i] < fMaxNumSockets'
  <2>1. i # j /\ sock'[i] = sock[i] /\ sock[i] # fd
    BY <1>3, <1>5, <1>11
  <2>2. sock[i] \in Nat /\ sock[i] \in openFDs /\ sock[i] < fMaxNumSockets
    BY <1>11, <2>1 DEF SetsInv, JobsExact
  <2> QED BY <1>6, <1>8, <2>1, <2>2
<1>12. JobsExact'
  BY <1>9, <1>10, <1>11 DEF JobsExact
<1>13. ASSUME NEW f \in FDs, NEW c \in Conditions
       PROVE  <<f, c>> \in fSet' <=> \E i \in Jobs : sock'[i] = f /\ c \in conditionSet'[i]
  <2>1. <<f, c>> \in fSet <=> \E i \in Jobs : sock[i] = f /\ c \in conditionSet[i]
    BY DEF SetsInv, SetsExact
  <2>2. <<f, c>> \in fSet' <=> <<f, c>> \in fSet /\ f # fd
    BY <1>7, <1>13 DEF Bits
  <2>3. sock[j] = fd
    BY DEF fd
  <2> QED BY <1>3, <1>4, <1>5, <2>1, <2>2, <2>3
<1>14. SetsExact'
  BY <1>13 DEF SetsExact
<1> QED BY <1>2, <1>3, <1>4, <1>6, <1>7, <1>8, <1>12, <1>14 DEF SetsInv
-----------------------------------------------------------------------------
(* The Processors that change jobs and sets, and the deletion after one.   *)

LEMMA AcceptStep ==
    ASSUME SetsInv, WalkInv, TimerInv, NEW l \in Jobs, NEW s \in Jobs, Accept(l, s)
    PROVE  SetsInv' /\ WalkInv' /\ TimerInv'
<1> USE ConstantFacts
<1>1. PICK fd \in FDs :
        /\ sock[s] = NULL /\ LowestFree(fd) /\ Processor(l, 1) /\ AddEvent(s, fd, {"read"})
        /\ sock' = [sock EXCEPT ![s] = fd] /\ openFDs' = openFDs \cup {fd}
        /\ ready' \in {ready, ready \ Bits(sock[l])} /\ UNCHANGED timeoutQueue
  BY DEF Accept
<1>2. fd \notin openFDs /\ {"read"} \in SUBSET Conditions /\ 1 \in 0 .. 1
  BY <1>1 DEF LowestFree, Conditions
<1>3. \A i \in Jobs : i # s => sock[i] # fd
  BY <1>2 DEF SetsInv, JobsExact
<1>4. SetsInv' /\ SeqRange(eventQueue) \subseteq SeqRange(eventQueue')
  BY <1>1, <1>2, <1>3, AddEventLemma
<1>5. WalkInv'
  <2>1. ready' \subseteq FDs \X Conditions /\ openFDs \subseteq openFDs'
    BY <1>1 DEF WalkInv
  <2> QED BY <1>1, <1>2, <1>4, <2>1, ProcessorLemma
<1>6. TimerInv'
  BY <1>1 DEF Processor, TimerInv, SeqRange, Accept
<1> QED BY <1>4, <1>5, <1>6

LEMMA HandleStep ==
    ASSUME SetsInv, WalkInv, TimerInv, NEW j \in Jobs, NEW res \in 0 .. 1, Handle(j, res)
    PROVE  SetsInv' /\ WalkInv' /\ TimerInv'
<1> USE ConstantFacts
<1>1. /\ Processor(j, res) /\ UNCHANGED <<sock, openFDs>>
      /\ \/ UNCHANGED <<fSet, conditionSet, fMaxNumSockets, eventQueue>>
         \/ \E cs \in Requests : AddEvent(j, sock[j], cs)
      /\ timeoutQueue' \in {timeoutQueue} \cup {EnQueued(timeoutQueue, t) : t \in Timers}
      /\ ready' \subseteq ready
  BY DEF Handle
<1>2. j \in SeqRange(eventQueue) /\ sock[j] \in FDs /\ sock[j] \in openFDs /\ sock[j] # NULL
  <2>1. j \in SeqRange(eventQueue)
    BY <1>1 DEF Processor, WalkInv
  <2> QED BY <2>1 DEF SetsInv, JobsExact
<1>3. SetsInv' /\ SeqRange(eventQueue) \subseteq SeqRange(eventQueue')
  <2>1. CASE UNCHANGED <<fSet, conditionSet, fMaxNumSockets, eventQueue>>
    BY <1>1, <2>1, SetsKept DEF setVars
  <2>2. ASSUME NEW cs \in Requests, AddEvent(j, sock[j], cs)
        PROVE  SetsInv' /\ SeqRange(eventQueue) \subseteq SeqRange(eventQueue')
    <3>1. cs \in SUBSET Conditions
      OBVIOUS
    <3>2. sock' = [sock EXCEPT ![j] = sock[j]] /\ openFDs' = openFDs \cup {sock[j]}
      BY <1>1, <1>2 DEF SetsInv
    <3>3. \A i \in Jobs : i # j => sock[i] # sock[j]
      BY <1>2 DEF SetsInv, JobsExact
    <3> QED BY <1>2, <2>2, <3>1, <3>2, <3>3, AddEventLemma
  <2> QED BY <1>1, <2>1, <2>2
<1>4. WalkInv'
  <2>1. ready' \subseteq FDs \X Conditions /\ openFDs \subseteq openFDs'
    BY <1>1 DEF WalkInv
  <2> QED BY <1>1, <1>3, <2>1, ProcessorLemma
<1>5. TimerInv'
  <2>1. timeoutQueue' \in Seq(Timers) /\ SeqRange(timeoutQueue) \subseteq SeqRange(timeoutQueue')
    BY <1>1, EnQueuedLemma DEF TimerInv
  <2>2. clockSets' = clockSets /\ UNCHANGED <<currentTimeout, addedTime, timerCursor, sinceLastSync>>
    BY <1>1 DEF Processor, Handle
  <2>3. at' = "result"
    BY <1>1 DEF Processor
  <2>4. timerCursor' # NULL => timerCursor' \in SeqRange(timeoutQueue)'
    BY <2>1, <2>2 DEF TimerInv, SeqRange
  <2> QED BY <2>1, <2>2, <2>3, <2>4 DEF TimerInv
<1> QED BY <1>3, <1>4, <1>5

LEMMA DeleteStep ==
    ASSUME SetsInv, WalkInv, TimerInv, DeleteJob
    PROVE  SetsInv' /\ WalkInv' /\ TimerInv'
<1> USE ConstantFacts
<1>1. cursor \in Jobs /\ cursor \in SeqRange(eventQueue) /\ DelEvent(cursor) /\ WalkEnds
  BY DEF DeleteJob, AfterDelEvent, WalkInv
<1>2. SetsInv'
  BY <1>1, DelEventLemma
<1>3. ready' \subseteq FDs \X Conditions /\ result' = result
  BY <1>1 DEF DelEvent, DeleteJob, WalkInv
<1>4. WalkInv'
  BY <1>1, <1>3, WalkEndsLemma
<1>5. TimerInv'
  BY <1>1, TimerKept DEF DeleteJob, WalkEnds
<1> QED BY <1>2, <1>4, <1>5

LEMMA TimerStepSets ==
    ASSUME SetsInv, WalkInv,
           \/ Synchronize \/ ClockSetBack \/ PassTimer \/ TimersDone
           \/ SelectTimesOut \/ SelectFails \/ Tick
           \/ \E t \in Timers : RunTimer(t) \/ RunTimerDelete(t)
    PROVE  SetsInv' /\ WalkInv'
<1>1. UNCHANGED <<setVars, walkVars, ready>> /\ at' # "result"
  BY DEF Synchronize, ClockSetBack, PassTimer, TimersDone, SelectTimesOut, SelectFails, Tick,
         RunTimer, RunTimerDelete, AfterDeleted, Due
<1>2. UNCHANGED <<eventQueue, openFDs>>
  BY <1>1 DEF setVars
<1> QED BY <1>1, <1>2, SetsKept, WalkKept

-----------------------------------------------------------------------------
LEMMA IInvStep ==
    ASSUME IInv, [Next]_vars
    PROVE  IInv'
<1>1. SetsInv /\ WalkInv /\ TimerInv
  BY InParts
<1>2. SetsInv' /\ WalkInv' /\ TimerInv'
  <2>1. CASE \/ Synchronize \/ ClockSetBack \/ PassTimer \/ TimersDone
             \/ SelectTimesOut \/ SelectFails \/ Tick
             \/ \E t \in Timers : RunTimer(t) \/ RunTimerDelete(t)
    BY <1>1, <2>1, TimerStep, TimerStepSets
  <2>2. CASE \/ Select \/ WalkDone \/ NotSelected \/ KeepJob \/ BecomeReady
             \/ \E l \in Jobs : AcceptNothing(l)
    BY <1>1, <2>2, QuietWalkStep
  <2>3. ASSUME NEW l \in Jobs, NEW s \in Jobs, Accept(l, s)
        PROVE  SetsInv' /\ WalkInv' /\ TimerInv'
    BY <1>1, <2>3, AcceptStep
  <2>4. ASSUME NEW j \in Jobs, NEW res \in 0 .. 1, Handle(j, res)
        PROVE  SetsInv' /\ WalkInv' /\ TimerInv'
    BY <1>1, <2>4, HandleStep
  <2>5. CASE DeleteJob
    BY <1>1, <2>5, DeleteStep
  <2>6. CASE UNCHANGED vars
    BY <1>1, <2>6 DEF vars, setVars, walkVars, timerVars, SetsInv, WalkInv, TimerInv,
                      JobsExact, SetsExact, ReturnedOpen, Distinct, SeqRange
  <2> QED BY <2>1, <2>2, <2>3, <2>4, <2>5, <2>6 DEF Next, EngineStep, RunProcessor
<1>3. SetsInv' /\ WalkInv' /\ TimerInv' => IInv'
  BY DEF IInv, SetsInv, WalkInv, TimerInv, TypeOK, Walking, CursorsLive
<1> QED BY <1>2, <1>3
LEMMA OrdersFacts ==
    ASSUME NEW S, IsFiniteSet(S), NEW q \in Orders(S)
    PROVE  q \in Seq(S) /\ Distinct(q) /\ SeqRange(q) = S
<1>1. Cardinality(S) \in Nat
  BY FS_CardinalityType
<1> QED BY <1>1 DEF Orders

LEMMA InitIInv == Init => IInv
<1> SUFFICES ASSUME Init PROVE IInv
  OBVIOUS
<1> USE ConstantFacts
<1>1. /\ eventQueue \in Seq(Jobs) /\ Distinct(eventQueue) /\ SeqRange(eventQueue) = Started
      /\ timeoutQueue \in Seq(Timers)
  BY OrdersFacts DEF Init
<1>2. /\ openFDs \subseteq FDs /\ sock \in [Jobs -> openFDs \cup {NULL}]
      /\ \A j \in Jobs : sock[j] = NULL <=> j \notin Started
      /\ \A i, j \in Started : sock[i] = sock[j] => i = j
      /\ \A fd \in openFDs : \E j \in Started : sock[j] = fd
      /\ fMaxNumSockets \in Nat /\ \A fd \in openFDs : fd < fMaxNumSockets
  <2>1. openFDs \subseteq FDs
    BY DEF Init
  <2>2. fMaxNumSockets \in Nat
    <3>1. fMaxNumSockets \in {fd + 1 : fd \in openFDs}
      BY DEF Init
    <3>2. PICK fd \in openFDs : fMaxNumSockets = fd + 1
      BY <3>1
    <3>3. fd \in Nat
      BY <2>1
    <3> QED BY <3>2, <3>3
  <2> QED BY <2>1, <2>2 DEF Init
<1>3. /\ conditionSet = [j \in Jobs |-> IF j \in Started THEN {"read"} ELSE {}]
      /\ fSet = openFDs \X {"read"}
  BY DEF Init
<1>4. JobsExact
  BY <1>1, <1>2 DEF JobsExact
<1>5. ASSUME NEW fd \in FDs, NEW c \in Conditions
      PROVE  <<fd, c>> \in fSet <=> \E j \in Jobs : sock[j] = fd /\ c \in conditionSet[j]
  <2>1. <<fd, c>> \in fSet <=> fd \in openFDs /\ c = "read"
    BY <1>3
  <2>2. \A j \in Jobs : c \in conditionSet[j] <=> j \in Started /\ c = "read"
    BY <1>3
  <2>3. \A j \in Started : sock[j] \in openFDs
    BY <1>2
  <2> QED BY <1>2, <2>1, <2>2, <2>3
<1>6. SetsInv
  <2>1. conditionSet \in [Jobs -> SUBSET Conditions] /\ fSet \subseteq FDs \X Conditions
    BY <1>2, <1>3 DEF Conditions
  <2> QED BY <1>1, <1>2, <1>4, <1>5, <2>1 DEF SetsInv, SetsExact
<1>7. WalkInv
  BY DEF Init, WalkInv, ReturnedOpen, Conditions
<1>8. TimerInv
  <2>1. currentTimeout \in [Timers -> 0 .. Longest]
    BY DEF Init
  <2> QED BY <1>1, <2>1 DEF Init, TimerInv
<1> QED BY <1>6, <1>7, <1>8, InParts

-----------------------------------------------------------------------------
(* The parts above hold in every state that the loop reaches (Engine.cpp). *)
THEOREM InductiveInvariant == Spec => []IInv
BY InitIInv, IInvStep, PTL DEF Spec

LEMMA AskedLemma == IInv => WalksCorrect
<1> SUFFICES ASSUME IInv PROVE WalksCorrect
  OBVIOUS
<1> USE ConstantFacts
<1>1. /\ JobsExact /\ SetsExact /\ TypeOK /\ CursorsLive
      /\ fSet \subseteq FDs \X Conditions /\ conditionSet \in [Jobs -> SUBSET Conditions]
      /\ sock \in [Jobs -> FDs \cup {NULL}] /\ eventQueue \in Seq(Jobs)
  BY DEF IInv, Walking, TypeOK
<1>2. SeqRange(eventQueue) \subseteq Jobs
  BY <1>1, RangeFacts
<1>3. ASSUME NEW b \in Asked
      PROVE  \E j \in SeqRange(eventQueue) : b \in {sock[j]} \X conditionSet[j]
  <2>0. b \in fSet /\ b \in FDs \X Conditions
    BY <1>1 DEF Asked
  <2> HIDE DEF Asked
  <2>1. PICK fd \in FDs, c \in Conditions : b = <<fd, c>> /\ b \in fSet
    <3>1. b[1] \in FDs /\ b[2] \in Conditions /\ b = <<b[1], b[2]>>
      BY <2>0
    <3> QED BY <2>0, <3>1
  <2>2. PICK j \in Jobs : sock[j] = fd /\ c \in conditionSet[j]
    BY <1>1, <2>1 DEF SetsExact
  <2>3. j \in SeqRange(eventQueue)
    BY <1>1, <2>2 DEF JobsExact
  <2> QED BY <2>1, <2>2, <2>3
<1>4. ASSUME NEW j \in SeqRange(eventQueue), NEW b \in {sock[j]} \X conditionSet[j]
      PROVE  b \in Asked
  <2>1. j \in Jobs /\ sock[j] \in FDs /\ sock[j] < fMaxNumSockets
    BY <1>1, <1>2 DEF JobsExact
  <2>2. PICK c \in Conditions : b = <<sock[j], c>> /\ c \in conditionSet[j]
    BY <1>1, <2>1
  <2>3. b \in fSet
    BY <1>1, <2>1, <2>2 DEF SetsExact
  <2> QED BY <2>1, <2>2, <2>3 DEF Asked
<1>5. Asked = UNION {{sock[j]} \X conditionSet[j] : j \in SeqRange(eventQueue)}
  <2> DEFINE U == UNION {{sock[j]} \X conditionSet[j] : j \in SeqRange(eventQueue)}
  <2>1. \A b : b \in U <=> \E j \in SeqRange(eventQueue) : b \in {sock[j]} \X conditionSet[j]
    OBVIOUS
  <2> HIDE DEF U
  <2>2. \A b : b \in Asked <=> b \in U
    BY <1>3, <1>4, <2>1
  <2>3. Asked = U
    BY <2>2
  <2> QED BY <2>3 DEF U
<1>6. AskedByJobs
  BY <1>1, <1>5 DEF AskedByJobs, JobsExact
<1> QED BY <1>1, <1>6 DEF WalksCorrect

(* select is asked for what the jobs asked for and for nothing else, and   *)
(* neither walk is ever at something that was deleted, whatever the jobs   *)
(* accept, ask for and delete while they are walked (Engine::dispatch,     *)
(* addEvent and delEvent; TimeManager::Processor).                         *)
THEOREM SetsFollowJobs == Spec => []WalksCorrect
BY InductiveInvariant, AskedLemma, PTL

LEMMA OwnEvents ==
    ASSUME IInv, [Next]_vars,
           NEW j \in Jobs, sock[j] = NULL, sock'[j] # NULL
    PROVE  Bits(sock'[j]) \cap returned' = {}
<1>1. SetsInv /\ WalkInv
  BY InParts
<1>2. \E l, s \in Jobs : Accept(l, s)
  <2>1. sock' # sock
    OBVIOUS
  <2>2. CASE DeleteJob
    <3>1. sock' = [sock EXCEPT ![cursor] = NULL]
      BY <2>2 DEF DeleteJob, DelEvent
    <3>2. sock \in [Jobs -> FDs \cup {NULL}]
      BY <1>1 DEF SetsInv
    <3>3. sock'[j] = NULL
      BY <3>1, <3>2
    <3> QED BY <3>3
  <2>3. \/ DeleteJob \/ sock' = sock \/ \E l, s \in Jobs : Accept(l, s)
    BY DEF Next, EngineStep, RunProcessor, vars, setVars, Synchronize, ClockSetBack, PassTimer,
           TimersDone, SelectTimesOut, SelectFails, Tick, RunTimer, RunTimerDelete, Select,
           WalkDone, NotSelected, KeepJob, BecomeReady, AcceptNothing, Handle
  <2> QED BY <2>1, <2>2, <2>3
<1>3. PICK l \in Jobs, s \in Jobs : Accept(l, s)
  BY <1>2
<1>4. PICK fd \in FDs :
        LowestFree(fd) /\ Processor(l, 1) /\ sock' = [sock EXCEPT ![s] = fd]
  BY <1>3 DEF Accept
<1>5. returned' = returned /\ fd \notin openFDs
  BY <1>4 DEF Processor, LowestFree
<1>6. sock'[j] = fd
  <2>1. sock \in [Jobs -> FDs \cup {NULL}]
    BY <1>1 DEF SetsInv
  <2> QED BY <1>4, <2>1
<1>7. ASSUME NEW b \in Bits(fd), b \in returned PROVE FALSE
  <2>1. b[1] = fd /\ b[1] \in openFDs
    BY <1>1, <1>7 DEF Bits, WalkInv, ReturnedOpen
  <2> QED BY <1>5, <2>1
<1> QED BY <1>5, <1>6, <1>7

(* A session that is accepted in a pass over the jobs is not called in it  *)
(* for what select said of the job that had its descriptor before          *)
(* (Engine::dispatch and TCPListener::Processor).                          *)
THEOREM NoEventsOfOthers == Spec => EventsOfTheirOwn
<1>1. ASSUME IInv, [Next]_vars
      PROVE  [\A j \in Jobs : sock[j] = NULL /\ sock'[j] # NULL
                               => Bits(sock'[j]) \cap returned' = {}]_vars
  BY <1>1, OwnEvents
<1> QED BY <1>1, InductiveInvariant, PTL DEF Spec, EventsOfTheirOwn

-----------------------------------------------------------------------------
(* The cache between the application and the event loop of the pusher      *)
(* (FrameCache), which shares nothing with the engine.                     *)

(* A container that holds a frame pushed after the first read, and its own. *)
NewFrame(c) == ~mFree[c] /\ c \notin stale /\ before < frame[c]

(* Frames are numbered as they are pushed, and the one being pushed is in  *)
(* no container yet.                                                       *)
Numbered ==
    /\ before <= pushed /\ taken <= pushed
    /\ \A c \in Containers : frame[c] <= pushed
    /\ w # "out" => taken < pushed /\ \A c \in Containers : frame[c] < pushed

(* Where the application is: only it changes the write queue, until it is  *)
(* out again.                                                              *)
WriterPlace ==
    /\ w = "out" => wi = 1
    /\ w = "fill" => mFree[<<writeQueue, wi>>]
    /\ w = "clean" => \A j \in 1..queueLen : j < wi => mFree[<<writeQueue, j>>]

(* Where the event loop is: the queue it gives away is empty.              *)
ReaderPlace ==
    /\ r \in {"clean read", "clean write"} => firstRead
    /\ r \in {"find", "swap", "again", "read"} => ~firstRead
    /\ r = "swap" => \A j \in 1..queueLen : mFree[<<readQueue, j>>]

(* The write queue fills from its head on.                                 *)
FilledFromHead ==
    /\ w # "clean" =>
         \A i, j \in 1..queueLen :
            i < j /\ mFree[<<writeQueue, i>>] => ~NewFrame(<<writeQueue, j>>)
    /\ w \in {"find", "fill"} /\ before < pushed =>
         \A j \in 1..queueLen : j < wi => ~mFree[<<writeQueue, j>>]

(* The order in which frames leave is that of their numbers.               *)
Ordered ==
    /\ \A q \in Queues : \A i, j \in 1..queueLen :
         i < j /\ NewFrame(<<q, i>>) /\ NewFrame(<<q, j>>) => frame[<<q, i>>] < frame[<<q, j>>]
    /\ \A i, j \in 1..queueLen :
         NewFrame(<<readQueue, i>>) /\ NewFrame(<<writeQueue, j>>)
            => frame[<<readQueue, i>>] < frame[<<writeQueue, j>>]
    /\ \A c \in Containers : NewFrame(c) => taken < frame[c]

FramesInv ==
    /\ FrameTypeOK
    /\ Numbered
    /\ WriterPlace
    /\ ReaderPlace
    /\ ~firstRead => FilledFromHead /\ Ordered

-----------------------------------------------------------------------------
LEMMA TwoQueues ==
    ASSUME readQueue \in Queues
    PROVE  /\ writeQueue \in Queues /\ writeQueue # readQueue
           /\ Other(writeQueue) = readQueue
           /\ \A q \in Queues : q = readQueue \/ q = writeQueue
BY DEF Queues, writeQueue, Other

LEMMA ContainerFacts ==
    /\ \A q \in Queues, i \in 1..queueLen : <<q, i>> \in Containers
    /\ \A c \in Containers : /\ c[1] \in Queues /\ c[2] \in 1..queueLen
                             /\ c = <<c[1], c[2]>>
    /\ \A p, q \in Queues, i, j \in 1..queueLen :
          <<p, i>> = <<q, j>> <=> p = q /\ i = j
BY DEF Containers

LEMMA FrameConstants ==
    /\ queueLen \in Nat \ {0} /\ MaxFrames \in Nat
    /\ Queues' = Queues /\ Containers' = Containers
BY FrameAssumption DEF FrameAssumption, Queues, Containers

LEMMA FrameTypes ==
    ASSUME FrameTypeOK
    PROVE  /\ pushed \in 0..MaxFrames /\ taken \in 0..MaxFrames
           /\ before \in 0..MaxFrames
           /\ wi \in 1..queueLen /\ ri \in 1..queueLen
           /\ \A c \in Containers : frame[c] \in 0..MaxFrames
           /\ readQueue \in Queues
BY DEF FrameTypeOK

(* The order of the parts is the order of the containers.                  *)
LEMMA OrderImplies ==
    ASSUME FrameTypeOK, ~firstRead => Ordered
    PROVE  FramesInOrder
<1> SUFFICES ASSUME ~firstRead
             PROVE  /\ \A c, d \in Cached \ stale :
                         Before(c, d) /\ before < frame[c] /\ before < frame[d]
                            => frame[c] < frame[d]
                    /\ \A c \in Cached \ stale : before < frame[c] => taken < frame[c]
  BY DEF FramesInOrder
<1>1. ASSUME NEW c \in Cached \ stale, NEW d \in Cached \ stale, Before(c, d),
             before < frame[c], before < frame[d]
      PROVE  frame[c] < frame[d]
  <2>1. /\ c = <<c[1], c[2]>> /\ d = <<d[1], d[2]>>
        /\ c[1] \in Queues /\ c[2] \in 1..queueLen
        /\ d[1] \in Queues /\ d[2] \in 1..queueLen
    BY ContainerFacts DEF Cached
  <2>2. NewFrame(c) /\ NewFrame(d)
    BY <1>1 DEF NewFrame, Cached
  <2>3. NewFrame(<<c[1], c[2]>>) /\ NewFrame(<<d[1], d[2]>>)
    BY <2>1, <2>2
  <2>4. CASE c[1] = readQueue /\ d[1] = writeQueue
    <3>1. NewFrame(<<readQueue, c[2]>>) /\ NewFrame(<<writeQueue, d[2]>>)
      BY <2>3, <2>4
    <3>2. frame[<<readQueue, c[2]>>] < frame[<<writeQueue, d[2]>>]
      BY <2>1, <3>1 DEF Ordered
    <3> QED BY <2>1, <2>4, <3>2
  <2>5. CASE c[1] = d[1] /\ c[2] < d[2]
    <3>1. NewFrame(<<c[1], c[2]>>) /\ NewFrame(<<c[1], d[2]>>)
      BY <2>3, <2>5
    <3>2. frame[<<c[1], c[2]>>] < frame[<<c[1], d[2]>>]
      BY <2>1, <2>5, <3>1 DEF Ordered
    <3> QED BY <2>1, <2>5, <3>2
  <2> QED BY <1>1, <2>4, <2>5 DEF Before
<1>2. ASSUME NEW c \in Cached \ stale, before < frame[c] PROVE taken < frame[c]
  BY <1>2 DEF Ordered, NewFrame, Cached
<1> QED BY <1>1, <1>2

-----------------------------------------------------------------------------
LEMMA FramesInit == FrameInit => FramesInv
<1> SUFFICES ASSUME FrameInit PROVE FramesInv
  OBVIOUS
<1> USE FrameConstants
<1>1. FrameTypeOK
  BY DEF FrameInit, FrameTypeOK, Queues, Containers
<1>2. Numbered
  BY DEF FrameInit, Numbered
<1>3. WriterPlace /\ ReaderPlace
  BY DEF FrameInit, WriterPlace, ReaderPlace
<1> QED BY <1>1, <1>2, <1>3 DEF FramesInv, FrameInit

(* The application.                                                        *)

LEMMA PushFrameStep == FramesInv /\ PushFrame => FramesInv'
<1> SUFFICES ASSUME FramesInv, PushFrame PROVE FramesInv'
  OBVIOUS
<1>0. /\ queueLen \in Nat \ {0} /\ MaxFrames \in Nat
      /\ Queues' = Queues /\ Containers' = Containers
  BY FrameConstants
<1> USE <1>0 DEF FramesInv
<1>1. /\ w = "out" /\ w' = "find" /\ pushed' = pushed + 1 /\ pushed < MaxFrames
      /\ UNCHANGED <<mFree, frame, medium, stale, readQueue, firstRead, wi, source, r, ri>>
      /\ UNCHANGED <<taken, before, writeQueue>>
  BY DEF PushFrame, writeQueue, Other, dataVars, readerVars
<1>2. /\ pushed \in 0..MaxFrames /\ taken \in 0..MaxFrames /\ before \in 0..MaxFrames
      /\ \A c \in Containers : frame[c] \in 0..MaxFrames
  BY FrameTypes
<1>3. FrameTypeOK' /\ Numbered'
  <2>1. pushed' \in 0..MaxFrames
    BY <1>1, <1>2
  <2>2. FrameTypeOK'
    BY <1>1, <2>1 DEF FrameTypeOK
  <2>3. Numbered'
    BY <1>1, <1>2 DEF Numbered
  <2> QED BY <2>2, <2>3
<1>4. WriterPlace'
  BY <1>1 DEF WriterPlace
<1>5. ReaderPlace'
  BY <1>1 DEF ReaderPlace
<1>6. ASSUME ~firstRead PROVE Ordered'
  BY <1>1, <1>6 DEF Ordered, NewFrame
<1>7. ASSUME ~firstRead PROVE FilledFromHead'
  BY <1>1, <1>7 DEF FilledFromHead, NewFrame, WriterPlace
<1> QED BY <1>1, <1>3, <1>4, <1>5, <1>6, <1>7

LEMMA FindFreeStep == FramesInv /\ FindFree => FramesInv'
<1> SUFFICES ASSUME FramesInv, FindFree PROVE FramesInv'
  OBVIOUS
<1>0. /\ queueLen \in Nat \ {0} /\ MaxFrames \in Nat
      /\ Queues' = Queues /\ Containers' = Containers
  BY FrameConstants
<1> USE <1>0 DEF FramesInv
<1>1. /\ w = "find"
      /\ UNCHANGED <<mFree, frame, medium, stale, readQueue, firstRead, source, r, ri>>
      /\ UNCHANGED <<pushed, taken, before, writeQueue>>
  BY DEF FindFree, WriterUnchanged, writeQueue, Other, dataVars, readerVars
<1>2. wi \in 1..queueLen
  BY FrameTypes
<1>3. \/ mFree[<<writeQueue, wi>>] /\ w' = "fill" /\ wi' = wi
      \/ ~mFree[<<writeQueue, wi>>] /\ w' = "find" /\ wi' = wi + 1 /\ wi < queueLen
      \/ ~mFree[<<writeQueue, wi>>] /\ w' = "clean" /\ wi' = 1
  BY DEF FindFree, Advance
<1>4. wi' \in 1..queueLen /\ w' \in {"find", "fill", "clean"}
  BY <1>2, <1>3
<1>5. FrameTypeOK' /\ Numbered'
  BY <1>1, <1>4 DEF FrameTypeOK, Numbered
<1>6. WriterPlace'
  <2>1. w' = "clean" => wi' = 1
    BY <1>3
  <2>2. w' = "fill" => mFree[<<writeQueue, wi>>] /\ wi' = wi
    BY <1>3
  <2>3. \A j \in 1..queueLen : ~(j < 1)
    OBVIOUS
  <2> QED BY <1>1, <1>4, <2>1, <2>2, <2>3 DEF WriterPlace
<1>7. ReaderPlace'
  BY <1>1 DEF ReaderPlace
<1>8. ASSUME ~firstRead PROVE Ordered'
  BY <1>1, <1>8 DEF Ordered, NewFrame
<1>9. ASSUME ~firstRead PROVE FilledFromHead'
  <2>1. \A i, j \in 1..queueLen :
           i < j /\ mFree[<<writeQueue, i>>] => ~NewFrame(<<writeQueue, j>>)
    BY <1>1, <1>9 DEF FilledFromHead
  <2>2. ASSUME before < pushed, NEW j \in 1..queueLen, j < wi
        PROVE  ~mFree[<<writeQueue, j>>]
    BY <1>1, <1>9, <2>2 DEF FilledFromHead
  <2>3. ASSUME w' \in {"find", "fill"}, before < pushed, NEW j \in 1..queueLen, j < wi'
        PROVE  ~mFree[<<writeQueue, j>>]
    <3>1. CASE wi' = wi
      BY <2>2, <2>3, <3>1
    <3>2. CASE wi' = wi + 1 /\ ~mFree[<<writeQueue, wi>>]
      BY <1>2, <2>2, <2>3, <3>2
    <3> QED BY <1>3, <2>3, <3>1, <3>2
  <2> QED BY <1>1, <2>1, <2>3 DEF FilledFromHead, NewFrame
<1> QED BY <1>1, <1>5, <1>6, <1>7, <1>8, <1>9

(* Fill puts the highest number behind all that are cached: whatever is    *)
(* behind the free container it takes was pushed before the first read.    *)
LEMMA FillStep == FramesInv /\ Fill => FramesInv'
<1> SUFFICES ASSUME FramesInv, Fill PROVE FramesInv'
  OBVIOUS
<1>0. /\ queueLen \in Nat \ {0} /\ MaxFrames \in Nat
      /\ Queues' = Queues /\ Containers' = Containers
  BY FrameConstants
<1> USE <1>0 DEF FramesInv
<1> DEFINE slot == <<writeQueue, wi>>
           NewNext(c) == ~mFree'[c] /\ c \notin stale' /\ before < frame'[c]
<1>1. /\ w = "fill" /\ w' = "out" /\ wi' = 1
      /\ \/ /\ frame' = [frame EXCEPT ![slot] = pushed]
            /\ \E m \in Media : medium' = [medium EXCEPT ![slot] = m]
            /\ stale' = stale \ {slot}
         \/ stale' = stale \cup {slot} /\ UNCHANGED <<frame, medium>>
      /\ mFree' = [mFree EXCEPT ![slot] = FALSE]
      /\ UNCHANGED <<readQueue, firstRead, source, r, ri>>
      /\ UNCHANGED <<pushed, taken, before, writeQueue>>
  BY DEF Fill, WriteContainer, WriterUnchanged, writeQueue, Other, readerVars
<1>2. /\ pushed \in 0..MaxFrames /\ taken \in 0..MaxFrames /\ before \in 0..MaxFrames
      /\ \A c \in Containers : frame[c] \in 0..MaxFrames
      /\ wi \in 1..queueLen /\ readQueue \in Queues
  BY FrameTypes
<1>3. /\ writeQueue \in Queues /\ writeQueue # readQueue
      /\ \A q \in Queues : q = readQueue \/ q = writeQueue
  BY <1>2, TwoQueues
<1>4. slot \in Containers
  BY <1>2, <1>3, ContainerFacts
<1>5. /\ mFree[slot] /\ ~mFree'[slot]
      /\ \A c \in Containers : c # slot => mFree'[c] = mFree[c]
      /\ \A c \in Containers : c # slot => frame'[c] = frame[c]
  <2>1. mFree[slot]
    BY <1>1 DEF WriterPlace
  <2>2. ~mFree'[slot] /\ \A c \in Containers : c # slot => mFree'[c] = mFree[c]
    BY <1>1, <1>4 DEF FrameTypeOK
  <2>3. \A c \in Containers : c # slot => frame'[c] = frame[c]
    BY <1>1, <1>4 DEF FrameTypeOK
  <2> QED BY <2>1, <2>2, <2>3
<1>11. \A c \in Containers : c # slot => (c \in stale' <=> c \in stale)
  BY <1>1
<1>12. slot \notin stale' => frame'[slot] = pushed
  BY <1>1, <1>4 DEF FrameTypeOK
<1>13. frame'[slot] = pushed \/ frame'[slot] = frame[slot]
  BY <1>1, <1>4 DEF FrameTypeOK
<1>6. FrameTypeOK'
  <2>1. mFree' \in [Containers -> BOOLEAN]
    BY <1>1 DEF FrameTypeOK
  <2>2. frame' \in [Containers -> 0..MaxFrames]
    BY <1>1, <1>2 DEF FrameTypeOK
  <2>3. medium' \in [Containers -> Media \cup {"none"}]
    BY <1>1 DEF FrameTypeOK
  <2>4. wi' \in 1..queueLen
    BY <1>1
  <2>5. stale' \subseteq Containers
    BY <1>1, <1>4 DEF FrameTypeOK
  <2> QED BY <1>1, <2>1, <2>2, <2>3, <2>4, <2>5 DEF FrameTypeOK
<1>7. taken < pushed /\ \A c \in Containers : frame[c] < pushed
  BY <1>1 DEF Numbered
<1>8. Numbered'
  <2>1. frame'[slot] <= pushed
    BY <1>2, <1>4, <1>7, <1>13
  <2>2. \A c \in Containers : c # slot => frame'[c] <= pushed
    BY <1>2, <1>5, <1>7
  <2>3. \A c \in Containers : frame'[c] <= pushed
    BY <2>1, <2>2
  <2> QED BY <1>1, <2>3 DEF Numbered
<1>9. WriterPlace' /\ ReaderPlace'
  <2>1. \A j \in 1..queueLen : <<readQueue, j>> \in Containers /\ <<readQueue, j>> # slot
    BY <1>2, <1>3, ContainerFacts
  <2>2. ReaderPlace'
    BY <1>1, <1>5, <2>1 DEF ReaderPlace
  <2> QED BY <1>1, <2>2 DEF WriterPlace
<1>10. ASSUME ~firstRead PROVE FilledFromHead' /\ Ordered'
  <2> USE <1>10
  <2>1. /\ \A i, j \in 1..queueLen :
              i < j /\ mFree[<<writeQueue, i>>] => ~NewFrame(<<writeQueue, j>>)
        /\ before < pushed => \A j \in 1..queueLen : j < wi => ~mFree[<<writeQueue, j>>]
    BY <1>1 DEF FilledFromHead
  <2>2. /\ NewNext(slot) => before < pushed /\ frame'[slot] = pushed
        /\ \A c \in Containers : c # slot => (NewNext(c) <=> NewFrame(c))
    BY <1>5, <1>11, <1>12 DEF NewFrame
  <2>3. \A q \in Queues, i \in 1..queueLen : 
           /\ <<q, i>> \in Containers
           /\ <<q, i>> = slot <=> q = writeQueue /\ i = wi
    BY <1>2, <1>3, ContainerFacts
  <2>4. \A j \in 1..queueLen : wi < j => ~NewFrame(<<writeQueue, j>>)
    BY <1>2, <1>5, <2>1
  <2>5. ASSUME NEW i \in 1..queueLen, NEW j \in 1..queueLen,
               i < j, mFree'[<<writeQueue, i>>]
        PROVE  ~NewNext(<<writeQueue, j>>)
    <3>1. i # wi /\ mFree[<<writeQueue, i>>]
      BY <1>3, <1>5, <2>3, <2>5
    <3>2. CASE j = wi
      <4>1. ~(before < pushed)
        BY <2>1, <2>5, <3>1, <3>2
      <4> QED BY <2>2, <3>2, <4>1
    <3>3. CASE j # wi
      BY <1>3, <2>1, <2>2, <2>3, <2>5, <3>1, <3>3
    <3> QED BY <3>2, <3>3
  <2>6. FilledFromHead'
    BY <1>1, <2>5 DEF FilledFromHead, NewFrame
  <2>7. ASSUME NEW q \in Queues, NEW i \in 1..queueLen, NEW j \in 1..queueLen,
               i < j, NewNext(<<q, i>>), NewNext(<<q, j>>)
        PROVE  frame'[<<q, i>>] < frame'[<<q, j>>]
    <3>1. CASE q = writeQueue /\ i = wi
      BY <1>2, <2>2, <2>3, <2>4, <2>7, <3>1
    <3>2. CASE q = writeQueue /\ j = wi
      BY <1>2, <1>5, <1>7, <2>2, <2>3, <2>7, <3>2
    <3>3. CASE ~(q = writeQueue /\ i = wi) /\ ~(q = writeQueue /\ j = wi)
      BY <1>5, <2>2, <2>3, <2>7, <3>3 DEF Ordered
    <3> QED BY <3>1, <3>2, <3>3
  <2>8. ASSUME NEW i \in 1..queueLen, NEW j \in 1..queueLen,
               NewNext(<<readQueue, i>>), NewNext(<<writeQueue, j>>)
        PROVE  frame'[<<readQueue, i>>] < frame'[<<writeQueue, j>>]
    <3>1. <<readQueue, i>> \in Containers /\ <<readQueue, i>> # slot
      BY <1>2, <1>3, <2>3
    <3>2. CASE j = wi
      BY <1>5, <1>7, <2>2, <2>8, <3>1, <3>2
    <3>3. CASE j # wi
      <4>1. <<writeQueue, j>> \in Containers /\ <<writeQueue, j>> # slot
        BY <1>3, <2>3, <3>3
      <4>2. NewFrame(<<readQueue, i>>) /\ NewFrame(<<writeQueue, j>>)
        BY <2>2, <2>8, <3>1, <4>1
      <4>3. frame[<<readQueue, i>>] < frame[<<writeQueue, j>>]
        BY <4>2 DEF Ordered
      <4> QED BY <1>5, <3>1, <4>1, <4>3
    <3> QED BY <3>2, <3>3
  <2>9. ASSUME NEW c \in Containers, NewNext(c) PROVE taken < frame'[c]
    <3>1. CASE c = slot
      BY <1>1, <1>7, <2>2, <2>9, <3>1
    <3>2. CASE c # slot
      BY <1>5, <2>2, <2>9, <3>2 DEF Ordered
    <3> QED BY <3>1, <3>2
  <2>10. Ordered'
    BY <1>1, <2>7, <2>8, <2>9 DEF Ordered, NewFrame
  <2> QED BY <2>6, <2>10
<1> QED BY <1>1, <1>6, <1>8, <1>9, <1>10

(* Freeing containers does not reorder what is left.                       *)
LEMMA FewerOrdered ==
    ASSUME FrameTypeOK, Ordered, UNCHANGED <<frame, stale, readQueue, before, taken>>,
           \A c \in Containers : mFree[c] => mFree'[c]
    PROVE  Ordered'
<1> USE FrameConstants
<1> DEFINE NewNext(c) == ~mFree'[c] /\ c \notin stale /\ before < frame[c]
<1>1. /\ readQueue \in Queues /\ writeQueue \in Queues
      /\ writeQueue' = writeQueue
  BY FrameTypes, TwoQueues DEF writeQueue, Other
<1>2. \A c \in Containers : NewNext(c) => NewFrame(c)
  BY DEF NewFrame
<1>3. \A q \in Queues, i \in 1..queueLen : NewNext(<<q, i>>) => NewFrame(<<q, i>>)
  BY <1>2, ContainerFacts
<1>4. \A q \in Queues : \A i, j \in 1..queueLen :
        i < j /\ NewNext(<<q, i>>) /\ NewNext(<<q, j>>) => frame[<<q, i>>] < frame[<<q, j>>]
  BY <1>3 DEF Ordered
<1>5. \A i, j \in 1..queueLen :
        NewNext(<<readQueue, i>>) /\ NewNext(<<writeQueue, j>>)
           => frame[<<readQueue, i>>] < frame[<<writeQueue, j>>]
  BY <1>1, <1>3 DEF Ordered
<1>6. \A c \in Containers : NewNext(c) => taken < frame[c]
  BY <1>2 DEF Ordered
<1> QED BY <1>1, <1>4, <1>5, <1>6 DEF Ordered, NewFrame

LEMMA ThrowAwayStep == FramesInv /\ ThrowAway => FramesInv'
<1> SUFFICES ASSUME FramesInv, ThrowAway PROVE FramesInv'
  OBVIOUS
<1>0. /\ queueLen \in Nat \ {0} /\ MaxFrames \in Nat
      /\ Queues' = Queues /\ Containers' = Containers
  BY FrameConstants
<1> USE <1>0 DEF FramesInv
<1> DEFINE slot == <<writeQueue, wi>>
<1>1. /\ w = "clean"
      /\ mFree' = [mFree EXCEPT ![slot] = TRUE]
      /\ UNCHANGED <<frame, medium, stale, readQueue, firstRead, source, r, ri>>
      /\ UNCHANGED <<pushed, taken, before, writeQueue>>
  BY DEF ThrowAway, WriterUnchanged, writeQueue, Other, dataVars, readerVars
<1>2. wi \in 1..queueLen /\ readQueue \in Queues
  BY FrameTypes
<1>3. \/ w' = "clean" /\ wi' = wi + 1 /\ wi < queueLen
      \/ w' = "out" /\ wi' = 1 /\ ~(wi < queueLen)
  BY <1>1 DEF ThrowAway, Advance
<1>4. /\ wi' \in 1..queueLen /\ w' \in {"clean", "out"}
  BY <1>2, <1>3
<1>5. \A c \in Containers : mFree[c] \/ c = slot => mFree'[c]
  BY <1>1 DEF FrameTypeOK
<1>6. \A j \in 1..queueLen : j <= wi => mFree'[<<writeQueue, j>>]
  <2> SUFFICES ASSUME NEW j \in 1..queueLen, j <= wi PROVE mFree'[<<writeQueue, j>>]
    OBVIOUS
  <2>1. <<writeQueue, j>> \in Containers
    BY <1>2, TwoQueues, ContainerFacts
  <2>2. CASE j = wi
    BY <1>5, <2>1, <2>2
  <2>3. CASE j < wi
    BY <1>1, <1>5, <2>1, <2>3 DEF WriterPlace
  <2> QED BY <1>2, <2>2, <2>3
<1>7. FrameTypeOK' /\ Numbered'
  <2>1. mFree' \in [Containers -> BOOLEAN]
    BY <1>1 DEF FrameTypeOK
  <2> QED BY <1>1, <1>4, <2>1 DEF FrameTypeOK, Numbered
<1>8. WriterPlace'
  <2>1. ASSUME w' = "clean", NEW j \in 1..queueLen, j < wi'
        PROVE  mFree'[<<writeQueue, j>>]
    BY <1>2, <1>3, <1>6, <2>1
  <2> QED BY <1>1, <1>3, <1>4, <2>1 DEF WriterPlace
<1>9. ReaderPlace'
  <2>1. \A j \in 1..queueLen : <<readQueue, j>> \in Containers
    BY <1>2, ContainerFacts
  <2> QED BY <1>1, <1>5, <2>1 DEF ReaderPlace
<1>10. ASSUME ~firstRead PROVE Ordered'
  BY <1>1, <1>5, <1>10, FewerOrdered
<1>11. ASSUME w' = "out", NEW j \in 1..queueLen PROVE mFree'[<<writeQueue, j>>]
  BY <1>2, <1>3, <1>6, <1>11
<1>12. FilledFromHead'
  BY <1>1, <1>4, <1>11 DEF FilledFromHead, NewFrame
<1> QED BY <1>1, <1>7, <1>8, <1>9, <1>10, <1>12

-----------------------------------------------------------------------------
(* The event loop.                                                         *)

LEMMA PollStep == FramesInv /\ (\E m \in Media : Poll(m)) => FramesInv'
<1> SUFFICES ASSUME FramesInv, NEW m \in Media, Poll(m) PROVE FramesInv'
  OBVIOUS
<1>0. /\ queueLen \in Nat \ {0} /\ MaxFrames \in Nat
      /\ Queues' = Queues /\ Containers' = Containers
  BY FrameConstants
<1> USE <1>0 DEF FramesInv
<1>1. /\ source' = m /\ r' = IF firstRead THEN "clean read" ELSE "find"
      /\ UNCHANGED <<mFree, frame, medium, stale, readQueue, firstRead, ri, w, wi>>
      /\ UNCHANGED <<pushed, taken, before, writeQueue>>
  BY DEF Poll, writeQueue, Other, dataVars, writerVars
<1>2. FrameTypeOK' /\ Numbered'
  BY <1>1 DEF FrameTypeOK, Numbered
<1>3. WriterPlace' /\ ReaderPlace'
  BY <1>1 DEF WriterPlace, ReaderPlace
<1>4. ASSUME ~firstRead PROVE Ordered' /\ FilledFromHead'
  BY <1>1, <1>4 DEF Ordered, FilledFromHead, NewFrame
<1> QED BY <1>1, <1>2, <1>3, <1>4

(* The first read ends with nothing new in the queues.                     *)
LEMMA CleanCacheStep == FramesInv /\ CleanCache => FramesInv'
<1> SUFFICES ASSUME FramesInv, CleanCache PROVE FramesInv'
  OBVIOUS
<1>0. /\ queueLen \in Nat \ {0} /\ MaxFrames \in Nat
      /\ Queues' = Queues /\ Containers' = Containers
  BY FrameConstants
<1> USE <1>0 DEF FramesInv
<1>1. /\ UNCHANGED <<frame, medium, stale, readQueue, source, w, wi>>
      /\ UNCHANGED <<pushed, taken, writeQueue>>
      /\ firstRead
  BY DEF CleanCache, ReaderUnchanged, writeQueue, Other, dataVars, writerVars,
         ReaderPlace
<1>2. /\ pushed \in 0..MaxFrames /\ before \in 0..MaxFrames
      /\ \A c \in Containers : frame[c] \in 0..MaxFrames
      /\ ri \in 1..queueLen /\ wi \in 1..queueLen
      /\ readQueue \in Queues /\ writeQueue \in Queues
  BY FrameTypes, TwoQueues
<1>3. /\ mFree' \in [Containers -> BOOLEAN]
      /\ \A c \in Containers : mFree[c] => mFree'[c]
  BY DEF CleanCache, FrameTypeOK
<1>4. ri' \in 1..queueLen
  <2>1. ri' = 1 \/ (ri' = ri + 1 /\ ri < queueLen)
    BY DEF CleanCache, Advance
  <2> QED BY <1>2, <2>1
<1>5. \/ /\ r' \in {"clean read", "clean write"}
         /\ firstRead' /\ before' = before
      \/ /\ r' = "find"
         /\ ~firstRead' /\ before' = pushed
  <2>1. CASE r = "clean read"
    BY <1>1, <2>1 DEF CleanCache, Advance, FrameTypeOK
  <2>2. CASE r = "clean write" /\ ri < queueLen
    BY <1>1, <2>2 DEF CleanCache, Advance, FrameTypeOK
  <2>3. CASE r = "clean write" /\ ~(ri < queueLen)
    BY <1>1, <2>3 DEF CleanCache, Advance, FrameTypeOK
  <2> QED BY <2>1, <2>2, <2>3 DEF CleanCache
<1>6. FrameTypeOK'
  <2>1. before' \in 0..MaxFrames
    BY <1>2, <1>5
  <2>2. r' \in {"clean read", "clean write", "find"}
    BY <1>5
  <2>3. firstRead' \in BOOLEAN
    <3>1. firstRead \in BOOLEAN
      BY DEF FrameTypeOK
    <3>2. firstRead' = firstRead \/ firstRead' = (ri < queueLen)
      BY ONLY CleanCache DEF CleanCache
    <3>3. (ri < queueLen) \in BOOLEAN
      BY ONLY <1>2
    <3> HIDE DEF FramesInv
    <3> QED BY ONLY <3>1, <3>2, <3>3
  <2> QED BY <1>1, <1>3, <1>4, <2>1, <2>2, <2>3 DEF FrameTypeOK
<1>7. Numbered'
  <2>1. before <= pushed
    BY DEF Numbered
  <2>2. before' = before \/ before' = pushed
    BY <1>5
  <2>3. pushed <= pushed
    BY <1>2
  <2>4. before' <= pushed
    BY <2>1, <2>2, <2>3
  <2> QED BY <1>1, <2>4 DEF Numbered
<1>8. WriterPlace'
  <2>1. \A j \in 1..queueLen : <<writeQueue, j>> \in Containers
    BY <1>2, ContainerFacts
  <2> QED BY <1>1, <1>2, <1>3, <2>1 DEF WriterPlace
<1>9. ReaderPlace'
  BY <1>5 DEF ReaderPlace
<1>10. ASSUME ~firstRead' PROVE Ordered' /\ FilledFromHead'
  <2>1. before' = pushed
    BY <1>5, <1>10
  <2>2. \A c \in Containers : ~(pushed < frame[c])
    BY <1>2 DEF Numbered
  <2>3. \A q \in Queues, i \in 1..queueLen : ~(pushed < frame[<<q, i>>])
    BY <2>2, ContainerFacts
  <2>4. Ordered'
    BY <1>1, <1>2, <2>1, <2>2, <2>3 DEF Ordered, NewFrame
  <2>5. FilledFromHead'
    BY <1>1, <1>2, <2>1, <2>3 DEF FilledFromHead, NewFrame
  <2> QED BY <2>4, <2>5
<1> QED BY <1>6, <1>7, <1>8, <1>9, <1>10

LEMMA FindFrameStep == FramesInv /\ FindFrame => FramesInv'
<1> SUFFICES ASSUME FramesInv, FindFrame PROVE FramesInv'
  OBVIOUS
<1>0. /\ queueLen \in Nat \ {0} /\ MaxFrames \in Nat
      /\ Queues' = Queues /\ Containers' = Containers
  BY FrameConstants
<1> USE <1>0 DEF FramesInv
<1>1. /\ UNCHANGED <<mFree, frame, medium, stale, readQueue, firstRead, ri, source, w, wi>>
      /\ UNCHANGED <<pushed, taken, before, writeQueue>>
      /\ ~firstRead
  BY DEF FindFrame, ReaderUnchanged, writeQueue, Other, dataVars, writerVars,
         ReaderPlace
<1>2. /\ r' \in {"read", "out", "swap"}
      /\ r' = "swap" => Filled(readQueue) = {}
  BY DEF FindFrame
<1>3. FrameTypeOK' /\ Numbered'
  BY <1>1, <1>2 DEF FrameTypeOK, Numbered
<1>4. WriterPlace'
  BY <1>1 DEF WriterPlace
<1>5. ReaderPlace'
  BY <1>1, <1>2 DEF ReaderPlace, Filled
<1>6. Ordered' /\ FilledFromHead'
  BY <1>1 DEF Ordered, FilledFromHead, NewFrame
<1> QED BY <1>3, <1>4, <1>5, <1>6

(* The queues are swapped when the application is not in the write queue   *)
(* and nothing is left in the read queue.                                  *)
LEMMA SwapQueueStep == FramesInv /\ SwapQueue => FramesInv'
<1> SUFFICES ASSUME FramesInv, SwapQueue PROVE FramesInv'
  OBVIOUS
<1>0. /\ queueLen \in Nat \ {0} /\ MaxFrames \in Nat
      /\ Queues' = Queues /\ Containers' = Containers
  BY FrameConstants
<1> USE <1>0 DEF FramesInv
<1>1. /\ UNCHANGED <<mFree, frame, medium, stale, firstRead, ri, source, w, wi>>
      /\ UNCHANGED <<pushed, taken, before>>
      /\ w = "out" /\ ~firstRead /\ r' = "again"
      /\ readQueue' = writeQueue /\ \A j \in 1..queueLen : mFree[<<readQueue, j>>]
  BY DEF SwapQueue, Locked, ReaderUnchanged, writeQueue, dataVars, writerVars,
         ReaderPlace
<1>2. /\ readQueue \in Queues /\ writeQueue \in Queues
      /\ writeQueue' = readQueue
  BY <1>1, FrameTypes, TwoQueues DEF writeQueue
<1>3. FrameTypeOK' /\ Numbered'
  BY <1>1, <1>2 DEF FrameTypeOK, Numbered
<1>4. WriterPlace' /\ ReaderPlace'
  BY <1>1 DEF WriterPlace, ReaderPlace
<1>5. FilledFromHead'
  BY <1>1, <1>2 DEF FilledFromHead, NewFrame
<1>6. Ordered'
  BY <1>1, <1>2 DEF Ordered, NewFrame
<1> QED BY <1>3, <1>4, <1>5, <1>6

LEMMA ReadFrameStep == FramesInv /\ ReadFrame => FramesInv'
<1> SUFFICES ASSUME FramesInv, NEW i \in 1..queueLen,
                    r = "read", FirstFilled(i),
                    taken' = IF <<readQueue, i>> \in stale THEN taken
                             ELSE frame[<<readQueue, i>>],
                    frame' = [frame EXCEPT ![<<readQueue, i>>] = 0],
                    medium' = [medium EXCEPT ![<<readQueue, i>>] = "none"],
                    mFree' = Emptied(i), r' = "out",
                    UNCHANGED <<stale, readQueue, firstRead, ri, before, writerVars, source>>
             PROVE  FramesInv'
  BY DEF ReadFrame, ReadContainer
<1>0. /\ queueLen \in Nat \ {0} /\ MaxFrames \in Nat
      /\ Queues' = Queues /\ Containers' = Containers
  BY FrameConstants
<1> USE <1>0 DEF FramesInv
<1> DEFINE slot == <<readQueue, i>>
<1>1. /\ UNCHANGED <<stale, source, w, wi, pushed, writeQueue>>
      /\ ~firstRead
      /\ mFree' = [mFree EXCEPT ![slot] = TRUE]
  BY DEF Emptied, writeQueue, Other, writerVars, ReaderPlace
<1>2. /\ pushed \in 0..MaxFrames /\ before \in 0..MaxFrames /\ taken \in 0..MaxFrames
      /\ \A c \in Containers : frame[c] \in 0..MaxFrames
      /\ readQueue \in Queues /\ writeQueue \in Queues /\ writeQueue # readQueue
  BY FrameTypes, TwoQueues
<1>3. slot \in Containers
  BY <1>2, ContainerFacts
<1>4. /\ mFree' \in [Containers -> BOOLEAN] /\ mFree'[slot]
      /\ \A c \in Containers : c # slot => mFree'[c] = mFree[c]
      /\ frame'[slot] = 0 /\ \A c \in Containers : c # slot => frame'[c] = frame[c]
  BY <1>1, <1>3 DEF FrameTypeOK
<1>5. /\ ~mFree[slot]
      /\ \A j \in 1..queueLen : ~mFree[<<readQueue, j>>] => i <= j
  BY DEF FirstFilled, Filled
<1>6. FrameTypeOK'
  <2>1. taken' \in 0..MaxFrames
    BY <1>2, <1>3
  <2>2. frame' \in [Containers -> 0..MaxFrames]
    <3>1. 0 \in 0..MaxFrames /\ frame \in [Containers -> 0..MaxFrames]
      BY DEF FrameTypeOK
    <3> QED BY <3>1
  <2>3. medium' \in [Containers -> Media \cup {"none"}]
    BY DEF FrameTypeOK
  <2> QED BY <1>1, <1>4, <2>1, <2>2, <2>3 DEF FrameTypeOK
<1>7. Numbered'
  <2>1. \A c \in Containers : frame'[c] <= frame[c]
    BY <1>2, <1>4
  <2>2. \A c \in Containers : frame'[c] \in 0..MaxFrames
    BY <1>2, <1>4
  <2>3. \A c \in Containers : /\ frame[c] <= pushed => frame'[c] <= pushed
                              /\ frame[c] < pushed => frame'[c] < pushed
    BY <1>2, <2>1, <2>2
  <2> QED BY <1>1, <1>3, <2>3 DEF Numbered
<1>8. \A j \in 1..queueLen : /\ mFree'[<<writeQueue, j>>] = mFree[<<writeQueue, j>>]
                             /\ frame'[<<writeQueue, j>>] = frame[<<writeQueue, j>>]
  BY <1>2, <1>4, ContainerFacts
<1>9. WriterPlace'
  <2>1. wi \in 1..queueLen
    BY FrameTypes
  <2> QED BY <1>1, <1>8, <2>1 DEF WriterPlace
<1>10. ReaderPlace'
  BY <1>1 DEF ReaderPlace
<1>11. FilledFromHead'
  BY <1>1, <1>8 DEF FilledFromHead, NewFrame
<1>12. Ordered'
  <2> DEFINE NewNext(c) == ~mFree'[c] /\ c \notin stale /\ before < frame'[c]
  <2>1. \A q \in Queues, j \in 1..queueLen :
          NewNext(<<q, j>>) => NewFrame(<<q, j>>) /\ frame'[<<q, j>>] = frame[<<q, j>>]
    BY <1>4, ContainerFacts DEF NewFrame
  <2>2. \A q \in Queues : \A j, k \in 1..queueLen :
          j < k /\ NewNext(<<q, j>>) /\ NewNext(<<q, k>>) => frame'[<<q, j>>] < frame'[<<q, k>>]
    BY <1>1, <2>1 DEF Ordered
  <2>3. \A j, k \in 1..queueLen :
          NewNext(<<readQueue, j>>) /\ NewNext(<<writeQueue, k>>)
             => frame'[<<readQueue, j>>] < frame'[<<writeQueue, k>>]
    BY <1>1, <1>2, <2>1 DEF Ordered
  <2>4. ASSUME NEW c \in Containers, NewNext(c) PROVE taken' < frame'[c]
    <3>1. c # slot /\ NewFrame(c) /\ frame'[c] = frame[c]
      BY <1>4, <2>4 DEF NewFrame
    <3>2. PICK q \in Queues, j \in 1..queueLen : c = <<q, j>>
      BY ContainerFacts
    <3> SUFFICES ASSUME slot \notin stale PROVE frame[slot] < frame[c]
      BY <1>1, <3>1 DEF Ordered
    <3>3. CASE ~(before < frame[slot])
      BY <1>2, <1>3, <3>1, <3>3 DEF NewFrame
    <3>4. CASE before < frame[slot] /\ q = readQueue
      <4>1. NewFrame(slot)
        BY <1>5, <3>4 DEF NewFrame
      <4>2. i < j
        BY <1>5, <3>1, <3>2, <3>4 DEF NewFrame
      <4> QED BY <1>1, <1>2, <3>1, <3>2, <3>4, <4>1, <4>2 DEF Ordered
    <3>5. CASE before < frame[slot] /\ q = writeQueue
      <4>1. NewFrame(slot) /\ NewFrame(<<writeQueue, j>>)
        BY <1>5, <3>1, <3>2, <3>5 DEF NewFrame
      <4> QED BY <1>1, <3>2, <3>5, <4>1 DEF Ordered
    <3> QED BY <1>2, <3>3, <3>4, <3>5, TwoQueues
  <2> QED BY <1>1, <2>2, <2>3, <2>4 DEF Ordered, NewFrame
<1> QED BY <1>1, <1>6, <1>7, <1>9, <1>10, <1>11, <1>12

-----------------------------------------------------------------------------
LEMMA FramesStutter == FramesInv /\ UNCHANGED frameVars => FramesInv'
<1> SUFFICES ASSUME FramesInv, UNCHANGED frameVars PROVE FramesInv'
  OBVIOUS
<1>0. /\ queueLen \in Nat \ {0} /\ MaxFrames \in Nat
      /\ Queues' = Queues /\ Containers' = Containers
  BY FrameConstants
<1> USE <1>0 DEF FramesInv
<1>1. UNCHANGED <<mFree, frame, medium, stale, readQueue, firstRead, w, wi, source, r, ri,
                  pushed, taken, before, writeQueue>>
  BY DEF frameVars, dataVars, writerVars, readerVars, writeQueue, Other
<1>2. FrameTypeOK' /\ Numbered' /\ WriterPlace' /\ ReaderPlace'
  BY <1>1 DEF FrameTypeOK, Numbered, WriterPlace, ReaderPlace
<1>3. ASSUME ~firstRead PROVE Ordered' /\ FilledFromHead'
  BY <1>1, <1>3 DEF Ordered, FilledFromHead, NewFrame
<1> QED BY <1>1, <1>2, <1>3

(* Where the two threads are, which containers are filled and with what    *)
(* numbers, at every step of both, with frames stored, thrown away and     *)
(* refused (FramesManager.cpp:30-205).                                     *)
THEOREM FramesInvariant == FrameSpec => []FramesInv
<1>1. FramesInv /\ [FrameNext]_frameVars => FramesInv'
  BY PushFrameStep, FindFreeStep, FillStep, ThrowAwayStep, PollStep, CleanCacheStep,
     FindFrameStep, SwapQueueStep, ReadFrameStep, FramesStutter
     DEF FrameNext, WriterStep, ReaderStep
<1> QED BY FramesInit, <1>1, PTL DEF FrameSpec

(* No index leaves its queue and no frame gets a number that was not       *)
(* pushed (FramesManager.cpp:52-205).                                      *)
THEOREM FramesTyped == FrameSpec => []FrameTypeOK
<1>1. FramesInv => FrameTypeOK
  BY DEF FramesInv
<1> QED BY FramesInvariant, <1>1, PTL

(* The frames that were stored after the first read are delivered in the   *)
(* order they were pushed and none twice, however the application and the  *)
(* event loop interleave and whatever is thrown away or refused.  A        *)
(* refused frame may bring back one that was thrown away before, which is  *)
(* left out (FramesManager.cpp:30-205).                                    *)
THEOREM FramesOrdered == FrameSpec => []FramesInOrder
<1>1. FramesInv => FramesInOrder
  BY OrderImplies DEF FramesInv
<1> QED BY FramesInvariant, <1>1, PTL
=============================================================================
