----------------------------- MODULE OSMutexRW ------------------------------
(***************************************************************************)
(* The reader/writer mutex of the task framework (OSMutexRW.cpp).  Every   *)
(* call runs under fInternalLock, which it gives up only to wait on a      *)
(* condition variable, so it is one action up to the wait and one for each *)
(* later pass of its loop.                                                 *)
(*                                                                         *)
(* fReadWaiters and fActiveReaders, which no branch reads, are left out.   *)
(***************************************************************************)
EXTENDS Integers, FiniteSets

CONSTANT Threads    \* threads that use the mutex

VARIABLES
    fState,         \* -1: writer, 0: free, > 0: readers
    fWriteWaiters,  \* number of waiting writers
    holds           \* what each thread holds or waits for

lockVars == <<fState, fWriteWaiters, holds>>

LockTypeOK ==
    /\ fState \in -1 .. Cardinality(Threads)
    /\ fWriteWaiters \in 0 .. Cardinality(Threads)
    /\ holds \in [Threads -> {"nothing", "read", "write",
                              "readersCond", "readerWoken",
                              "writersCond", "writerWoken"}]

LockInit ==
    /\ fState = 0
    /\ fWriteWaiters = 0
    /\ holds = [t \in Threads |-> "nothing"]

ActiveReaders == fState > 0
ActiveWriter == fState < 0
WaitingWriters == fWriteWaiters > 0

Holders(kind) == {t \in Threads : holds[t] = kind}

(* Faults: a reader looks for waiting writers only; a writer looks for an  *)
(* active writer only.                                                     *)
ReaderMustWait_WaitingOnly == WaitingWriters
WriterMustWait_WriterOnly == ActiveWriter

(* Whether a reader waits, and whether a writer does.                      *)
ReaderMustWait == ActiveWriter \/ WaitingWriters
WriterMustWait == ActiveReaders

(* A pass of the loop of LockRead.                                         *)
TryRead(t) ==
    /\ IF ReaderMustWait
       THEN /\ holds' = [holds EXCEPT ![t] = "readersCond"]
            /\ UNCHANGED fState
       ELSE /\ holds' = [holds EXCEPT ![t] = "read"]
            /\ fState' = fState + 1
    /\ UNCHANGED fWriteWaiters

(* A pass of the loop of LockWrite by a thread that counts, or does not    *)
(* count yet, among n waiting writers.                                     *)
TryWrite(t, n) ==
    IF WriterMustWait
    THEN /\ holds' = [holds EXCEPT ![t] = "writersCond"]
         /\ fWriteWaiters' = n
         /\ UNCHANGED fState
    ELSE /\ holds' = [holds EXCEPT ![t] = "write"]
         /\ fWriteWaiters' = n - 1
         /\ fState' = -1

LockRead(t) == holds[t] = "nothing" /\ TryRead(t)
LockWrite(t) == holds[t] = "nothing" /\ TryWrite(t, fWriteWaiters + 1)

LockAgain(t) ==
    \/ holds[t] = "readerWoken" /\ TryRead(t)
    \/ holds[t] = "writerWoken" /\ TryWrite(t, fWriteWaiters)

(* Wait(eMaxWait) may return without a signal.                             *)
WaitEnds(t) ==
    /\ holds[t] \in {"readersCond", "writersCond"}
    /\ holds' = [holds EXCEPT ![t] = IF @ = "readersCond" THEN "readerWoken"
                                                         ELSE "writerWoken"]
    /\ UNCHANGED <<fState, fWriteWaiters>>

(* t has let go and signals one writer that waits, if any.                 *)
SignalWriter(t) ==
    IF Holders("writersCond") = {}
    THEN holds' = [holds EXCEPT ![t] = "nothing"]
    ELSE \E w \in Holders("writersCond") :
            holds' = [holds EXCEPT ![t] = "nothing", ![w] = "writerWoken"]

(* Fault: only writers are ever signalled.                                 *)
BroadcastReaders_None(t) == holds' = [holds EXCEPT ![t] = "nothing"]

BroadcastReaders(t) ==
    holds' = [u \in Threads |->
                IF u = t THEN "nothing"
                ELSE IF holds[u] = "readersCond" THEN "readerWoken"
                ELSE holds[u]]

Unlock(t) ==
    /\ holds[t] \in {"read", "write"}
    /\ UNCHANGED fWriteWaiters
    /\ \/ /\ ActiveWriter
          /\ fState' = 0
          /\ IF WaitingWriters THEN SignalWriter(t) ELSE BroadcastReaders(t)
       \/ /\ fState > 1
          /\ fState' = fState - 1
          /\ holds' = [holds EXCEPT ![t] = "nothing"]
       \/ /\ fState \in {0, 1}
          /\ fState' = 0
          /\ SignalWriter(t)

-----------------------------------------------------------------------------
(* fState and fWriteWaiters say what the threads hold and wait for.        *)
LockStateExact ==
    /\ fState = IF Holders("write") # {} THEN -1 ELSE Cardinality(Holders("read"))
    /\ fWriteWaiters = Cardinality(Holders("writersCond") \cup Holders("writerWoken"))

(* "only one": there is never more than one active writer.                 *)
OneWriter == Cardinality(Holders("write")) <= 1

=============================================================================
