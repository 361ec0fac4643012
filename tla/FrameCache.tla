----------------------------- MODULE FrameCache -----------------------------
(***************************************************************************)
(* The cache between the application and the event loop of the pusher      *)
(* (FramesManager.cpp): two queues of containers.  The application fills   *)
(* the first free container of the write queue; the sources of the event   *)
(* loop, one for each medium, empty the read queue, and swap the queues    *)
(* when it has nothing left.                                               *)
(*                                                                         *)
(* The application pushes one frame at a time (pusher_pushFrame) and holds *)
(* the mutex of the cache meanwhile; the event loop takes it only to swap, *)
(* in one step.  A frame may be larger than its container: it is refused,  *)
(* but the container is marked filled with what was in it.                 *)
(* Bound: MaxFrames.                                                       *)
(***************************************************************************)
EXTENDS Naturals

CONSTANTS
    queueLen,
    MaxFrames,
    Media       \* the media that have a source

ASSUME FrameAssumption ==
    /\ queueLen \in Nat \ {0}
    /\ MaxFrames \in Nat

Queues == {"a", "b"}
Containers == Queues \X (1..queueLen)

VARIABLES
    mFree,      \* of each container; no constructor sets it
    frame,      \* the number of the frame in each container, 0 if none
    medium,     \* and its medium
    stale,      \* containers whose last frame was refused: what they hold was
                \* pushed before it, and read or thrown away
    readQueue, firstRead,
    w, wi,      \* where the application is in writeData, and its i
    source,     \* the medium whose source reads
    r, ri,      \* where the event loop is in findMediaType, and its i
    pushed,     \* how many pushes there were, the current one included
    taken,      \* the last frame that was delivered, but for stale ones
    before      \* how many frames were pushed when the first read was done

dataVars == <<frame, medium, stale>>
writerVars == <<w, wi, pushed>>
readerVars == <<source, r, ri>>
frameVars == <<mFree, dataVars, readQueue, firstRead, writerVars, readerVars,
               taken, before>>

FrameTypeOK ==
    /\ mFree \in [Containers -> BOOLEAN]
    /\ frame \in [Containers -> 0..MaxFrames]
    /\ medium \in [Containers -> Media \cup {"none"}]
    /\ stale \subseteq Containers
    /\ readQueue \in Queues
    /\ firstRead \in BOOLEAN
    /\ w \in {"out", "find", "fill", "clean"}
    /\ wi \in 1..queueLen
    /\ source \in Media
    /\ r \in {"out", "clean read", "clean write", "find", "swap", "again", "read"}
    /\ ri \in 1..queueLen
    /\ pushed \in 0..MaxFrames
    /\ taken \in 0..MaxFrames
    /\ before \in 0..MaxFrames

FrameInit ==
    /\ mFree \in [Containers -> BOOLEAN]
    /\ frame = [c \in Containers |-> 0]
    /\ medium = [c \in Containers |-> "none"]
    /\ stale = {}
    /\ readQueue = "a"
    /\ firstRead = TRUE
    /\ w = "out" /\ wi = 1
    /\ source \in Media /\ r = "out" /\ ri = 1
    /\ pushed = 0
    /\ taken = 0
    /\ before = 0

Other(q) == IF q = "a" THEN "b" ELSE "a"
writeQueue == Other(readQueue)

(* The end of a pass over a queue, or the next container of it.            *)
Advance(i, at, from, to) ==
    IF i < queueLen THEN i' = i + 1 /\ at' = from ELSE i' = 1 /\ at' = to

-----------------------------------------------------------------------------
(* CacheManager::writeData, with the mutex locked.                         *)

PushFrame ==
    /\ w = "out" /\ pushed < MaxFrames
    /\ pushed' = pushed + 1
    /\ w' = "find"
    /\ UNCHANGED <<mFree, dataVars, readQueue, firstRead, wi, readerVars, taken,
                   before>>

WriterUnchanged == UNCHANGED <<pushed, readQueue, firstRead, readerVars, taken, before>>

FindFree ==
    /\ w = "find"
    /\ IF mFree[<<writeQueue, wi>>] THEN w' = "fill" /\ UNCHANGED wi
       ELSE Advance(wi, w, "find", "clean")
    /\ UNCHANGED <<mFree, dataVars>>
    /\ WriterUnchanged

(* FrameContainer::writeData: the frame is stored, or it is too large.     *)
WriteContainer(c) ==
    \/ /\ frame' = [frame EXCEPT ![c] = pushed]
       /\ \E m \in Media : medium' = [medium EXCEPT ![c] = m]
       /\ stale' = stale \ {c}
    \/ stale' = stale \cup {c} /\ UNCHANGED <<frame, medium>>

(* The container is marked filled in either case.                          *)
Fill ==
    /\ w = "fill"
    /\ \E c \in {<<writeQueue, wi>>} :
          /\ WriteContainer(c)
          /\ mFree' = [mFree EXCEPT ![c] = FALSE]
    /\ w' = "out" /\ wi' = 1
    /\ WriterUnchanged

(* No container is free: all are freed, and the frame is thrown away too.  *)
ThrowAway ==
    /\ w = "clean"
    /\ mFree' = [mFree EXCEPT ![<<writeQueue, wi>>] = TRUE]
    /\ Advance(wi, w, "clean", "out")
    /\ UNCHANGED dataVars
    /\ WriterUnchanged

-----------------------------------------------------------------------------
(* PusherThread::readData, by the event loop.                              *)

(* A source wants a frame, whether or not it found one the last time.      *)
Poll(m) ==
    /\ r = "out"
    /\ source' = m
    /\ r' = IF firstRead THEN "clean read" ELSE "find"
    /\ UNCHANGED <<mFree, dataVars, readQueue, firstRead, writerVars, ri, taken,
                   before>>

ReaderUnchanged == UNCHANGED <<dataVars, writerVars, source>>

(* cleanCache, which does not take the mutex.                              *)
CleanCache ==
    /\ \/ /\ r = "clean read"
          /\ mFree' = [mFree EXCEPT ![<<readQueue, ri>>] = TRUE]
          /\ Advance(ri, r, "clean read", "clean write")
          /\ UNCHANGED <<firstRead, before>>
       \/ /\ r = "clean write"
          /\ mFree' = [mFree EXCEPT ![<<writeQueue, ri>>] = TRUE]
          /\ Advance(ri, r, "clean write", "find")
          /\ firstRead' = (ri < queueLen)
          /\ before' = IF ri < queueLen THEN before ELSE pushed
    /\ UNCHANGED <<readQueue, taken>>
    /\ ReaderUnchanged

(* Fault: only the first container is looked at.                           *)
Filled_First(q) == {i \in {1} : ~mFree[<<q, i>>]}

Filled(q) == {i \in 1..queueLen : ~mFree[<<q, i>>]}

FirstFilled(i) == i \in Filled(readQueue) /\ \A j \in Filled(readQueue) : i <= j

(* findMediaType: a frame for this source is read, one for the other is    *)
(* left to it, and with none the queues are swapped, once.  A container    *)
(* that is filled and empty (type 0) is left to nobody.                    *)
FindFrame ==
    /\ r \in {"find", "again"}
    /\ \/ \E i \in 1..queueLen :
            /\ FirstFilled(i)
            /\ r' = IF medium[<<readQueue, i>>] = source THEN "read" ELSE "out"
       \/ /\ Filled(readQueue) = {}
          /\ r' = IF r = "find" THEN "swap" ELSE "out"
    /\ UNCHANGED <<mFree, readQueue, firstRead, ri, taken, before>>
    /\ ReaderUnchanged

(* Fault: the queues are swapped without the mutex.                        *)
Locked_Never == FALSE

Locked == w # "out"

SwapQueue ==
    /\ r = "swap" /\ ~Locked
    /\ readQueue' = Other(readQueue)
    /\ r' = "again"
    /\ UNCHANGED <<mFree, firstRead, ri, taken, before>>
    /\ ReaderUnchanged

Emptied(i) == [mFree EXCEPT ![<<readQueue, i>>] = TRUE]

(* FrameContainer::readData.                                               *)
ReadContainer(c) ==
    /\ taken' = IF c \in stale THEN taken ELSE frame[c]
    /\ frame' = [frame EXCEPT ![c] = 0]
    /\ medium' = [medium EXCEPT ![c] = "none"]
    /\ UNCHANGED stale

(* CacheManager::readData, and the source copies the frame at once.        *)
ReadFrame ==
    \E i \in 1..queueLen :
        /\ r = "read" /\ FirstFilled(i)
        /\ ReadContainer(<<readQueue, i>>)
        /\ mFree' = Emptied(i)
        /\ r' = "out"
        /\ UNCHANGED <<readQueue, firstRead, ri, before, writerVars, source>>

-----------------------------------------------------------------------------
WriterStep == FindFree \/ Fill \/ ThrowAway
ReaderStep == CleanCache \/ FindFrame \/ SwapQueue \/ ReadFrame

FrameNext ==
    \/ PushFrame \/ WriterStep
    \/ \E m \in Media : Poll(m)
    \/ ReaderStep

FrameSpec == FrameInit /\ [][FrameNext]_frameVars

(* Both threads run, and each source asks again, now or ten milliseconds   *)
(* after it found nothing (PusherByteStreamSource.cpp:47-50).              *)
FairFrameSpec ==
    /\ FrameSpec
    /\ WF_frameVars(WriterStep)
    /\ WF_frameVars(CleanCache \/ FindFrame \/ ReadFrame) /\ WF_frameVars(SwapQueue)
    /\ \A m \in Media : SF_frameVars(Poll(m))

-----------------------------------------------------------------------------
Cached == {c \in Containers : ~mFree[c]}

(* c is read before d.                                                     *)
Before(c, d) ==
    \/ c[1] = readQueue /\ d[1] = writeQueue
    \/ c[1] = d[1] /\ c[2] < d[2]

(* The cached frames are read in the order they were pushed, after all     *)
(* those delivered before: none is delivered twice or after a later one,   *)
(* and what is thrown away or refused does not reorder the rest, whoever   *)
(* swaps, frees and fills in between (FramesManager.cpp:90-103, 145-205).  *)
(* This is so for the frames pushed after the first read, which frees      *)
(* containers without the mutex while the application may fill them, and   *)
(* not for what a refused frame brings back.                               *)
FramesInOrder ==
    ~firstRead =>
        /\ \A c, d \in Cached \ stale :
              Before(c, d) /\ before < frame[c] /\ before < frame[d] => frame[c] < frame[d]
        /\ \A c \in Cached \ stale : before < frame[c] => taken < frame[c]

(* Next to be read is a container without a frame: it has type 0, which is *)
(* that of no source.                                                      *)
Blocked == \E i \in 1..queueLen : FirstFilled(i) /\ medium[<<readQueue, i>>] = "none"

(* No container keeps its frame for ever, as long as the sources of both   *)
(* media go on reading: none passes by a frame of the other for good       *)
(* (PusherThread.cpp:178-181), and nothing stops them but a container that *)
(* a refused frame left without any.                                       *)
FramesLeave == \A c \in Containers : []<>(mFree[c] \/ Blocked)

=============================================================================
