--------------------------- MODULE TaskPoolProofs ----------------------------
(***************************************************************************)
(* Theorems about TaskPool, for any tasks, threads and senders: every task *)
(* that is alive is in one place, on a thread that it may use; with one    *)
(* task that locks, the mutex does what it says; and the pool keeps the    *)
(* promises of TaskService.                                                *)
(***************************************************************************)
EXTENDS TaskPool, FiniteSetTheorems, TLAPS

Waiting == Holders("writersCond") \cup Holders("writerWoken")

(* The counters of the mutex, however many lock it: readers are counted at *)
(* most once, and waiting writers exactly.                                 *)
LockCounts ==
    /\ holds \in [Threads -> {"nothing", "read", "write", "readersCond", "readerWoken",
                              "writersCond", "writerWoken"}]
    /\ fState \in Int /\ -1 <= fState /\ fState <= Cardinality(Holders("read"))
    /\ fWriteWaiters = Cardinality(Waiting)

-----------------------------------------------------------------------------
LEMMA ConstantFacts ==
    /\ IsFiniteSet(Threads) /\ Threads \cap Senders = {}
    /\ LockingTasks \subseteq Tasks
    /\ "alive" \notin Events /\ "idle" \notin Events
    /\ Delays \subseteq Nat
    /\ NULL \notin Tasks /\ NULL \notin Threads
BY TaskAssumption DEF TaskAssumption

(* Sets of threads are finite, and grow and shrink by one.                 *)
LEMMA Count ==
    ASSUME NEW S \in SUBSET Threads
    PROVE  /\ IsFiniteSet(S) /\ Cardinality(S) \in Nat
           /\ Cardinality(S) <= Cardinality(Threads) /\ Cardinality(Threads) \in Nat
           /\ Cardinality(S) = 0 <=> S = {}
           /\ \A t : Cardinality(S \cup {t}) = IF t \in S THEN Cardinality(S)
                                                          ELSE Cardinality(S) + 1
           /\ \A t : Cardinality(S \ {t}) = IF t \in S THEN Cardinality(S) - 1
                                                       ELSE Cardinality(S)
<1>1. IsFiniteSet(S) /\ Cardinality(S) <= Cardinality(Threads)
  BY ConstantFacts, FS_Subset
<1>2. Cardinality(S) \in Nat /\ Cardinality(Threads) \in Nat
  BY <1>1, ConstantFacts, FS_CardinalityType
<1>3. Cardinality(S) = 0 <=> S = {}
  BY <1>1, FS_EmptySet
<1>4. \A t : Cardinality(S \cup {t}) = IF t \in S THEN Cardinality(S) ELSE Cardinality(S) + 1
  BY <1>1, FS_AddElement
<1>5. \A t : Cardinality(S \ {t}) = IF t \in S THEN Cardinality(S) - 1 ELSE Cardinality(S)
  BY <1>1, FS_RemoveElement
<1> QED BY <1>1, <1>2, <1>3, <1>4, <1>5

LEMMA LockType == LockCounts => LockTypeOK
<1> SUFFICES ASSUME LockCounts PROVE LockTypeOK
  OBVIOUS
<1>1. Holders("read") \in SUBSET Threads /\ Waiting \in SUBSET Threads
  BY DEF Holders, Waiting
<1>2. /\ Cardinality(Holders("read")) \in Nat /\ Cardinality(Waiting) \in Nat
      /\ Cardinality(Threads) \in Nat
      /\ Cardinality(Holders("read")) <= Cardinality(Threads)
      /\ Cardinality(Waiting) <= Cardinality(Threads)
  BY <1>1, Count
<1> QED BY <1>2 DEF LockCounts, LockTypeOK

-----------------------------------------------------------------------------
(* What the steps of the mutex do to those who hold it.                    *)

LEMMA TryReadLemma ==
    ASSUME LockCounts, NEW th \in Threads,
           holds[th] \in {"nothing", "readerWoken"}, TryRead(th)
    PROVE  LockCounts'
<1>1. \E h \in {"readersCond", "read"} : holds' = [holds EXCEPT ![th] = h]
  BY DEF TryRead
<1>2. PICK h \in {"readersCond", "read"} : holds' = [holds EXCEPT ![th] = h]
  BY <1>1
<1>3. \A u \in Threads : holds'[u] = IF u = th THEN h ELSE holds[u]
  BY <1>2 DEF LockCounts
<1>4. Waiting' = Waiting /\ fWriteWaiters' = fWriteWaiters
  BY <1>3 DEF Waiting, Holders, TryRead
<1>5. CASE h = "read"
  <2>1. Holders("read")' = Holders("read") \cup {th} /\ th \notin Holders("read")
    BY <1>3, <1>5 DEF Holders
  <2>2. Cardinality(Holders("read")') = Cardinality(Holders("read")) + 1
    BY <2>1, Count DEF Holders
  <2>3. fState' = fState \/ fState' = fState + 1
    BY DEF TryRead
  <2>4. fState \in Int /\ -1 <= fState /\ fState <= Cardinality(Holders("read"))
    BY DEF LockCounts
  <2>5. Cardinality(Holders("read")) \in Nat
    BY Count DEF Holders
  <2>6. fState' \in Int /\ -1 <= fState' /\ fState' <= Cardinality(Holders("read")')
    BY <2>2, <2>3, <2>4, <2>5
  <2> QED BY <1>2, <1>4, <2>6 DEF LockCounts
<1>6. CASE h = "readersCond"
  <2>1. Holders("read")' = Holders("read")
    BY <1>3, <1>6 DEF Holders
  <2>2. fState' = fState
    <3>1. holds'[th] # "read"
      BY <1>3, <1>6
    <3> QED BY <3>1 DEF TryRead, LockCounts
  <2> QED BY <1>2, <1>4, <2>1, <2>2 DEF LockCounts
<1> QED BY <1>5, <1>6

LEMMA TryWriteLemma ==
    ASSUME LockCounts, NEW th \in Threads, NEW n \in Nat, n > 0, TryWrite(th, n),
           \/ holds[th] = "nothing" /\ n = fWriteWaiters + 1
           \/ holds[th] = "writerWoken" /\ n = fWriteWaiters
    PROVE  LockCounts'
<1>1. \A h \in {"writersCond", "write"} :
         holds' = [holds EXCEPT ![th] = h] =>
            \A u \in Threads : holds'[u] = IF u = th THEN h ELSE holds[u]
  BY DEF LockCounts
<1>2. Cardinality(Waiting) \in Nat /\ Cardinality(Holders("read")) \in Nat
  BY Count DEF Waiting, Holders
<1>3. /\ Waiting \in SUBSET Threads /\ fWriteWaiters = Cardinality(Waiting)
      /\ th \in Waiting <=> holds[th] = "writerWoken" \/ holds[th] = "writersCond"
  BY DEF Waiting, Holders, LockCounts
<1>4. /\ Cardinality(Waiting \cup {th}) = IF th \in Waiting THEN Cardinality(Waiting)
                                                          ELSE Cardinality(Waiting) + 1
      /\ Cardinality(Waiting \ {th}) = IF th \in Waiting THEN Cardinality(Waiting) - 1
                                                        ELSE Cardinality(Waiting)
  BY <1>3, Count
<1>5. Cardinality(Waiting \cup {th}) = n /\ Cardinality(Waiting \ {th}) = n - 1
  <2>1. CASE holds[th] = "nothing" /\ n = fWriteWaiters + 1
    BY <1>2, <1>3, <1>4, <2>1
  <2>2. CASE holds[th] = "writerWoken" /\ n = fWriteWaiters
    BY <1>2, <1>3, <1>4, <2>2
  <2> QED BY <2>1, <2>2
<1>6. CASE WriterMustWait
  <2>1. /\ holds' = [holds EXCEPT ![th] = "writersCond"] /\ fWriteWaiters' = n /\ fState' = fState
        /\ \A u \in Threads : holds'[u] = IF u = th THEN "writersCond" ELSE holds[u]
    BY <1>1, <1>6 DEF TryWrite
  <2>2. Waiting' = Waiting \cup {th} /\ Holders("read")' = Holders("read")
    BY <2>1 DEF Waiting, Holders
  <2>4. Cardinality(Waiting') = n
    BY <1>5, <2>2
  <2> QED BY <2>1, <2>2, <2>4 DEF LockCounts
<1>7. CASE ~WriterMustWait
  <2>1. /\ holds' = [holds EXCEPT ![th] = "write"] /\ fWriteWaiters' = n - 1 /\ fState' = -1
        /\ \A u \in Threads : holds'[u] = IF u = th THEN "write" ELSE holds[u]
    BY <1>1, <1>7 DEF TryWrite
  <2>2. Waiting' = Waiting \ {th} /\ Holders("read")' = Holders("read")
    BY <2>1 DEF Waiting, Holders
  <2>4. Cardinality(Waiting') = n - 1
    BY <1>5, <2>2
  <2>5. fState' \in Int /\ -1 <= fState' /\ fState' <= Cardinality(Holders("read")')
    BY <1>2, <2>1, <2>2
  <2> QED BY <2>1, <2>4, <2>5 DEF LockCounts
<1> QED BY <1>6, <1>7

LEMMA WaitEndsLemma ==
    ASSUME LockCounts, NEW th \in Threads, WaitEnds(th)
    PROVE  LockCounts'
<1>1. Waiting' = Waiting /\ Holders("read")' = Holders("read")
  BY DEF LockCounts, WaitEnds, Waiting, Holders
<1> QED BY <1>1 DEF LockCounts, WaitEnds

LEMMA UnlockLemma ==
    ASSUME LockCounts, NEW th \in Threads, Unlock(th)
    PROVE  /\ LockCounts'
           /\ holds'[th] = "nothing"
           /\ \A u \in Threads \ {th} :
                \/ holds'[u] = holds[u]
                \/ holds[u] = "writersCond" /\ holds'[u] = "writerWoken"
                \/ holds[u] = "readersCond" /\ holds'[u] = "readerWoken"
<1>1. /\ holds[th] \in {"read", "write"} /\ fWriteWaiters' = fWriteWaiters
      /\ fState' \in Int /\ -1 <= fState' /\ (fState' <= fState \/ fState' = 0)
      /\ fState > 1 => fState' = fState - 1
      /\ ~(fState > 1) => fState' = 0
  BY DEF Unlock, LockCounts, ActiveWriter
<1>2. /\ holds' \in [Threads -> {"nothing", "read", "write", "readersCond", "readerWoken",
                                "writersCond", "writerWoken"}]
      /\ holds'[th] = "nothing"
      /\ \A u \in Threads \ {th} :
                \/ holds'[u] = holds[u]
                \/ holds[u] = "writersCond" /\ holds'[u] = "writerWoken"
                \/ holds[u] = "readersCond" /\ holds'[u] = "readerWoken"
  <2>1. CASE SignalWriter(th)
    BY <1>1, <2>1 DEF SignalWriter, Holders, LockCounts
  <2>2. CASE BroadcastReaders(th)
    BY <1>1, <2>2 DEF BroadcastReaders, LockCounts
  <2>3. CASE holds' = [holds EXCEPT ![th] = "nothing"]
    BY <2>3 DEF LockCounts
  <2> QED BY <2>1, <2>2, <2>3 DEF Unlock
<1>3. Waiting' = Waiting
  BY <1>1, <1>2 DEF Waiting, Holders
<1>4. Holders("read")' = Holders("read") \ {th}
  BY <1>1, <1>2 DEF Holders
<1>5. /\ Cardinality(Holders("read")) \in Nat
      /\ Cardinality(Holders("read")') \in Nat
      /\ Cardinality(Holders("read")) <= Cardinality(Holders("read")') + 1
  BY <1>4, Count DEF Holders
<1>6. fState' <= Cardinality(Holders("read")')
  <2>1. fState \in Int /\ fState <= Cardinality(Holders("read"))
    BY DEF LockCounts
  <2> QED BY <1>1, <1>5, <2>1
<1>7. LockCounts'
  BY <1>1, <1>2, <1>3, <1>6 DEF LockCounts
<1> QED BY <1>2, <1>7
-----------------------------------------------------------------------------
(* The queues and heaps: what comes in and what goes out.                  *)

Distinct(q) == \A i, j \in DOMAIN q : q[i] = q[j] => i = j

LEMMA RangeFacts ==
    ASSUME NEW S, NEW q \in Seq(S)
    PROVE  /\ DOMAIN q = 1..Len(q) /\ Len(q) \in Nat
           /\ \A x : x \in SeqRange(q) <=> \E i \in 1..Len(q) : q[i] = x
           /\ SeqRange(q) \subseteq S
           /\ Distinct(q) <=> \A i, j \in 1..Len(q) : q[i] = q[j] => i = j
BY DEF SeqRange, Distinct

(* u is q with e in between the first n elements and the rest.             *)
LEMMA InsertFacts ==
    ASSUME NEW S, NEW q \in Seq(S), NEW e \in S, NEW n \in 0..Len(q),
           NEW u \in Seq(S), Len(u) = Len(q) + 1,
           \A i \in 1..Len(u) : u[i] = IF i <= n THEN q[i]
                                       ELSE IF i = n + 1 THEN e ELSE q[i - 1]
    PROVE  /\ \A x : x \in SeqRange(u) <=> x \in SeqRange(q) \/ x = e
           /\ Distinct(q) /\ e \notin SeqRange(q) => Distinct(u)
<1>1. Len(q) \in Nat /\ Len(u) \in Nat /\ n \in Nat /\ n <= Len(q)
  BY RangeFacts
<1>2. ASSUME NEW x, x \in SeqRange(u) PROVE x \in SeqRange(q) \/ x = e
  <2>1. PICK i \in 1..Len(u) : u[i] = x
    BY <1>2, RangeFacts
  <2>2. CASE i <= n
    <3>1. i \in 1..Len(q) /\ q[i] = x
      BY <1>1, <2>1, <2>2
    <3> QED BY <3>1, RangeFacts
  <2>3. CASE i = n + 1
    BY <1>1, <2>1, <2>3
  <2>4. CASE n + 1 < i
    <3>1. i - 1 \in 1..Len(q) /\ q[i - 1] = x
      BY <1>1, <2>1, <2>4
    <3> QED BY <3>1, RangeFacts
  <2> QED BY <1>1, <2>2, <2>3, <2>4
<1>3. ASSUME NEW x, x \in SeqRange(q) \/ x = e PROVE x \in SeqRange(u)
  <2>1. CASE x = e
    <3>1. n + 1 \in 1..Len(u) /\ u[n + 1] = x
      BY <1>1, <2>1
    <3> QED BY <3>1, RangeFacts
  <2>2. CASE x \in SeqRange(q)
    <3>1. PICK i \in 1..Len(q) : q[i] = x
      BY <2>2, RangeFacts
    <3>2. CASE i <= n
      <4>1. i \in 1..Len(u) /\ u[i] = x
        BY <1>1, <3>1, <3>2
      <4> QED BY <4>1, RangeFacts
    <3>3. CASE n < i
      <4>1. i + 1 \in 1..Len(u) /\ (i + 1) - 1 = i /\ ~(i + 1 <= n) /\ i + 1 # n + 1
        BY <1>1, <3>1, <3>3
      <4>2. u[i + 1] = x
        BY <3>1, <4>1
      <4> QED BY <4>1, <4>2, RangeFacts
    <3> QED BY <1>1, <3>2, <3>3
  <2> QED BY <1>3, <2>1, <2>2
<1>4. ASSUME Distinct(q), e \notin SeqRange(q) PROVE Distinct(u)
  <2>1. \A i, j \in 1..Len(q) : q[i] = q[j] => i = j
    BY <1>4, RangeFacts
  <2>2. \A i \in 1..Len(q) : q[i] # e
    BY <1>4, RangeFacts
  <2>3. ASSUME NEW i \in 1..Len(u), i # n + 1
        PROVE  \E k \in 1..Len(q) : /\ u[i] = q[k]
                                    /\ (i <= n /\ k = i) \/ (n + 1 < i /\ k = i - 1)
    <3>1. CASE i <= n
      <4>1. i \in 1..Len(q) /\ u[i] = q[i]
        BY <1>1, <3>1
      <4> QED BY <3>1, <4>1
    <3>2. CASE n + 1 < i
      <4>1. i - 1 \in 1..Len(q) /\ u[i] = q[i - 1]
        BY <1>1, <3>2
      <4> QED BY <3>2, <4>1
    <3> QED BY <1>1, <2>3, <3>1, <3>2
  <2>4. n + 1 \in 1..Len(u) /\ u[n + 1] = e
    BY <1>1
  <2>5. ASSUME NEW i \in 1..Len(u), NEW j \in 1..Len(u), u[i] = u[j] PROVE i = j
    <3>1. CASE i = n + 1 /\ j = n + 1
      BY <3>1
    <3>2. CASE i = n + 1 /\ j # n + 1
      BY <2>2, <2>3, <2>4, <2>5, <3>2
    <3>3. CASE i # n + 1 /\ j = n + 1
      BY <2>2, <2>3, <2>4, <2>5, <3>3
    <3>4. CASE i # n + 1 /\ j # n + 1
      <4>1. PICK k \in 1..Len(q) : /\ u[i] = q[k]
                                   /\ (i <= n /\ k = i) \/ (n + 1 < i /\ k = i - 1)
        BY <2>3, <3>4
      <4>2. PICK m \in 1..Len(q) : /\ u[j] = q[m]
                                   /\ (j <= n /\ m = j) \/ (n + 1 < j /\ m = j - 1)
        BY <2>3, <3>4
      <4>3. k = m
        BY <2>1, <2>5, <4>1, <4>2
      <4>4. i \in Nat /\ j \in Nat /\ n \in Nat
        BY <1>1
      <4>5. \/ i <= n /\ k = i
            \/ n + 1 < i /\ k = i - 1
        BY <4>1
      <4>6. \/ j <= n /\ k = j
            \/ n + 1 < j /\ k = j - 1
        BY <4>2, <4>3
      <4> QED BY <4>4, <4>5, <4>6
    <3> QED BY <3>1, <3>2, <3>3, <3>4
  <2> QED BY <2>5, RangeFacts
<1> QED BY <1>2, <1>3, <1>4

LEMMA EnQueuedLemma ==
    ASSUME NEW S, NEW q \in Seq(S), NEW e \in S, e \notin SeqRange(q)
    PROVE  /\ EnQueued(q, e) \in Seq(S)
           /\ \A x : x \in SeqRange(EnQueued(q, e)) <=> x \in SeqRange(q) \/ x = e
           /\ Distinct(q) => Distinct(EnQueued(q, e))
<1> DEFINE u == Append(q, e)
           n == Len(q)
<1>1. EnQueued(q, e) = u
  BY DEF EnQueued
<1>2. n \in 0..Len(q) /\ u \in Seq(S) /\ Len(u) = Len(q) + 1
  OBVIOUS
<1>3. ASSUME NEW i \in 1..Len(u)
      PROVE  u[i] = IF i <= n THEN q[i] ELSE IF i = n + 1 THEN e ELSE q[i - 1]
  OBVIOUS
<1> HIDE DEF u, n
<1>4. /\ \A x : x \in SeqRange(u) <=> x \in SeqRange(q) \/ x = e
      /\ Distinct(q) /\ e \notin SeqRange(q) => Distinct(u)
  BY <1>2, <1>3, InsertFacts
<1> QED BY <1>1, <1>2, <1>4

LEMMA InsertedLemma ==
    ASSUME NEW S, NEW q \in Seq(S), NEW e \in S, NEW n \in 0..Len(q), e \notin SeqRange(q)
    PROVE  LET u == SubSeq(q, 1, n) \o <<e>> \o SubSeq(q, n + 1, Len(q)) IN
           /\ u \in Seq(S)
           /\ \A x : x \in SeqRange(u) <=> x \in SeqRange(q) \/ x = e
           /\ Distinct(q) => Distinct(u)
<1> DEFINE a == SubSeq(q, 1, n)
           b == SubSeq(q, n + 1, Len(q))
           u == a \o <<e>> \o b
<1>1. Len(q) \in Nat /\ n \in Nat /\ n <= Len(q)
  BY RangeFacts
<1>2. a \in Seq(S) /\ Len(a) = n /\ \A i \in 1..n : a[i] = q[i]
  BY <1>1
<1>3. b \in Seq(S) /\ Len(b) = Len(q) - n /\ \A i \in 1..(Len(q) - n) : b[i] = q[n + i]
  BY <1>1
<1> HIDE DEF a, b
<1>4. u \in Seq(S) /\ Len(u) = Len(q) + 1
  <2>1. a \o <<e>> \in Seq(S) /\ Len(a \o <<e>>) = n + 1
    BY <1>2
  <2>2. u \in Seq(S) /\ Len(u) = (n + 1) + Len(b)
    BY <1>3, <2>1
  <2> QED BY <1>1, <1>3, <2>2
<1>5. ASSUME NEW i \in 1..Len(u)
      PROVE  u[i] = IF i <= n THEN q[i] ELSE IF i = n + 1 THEN e ELSE q[i - 1]
  <2>1. CASE i <= n
    BY <1>1, <1>2, <1>3, <1>4, <2>1
  <2>2. CASE i = n + 1
    BY <1>1, <1>2, <1>3, <1>4, <2>2
  <2>3. CASE n + 1 < i
    <3>1. i - (n + 1) \in 1..(Len(q) - n) /\ n + (i - (n + 1)) = i - 1
      BY <1>1, <1>4, <2>3
    <3>2. u[i] = b[i - (n + 1)]
      BY <1>1, <1>2, <1>3, <1>4, <2>3
    <3>3. ~(i <= n) /\ i # n + 1
      BY <1>1, <2>3
    <3>4. b[i - (n + 1)] = q[n + (i - (n + 1))]
      BY <1>3, <3>1
    <3> QED BY <3>1, <3>2, <3>3, <3>4
  <2> QED BY <1>1, <2>1, <2>2, <2>3
<1> HIDE DEF u
<1>6. /\ \A x : x \in SeqRange(u) <=> x \in SeqRange(q) \/ x = e
      /\ Distinct(q) /\ e \notin SeqRange(q) => Distinct(u)
  BY <1>4, <1>5, InsertFacts
<1> QED BY <1>4, <1>6 DEF u, a, b

LEMMA TailLemma ==
    ASSUME NEW S, NEW q \in Seq(S), q # <<>>
    PROVE  /\ Head(q) \in SeqRange(q) /\ Head(q) \in S /\ Tail(q) \in Seq(S)
           /\ Distinct(q) =>
                /\ Distinct(Tail(q))
                /\ \A x : x \in SeqRange(Tail(q)) <=> x \in SeqRange(q) /\ x # Head(q)
<1> DEFINE u == Tail(q)
<1>1. /\ Len(q) \in Nat /\ Len(q) > 0 /\ Head(q) = q[1]
      /\ u \in Seq(S) /\ Len(u) = Len(q) - 1 /\ \A i \in 1..Len(u) : u[i] = q[i + 1]
  OBVIOUS
<1> HIDE DEF u
<1>2. 1 \in 1..Len(q)
  BY <1>1
<1>3. Head(q) \in SeqRange(q)
  BY <1>1, <1>2, RangeFacts
<1>4. ASSUME Distinct(q)
      PROVE  /\ Distinct(u)
             /\ \A x : x \in SeqRange(u) <=> x \in SeqRange(q) /\ x # Head(q)
  <2>1. \A i, j \in 1..Len(q) : q[i] = q[j] => i = j
    BY <1>4, RangeFacts
  <2>2. \A i \in 1..Len(u) : i + 1 \in 1..Len(q) /\ i + 1 # 1
    BY <1>1
  <2>3. \A i, j \in 1..Len(u) : u[i] = u[j] => i = j
    BY <1>1, <2>1, <2>2
  <2>4. ASSUME NEW x, x \in SeqRange(u) PROVE x \in SeqRange(q) /\ x # Head(q)
    <3>1. PICK i \in 1..Len(u) : u[i] = x
      BY <1>1, <2>4, RangeFacts
    <3>2. q[i + 1] = x /\ i + 1 \in 1..Len(q) /\ i + 1 # 1
      BY <1>1, <2>2, <3>1
    <3>3. x # q[1]
      BY <1>2, <2>1, <3>2
    <3> QED BY <1>1, <3>2, <3>3, RangeFacts
  <2>5. ASSUME NEW x, x \in SeqRange(q), x # Head(q) PROVE x \in SeqRange(u)
    <3>1. PICK i \in 1..Len(q) : q[i] = x
      BY <2>5, RangeFacts
    <3>2. i - 1 \in 1..Len(u) /\ (i - 1) + 1 = i
      BY <1>1, <2>5, <3>1
    <3>3. u[i - 1] = x
      BY <1>1, <3>1, <3>2
    <3> QED BY <1>1, <3>2, <3>3, RangeFacts
  <2> QED BY <1>1, <2>3, <2>4, <2>5, RangeFacts
<1>5. Head(q) \in S
  BY <1>3, RangeFacts
<1> QED BY <1>1, <1>3, <1>4, <1>5 DEF u

-----------------------------------------------------------------------------
(* The inductive invariant.                                                *)

Parties == Threads \cup Senders

(* The places of tasks, and the tasks in each.                             *)
Spots == ({"sending"} \X Parties) \cup ({"queue", "heap", "thread"} \X Threads)

Here ==
    [p \in Spots |->
        CASE p[1] = "sending" -> {sending[p[2]]} \ {NULL}
          [] p[1] = "queue"   -> SeqRange(fTaskQueue[p[2]])
          [] p[1] = "heap"    -> SeqRange(fHeap[p[2]])
          [] p[1] = "thread"  -> {theTask[p[2]]} \ {NULL}]

Serving == {"lock", "locking", "running", "ran", "delete", "finish", "sleep"}

PoolTypes ==
    /\ started \in BOOLEAN
    /\ fEvents \in [Tasks -> SUBSET (Events \cup {"alive", "idle"})]
    /\ fUseThisThread \in [Tasks -> Threads \cup {NULL}]
    /\ fWriteLock \in [Tasks -> BOOLEAN]
    /\ deleted \subseteq Tasks
    /\ sending \in [Parties -> Tasks \cup {NULL}]
    /\ fTaskQueue \in [Threads -> Seq(Tasks)]
    /\ fHeap \in [Threads -> Seq(Tasks)]
    /\ due \in [Tasks -> Nat]
    /\ theTask \in [Threads -> Tasks \cup {NULL}]
    /\ at \in [Threads -> Serving \cup {"off", "wait", "blocked"}]

(* No task is twice in one queue or heap.                                  *)
NoRepeats ==
    \A th \in Threads : Distinct(fTaskQueue[th]) /\ Distinct(fHeap[th])

(* A thread has a task just while it serves it, and none before AddThreads.*)
ThreadPlace ==
    /\ \A th \in Threads : theTask[th] # NULL <=> at[th] \in Serving
    /\ ~started => \A th \in Threads : at[th] = "off"

(* A task that is alive is in one place, on its thread if it asked for it. *)
Placed ==
    /\ \A t \in Tasks, p, q \in Spots : t \in Here[p] /\ t \in Here[q] => p = q
    /\ \A t \in Tasks : "alive" \in fEvents[t] <=> \E p \in Spots : t \in Here[p]
    /\ \A t \in deleted : "alive" \notin fEvents[t]
    /\ \A t \in Tasks, p \in Spots :
          fUseThisThread[t] # NULL /\ t \in Here[p]
            => p[1] = "sending" \/ p[2] = fUseThisThread[t]

IInv == LockCounts /\ PoolTypes /\ NoRepeats /\ ThreadPlace /\ Placed

LEMMA SpotFacts ==
    /\ \A s \in Parties : <<"sending", s>> \in Spots
    /\ \A th \in Threads : /\ <<"queue", th>> \in Spots
                          /\ <<"heap", th>> \in Spots
                          /\ <<"thread", th>> \in Spots
    /\ \A p \in Spots :
          \/ \E s \in Parties : p = <<"sending", s>>
          \/ \E th \in Threads : p \in {<<"queue", th>>, <<"heap", th>>, <<"thread", th>>}
    /\ \A th \in Threads : th \in Parties
BY DEF Spots, Parties

LEMMA HereFacts ==
    /\ \A s \in Parties : Here[<<"sending", s>>] = {sending[s]} \ {NULL}
    /\ \A th \in Threads : /\ Here[<<"queue", th>>] = SeqRange(fTaskQueue[th])
                          /\ Here[<<"heap", th>>] = SeqRange(fHeap[th])
                          /\ Here[<<"thread", th>>] = {theTask[th]} \ {NULL}
    /\ \A s \in Parties : Here'[<<"sending", s>>] = {sending'[s]} \ {NULL}
    /\ \A th \in Threads : /\ Here'[<<"queue", th>>] = SeqRange(fTaskQueue'[th])
                          /\ Here'[<<"heap", th>>] = SeqRange(fHeap'[th])
                          /\ Here'[<<"thread", th>>] = {theTask'[th]} \ {NULL}
BY SpotFacts DEF Here, SeqRange

(* t is now in the places of S, and no other task has moved.               *)
Moved(t, S) ==
    \A u \in Tasks, p \in Spots : u \in Here'[p] <=> IF u = t THEN p \in S ELSE u \in Here[p]

(* What is to be shown of a step that moves t and may set its bits.        *)
LEMMA MoveLemma ==
    ASSUME Placed, NEW t \in Tasks, NEW S \in SUBSET Spots, Moved(t, S),
           \A p, q \in S : p = q,
           \A u \in Tasks \ {t} : /\ "alive" \in fEvents'[u] <=> "alive" \in fEvents[u]
                                 /\ fUseThisThread'[u] = fUseThisThread[u],
           "alive" \in fEvents'[t] <=> S # {},
           deleted' \subseteq deleted \cup {t}, deleted \subseteq Tasks,
           t \in deleted' => S = {},
           \A p \in S : \/ fUseThisThread'[t] = NULL
                       \/ p[1] = "sending" \/ p[2] = fUseThisThread'[t]
    PROVE  Placed'
<1>1. ASSUME NEW u \in Tasks, NEW p \in Spots, NEW q \in Spots, u \in Here'[p], u \in Here'[q]
      PROVE  p = q
  BY <1>1 DEF Moved, Placed
<1>2. ASSUME NEW u \in Tasks
      PROVE  "alive" \in fEvents'[u] <=> \E p \in Spots : u \in Here'[p]
  BY DEF Moved, Placed
<1>3. ASSUME NEW u \in deleted' PROVE "alive" \notin fEvents'[u]
  BY DEF Placed
<1>4. ASSUME NEW u \in Tasks, NEW p \in Spots, fUseThisThread'[u] # NULL, u \in Here'[p]
      PROVE  p[1] = "sending" \/ p[2] = fUseThisThread'[u]
  BY <1>4 DEF Moved, Placed
<1> QED BY <1>1, <1>2, <1>3, <1>4 DEF Placed

(* Nothing moves.                                                          *)
LEMMA StayLemma ==
    ASSUME Placed, UNCHANGED <<sending, fTaskQueue, fHeap, theTask, deleted, fUseThisThread>>,
           deleted \subseteq Tasks,
           \A u \in Tasks : "alive" \in fEvents'[u] <=> "alive" \in fEvents[u]
    PROVE  Placed'
<1>1. Here' = Here
  BY DEF Here
<1> QED BY <1>1 DEF Placed

LEMMA MovedFacts ==
    ASSUME NEW t \in Tasks, NEW S,
           \A u \in Tasks, s \in Parties :
              sending'[s] = u <=> IF u = t THEN <<"sending", s>> \in S ELSE sending[s] = u,
           \A u \in Tasks, th \in Threads :
              /\ u \in SeqRange(fTaskQueue'[th])
                    <=> IF u = t THEN <<"queue", th>> \in S ELSE u \in SeqRange(fTaskQueue[th])
              /\ u \in SeqRange(fHeap'[th])
                    <=> IF u = t THEN <<"heap", th>> \in S ELSE u \in SeqRange(fHeap[th])
              /\ theTask'[th] = u
                    <=> IF u = t THEN <<"thread", th>> \in S ELSE theTask[th] = u
    PROVE  Moved(t, S)
<1> SUFFICES ASSUME NEW u \in Tasks, NEW p \in Spots
             PROVE  u \in Here'[p] <=> IF u = t THEN p \in S ELSE u \in Here[p]
  BY DEF Moved
<1>1. u # NULL
  BY ConstantFacts
<1>2. CASE \E s \in Parties : p = <<"sending", s>>
  <2>1. PICK s \in Parties : p = <<"sending", s>>
    BY <1>2
  <2>2. Here[p] = {sending[s]} \ {NULL} /\ Here'[p] = {sending'[s]} \ {NULL}
    BY <2>1, HereFacts
  <2> QED BY <1>1, <2>1, <2>2
<1>3. CASE \E th \in Threads : p = <<"queue", th>>
  <2>1. PICK th \in Threads : p = <<"queue", th>>
    BY <1>3
  <2>2. Here[p] = SeqRange(fTaskQueue[th]) /\ Here'[p] = SeqRange(fTaskQueue'[th])
    BY <2>1, HereFacts
  <2>3. u \in SeqRange(fTaskQueue'[th])
           <=> IF u = t THEN <<"queue", th>> \in S ELSE u \in SeqRange(fTaskQueue[th])
    OBVIOUS
  <2> QED BY <2>1, <2>2, <2>3, Zenon
<1>4. CASE \E th \in Threads : p = <<"heap", th>>
  <2>1. PICK th \in Threads : p = <<"heap", th>>
    BY <1>4
  <2>2. Here[p] = SeqRange(fHeap[th]) /\ Here'[p] = SeqRange(fHeap'[th])
    BY <2>1, HereFacts
  <2>3. u \in SeqRange(fHeap'[th])
           <=> IF u = t THEN <<"heap", th>> \in S ELSE u \in SeqRange(fHeap[th])
    OBVIOUS
  <2> QED BY <2>1, <2>2, <2>3, Zenon
<1>5. CASE \E th \in Threads : p = <<"thread", th>>
  <2>1. PICK th \in Threads : p = <<"thread", th>>
    BY <1>5
  <2>2. Here[p] = {theTask[th]} \ {NULL} /\ Here'[p] = {theTask'[th]} \ {NULL}
    BY <2>1, HereFacts
  <2> QED BY <1>1, <2>1, <2>2
<1> QED BY <1>2, <1>3, <1>4, <1>5, SpotFacts

(* A task is nowhere but in its place.                                     *)
LEMMA OnlyThere ==
    ASSUME Placed, NEW t \in Tasks, NEW p \in Spots, t \in Here[p]
    PROVE  /\ "alive" \in fEvents[t] /\ t \notin deleted
           /\ fUseThisThread[t] = NULL \/ p[1] = "sending" \/ p[2] = fUseThisThread[t]
           /\ \A s \in Parties : sending[s] = t <=> p = <<"sending", s>>
           /\ \A th \in Threads :
                /\ t \in SeqRange(fTaskQueue[th]) <=> p = <<"queue", th>>
                /\ t \in SeqRange(fHeap[th]) <=> p = <<"heap", th>>
                /\ theTask[th] = t <=> p = <<"thread", th>>
<1>1. t # NULL
  BY ConstantFacts
<1>2. "alive" \in fEvents[t] /\ t \notin deleted
  BY DEF Placed
<1>3. fUseThisThread[t] = NULL \/ p[1] = "sending" \/ p[2] = fUseThisThread[t]
  BY DEF Placed
<1>4. \A q \in Spots : t \in Here[q] <=> p = q
  BY DEF Placed
<1>5. ASSUME NEW s \in Parties PROVE sending[s] = t <=> p = <<"sending", s>>
  <2>1. <<"sending", s>> \in Spots /\ Here[<<"sending", s>>] = {sending[s]} \ {NULL}
    BY HereFacts, SpotFacts
  <2>2. t \in Here[<<"sending", s>>] <=> sending[s] = t
    BY <1>1, <2>1
  <2> QED BY <1>4, <2>1, <2>2
<1>6. ASSUME NEW th \in Threads
      PROVE  /\ t \in SeqRange(fTaskQueue[th]) <=> p = <<"queue", th>>
             /\ t \in SeqRange(fHeap[th]) <=> p = <<"heap", th>>
             /\ theTask[th] = t <=> p = <<"thread", th>>
  <2>1. <<"queue", th>> \in Spots /\ <<"heap", th>> \in Spots /\ <<"thread", th>> \in Spots
    BY SpotFacts
  <2>2. /\ Here[<<"queue", th>>] = SeqRange(fTaskQueue[th])
        /\ Here[<<"heap", th>>] = SeqRange(fHeap[th])
        /\ Here[<<"thread", th>>] = {theTask[th]} \ {NULL}
    BY HereFacts
  <2>3. t \in Here[<<"thread", th>>] <=> theTask[th] = t
    BY <1>1, <2>2
  <2>4. t \in SeqRange(fTaskQueue[th]) <=> p = <<"queue", th>>
    BY <1>4, <2>1, <2>2
  <2>5. t \in SeqRange(fHeap[th]) <=> p = <<"heap", th>>
    BY <1>4, <2>1, <2>2
  <2>6. theTask[th] = t <=> p = <<"thread", th>>
    BY <1>4, <2>1, <2>3
  <2> QED BY <2>4, <2>5, <2>6
<1> QED BY <1>2, <1>3, <1>5, <1>6

(* A task that is not alive is nowhere.                                    *)
LEMMA Nowhere ==
    ASSUME Placed, NEW t \in Tasks, "alive" \notin fEvents[t]
    PROVE  /\ \A s \in Parties : sending[s] # t
           /\ \A th \in Threads : /\ t \notin SeqRange(fTaskQueue[th])
                                  /\ t \notin SeqRange(fHeap[th])
                                  /\ theTask[th] # t
<1>1. t # NULL
  BY ConstantFacts
<1>2. \A p \in Spots : t \notin Here[p]
  BY DEF Placed
<1>3. \A s \in Parties : sending[s] # t
  BY <1>1, <1>2, HereFacts, SpotFacts
<1>4. ASSUME NEW th \in Threads
      PROVE  /\ t \notin SeqRange(fTaskQueue[th])
             /\ t \notin SeqRange(fHeap[th])
             /\ theTask[th] # t
  <2>1. /\ t \notin Here[<<"queue", th>>] /\ t \notin Here[<<"heap", th>>]
        /\ t \notin Here[<<"thread", th>>]
    BY <1>2, SpotFacts
  <2>2. t \notin SeqRange(fTaskQueue[th])
    BY <2>1, HereFacts
  <2>3. t \notin SeqRange(fHeap[th])
    BY <2>1, HereFacts
  <2>4. theTask[th] # t
    BY <1>1, <2>1, HereFacts
  <2> QED BY <2>2, <2>3, <2>4
<1> QED BY <1>3, <1>4

(* The task of a thread has its place there.                               *)
LEMMA ServedTask ==
    ASSUME PoolTypes, ThreadPlace, Placed, NEW th \in Threads, at[th] \in Serving
    PROVE  /\ theTask[th] \in Tasks
           /\ <<"thread", th>> \in Spots /\ theTask[th] \in Here[<<"thread", th>>]
<1>1. theTask[th] \in Tasks /\ theTask[th] # NULL
  BY DEF PoolTypes, ThreadPlace
<1>2. Here[<<"thread", th>>] = {theTask[th]} \ {NULL}
  BY HereFacts
<1> QED BY <1>1, <1>2, SpotFacts

-----------------------------------------------------------------------------
LEMMA InitInv == Init => IInv
<1> SUFFICES ASSUME Init PROVE IInv
  OBVIOUS
<1> USE DEF Init
<1>1. LockCounts
  <2>1. \A kind \in {"read", "writersCond", "writerWoken"} : Holders(kind) = {}
    BY DEF LockInit, Holders
  <2>2. Cardinality({}) = 0
    BY FS_EmptySet
  <2>3. Waiting = {}
    BY <2>1 DEF Waiting
  <2>4. fState = 0 /\ fWriteWaiters = 0 /\ holds = [t \in Threads |-> "nothing"]
    BY DEF LockInit
  <2>5. Cardinality(Holders("read")) = 0 /\ Cardinality(Waiting) = 0
    BY <2>1, <2>2, <2>3
  <2> HIDE DEF Init
  <2> QED BY <2>4, <2>5 DEF LockCounts
<1>2. PoolTypes
  <2>1. <<>> \in Seq(Tasks)
    OBVIOUS
  <2> QED BY <2>1 DEF PoolTypes, Parties, Serving
<1>3. NoRepeats
  BY DEF NoRepeats, Distinct
<1>4. ThreadPlace
  BY DEF ThreadPlace, Serving
<1>5. \A p \in Spots : Here[p] = {}
  <2>1. \A th \in Threads : SeqRange(fTaskQueue[th]) = {} /\ SeqRange(fHeap[th]) = {}
    BY DEF SeqRange
  <2>2. \A s \in Parties : Here[<<"sending", s>>] = {}
    BY HereFacts DEF Parties
  <2>3. \A th \in Threads : /\ Here[<<"queue", th>>] = {}
                            /\ Here[<<"heap", th>>] = {}
                            /\ Here[<<"thread", th>>] = {}
    BY <2>1, HereFacts
  <2> QED BY <2>2, <2>3, SpotFacts
<1>6. Placed
  BY <1>5 DEF Placed
<1> QED BY <1>1, <1>2, <1>3, <1>4, <1>6 DEF IInv

-----------------------------------------------------------------------------
(* The mutex, in the steps that leave it alone.                            *)
LEMMA LockSame == ASSUME LockCounts, UNCHANGED lockVars PROVE LockCounts'
BY DEF LockCounts, lockVars, Holders, Waiting

LEMMA AddThreadsInv == ASSUME IInv, AddThreads PROVE IInv'
<1> USE DEF AddThreads, IInv
<1>1. LockCounts'
  BY LockSame
<1>2. PoolTypes'
  BY DEF PoolTypes, taskVars, placeVars
<1>3. NoRepeats'
  BY DEF NoRepeats, placeVars
<1>4. ThreadPlace'
  <2>1. \A th \in Threads : theTask'[th] = NULL /\ at'[th] = "wait"
    BY DEF ThreadPlace, Serving
  <2> QED BY <2>1 DEF ThreadPlace, Serving
<1>5. Placed'
  BY StayLemma DEF PoolTypes, taskVars, placeVars
<1> QED BY <1>1, <1>2, <1>3, <1>4, <1>5

LEMMA SignalPlaced ==
    ASSUME IInv, started, NEW s \in Parties, NEW t \in Tasks, NEW e \in Events, SignalTask(s, t, e)
    PROVE  /\ LockCounts' /\ NoRepeats' /\ Placed'
           /\ UNCHANGED <<started, fUseThisThread, fWriteLock, deleted, fTaskQueue, fHeap,
                          due, theTask>>
           /\ fEvents' \in [Tasks -> SUBSET (Events \cup {"alive", "idle"})]
           /\ sending' \in [Parties -> Tasks \cup {NULL}]
<1> USE DEF IInv
<1>1. LockCounts' /\ NoRepeats'
  BY LockSame DEF SignalTask, NoRepeats
<1>2. /\ fEvents' \in [Tasks -> SUBSET (Events \cup {"alive", "idle"})]
      /\ sending' \in [Parties -> Tasks \cup {NULL}]
  BY DEF SignalTask, PoolTypes
<1>3. \A u \in Tasks \ {t} : "alive" \in fEvents'[u] <=> "alive" \in fEvents[u]
  BY DEF SignalTask, PoolTypes
<1>4. "alive" \in fEvents'[t]
  BY DEF SignalTask, PoolTypes
<1>5. deleted \subseteq Tasks /\ t # NULL
  BY ConstantFacts DEF PoolTypes
<1>6. CASE "alive" \in fEvents[t]
  <2>1. sending' = sending
    BY <1>6 DEF SignalTask, ToEnqueue, PoolTypes
  <2> QED BY <1>1, <1>2, <1>3, <1>4, <1>5, <1>6, <2>1, StayLemma DEF SignalTask
<1>7. CASE "alive" \notin fEvents[t]
  <2> DEFINE S == {<<"sending", s>>}
  <2>1. sending[s] = NULL /\ sending' = [sending EXCEPT ![s] = t]
    BY <1>7 DEF SignalTask, ToEnqueue, PoolTypes
  <2>2. \A u \in Tasks, r \in Parties :
           sending'[r] = u <=> IF u = t THEN <<"sending", r>> \in S ELSE sending[r] = u
    <3> SUFFICES ASSUME NEW u \in Tasks, NEW r \in Parties
                 PROVE  sending'[r] = u <=> IF u = t THEN <<"sending", r>> \in S ELSE sending[r] = u
      OBVIOUS
    <3>1. sending'[r] = IF r = s THEN t ELSE sending[r]
      BY <2>1 DEF PoolTypes
    <3>2. sending[r] # t /\ u # NULL
      BY <1>7, Nowhere, ConstantFacts
    <3> QED BY <2>1, <3>1, <3>2
  <2>3. \A u \in Tasks, th \in Threads :
           /\ u \in SeqRange(fTaskQueue'[th])
                 <=> IF u = t THEN <<"queue", th>> \in S ELSE u \in SeqRange(fTaskQueue[th])
           /\ u \in SeqRange(fHeap'[th])
                 <=> IF u = t THEN <<"heap", th>> \in S ELSE u \in SeqRange(fHeap[th])
           /\ theTask'[th] = u
                 <=> IF u = t THEN <<"thread", th>> \in S ELSE theTask[th] = u
    BY <1>7, Nowhere DEF SignalTask
  <2>4. Moved(t, S)
    BY <2>2, <2>3, MovedFacts
  <2>5. S \in SUBSET Spots /\ S # {} /\ \A p, q \in S : p = q
    BY SpotFacts
  <2>6. /\ deleted' \subseteq deleted \cup {t} /\ t \notin deleted'
        /\ fUseThisThread' = fUseThisThread /\ \A p \in S : p[1] = "sending"
    BY DEF SignalTask
  <2>7. Placed'
    BY <1>3, <1>4, <1>5, <2>4, <2>5, <2>6, MoveLemma
  <2> QED BY <1>1, <1>2, <2>7 DEF SignalTask
<1> QED BY <1>6, <1>7

LEMMA SignalInv ==
    ASSUME IInv, NEW s \in Senders, NEW t \in Tasks, NEW e \in Events, Signal(s, t, e)
    PROVE  IInv'
<1>1. s \in Parties /\ started /\ SignalTask(s, t, e) /\ at' = at
  BY DEF Signal, Parties
<1>2. PoolTypes'
  BY <1>1, SignalPlaced DEF PoolTypes, IInv
<1>3. ThreadPlace'
  BY <1>1, SignalPlaced DEF ThreadPlace, IInv
<1> QED BY <1>1, <1>2, <1>3, SignalPlaced DEF IInv

LEMMA StartedFact ==
    ASSUME IInv, NEW th \in Threads, at[th] # "off"
    PROVE  started
BY DEF IInv, ThreadPlace

LEMMA RunSignalsInv ==
    ASSUME IInv, NEW th \in Threads, NEW t \in Tasks, NEW e \in Events, RunSignals(th, t, e)
    PROVE  IInv'
<1>1. th \in Parties /\ started /\ SignalTask(th, t, e)
  BY StartedFact DEF RunSignals, Parties
<1>2. at[th] = "running" /\ at' = [at EXCEPT ![th] = "ran"]
  BY DEF RunSignals
<1>3. PoolTypes'
  BY <1>1, <1>2, SignalPlaced DEF PoolTypes, IInv, Serving
<1>4. ThreadPlace'
  BY <1>1, <1>2, SignalPlaced DEF ThreadPlace, IInv, PoolTypes, Serving
<1> QED BY <1>1, <1>3, <1>4, SignalPlaced DEF IInv

LEMMA EnQueueInv ==
    ASSUME IInv, NEW s \in Parties, EnQueue(s)
    PROVE  IInv'
<1> DEFINE t == sending[s]
<1>1. t \in Tasks /\ t # NULL /\ sending' = [sending EXCEPT ![s] = NULL]
  BY DEF EnQueue, IInv, PoolTypes
<1>2. PICK th \in Threads :
         /\ fUseThisThread[t] = NULL \/ fUseThisThread[t] = th
         /\ fTaskQueue' = [fTaskQueue EXCEPT ![th] = EnQueued(fTaskQueue[th], t)]
  BY DEF EnQueue, MayUse
<1>3. UNCHANGED <<lockVars, started, taskVars, fHeap, due, threadVars>>
  BY DEF EnQueue
<1>4. UNCHANGED <<fEvents, fUseThisThread, fWriteLock, deleted, theTask, at>>
  BY <1>3 DEF taskVars, threadVars
<1> USE DEF IInv
<1>5. t \in Here[<<"sending", s>>] /\ <<"sending", s>> \in Spots
  BY <1>1, HereFacts, SpotFacts
<1> HIDE DEF t
<1>6. fTaskQueue[th] \in Seq(Tasks)
  BY DEF PoolTypes
<1>7. t \notin SeqRange(fTaskQueue[th])
  BY <1>1, <1>5, OnlyThere
<1>8. /\ fTaskQueue'[th] = EnQueued(fTaskQueue[th], t)
      /\ \A u \in Threads \ {th} : fTaskQueue'[u] = fTaskQueue[u]
  BY <1>2 DEF PoolTypes
<1>9. /\ EnQueued(fTaskQueue[th], t) \in Seq(Tasks)
      /\ \A x : x \in SeqRange(EnQueued(fTaskQueue[th], t)) <=> x \in SeqRange(fTaskQueue[th]) \/ x = t
      /\ Distinct(fTaskQueue[th]) => Distinct(EnQueued(fTaskQueue[th], t))
  BY <1>1, <1>6, <1>7, EnQueuedLemma
<1>10. LockCounts'
  BY <1>3, LockSame
<1>11. PoolTypes'
  BY <1>1, <1>2, <1>3, <1>4, <1>9 DEF PoolTypes
<1>12. NoRepeats'
  BY <1>3, <1>8, <1>9 DEF NoRepeats
<1>13. ThreadPlace'
  BY <1>3, <1>4 DEF ThreadPlace
<1>14. Placed'
  <2> DEFINE S == {<<"queue", th>>}
  <2>1. ASSUME NEW u \in Tasks, NEW r \in Parties
        PROVE  sending'[r] = u <=> IF u = t THEN <<"sending", r>> \in S ELSE sending[r] = u
    <3>1. sending'[r] = IF r = s THEN NULL ELSE sending[r]
      BY <1>1 DEF PoolTypes
    <3>2. sending[r] = t <=> r = s
      BY <1>1, <1>5, OnlyThere
    <3>3. u # NULL
      BY ConstantFacts
    <3> QED BY <3>1, <3>2, <3>3
  <2>2. ASSUME NEW u \in Tasks, NEW k \in Threads
        PROVE  u \in SeqRange(fTaskQueue'[k])
                  <=> IF u = t THEN <<"queue", k>> \in S ELSE u \in SeqRange(fTaskQueue[k])
    <3>1. t \notin SeqRange(fTaskQueue[k])
      BY <1>1, <1>5, OnlyThere
    <3>2. CASE k = th
      BY <1>8, <1>9, <3>1, <3>2
    <3>3. CASE k # th
      BY <1>8, <3>1, <3>3
    <3> QED BY <3>2, <3>3
  <2>3. ASSUME NEW u \in Tasks, NEW k \in Threads
        PROVE  /\ u \in SeqRange(fHeap'[k])
                     <=> IF u = t THEN <<"heap", k>> \in S ELSE u \in SeqRange(fHeap[k])
               /\ theTask'[k] = u
                     <=> IF u = t THEN <<"thread", k>> \in S ELSE theTask[k] = u
    <3>1. t \notin SeqRange(fHeap[k]) /\ theTask[k] # t
      BY <1>1, <1>5, OnlyThere
    <3> QED BY <1>3, <1>4, <3>1
  <2>4. Moved(t, S)
    BY <1>1, <2>1, <2>2, <2>3, MovedFacts
  <2>5. S \in SUBSET Spots /\ S # {} /\ \A p, q \in S : p = q
    BY SpotFacts
  <2>6. \A p \in S : fUseThisThread'[t] = NULL \/ p[2] = fUseThisThread'[t]
    BY <1>2, <1>4
  <2>7. deleted \subseteq Tasks /\ t \notin deleted /\ "alive" \in fEvents[t]
    BY <1>1, <1>5, OnlyThere DEF PoolTypes
  <2>8. /\ "alive" \in fEvents'[t] <=> S # {}
        /\ deleted' \subseteq deleted \cup {t} /\ t \notin deleted'
        /\ \A u \in Tasks \ {t} : /\ "alive" \in fEvents'[u] <=> "alive" \in fEvents[u]
                                  /\ fUseThisThread'[u] = fUseThisThread[u]
    BY <1>4, <2>5, <2>7
  <2> HIDE DEF S
  <2> QED BY <1>1, <2>4, <2>5, <2>6, <2>7, <2>8, MoveLemma
<1> QED BY <1>10, <1>11, <1>12, <1>13, <1>14

-----------------------------------------------------------------------------
(* A thread takes the head q[1] of its queue or heap.                      *)
LEMMA TakenPlaced ==
    ASSUME IInv, NEW th \in Threads, at[th] \in {"wait", "blocked"},
           NEW k \in {"queue", "heap"}, NEW q \in Seq(Tasks), q # <<>>, Distinct(q),
           SeqRange(q) = Here[<<k, th>>], Take(th, Head(q)),
           UNCHANGED <<started, fEvents, fUseThisThread, deleted, sending>>,
           IF k = "queue"
           THEN fTaskQueue' = [fTaskQueue EXCEPT ![th] = Tail(q)] /\ fHeap' = fHeap
           ELSE fHeap' = [fHeap EXCEPT ![th] = Tail(q)] /\ fTaskQueue' = fTaskQueue
    PROVE  /\ Placed' /\ NoRepeats' /\ ThreadPlace'
           /\ fTaskQueue' \in [Threads -> Seq(Tasks)] /\ fHeap' \in [Threads -> Seq(Tasks)]
           /\ theTask' \in [Threads -> Tasks \cup {NULL}]
           /\ at' \in [Threads -> Serving \cup {"off", "wait", "blocked"}]
<1> USE DEF IInv
<1> DEFINE t == Head(q)
<1>1. /\ t \in SeqRange(q) /\ t \in Tasks /\ Tail(q) \in Seq(Tasks)
      /\ Distinct(Tail(q))
      /\ \A x : x \in SeqRange(Tail(q)) <=> x \in SeqRange(q) /\ x # t
  BY TailLemma
<1>2. t # NULL /\ th \in Parties
  BY <1>1, ConstantFacts, SpotFacts
<1>3. t \in Here[<<k, th>>] /\ <<k, th>> \in Spots
  BY <1>1, SpotFacts
<1>4. t \notin deleted /\ "alive" \in fEvents[t]
  BY <1>1, <1>3, OnlyThere
<1>5. fUseThisThread[t] = NULL \/ fUseThisThread[t] = th
  BY <1>1, <1>3, OnlyThere
<1>6. theTask' = [theTask EXCEPT ![th] = t] /\ at' = [at EXCEPT ![th] = "lock"]
  BY <1>4 DEF Take
<1> HIDE DEF t
<1>7. theTask[th] = NULL
  BY DEF ThreadPlace, Serving
<1>8. /\ theTask' \in [Threads -> Tasks \cup {NULL}]
      /\ at' \in [Threads -> Serving \cup {"off", "wait", "blocked"}]
  BY <1>1, <1>6 DEF PoolTypes, Serving
<1>9. fTaskQueue' \in [Threads -> Seq(Tasks)] /\ fHeap' \in [Threads -> Seq(Tasks)]
  BY <1>1 DEF PoolTypes
<1>10. NoRepeats'
  <2>1. CASE k = "queue"
    BY <1>1, <2>1 DEF NoRepeats, PoolTypes
  <2>2. CASE k = "heap"
    BY <1>1, <2>2 DEF NoRepeats, PoolTypes
  <2> QED BY <2>1, <2>2
<1>11. ThreadPlace'
  <2>1. \A u \in Threads : /\ theTask'[u] = IF u = th THEN t ELSE theTask[u]
                           /\ at'[u] = IF u = th THEN "lock" ELSE at[u]
    BY <1>6 DEF PoolTypes
  <2>2. started
    BY StartedFact
  <2> QED BY <1>2, <2>1, <2>2 DEF ThreadPlace, Serving
<1>12. Placed'
  <2> DEFINE S == {<<"thread", th>>}
  <2>1. ASSUME NEW u \in Tasks, NEW r \in Parties
        PROVE  sending'[r] = u <=> IF u = t THEN <<"sending", r>> \in S ELSE sending[r] = u
    <3>1. sending[r] # t
      BY <1>1, <1>3, OnlyThere
    <3> QED BY <3>1
  <2>2. ASSUME NEW u \in Tasks, NEW j \in Threads
        PROVE  theTask'[j] = u <=> IF u = t THEN <<"thread", j>> \in S ELSE theTask[j] = u
    <3>1. theTask[j] # t
      BY <1>1, <1>3, OnlyThere
    <3>2. theTask'[j] = IF j = th THEN t ELSE theTask[j]
      BY <1>6 DEF PoolTypes
    <3>3. u # NULL
      BY ConstantFacts
    <3> QED BY <1>7, <3>1, <3>2, <3>3
  <2>3. ASSUME NEW u \in Tasks, NEW j \in Threads
        PROVE  u \in SeqRange(fTaskQueue'[j])
                  <=> IF u = t THEN <<"queue", j>> \in S ELSE u \in SeqRange(fTaskQueue[j])
    <3>1. t \in SeqRange(fTaskQueue[j]) <=> k = "queue" /\ j = th
      BY <1>1, <1>3, OnlyThere
    <3>2. CASE k = "queue" /\ j = th
      <4>1. fTaskQueue'[j] = Tail(q) /\ SeqRange(fTaskQueue[j]) = SeqRange(q)
        BY <3>2, HereFacts DEF PoolTypes
      <4> QED BY <1>1, <4>1
    <3>3. CASE ~(k = "queue" /\ j = th)
      <4>1. fTaskQueue'[j] = fTaskQueue[j]
        BY <3>3 DEF PoolTypes
      <4> QED BY <3>1, <3>3, <4>1
    <3> QED BY <3>2, <3>3
  <2>4. ASSUME NEW u \in Tasks, NEW j \in Threads
        PROVE  u \in SeqRange(fHeap'[j])
                  <=> IF u = t THEN <<"heap", j>> \in S ELSE u \in SeqRange(fHeap[j])
    <3>1. t \in SeqRange(fHeap[j]) <=> k = "heap" /\ j = th
      BY <1>1, <1>3, OnlyThere
    <3>2. CASE k = "heap" /\ j = th
      <4>1. fHeap'[j] = Tail(q) /\ SeqRange(fHeap[j]) = SeqRange(q)
        BY <3>2, HereFacts DEF PoolTypes
      <4> QED BY <1>1, <4>1
    <3>3. CASE ~(k = "heap" /\ j = th)
      <4>1. fHeap'[j] = fHeap[j]
        BY <3>3 DEF PoolTypes
      <4> QED BY <3>1, <3>3, <4>1
    <3> QED BY <3>2, <3>3
  <2>5. Moved(t, S)
    BY <1>1, <2>1, <2>2, <2>3, <2>4, MovedFacts
  <2>6. S \in SUBSET Spots /\ S # {} /\ \A p, r \in S : p = r
    BY SpotFacts
  <2>7. \A p \in S : fUseThisThread'[t] = NULL \/ p[2] = fUseThisThread'[t]
    BY <1>5
  <2>8. /\ deleted \subseteq Tasks
        /\ "alive" \in fEvents'[t] <=> S # {}
        /\ deleted' \subseteq deleted \cup {t} /\ t \notin deleted'
        /\ \A u \in Tasks \ {t} : /\ "alive" \in fEvents'[u] <=> "alive" \in fEvents[u]
                                  /\ fUseThisThread'[u] = fUseThisThread[u]
    BY <1>4, <2>6 DEF PoolTypes
  <2> HIDE DEF S
  <2> QED BY <1>1, <2>5, <2>6, <2>7, <2>8, MoveLemma
<1> QED BY <1>8, <1>9, <1>10, <1>11, <1>12

LEMMA TakeFromQueueInv ==
    ASSUME IInv, NEW th \in Threads, at[th] \in {"wait", "blocked"},
           fTaskQueue[th] # <<>>, TakeFromQueue(th),
           UNCHANGED <<lockVars, started, taskVars, sending, fHeap, due>>
    PROVE  IInv'
<1>1. LockCounts'
  BY LockSame DEF IInv
<1>2. fTaskQueue[th] \in Seq(Tasks) /\ Distinct(fTaskQueue[th])
      /\ SeqRange(fTaskQueue[th]) = Here[<<"queue", th>>]
  BY HereFacts DEF IInv, PoolTypes, NoRepeats
<1>3. /\ Placed' /\ NoRepeats' /\ ThreadPlace'
      /\ fTaskQueue' \in [Threads -> Seq(Tasks)] /\ fHeap' \in [Threads -> Seq(Tasks)]
      /\ theTask' \in [Threads -> Tasks \cup {NULL}]
      /\ at' \in [Threads -> Serving \cup {"off", "wait", "blocked"}]
  BY <1>2, TakenPlaced DEF TakeFromQueue, taskVars
<1>4. PoolTypes'
  BY <1>3 DEF IInv, PoolTypes, taskVars
<1> QED BY <1>1, <1>3, <1>4 DEF IInv

LEMMA ExtractMinInv ==
    ASSUME IInv, NEW th \in Threads, ExtractMin(th)
    PROVE  IInv'
<1> USE DEF ExtractMin
<1>1. LockCounts'
  BY LockSame DEF IInv
<1>2. fHeap[th] \in Seq(Tasks) /\ Distinct(fHeap[th]) /\ fHeap[th] # <<>>
      /\ SeqRange(fHeap[th]) = Here[<<"heap", th>>]
  BY HereFacts DEF IInv, PoolTypes, NoRepeats, Expired
<1>3. /\ Placed' /\ NoRepeats' /\ ThreadPlace'
      /\ fTaskQueue' \in [Threads -> Seq(Tasks)] /\ fHeap' \in [Threads -> Seq(Tasks)]
      /\ theTask' \in [Threads -> Tasks \cup {NULL}]
      /\ at' \in [Threads -> Serving \cup {"off", "wait", "blocked"}]
  BY <1>2, TakenPlaced DEF taskVars
<1>4. PoolTypes'
  BY <1>3 DEF IInv, PoolTypes, taskVars
<1> QED BY <1>1, <1>3, <1>4 DEF IInv

(* A thread finds nothing and goes elsewhere.                              *)
LEMMA WaitsOnInv ==
    ASSUME IInv, NEW th \in Threads, at[th] \in {"wait", "blocked"},
           NEW a \in {"wait", "blocked"}, at' = [at EXCEPT ![th] = a],
           UNCHANGED <<lockVars, started, taskVars, placeVars, theTask>>
    PROVE  IInv'
<1> USE DEF IInv, taskVars, placeVars
<1>1. LockCounts' /\ NoRepeats'
  BY LockSame DEF NoRepeats
<1>2. PoolTypes'
  BY DEF PoolTypes
<1>3. ThreadPlace'
  <2>1. \A u \in Threads : at'[u] = IF u = th THEN a ELSE at[u]
    BY DEF PoolTypes
  <2>2. started
    BY StartedFact
  <2> QED BY <2>1, <2>2 DEF ThreadPlace, Serving
<1>4. Placed'
  BY StayLemma DEF PoolTypes
<1> QED BY <1>1, <1>2, <1>3, <1>4

LEMMA DeQueueInv ==
    ASSUME IInv, NEW th \in Threads, DeQueueBlocking(th) \/ DeQueue(th)
    PROVE  IInv'
<1>1. /\ at[th] \in {"wait", "blocked"}
      /\ UNCHANGED <<lockVars, started, taskVars, sending, fHeap, due>>
  BY DEF DeQueueBlocking, DeQueue
<1>2. CASE fTaskQueue[th] # <<>>
  <2>1. TakeFromQueue(th)
    BY <1>2 DEF DeQueueBlocking, DeQueue
  <2> QED BY <1>1, <1>2, <2>1, TakeFromQueueInv
<1>3. CASE fTaskQueue[th] = <<>>
  <2>1. \E a \in {"wait", "blocked"} : at' = [at EXCEPT ![th] = a]
    BY <1>3 DEF DeQueueBlocking, DeQueue
  <2>2. UNCHANGED <<placeVars, theTask>>
    BY <1>1, <1>3 DEF DeQueueBlocking, DeQueue, placeVars
  <2> QED BY <1>1, <2>1, <2>2, WaitsOnInv
<1> QED BY <1>2, <1>3

-----------------------------------------------------------------------------
(* A thread goes on with its task t.                                       *)
LEMMA ServesOn ==
    ASSUME IInv, NEW th \in Threads, at[th] \in Serving, NEW a \in Serving,
           at' = [at EXCEPT ![th] = a],
           UNCHANGED <<started, deleted, sending, fTaskQueue, fHeap, theTask>>,
           \A u \in Tasks : "alive" \in fEvents'[u] <=> "alive" \in fEvents[u],
           \A u \in Tasks \ {theTask[th]} : fUseThisThread'[u] = fUseThisThread[u],
           fUseThisThread'[theTask[th]] \in {fUseThisThread[theTask[th]], NULL, th}
    PROVE  /\ NoRepeats' /\ ThreadPlace' /\ Placed'
           /\ at' \in [Threads -> Serving \cup {"off", "wait", "blocked"}]
<1> USE DEF IInv
<1> DEFINE t == theTask[th]
           p == <<"thread", th>>
<1>1. t \in Tasks /\ p \in Spots /\ t \in Here[p]
  BY ServedTask
<1>2. /\ t \notin deleted /\ "alive" \in fEvents[t]
      /\ fUseThisThread[t] = NULL \/ fUseThisThread[t] = th
  BY <1>1, OnlyThere
<1>3. Here' = Here
  BY DEF Here
<1>4. Moved(t, {p})
  BY <1>1, <1>3 DEF Moved, Placed
<1>5. Placed'
  <2>1. /\ {p} \in SUBSET Spots /\ {p} # {} /\ \A q, r \in {p} : q = r
        /\ \A q \in {p} : fUseThisThread'[t] = NULL \/ q[2] = fUseThisThread'[t]
    BY <1>1, <1>2
  <2>2. /\ deleted' \subseteq deleted \cup {t} /\ t \notin deleted' /\ deleted \subseteq Tasks
        /\ "alive" \in fEvents'[t] <=> {p} # {}
    BY <1>1, <1>2 DEF PoolTypes
  <2> HIDE DEF t, p
  <2> QED BY <1>1, <1>4, <2>1, <2>2, MoveLemma DEF t
<1>6. at' \in [Threads -> Serving \cup {"off", "wait", "blocked"}]
  BY DEF PoolTypes
<1>7. NoRepeats'
  BY DEF NoRepeats
<1>8. ThreadPlace'
  <2>1. \A u \in Threads : at'[u] = IF u = th THEN a ELSE at[u]
    BY DEF PoolTypes
  <2>2. started
    BY StartedFact DEF Serving
  <2> QED BY <2>1, <2>2 DEF ThreadPlace
<1> QED BY <1>5, <1>6, <1>7, <1>8

LEMMA StartRunInv == ASSUME IInv, NEW th \in Threads, StartRun(th) PROVE IInv'
<1> DEFINE t == theTask[th]
<1>1. /\ at[th] = "lock" /\ at' = [at EXCEPT ![th] = "locking"]
      /\ fUseThisThread' = [fUseThisThread EXCEPT ![t] = NULL]
      /\ UNCHANGED <<started, fEvents, fWriteLock, deleted, placeVars, theTask>>
      /\ LockWrite(th) \/ LockRead(th)
  BY DEF StartRun
<1>2. LockCounts'
  <2>1. CASE LockRead(th)
    BY <2>1, TryReadLemma DEF IInv, LockRead
  <2>2. CASE LockWrite(th)
    <3>1. fWriteWaiters + 1 \in Nat /\ fWriteWaiters + 1 > 0
      BY LockType DEF IInv, LockTypeOK
    <3> QED BY <2>2, <3>1, TryWriteLemma DEF IInv, LockWrite
  <2> QED BY <1>1, <2>1, <2>2
<1>3. /\ NoRepeats' /\ ThreadPlace' /\ Placed'
      /\ at' \in [Threads -> Serving \cup {"off", "wait", "blocked"}]
  <2>1. /\ t \in Tasks
        /\ \A u \in Tasks \ {t} : fUseThisThread'[u] = fUseThisThread[u]
        /\ fUseThisThread'[t] = NULL
    BY <1>1, ServedTask DEF IInv, PoolTypes, Serving
  <2> QED BY <1>1, <2>1, ServesOn DEF Serving, placeVars
<1>4. PoolTypes'
  BY <1>1, <1>3 DEF IInv, PoolTypes, placeVars
<1> QED BY <1>2, <1>3, <1>4 DEF IInv

(* Only the mutex changes.                                                 *)
LEMMA OthersSame ==
    ASSUME IInv, LockCounts', UNCHANGED <<started, taskVars, placeVars, threadVars>>
    PROVE  IInv'
<1> USE DEF IInv, taskVars, placeVars, threadVars
<1>1. PoolTypes' /\ NoRepeats' /\ ThreadPlace'
  BY DEF PoolTypes, NoRepeats, ThreadPlace
<1>2. Placed'
  BY StayLemma DEF PoolTypes
<1> QED BY <1>1, <1>2

LEMMA KeepLockingInv ==
    ASSUME IInv, NEW th \in Threads, KeepLocking(th) \/ LockWaitEnds(th)
    PROVE  IInv'
<1>1. UNCHANGED <<started, taskVars, placeVars, threadVars>>
  BY DEF KeepLocking, LockWaitEnds
<1>2. LockCounts'
  <2>1. CASE holds[th] = "readerWoken" /\ TryRead(th)
    BY <2>1, TryReadLemma DEF IInv
  <2>2. CASE holds[th] = "writerWoken" /\ TryWrite(th, fWriteWaiters)
    <3>1. th \in Waiting /\ Waiting \in SUBSET Threads
      BY <2>2 DEF Waiting, Holders
    <3>2. fWriteWaiters \in Nat /\ fWriteWaiters > 0
      BY <3>1, Count DEF IInv, LockCounts
    <3> QED BY <2>2, <3>2, TryWriteLemma DEF IInv
  <2>3. CASE WaitEnds(th)
    BY <2>3, WaitEndsLemma DEF IInv
  <2> QED BY <2>1, <2>2, <2>3 DEF KeepLocking, LockWaitEnds, LockAgain
<1> QED BY <1>1, <1>2, OthersSame

LEMMA GetEventsInv == ASSUME IInv, NEW th \in Threads, GetEvents(th) PROVE IInv'
<1> DEFINE t == theTask[th]
<1>1. /\ at[th] = "locking" /\ at' = [at EXCEPT ![th] = "running"]
      /\ fEvents' = [fEvents EXCEPT ![t] = fEvents[t] \cap {"alive"}]
      /\ UNCHANGED <<lockVars, started, fUseThisThread, fWriteLock, deleted, placeVars, theTask>>
  BY DEF GetEvents
<1>2. LockCounts'
  BY <1>1, LockSame DEF IInv
<1>3. t \in Tasks
  BY <1>1, ServedTask DEF IInv, Serving
<1>4. /\ fEvents' \in [Tasks -> SUBSET (Events \cup {"alive", "idle"})]
      /\ \A u \in Tasks : "alive" \in fEvents'[u] <=> "alive" \in fEvents[u]
  BY <1>1, <1>3 DEF IInv, PoolTypes
<1>5. /\ NoRepeats' /\ ThreadPlace' /\ Placed'
      /\ at' \in [Threads -> Serving \cup {"off", "wait", "blocked"}]
  BY <1>1, <1>4, ServesOn DEF Serving, placeVars
<1>6. PoolTypes'
  BY <1>1, <1>4, <1>5 DEF IInv, PoolTypes, placeVars
<1> QED BY <1>2, <1>5, <1>6 DEF IInv

LEMMA RunReturnsInv ==
    ASSUME IInv, NEW th \in Threads, NEW how \in {"delete", "finish", "sleep"},
           NEW forced \in BOOLEAN, NEW locked \in BOOLEAN, RunReturns(th, how, forced, locked)
    PROVE  IInv'
<1> DEFINE t == theTask[th]
<1>1. /\ at[th] \in {"running", "ran"} /\ at' = [at EXCEPT ![th] = how] /\ Unlock(th)
      /\ fUseThisThread' = [fUseThisThread EXCEPT ![t] = IF forced THEN th ELSE fUseThisThread[t]]
      /\ fWriteLock' = [fWriteLock EXCEPT ![t] = ~fWriteLock[t] /\ locked]
      /\ UNCHANGED <<started, fEvents, deleted, placeVars, theTask>>
  BY DEF RunReturns
<1>2. LockCounts'
  BY <1>1, UnlockLemma DEF IInv
<1>3. t \in Tasks
  BY <1>1, ServedTask DEF IInv, Serving
<1>4. /\ fUseThisThread' \in [Tasks -> Threads \cup {NULL}]
      /\ \A u \in Tasks \ {t} : fUseThisThread'[u] = fUseThisThread[u]
      /\ fUseThisThread'[t] \in {fUseThisThread[t], NULL, th}
  BY <1>1, <1>3 DEF IInv, PoolTypes
<1>5. fWriteLock' \in [Tasks -> BOOLEAN]
  BY <1>1, <1>3 DEF IInv, PoolTypes
<1>6. /\ NoRepeats' /\ ThreadPlace' /\ Placed'
      /\ at' \in [Threads -> Serving \cup {"off", "wait", "blocked"}]
  BY <1>1, <1>4, ServesOn DEF Serving, placeVars
<1>7. PoolTypes'
  BY <1>1, <1>4, <1>5, <1>6 DEF IInv, PoolTypes, placeVars
<1> QED BY <1>2, <1>6, <1>7 DEF IInv

-----------------------------------------------------------------------------
(* A thread is done with its task, which goes to the places S.             *)
LEMMA ReleasedPlaced ==
    ASSUME IInv, NEW th \in Threads, at[th] \in Serving, Released(th),
           NEW S \in SUBSET {<<"heap", th>>},
           UNCHANGED <<started, sending, fTaskQueue>>,
           \A u \in Tasks, k \in Threads :
              u \in SeqRange(fHeap'[k]) <=> u \in SeqRange(fHeap[k])
                                            \/ (u = theTask[th] /\ <<"heap", k>> \in S),
           \A u \in Tasks \ {theTask[th]} :
              /\ "alive" \in fEvents'[u] <=> "alive" \in fEvents[u]
              /\ fUseThisThread'[u] = fUseThisThread[u],
           fUseThisThread'[theTask[th]] \in {fUseThisThread[theTask[th]], NULL},
           "alive" \in fEvents'[theTask[th]] <=> S # {},
           deleted' \in {deleted, deleted \cup {theTask[th]}},
           S # {} => deleted' = deleted
    PROVE  /\ ThreadPlace' /\ Placed'
           /\ theTask' \in [Threads -> Tasks \cup {NULL}]
           /\ at' \in [Threads -> Serving \cup {"off", "wait", "blocked"}]
<1> USE DEF IInv
<1> DEFINE t == theTask[th]
<1>1. t \in Tasks /\ <<"thread", th>> \in Spots /\ t \in Here[<<"thread", th>>]
  BY ServedTask
<1>2. /\ t \notin deleted /\ "alive" \in fEvents[t]
      /\ fUseThisThread[t] = NULL \/ fUseThisThread[t] = th
  BY <1>1, OnlyThere
<1>3. /\ theTask' = [theTask EXCEPT ![th] = NULL] /\ at' = [at EXCEPT ![th] = "wait"]
  BY DEF Released
<1>4. /\ theTask' \in [Threads -> Tasks \cup {NULL}]
      /\ at' \in [Threads -> Serving \cup {"off", "wait", "blocked"}]
  BY <1>3 DEF PoolTypes
<1>5. ThreadPlace'
  <2>1. \A u \in Threads : /\ theTask'[u] = IF u = th THEN NULL ELSE theTask[u]
                           /\ at'[u] = IF u = th THEN "wait" ELSE at[u]
    BY <1>3 DEF PoolTypes
  <2>2. started
    BY StartedFact DEF Serving
  <2> QED BY <2>1, <2>2 DEF ThreadPlace, Serving
<1>6. Moved(t, S)
  <2>1. ASSUME NEW u \in Tasks, NEW r \in Parties
        PROVE  sending'[r] = u <=> IF u = t THEN <<"sending", r>> \in S ELSE sending[r] = u
    <3>1. sending[r] # t
      BY <1>1, OnlyThere
    <3> QED BY <3>1
  <2>2. ASSUME NEW u \in Tasks, NEW k \in Threads
        PROVE  u \in SeqRange(fTaskQueue'[k])
                  <=> IF u = t THEN <<"queue", k>> \in S ELSE u \in SeqRange(fTaskQueue[k])
    <3>1. t \notin SeqRange(fTaskQueue[k])
      BY <1>1, OnlyThere
    <3> QED BY <3>1
  <2>3. ASSUME NEW u \in Tasks, NEW k \in Threads
        PROVE  u \in SeqRange(fHeap'[k])
                  <=> IF u = t THEN <<"heap", k>> \in S ELSE u \in SeqRange(fHeap[k])
    <3>1. t \notin SeqRange(fHeap[k])
      BY <1>1, OnlyThere
    <3> QED BY <3>1
  <2>4. ASSUME NEW u \in Tasks, NEW k \in Threads
        PROVE  theTask'[k] = u <=> IF u = t THEN <<"thread", k>> \in S ELSE theTask[k] = u
    <3>1. theTask[k] = t <=> k = th
      BY <1>1, OnlyThere
    <3>2. theTask'[k] = IF k = th THEN NULL ELSE theTask[k]
      BY <1>3 DEF PoolTypes
    <3>3. u # NULL
      BY ConstantFacts
    <3> QED BY <3>1, <3>2, <3>3
  <2> HIDE DEF t
  <2> QED BY <1>1, <2>1, <2>2, <2>3, <2>4, MovedFacts
<1>7. /\ S \in SUBSET Spots /\ \A p, q \in S : p = q
      /\ \A p \in S : fUseThisThread'[t] = NULL \/ p[2] = fUseThisThread'[t]
  <2>1. \A p \in S : p = <<"heap", th>>
    OBVIOUS
  <2>2. fUseThisThread'[t] = NULL \/ fUseThisThread'[t] = th
    BY <1>2
  <2>3. <<"heap", th>> \in Spots
    BY SpotFacts
  <2> HIDE DEF t
  <2> QED BY <2>1, <2>2, <2>3
<1>8. /\ deleted \subseteq Tasks /\ deleted' \subseteq deleted \cup {t}
      /\ t \in deleted' => S = {}
      /\ "alive" \in fEvents'[t] <=> S # {}
  BY <1>1, <1>2 DEF PoolTypes
<1>9. Placed'
  <2> HIDE DEF t
  <2> QED BY <1>1, <1>6, <1>7, <1>8, MoveLemma DEF t
<1> QED BY <1>4, <1>5, <1>9

LEMMA DeleteTaskInv == ASSUME IInv, NEW th \in Threads, DeleteTask(th) PROVE IInv'
<1> DEFINE t == theTask[th]
<1>1. /\ at[th] = "delete" /\ Released(th) /\ deleted' = deleted \cup {t}
      /\ fEvents' = [fEvents EXCEPT ![t] = {}]
      /\ fUseThisThread' = [fUseThisThread EXCEPT ![t] = NULL]
      /\ UNCHANGED <<lockVars, started, fWriteLock, placeVars>>
  BY DEF DeleteTask
<1>2. LockCounts' /\ NoRepeats'
  BY <1>1, LockSame DEF IInv, NoRepeats, placeVars
<1>3. t \in Tasks
  BY <1>1, ServedTask DEF IInv, Serving
<1>4. /\ fEvents' \in [Tasks -> SUBSET (Events \cup {"alive", "idle"})]
      /\ fUseThisThread' \in [Tasks -> Threads \cup {NULL}]
      /\ deleted' \subseteq Tasks
      /\ fEvents'[t] = {} /\ fUseThisThread'[t] = NULL
      /\ \A u \in Tasks \ {t} : /\ fEvents'[u] = fEvents[u]
                                /\ fUseThisThread'[u] = fUseThisThread[u]
  BY <1>1, <1>3 DEF IInv, PoolTypes
<1>5. /\ ThreadPlace' /\ Placed'
      /\ theTask' \in [Threads -> Tasks \cup {NULL}]
      /\ at' \in [Threads -> Serving \cup {"off", "wait", "blocked"}]
  <2> DEFINE S == {}
  <2>1. S \in SUBSET {<<"heap", th>>} /\ S = {} /\ at[th] \in Serving
    BY <1>1 DEF Serving
  <2>2. UNCHANGED <<started, sending, fTaskQueue, fHeap>>
    BY <1>1 DEF placeVars
  <2>3. "alive" \in fEvents'[t] <=> S # {}
    BY <1>4
  <2>4. \A u \in Tasks, k \in Threads :
           u \in SeqRange(fHeap'[k]) <=> u \in SeqRange(fHeap[k]) \/ (u = t /\ <<"heap", k>> \in S)
    BY <2>2
  <2>5. \A u \in Tasks \ {t} : /\ "alive" \in fEvents'[u] <=> "alive" \in fEvents[u]
                               /\ fUseThisThread'[u] = fUseThisThread[u]
    BY <1>4
  <2>6. fUseThisThread'[t] \in {fUseThisThread[t], NULL} /\ deleted' \in {deleted, deleted \cup {t}}
    BY <1>1, <1>4
  <2> HIDE DEF S
  <2> QED BY <1>1, <2>1, <2>2, <2>3, <2>4, <2>5, <2>6, ReleasedPlaced
<1>6. PoolTypes'
  BY <1>1, <1>4, <1>5 DEF IInv, PoolTypes, placeVars
<1> QED BY <1>2, <1>5, <1>6 DEF IInv

LEMMA FinishTaskInv == ASSUME IInv, NEW th \in Threads, FinishTask(th) PROVE IInv'
<1> DEFINE t == theTask[th]
<1>1. /\ at[th] = "finish" /\ fEvents' = [fEvents EXCEPT ![t] = Finished(fEvents[t])]
      /\ UNCHANGED <<lockVars, started, fUseThisThread, fWriteLock, deleted, placeVars>>
  BY DEF FinishTask
<1>2. LockCounts' /\ NoRepeats'
  BY <1>1, LockSame DEF IInv, NoRepeats, placeVars
<1>3. t \in Tasks /\ "alive" \in fEvents[t] /\ at[th] \in Serving
  <2>1. t \in Tasks /\ <<"thread", th>> \in Spots /\ t \in Here[<<"thread", th>>]
    BY <1>1, ServedTask DEF IInv, Serving
  <2> QED BY <1>1, <2>1, OnlyThere DEF IInv, Serving
<1>4. /\ fEvents' \in [Tasks -> SUBSET (Events \cup {"alive", "idle"})]
      /\ fEvents'[t] = Finished(fEvents[t])
      /\ "alive" \in fEvents'[t] <=> Finished(fEvents[t]) # {}
      /\ \A u \in Tasks \ {t} : fEvents'[u] = fEvents[u]
  BY <1>1, <1>3 DEF IInv, PoolTypes, Finished
<1>5. UNCHANGED <<started, sending, fTaskQueue, fHeap, deleted, fUseThisThread>>
  BY <1>1 DEF placeVars
<1>6. /\ ThreadPlace' /\ Placed'
      /\ theTask' \in [Threads -> Tasks \cup {NULL}]
      /\ at' \in [Threads -> Serving \cup {"off", "wait", "blocked"}]
  <2>1. CASE Finished(fEvents[t]) = {}
    <3>1. Released(th)
      BY <2>1 DEF FinishTask
    <3> DEFINE S == {}
    <3>2. S \in SUBSET {<<"heap", th>>} /\ S = {}
      OBVIOUS
    <3>3. \A u \in Tasks, k \in Threads :
             u \in SeqRange(fHeap'[k]) <=> u \in SeqRange(fHeap[k]) \/ (u = t /\ <<"heap", k>> \in S)
      BY <1>5
    <3>4. "alive" \in fEvents'[t] <=> S # {}
      BY <1>4, <2>1
    <3>5. \A u \in Tasks \ {t} : /\ "alive" \in fEvents'[u] <=> "alive" \in fEvents[u]
                                 /\ fUseThisThread'[u] = fUseThisThread[u]
      BY <1>4, <1>5
    <3>6. fUseThisThread'[t] \in {fUseThisThread[t], NULL} /\ deleted' \in {deleted, deleted \cup {t}}
      BY <1>5
    <3> HIDE DEF S
    <3> QED BY <1>3, <1>5, <3>1, <3>2, <3>3, <3>4, <3>5, <3>6, ReleasedPlaced
  <2>2. CASE Finished(fEvents[t]) # {}
    <3>1. at' = [at EXCEPT ![th] = "lock"] /\ theTask' = theTask
      BY <2>2 DEF FinishTask
    <3>2. \A u \in Tasks : "alive" \in fEvents'[u] <=> "alive" \in fEvents[u]
      BY <1>3, <1>4, <2>2
    <3>3. ThreadPlace' /\ Placed' /\ at' \in [Threads -> Serving \cup {"off", "wait", "blocked"}]
      BY <1>3, <1>5, <3>1, <3>2, ServesOn DEF Serving
    <3> QED BY <3>1, <3>3 DEF IInv, PoolTypes
  <2> QED BY <2>1, <2>2
<1>7. PoolTypes'
  BY <1>1, <1>4, <1>6 DEF IInv, PoolTypes, placeVars
<1> QED BY <1>2, <1>6, <1>7 DEF IInv

LEMMA SleepTaskInv == ASSUME IInv, NEW th \in Threads, NEW d \in Delays, SleepTask(th, d) PROVE IInv'
<1> DEFINE t == theTask[th]
           h == fHeap[th]
<1>1. /\ at[th] = "sleep" /\ Released(th) /\ due' = [due EXCEPT ![t] = d]
      /\ fEvents' = [fEvents EXCEPT ![t] = fEvents[t] \cup {"idle"}]
      /\ UNCHANGED <<lockVars, started, fUseThisThread, fWriteLock, deleted, sending, fTaskQueue>>
  BY DEF SleepTask
<1>2. PICK i \in 0 .. Len(h) :
         fHeap' = [fHeap EXCEPT ![th] = SubSeq(h, 1, i) \o <<t>> \o SubSeq(h, i + 1, Len(h))]
  BY DEF SleepTask
<1>3. t \in Tasks /\ "alive" \in fEvents[t] /\ at[th] \in Serving /\ t \notin SeqRange(h)
  <2>1. t \in Tasks /\ <<"thread", th>> \in Spots /\ t \in Here[<<"thread", th>>]
    BY <1>1, ServedTask DEF IInv, Serving
  <2> QED BY <1>1, <2>1, OnlyThere DEF IInv, Serving
<1> DEFINE q == SubSeq(h, 1, i) \o <<t>> \o SubSeq(h, i + 1, Len(h))
<1>4. /\ q \in Seq(Tasks) /\ Distinct(q)
      /\ \A x : x \in SeqRange(q) <=> x \in SeqRange(h) \/ x = t
  <2>1. h \in Seq(Tasks) /\ Distinct(h)
    BY DEF IInv, PoolTypes, NoRepeats
  <2> HIDE DEF h
  <2> QED BY <1>3, <2>1, InsertedLemma
<1> HIDE DEF q
<1>5. /\ fHeap' \in [Threads -> Seq(Tasks)] /\ fHeap'[th] = q
      /\ \A k \in Threads \ {th} : fHeap'[k] = fHeap[k]
  BY <1>2, <1>4 DEF IInv, PoolTypes, q
<1>6. LockCounts'
  BY <1>1, LockSame DEF IInv
<1>7. NoRepeats'
  BY <1>1, <1>4, <1>5 DEF IInv, NoRepeats
<1>8. /\ fEvents' \in [Tasks -> SUBSET (Events \cup {"alive", "idle"})]
      /\ due' \in [Tasks -> Nat]
      /\ \A u \in Tasks : "alive" \in fEvents'[u] <=> "alive" \in fEvents[u]
  BY <1>1, <1>3, ConstantFacts DEF IInv, PoolTypes
<1>9. /\ ThreadPlace' /\ Placed'
      /\ theTask' \in [Threads -> Tasks \cup {NULL}]
      /\ at' \in [Threads -> Serving \cup {"off", "wait", "blocked"}]
  <2> DEFINE S == {<<"heap", th>>}
  <2>1. S \in SUBSET {<<"heap", th>>} /\ S # {}
    OBVIOUS
  <2>2. ASSUME NEW u \in Tasks, NEW k \in Threads
        PROVE  u \in SeqRange(fHeap'[k]) <=> u \in SeqRange(fHeap[k]) \/ (u = t /\ <<"heap", k>> \in S)
    <3>1. CASE k = th
      BY <1>4, <1>5, <3>1
    <3>2. CASE k # th
      BY <1>5, <3>2
    <3> QED BY <3>1, <3>2
  <2>3. "alive" \in fEvents'[t] <=> S # {}
    BY <1>3, <1>8
  <2>4. \A u \in Tasks \ {t} : /\ "alive" \in fEvents'[u] <=> "alive" \in fEvents[u]
                               /\ fUseThisThread'[u] = fUseThisThread[u]
    BY <1>1, <1>8
  <2>5. /\ fUseThisThread'[t] \in {fUseThisThread[t], NULL}
        /\ deleted' \in {deleted, deleted \cup {t}} /\ deleted' = deleted
    BY <1>1
  <2>6. UNCHANGED <<started, sending, fTaskQueue>>
    BY <1>1
  <2> HIDE DEF S
  <2> QED BY <1>1, <1>3, <2>1, <2>2, <2>3, <2>4, <2>5, <2>6, ReleasedPlaced
<1>10. PoolTypes'
  BY <1>1, <1>5, <1>8, <1>9 DEF IInv, PoolTypes
<1> QED BY <1>6, <1>7, <1>9, <1>10 DEF IInv

LEMMA TickInv == ASSUME IInv, Tick PROVE IInv'
<1> USE DEF IInv, Tick
<1>1. LockCounts' /\ NoRepeats' /\ ThreadPlace'
  BY LockSame DEF NoRepeats, ThreadPlace, threadVars
<1>2. PoolTypes'
  <2>1. due' \in [Tasks -> Nat]
    BY DEF PoolTypes
  <2> QED BY <2>1 DEF PoolTypes, taskVars, threadVars
<1>3. Placed'
  BY StayLemma DEF PoolTypes, taskVars, threadVars
<1> QED BY <1>1, <1>2, <1>3

-----------------------------------------------------------------------------
LEMMA NextInv == IInv /\ [Next]_vars => IInv'
<1> SUFFICES ASSUME IInv, [Next]_vars PROVE IInv'
  OBVIOUS
<1>1. CASE AddThreads
  BY <1>1, AddThreadsInv
<1>2. CASE \E s \in Senders, t \in Tasks, e \in Events : Signal(s, t, e)
  BY <1>2, SignalInv
<1>3. CASE \E th \in Threads, t \in Tasks, e \in Events : RunSignals(th, t, e)
  BY <1>3, RunSignalsInv
<1>4. CASE \E s \in Threads \cup Senders : EnQueue(s)
  BY <1>4, EnQueueInv DEF Parties
<1>5. CASE \E th \in Threads : ThreadStep(th) \/ LockWaitEnds(th)
  <2>1. PICK th \in Threads : ThreadStep(th) \/ LockWaitEnds(th)
    BY <1>5
  <2>2. CASE ExtractMin(th)
    BY <2>2, ExtractMinInv
  <2>3. CASE DeQueueBlocking(th) \/ DeQueue(th)
    BY <2>3, DeQueueInv
  <2>4. CASE StartRun(th)
    BY <2>4, StartRunInv
  <2>5. CASE KeepLocking(th) \/ LockWaitEnds(th)
    BY <2>5, KeepLockingInv
  <2>6. CASE GetEvents(th)
    BY <2>6, GetEventsInv
  <2>7. CASE \E how \in {"delete", "finish", "sleep"}, forced, locked \in BOOLEAN :
                RunReturns(th, how, forced, locked)
    BY <2>7, RunReturnsInv
  <2>8. CASE DeleteTask(th)
    BY <2>8, DeleteTaskInv
  <2>9. CASE FinishTask(th)
    BY <2>9, FinishTaskInv
  <2>10. CASE \E d \in Delays : SleepTask(th, d)
    BY <2>10, SleepTaskInv
  <2> QED BY <2>1, <2>2, <2>3, <2>4, <2>5, <2>6, <2>7, <2>8, <2>9, <2>10 DEF ThreadStep
<1>6. CASE Tick
  BY <1>6, TickInv
<1>7. CASE UNCHANGED vars
  BY <1>7, OthersSame, LockSame DEF vars, IInv
<1> QED BY <1>1, <1>2, <1>3, <1>4, <1>5, <1>6, <1>7 DEF Next

(* Places and events of the tasks, the tasks of the threads and the        *)
(* counters of the mutex agree in every reachable state (Task.cpp:50-250,  *)
(* OSMutexRW.cpp).                                                         *)
THEOREM InductiveInvariant == Spec => []IInv
<1>1. Init => IInv
  BY InitInv
<1>2. IInv /\ [Next]_vars => IInv'
  BY NextInv
<1> QED BY <1>1, <1>2, PTL DEF Spec

-----------------------------------------------------------------------------
LEMMA PlacesOf ==
    ASSUME IInv, NEW t \in Tasks
    PROVE  Cardinality(Places(t)) = IF "alive" \in fEvents[t] THEN 1 ELSE 0
<1> USE DEF IInv
<1> DEFINE senders == {s \in Threads \cup Senders : sending[s] = t}
           heaps == {th \in Threads : t \in SeqRange(fHeap[th])}
           threads == {th \in Threads : theTask[th] = t}
           at_(th) == {i \in DOMAIN fTaskQueue[th] : fTaskQueue[th][i] = t}
           queues == UNION {{<<"queue", th, i>> : i \in at_(th)} : th \in Threads}
<1>1. Places(t) = {<<"sending", s>> : s \in senders} \cup {<<"heap", th>> : th \in heaps}
                     \cup {<<"thread", th>> : th \in threads} \cup queues
  BY DEF Places
<1>2. \A th \in Threads : at_(th) # {} <=> t \in SeqRange(fTaskQueue[th])
  BY DEF SeqRange
<1>3. CASE "alive" \notin fEvents[t]
  <2>1. senders = {} /\ heaps = {} /\ threads = {}
    BY <1>3, Nowhere DEF Parties
  <2>2. \A th \in Threads : at_(th) = {}
    BY <1>2, <1>3, Nowhere
  <2>3. queues = {}
    BY <2>2
  <2>4. Places(t) = {}
    BY <1>1, <2>1, <2>3
  <2> QED BY <1>3, <2>4, FS_EmptySet
<1>4. CASE "alive" \in fEvents[t]
  <2>1. PICK p \in Spots : t \in Here[p]
    BY <1>4 DEF Placed
  <2>2. /\ \A s \in Parties : sending[s] = t <=> p = <<"sending", s>>
        /\ \A th \in Threads :
             /\ t \in SeqRange(fTaskQueue[th]) <=> p = <<"queue", th>>
             /\ t \in SeqRange(fHeap[th]) <=> p = <<"heap", th>>
             /\ theTask[th] = t <=> p = <<"thread", th>>
    BY <2>1, OnlyThere
  <2>3. \E x : Places(t) = {x}
    <3>1. CASE \E s \in Parties : p = <<"sending", s>>
      <4>1. PICK s \in Parties : p = <<"sending", s>>
        BY <3>1
      <4>2. senders = {s} /\ heaps = {} /\ threads = {}
        BY <2>2, <4>1 DEF Parties
      <4>3. \A th \in Threads : at_(th) = {}
        BY <1>2, <2>2, <4>1
      <4>4. queues = {}
        BY <4>3
      <4> HIDE DEF senders, heaps, threads, queues
      <4>5. Places(t) = {<<"sending", s>>}
        BY <1>1, <4>2, <4>4
      <4> QED BY <4>5
    <3>2. CASE \E th \in Threads : p = <<"heap", th>>
      <4>1. PICK th \in Threads : p = <<"heap", th>>
        BY <3>2
      <4>2. senders = {} /\ heaps = {th} /\ threads = {}
        BY <2>2, <4>1 DEF Parties
      <4>3. \A u \in Threads : at_(u) = {}
        BY <1>2, <2>2, <4>1
      <4>4. queues = {}
        BY <4>3
      <4> HIDE DEF senders, heaps, threads, queues
      <4>5. Places(t) = {<<"heap", th>>}
        BY <1>1, <4>2, <4>4
      <4> QED BY <4>5
    <3>3. CASE \E th \in Threads : p = <<"thread", th>>
      <4>1. PICK th \in Threads : p = <<"thread", th>>
        BY <3>3
      <4>2. senders = {} /\ heaps = {} /\ threads = {th}
        BY <2>2, <4>1 DEF Parties
      <4>3. \A u \in Threads : at_(u) = {}
        BY <1>2, <2>2, <4>1
      <4>4. queues = {}
        BY <4>3
      <4> HIDE DEF senders, heaps, threads, queues
      <4>5. Places(t) = {<<"thread", th>>}
        BY <1>1, <4>2, <4>4
      <4> QED BY <4>5
    <3>4. CASE \E th \in Threads : p = <<"queue", th>>
      <4>1. PICK th \in Threads : p = <<"queue", th>>
        BY <3>4
      <4>2. senders = {} /\ heaps = {} /\ threads = {}
        BY <2>2, <4>1 DEF Parties
      <4>3. \A u \in Threads \ {th} : at_(u) = {}
        BY <1>2, <2>2, <4>1
      <4>4. PICK i : i \in at_(th)
        BY <1>2, <2>2, <4>1
      <4>5. at_(th) = {i}
        BY <4>4 DEF NoRepeats, Distinct
      <4>6. queues = {<<"queue", th, i>>}
        <5> HIDE DEF at_
        <5> QED BY <4>3, <4>5
      <4> HIDE DEF senders, heaps, threads, queues
      <4>7. Places(t) = {<<"queue", th, i>>}
        BY <1>1, <4>2, <4>6
      <4> QED BY <4>7
    <3> QED BY <2>1, <3>1, <3>2, <3>3, <3>4, SpotFacts
  <2> QED BY <1>4, <2>3, FS_Singleton
<1> QED BY <1>3, <1>4

LEMMA PlacedWell == IInv => TasksPlaced
<1> SUFFICES ASSUME IInv PROVE TasksPlaced
  OBVIOUS
<1>1. TypeOK
  <2>1. LockTypeOK
    BY LockType DEF IInv
  <2>2. \A th \in Threads : SeqRange(fTaskQueue[th]) \subseteq Tasks /\ SeqRange(fHeap[th]) \subseteq Tasks
    BY RangeFacts DEF IInv, PoolTypes
  <2> QED BY <2>1, <2>2 DEF TypeOK, IInv, PoolTypes, Parties, Serving
<1>2. TaskInOnePlace
  BY PlacesOf DEF TaskInOnePlace
<1>3. SameThread
  <2> SUFFICES ASSUME NEW t \in Tasks, NEW th \in Threads, fUseThisThread[t] # NULL,
                      t \in SeqRange(fTaskQueue[th]) \/ t \in SeqRange(fHeap[th]) \/ theTask[th] = t
               PROVE  fUseThisThread[t] = th
    BY DEF SameThread
  <2>1. t # NULL
    BY ConstantFacts
  <2>2. PICK k \in {"queue", "heap", "thread"} : t \in Here[<<k, th>>]
    BY <2>1, HereFacts
  <2>3. <<k, th>> \in Spots
    BY SpotFacts
  <2>4. fUseThisThread[t] = NULL \/ k = "sending" \/ fUseThisThread[t] = th
    BY <2>2, <2>3, OnlyThere DEF IInv
  <2> QED BY <2>4
<1> QED BY <1>1, <1>2, <1>3 DEF TasksPlaced

(* A task is in one place as long as it is alive and in none otherwise,    *)
(* and on the thread it asked for, whoever signals it meanwhile            *)
(* (Task.cpp:68-98, 189-250).                                              *)
THEOREM TasksInPlace == Spec => []TasksPlaced
BY InductiveInvariant, PlacedWell, PTL

-----------------------------------------------------------------------------
(* The mutex, when at most one task calls CallLocked.                      *)

(* fState says who holds the mutex, and writers hold it without readers.   *)
LockExact ==
    /\ fState = IF Holders("write") # {} THEN -1 ELSE Cardinality(Holders("read"))
    /\ Holders("write") # {} => Holders("read") = {}

InLock == {"locking", "running", "ran"}
WriteKinds == {"write", "writersCond", "writerWoken"}

(* A thread has to do with the mutex just from StartRun to RunReturns, and *)
(* as a writer just for a task that called CallLocked.                     *)
LockUse ==
    /\ \A th \in Threads :
          /\ at[th] \in InLock <=> holds[th] # "nothing"
          /\ at[th] \in {"running", "ran"} => holds[th] \in {"read", "write"}
          /\ at[th] \in InLock => (holds[th] \in WriteKinds <=> fWriteLock[theTask[th]])
    /\ \A t \in Tasks : fWriteLock[t] => t \in LockingTasks

LInv == IInv /\ LockExact /\ LockUse

OneLocks == \A a, b \in LockingTasks : a = b

LEMMA TryReadExact ==
    ASSUME LockCounts, LockExact, NEW th \in Threads,
           holds[th] \in {"nothing", "readerWoken"}, TryRead(th)
    PROVE  LockExact' /\ holds'[th] \in {"read", "readersCond"}
<1>1. \A h \in {"readersCond", "read"} :
         holds' = [holds EXCEPT ![th] = h] =>
            \A u \in Threads : holds'[u] = IF u = th THEN h ELSE holds[u]
  BY DEF LockCounts
<1>2. Cardinality(Holders("read")) \in Nat
  BY Count DEF Holders
<1>3. CASE ReaderMustWait
  <2>1. \A u \in Threads : holds'[u] = IF u = th THEN "readersCond" ELSE holds[u]
    BY <1>1, <1>3 DEF TryRead
  <2>2. Holders("read")' = Holders("read") /\ Holders("write")' = Holders("write")
    BY <2>1 DEF Holders
  <2> QED BY <1>3, <2>1, <2>2 DEF TryRead, LockExact
<1>4. CASE ~ReaderMustWait
  <2>1. \A u \in Threads : holds'[u] = IF u = th THEN "read" ELSE holds[u]
    BY <1>1, <1>4 DEF TryRead
  <2>2. /\ Holders("read")' = Holders("read") \cup {th} /\ th \notin Holders("read")
        /\ Holders("write")' = Holders("write")
    BY <2>1 DEF Holders
  <2>3. Cardinality(Holders("read")') = Cardinality(Holders("read")) + 1
    <3>1. Holders("read") \in SUBSET Threads
      BY DEF Holders
    <3> QED BY <2>2, <3>1, Count
  <2>4. Holders("write") = {} /\ fState = Cardinality(Holders("read"))
    BY <1>4 DEF ReaderMustWait, ActiveWriter, LockExact
  <2>5. fState' = fState + 1
    BY <1>4 DEF TryRead
  <2> QED BY <2>1, <2>2, <2>3, <2>4, <2>5 DEF LockExact
<1> QED BY <1>3, <1>4

(* A writer does not look for other writers: there must be none.           *)
LEMMA TryWriteExact ==
    ASSUME LockCounts, LockExact, NEW th \in Threads, NEW n \in Nat, TryWrite(th, n),
           holds[th] \in {"nothing", "writerWoken"}, Holders("write") = {}
    PROVE  LockExact' /\ holds'[th] \in {"write", "writersCond"}
<1>1. \A h \in {"writersCond", "write"} :
         holds' = [holds EXCEPT ![th] = h] =>
            \A u \in Threads : holds'[u] = IF u = th THEN h ELSE holds[u]
  BY DEF LockCounts
<1>2. fState = Cardinality(Holders("read")) /\ Cardinality(Holders("read")) \in Nat
  BY Count DEF Holders, LockExact
<1>3. CASE WriterMustWait
  <2>1. \A u \in Threads : holds'[u] = IF u = th THEN "writersCond" ELSE holds[u]
    BY <1>1, <1>3 DEF TryWrite
  <2>2. Holders("read")' = Holders("read") /\ Holders("write")' = Holders("write")
    BY <2>1 DEF Holders
  <2> QED BY <1>3, <2>1, <2>2 DEF TryWrite, LockExact
<1>4. CASE ~WriterMustWait
  <2>1. \A u \in Threads : holds'[u] = IF u = th THEN "write" ELSE holds[u]
    BY <1>1, <1>4 DEF TryWrite
  <2>2. Cardinality(Holders("read")) = 0
    BY <1>2, <1>4 DEF WriterMustWait, ActiveReaders
  <2>3. Holders("read") = {}
    BY <2>2, Count DEF Holders
  <2>4. Holders("read")' = {} /\ Holders("write")' = {th}
    BY <2>1, <2>3 DEF Holders
  <2>5. fState' = -1
    BY <1>4 DEF TryWrite
  <2> QED BY <2>1, <2>4, <2>5 DEF LockExact
<1> QED BY <1>3, <1>4

LEMMA UnlockExact ==
    ASSUME LockCounts, LockExact, NEW th \in Threads, Unlock(th),
           \A u \in Holders("write") : holds[th] = "write" => u = th
    PROVE  LockExact'
<1>1. /\ Holders("read")' = Holders("read") \ {th}
      /\ Holders("write")' = Holders("write") \ {th}
  BY UnlockLemma DEF Holders
<1>2. /\ Cardinality(Holders("read")) \in Nat
      /\ Cardinality(Holders("read")) = 0 <=> Holders("read") = {}
      /\ Cardinality(Holders("read")') = IF th \in Holders("read")
                                         THEN Cardinality(Holders("read")) - 1
                                         ELSE Cardinality(Holders("read"))
  <2>1. Holders("read") \in SUBSET Threads
    BY DEF Holders
  <2> QED BY <1>1, <2>1, Count
<1>3. CASE holds[th] = "write"
  <2>1. Holders("write") = {th}
    BY <1>3 DEF Holders
  <2>2. fState = -1 /\ Holders("read") = {}
    BY <2>1 DEF LockExact
  <2>3. fState' = 0
    BY <2>2 DEF Unlock
  <2>4. Holders("write")' = {} /\ Holders("read")' = {} /\ Cardinality(Holders("read")') = 0
    BY <1>1, <1>2, <2>1, <2>2
  <2> QED BY <2>3, <2>4 DEF LockExact
<1>4. CASE holds[th] = "read"
  <2>1. th \in Holders("read")
    BY <1>4 DEF Holders
  <2>2. Holders("write") = {} /\ fState = Cardinality(Holders("read"))
    BY <2>1 DEF LockExact
  <2>3. fState \in Nat /\ fState # 0
    BY <1>2, <2>1, <2>2
  <2>4. fState' = fState - 1
    BY <2>3 DEF Unlock, ActiveWriter
  <2>5. Holders("write")' = {} /\ Cardinality(Holders("read")') = fState - 1
    BY <1>1, <1>2, <2>1, <2>2
  <2> QED BY <2>4, <2>5 DEF LockExact
<1> QED BY <1>3, <1>4 DEF Unlock

(* Tasks of different threads differ.                                      *)
LEMMA TasksDiffer ==
    ASSUME IInv, NEW th \in Threads, NEW u \in Threads, u # th, at[u] \in Serving
    PROVE  theTask[u] \in Tasks /\ theTask[u] # theTask[th]
<1>1. theTask[u] \in Tasks /\ theTask[u] # NULL
  BY DEF IInv, ThreadPlace, PoolTypes
<1>2. SUFFICES ASSUME theTask[u] = theTask[th] PROVE FALSE
  BY <1>1
<1>3. <<"thread", th>> \in Spots /\ <<"thread", u>> \in Spots
  BY SpotFacts
<1>4. Here[<<"thread", th>>] = {theTask[th]} \ {NULL} /\ Here[<<"thread", u>>] = {theTask[u]} \ {NULL}
  BY HereFacts
<1>5. theTask[u] \in Here[<<"thread", th>>] /\ theTask[u] \in Here[<<"thread", u>>]
  BY <1>1, <1>2, <1>4
<1>6. <<"thread", th>> = <<"thread", u>>
  BY <1>1, <1>3, <1>5 DEF IInv, Placed
<1> QED BY <1>6

(* Threads that lock for writing are one, as they have the task that locks.*)
LEMMA OneWrites ==
    ASSUME LInv, OneLocks, NEW th \in Threads, at[th] \in Serving, fWriteLock[theTask[th]]
    PROVE  \A u \in Holders("write") : u = th
<1> SUFFICES ASSUME NEW u \in Threads, holds[u] = "write" PROVE u = th
  BY DEF Holders
<1>1. at[u] \in InLock /\ fWriteLock[theTask[u]]
  BY DEF LInv, LockUse, WriteKinds
<1>2. at[u] \in Serving
  BY <1>1 DEF InLock, Serving
<1>3. theTask[th] \in Tasks /\ theTask[u] \in Tasks
  BY <1>2 DEF LInv, IInv, ThreadPlace, PoolTypes
<1>4. theTask[th] = theTask[u]
  BY <1>1, <1>3 DEF LInv, LockUse, OneLocks
<1> QED BY <1>2, <1>4, TasksDiffer DEF LInv

(* A step without the mutex.                                               *)
LEMMA UseStays ==
    ASSUME LInv, UNCHANGED lockVars, UNCHANGED fWriteLock,
           \A u \in Threads :
              /\ at'[u] \in InLock <=> at[u] \in InLock
              /\ at[u] \in InLock => theTask'[u] = theTask[u]
              /\ at'[u] \in {"running", "ran"} => holds[u] \in {"read", "write"}
    PROVE  LockExact' /\ LockUse'
<1>1. LockExact'
  BY DEF LInv, LockExact, lockVars, Holders
<1>2. LockUse'
  BY DEF LInv, LockUse, lockVars
<1> QED BY <1>1, <1>2

(* A step of th with the mutex, which may wake others up.                  *)
LEMMA UseChanges ==
    ASSUME LInv, NEW th \in Threads, at[th] \in Serving, UNCHANGED theTask,
           \A u \in Threads \ {th} :
              /\ at'[u] = at[u]
              /\ \/ holds'[u] = holds[u]
                 \/ holds[u] = "writersCond" /\ holds'[u] = "writerWoken"
                 \/ holds[u] = "readersCond" /\ holds'[u] = "readerWoken",
           \A t \in Tasks \ {theTask[th]} : fWriteLock'[t] = fWriteLock[t],
           theTask[th] \in Tasks,
           fWriteLock'[theTask[th]] => theTask[th] \in LockingTasks,
           at'[th] \in InLock <=> holds'[th] # "nothing",
           at'[th] \in {"running", "ran"} => holds'[th] \in {"read", "write"},
           at'[th] \in InLock => (holds'[th] \in WriteKinds <=> fWriteLock'[theTask[th]])
    PROVE  LockUse'
<1>1. ASSUME NEW u \in Threads \ {th}
      PROVE  /\ at'[u] \in InLock <=> holds'[u] # "nothing"
             /\ at'[u] \in {"running", "ran"} => holds'[u] \in {"read", "write"}
             /\ at'[u] \in InLock => (holds'[u] \in WriteKinds <=> fWriteLock'[theTask[u]])
  <2>1. /\ at[u] \in InLock <=> holds[u] # "nothing"
        /\ at[u] \in {"running", "ran"} => holds[u] \in {"read", "write"}
        /\ at[u] \in InLock => (holds[u] \in WriteKinds <=> fWriteLock[theTask[u]])
    BY DEF LInv, LockUse
  <2>2. at[u] \in InLock => fWriteLock'[theTask[u]] = fWriteLock[theTask[u]]
    BY TasksDiffer DEF LInv, InLock, Serving
  <2> QED BY <2>1, <2>2 DEF WriteKinds
<1>2. \A t \in Tasks : fWriteLock'[t] => t \in LockingTasks
  BY DEF LInv, LockUse
<1> QED BY <1>1, <1>2 DEF LockUse

LEMMA ServedFact ==
    ASSUME LInv, NEW th \in Threads, at[th] \in Serving
    PROVE  theTask[th] \in Tasks /\ fWriteLock[theTask[th]] \in BOOLEAN
BY DEF LInv, IInv, ThreadPlace, PoolTypes

LEMMA StartRunExact ==
    ASSUME LInv, OneLocks, NEW th \in Threads, StartRun(th)
    PROVE  LockExact' /\ LockUse'
<1>1. at[th] = "lock" /\ at[th] \in Serving /\ holds[th] = "nothing"
  BY DEF StartRun, LInv, LockUse, InLock, Serving
<1>2. theTask[th] \in Tasks /\ fWriteLock[theTask[th]] \in BOOLEAN
  BY <1>1, ServedFact
<1>3. /\ at'[th] = "locking" /\ UNCHANGED <<theTask, fWriteLock>>
      /\ \A u \in Threads \ {th} : at'[u] = at[u]
  BY DEF StartRun, LInv, IInv, PoolTypes
<1>4. LockCounts /\ LockExact /\ LockUse /\ fWriteWaiters + 1 \in Nat
  <2>1. fWriteWaiters \in Nat
    BY Count DEF LInv, IInv, LockCounts, Waiting, Holders
  <2> QED BY <2>1 DEF LInv, IInv
<1>5. /\ LockExact'
      /\ holds'[th] \in {"read", "readersCond", "write", "writersCond"}
      /\ holds'[th] \in WriteKinds <=> fWriteLock[theTask[th]]
      /\ \A u \in Threads \ {th} : holds'[u] = holds[u]
  <2>1. CASE fWriteLock[theTask[th]]
    <3>1. LockWrite(th)
      BY <2>1 DEF StartRun
    <3>2. Holders("write") = {}
      <4>1. th \notin Holders("write")
        BY <1>1 DEF Holders
      <4> QED BY <1>1, <2>1, <4>1, OneWrites
    <3>3. LockExact' /\ holds'[th] \in {"write", "writersCond"}
      BY <1>1, <1>4, <3>1, <3>2, TryWriteExact DEF LockWrite
    <3>4. \A u \in Threads \ {th} : holds'[u] = holds[u]
      BY <1>4, <3>1 DEF LockWrite, TryWrite, LockCounts
    <3> QED BY <2>1, <3>3, <3>4 DEF WriteKinds
  <2>2. CASE ~fWriteLock[theTask[th]]
    <3>1. LockRead(th)
      BY <2>2 DEF StartRun
    <3>2. LockExact' /\ holds'[th] \in {"read", "readersCond"}
      BY <1>1, <1>4, <3>1, TryReadExact DEF LockRead
    <3>3. \A u \in Threads \ {th} : holds'[u] = holds[u]
      BY <1>4, <3>1 DEF LockRead, TryRead, LockCounts
    <3> QED BY <2>2, <3>2, <3>3 DEF WriteKinds
  <2> QED BY <1>2, <2>1, <2>2
<1>6. fWriteLock[theTask[th]] => theTask[th] \in LockingTasks
  BY <1>2, <1>4 DEF LockUse
<1>7. LockUse'
  BY <1>1, <1>2, <1>3, <1>5, <1>6, UseChanges DEF InLock
<1> QED BY <1>5, <1>7

(* A thread that is woken stays what it is, and so does one whose wait ends.*)
LEMMA LockAgainExact ==
    ASSUME LInv, OneLocks, NEW th \in Threads, KeepLocking(th) \/ LockWaitEnds(th)
    PROVE  LockExact' /\ LockUse'
<1>1. /\ holds[th] \in {"readerWoken", "writerWoken", "readersCond", "writersCond"}
      /\ UNCHANGED <<at, theTask, fWriteLock>>
  BY DEF KeepLocking, LockWaitEnds, LockAgain, WaitEnds, threadVars, taskVars
<1>2. at[th] \in InLock /\ at[th] \notin {"running", "ran"} /\ at[th] \in Serving
  BY <1>1 DEF LInv, LockUse, InLock, Serving
<1>3. theTask[th] \in Tasks /\ fWriteLock[theTask[th]] \in BOOLEAN
  BY <1>2, ServedFact
<1>4. LockCounts /\ LockExact /\ LockUse /\ fWriteWaiters \in Nat
  <2>1. fWriteWaiters \in Nat
    BY Count DEF LInv, IInv, LockCounts, Waiting, Holders
  <2> QED BY <2>1 DEF LInv, IInv
<1>5. holds[th] \in WriteKinds <=> fWriteLock[theTask[th]]
  BY <1>2, <1>4 DEF LockUse
<1>6. /\ LockExact'
      /\ holds'[th] # "nothing" /\ (holds'[th] \in WriteKinds <=> holds[th] \in WriteKinds)
      /\ \A u \in Threads \ {th} : holds'[u] = holds[u]
  <2>1. CASE holds[th] = "readerWoken" /\ TryRead(th)
    <3>1. LockExact' /\ holds'[th] \in {"read", "readersCond"}
      BY <1>4, <2>1, TryReadExact
    <3>2. \A u \in Threads \ {th} : holds'[u] = holds[u]
      BY <1>4, <2>1 DEF TryRead, LockCounts
    <3> QED BY <2>1, <3>1, <3>2 DEF WriteKinds
  <2>2. CASE holds[th] = "writerWoken" /\ TryWrite(th, fWriteWaiters)
    <3>1. Holders("write") = {}
      <4>1. th \notin Holders("write") /\ fWriteLock[theTask[th]]
        BY <1>5, <2>2 DEF Holders, WriteKinds
      <4> QED BY <1>2, <4>1, OneWrites
    <3>2. LockExact' /\ holds'[th] \in {"write", "writersCond"}
      BY <1>4, <2>2, <3>1, TryWriteExact
    <3>3. \A u \in Threads \ {th} : holds'[u] = holds[u]
      BY <1>4, <2>2 DEF TryWrite, LockCounts
    <3> QED BY <2>2, <3>2, <3>3 DEF WriteKinds
  <2>3. CASE WaitEnds(th)
    <3>1. /\ \A u \in Threads \ {th} : holds'[u] = holds[u]
          /\ \/ holds[th] = "readersCond" /\ holds'[th] = "readerWoken"
             \/ holds[th] = "writersCond" /\ holds'[th] = "writerWoken"
          /\ fState' = fState
      BY <1>4, <2>3 DEF WaitEnds, LockCounts
    <3>2. Holders("read")' = Holders("read") /\ Holders("write")' = Holders("write")
      BY <3>1 DEF Holders
    <3> QED BY <1>4, <3>1, <3>2 DEF LockExact, WriteKinds
  <2> QED BY <2>1, <2>2, <2>3 DEF KeepLocking, LockWaitEnds, LockAgain
<1>7. fWriteLock[theTask[th]] => theTask[th] \in LockingTasks
  BY <1>3, <1>4 DEF LockUse
<1>8. LockUse'
  BY <1>1, <1>2, <1>3, <1>5, <1>6, <1>7, UseChanges
<1> QED BY <1>6, <1>8

LEMMA RunReturnsExact ==
    ASSUME LInv, OneLocks, NEW th \in Threads, NEW how \in {"delete", "finish", "sleep"},
           NEW forced \in BOOLEAN, NEW locked \in BOOLEAN, RunReturns(th, how, forced, locked)
    PROVE  LockExact' /\ LockUse'
<1>1. /\ at[th] \in {"running", "ran"} /\ at[th] \in InLock /\ at[th] \in Serving
      /\ Unlock(th) /\ UNCHANGED theTask
  BY DEF RunReturns, InLock, Serving
<1>2. theTask[th] \in Tasks
  BY <1>1, ServedFact
<1>3. LockCounts /\ LockExact /\ LockUse
  BY DEF LInv, IInv
<1>4. /\ holds'[th] = "nothing"
      /\ \A u \in Threads \ {th} :
            \/ holds'[u] = holds[u]
            \/ holds[u] = "writersCond" /\ holds'[u] = "writerWoken"
            \/ holds[u] = "readersCond" /\ holds'[u] = "readerWoken"
  BY <1>1, <1>3, UnlockLemma
<1>5. LockExact'
  <2>1. ASSUME holds[th] = "write" PROVE \A u \in Holders("write") : u = th
    <3>1. fWriteLock[theTask[th]]
      BY <1>1, <1>3, <2>1 DEF LockUse, WriteKinds
    <3> QED BY <1>1, <3>1, OneWrites
  <2> QED BY <1>1, <1>3, <2>1, UnlockExact
<1>6. /\ at'[th] = how /\ at'[th] \notin InLock
      /\ \A u \in Threads \ {th} : at'[u] = at[u]
      /\ \A t \in Tasks \ {theTask[th]} : fWriteLock'[t] = fWriteLock[t]
      /\ fWriteLock'[theTask[th]] => theTask[th] \in LockingTasks
  BY <1>2 DEF RunReturns, LInv, IInv, PoolTypes, InLock
<1>7. LockUse'
  <2>1. at'[th] \notin {"running", "ran"}
    BY <1>6 DEF InLock
  <2> QED BY <1>1, <1>2, <1>4, <1>6, <2>1, UseChanges
<1> QED BY <1>5, <1>7

(* The steps of one thread.                                                *)
LEMMA ThreadStepExact ==
    ASSUME LInv, OneLocks, NEW th \in Threads, ThreadStep(th) \/ LockWaitEnds(th)
    PROVE  LockExact' /\ LockUse'
<1>1. \A x : [at EXCEPT ![th] = x][th] = x /\ \A u \in Threads \ {th} : [at EXCEPT ![th] = x][u] = at[u]
  BY DEF LInv, IInv, PoolTypes
<1>2. \A x : \A u \in Threads \ {th} : [theTask EXCEPT ![th] = x][u] = theTask[u]
  BY DEF LInv, IInv, PoolTypes
<1>3. \A u \in Threads : at[u] \in {"running", "ran"} => holds[u] \in {"read", "write"}
  BY DEF LInv, LockUse
<1>4. CASE ExtractMin(th)
  BY <1>1, <1>2, <1>3, <1>4, UseStays DEF ExtractMin, Take, InLock, taskVars
<1>5. CASE DeQueueBlocking(th)
  <2>1. /\ at[th] = "wait"
        /\ \E x \in {"blocked", "exited", "lock", "wait"} : at' = [at EXCEPT ![th] = x]
        /\ theTask' = theTask \/ \E t : theTask' = [theTask EXCEPT ![th] = t]
        /\ UNCHANGED lockVars /\ UNCHANGED fWriteLock
    BY <1>5 DEF DeQueueBlocking, TakeFromQueue, Take, taskVars
  <2>2. /\ at'[th] \in {"blocked", "exited", "lock", "wait"}
        /\ \A u \in Threads \ {th} : at'[u] = at[u]
    BY <1>1, <2>1
  <2>3. \A u \in Threads \ {th} : theTask'[u] = theTask[u]
    BY <1>2, <2>1
  <2> QED BY <1>3, <2>1, <2>2, <2>3, UseStays DEF InLock
<1>6. CASE DeQueue(th)
  <2>1. /\ at[th] = "blocked"
        /\ \E x \in {"blocked", "exited", "lock", "wait"} : at' = [at EXCEPT ![th] = x]
        /\ theTask' = theTask \/ \E t : theTask' = [theTask EXCEPT ![th] = t]
        /\ UNCHANGED lockVars /\ UNCHANGED fWriteLock
    BY <1>6 DEF DeQueue, TakeFromQueue, Take, taskVars
  <2>2. /\ at'[th] \in {"blocked", "exited", "lock", "wait"}
        /\ \A u \in Threads \ {th} : at'[u] = at[u]
    BY <1>1, <2>1
  <2>3. \A u \in Threads \ {th} : theTask'[u] = theTask[u]
    BY <1>2, <2>1
  <2> QED BY <1>3, <2>1, <2>2, <2>3, UseStays DEF InLock
<1>7. CASE GetEvents(th)
  BY <1>1, <1>3, <1>7, UseStays DEF GetEvents, InLock
<1>8. CASE DeleteTask(th)
  BY <1>1, <1>2, <1>3, <1>8, UseStays DEF DeleteTask, Released, InLock
<1>9. CASE FinishTask(th)
  <2>1. /\ at[th] = "finish"
        /\ \E x \in {"blocked", "exited", "lock", "wait"} : at' = [at EXCEPT ![th] = x]
        /\ theTask' = theTask \/ \E t : theTask' = [theTask EXCEPT ![th] = t]
        /\ UNCHANGED lockVars /\ UNCHANGED fWriteLock
    BY <1>9 DEF FinishTask, Released, taskVars
  <2>2. /\ at'[th] \in {"blocked", "exited", "lock", "wait"}
        /\ \A u \in Threads \ {th} : at'[u] = at[u]
    BY <1>1, <2>1
  <2>3. \A u \in Threads \ {th} : theTask'[u] = theTask[u]
    BY <1>2, <2>1
  <2> QED BY <1>3, <2>1, <2>2, <2>3, UseStays DEF InLock
<1>10. CASE \E d \in Delays : SleepTask(th, d)
  BY <1>1, <1>2, <1>3, <1>10, UseStays DEF SleepTask, Released, InLock
<1> QED BY <1>4, <1>5, <1>6, <1>7, <1>8, <1>9, <1>10,
           StartRunExact, LockAgainExact, RunReturnsExact DEF ThreadStep

LEMMA NextExact == ASSUME OneLocks, LInv, [Next]_vars PROVE LInv'
<1>1. IInv'
  BY NextInv DEF LInv
<1>2. LockExact' /\ LockUse'
  <2>1. \A u \in Threads : at[u] \in {"running", "ran"} => holds[u] \in {"read", "write"}
    BY DEF LInv, LockUse
  <2>2. CASE AddThreads
    <3>1. \A u \in Threads : at[u] = "off" /\ at'[u] = "wait"
      BY <2>2 DEF AddThreads, LInv, IInv, ThreadPlace
    <3> QED BY <2>2, <3>1, UseStays DEF AddThreads, InLock, taskVars
  <2>3. CASE \E s \in Senders, t \in Tasks, e \in Events : Signal(s, t, e)
    BY <2>1, <2>3, UseStays DEF Signal, SignalTask
  <2>4. CASE \E th \in Threads, t \in Tasks, e \in Events : RunSignals(th, t, e)
    <3>1. PICK th \in Threads, t \in Tasks, e \in Events : RunSignals(th, t, e)
      BY <2>4
    <3>2. at[th] = "running" /\ at'[th] = "ran" /\ \A u \in Threads \ {th} : at'[u] = at[u]
      BY <3>1 DEF RunSignals, LInv, IInv, PoolTypes
    <3> QED BY <2>1, <3>1, <3>2, UseStays DEF RunSignals, SignalTask, InLock
  <2>5. CASE \E s \in Threads \cup Senders : EnQueue(s)
    BY <2>1, <2>5, UseStays DEF EnQueue, threadVars, taskVars
  <2>6. CASE \E th \in Threads : ThreadStep(th) \/ LockWaitEnds(th)
    BY <2>6, ThreadStepExact
  <2>7. CASE Tick
    BY <2>1, <2>7, UseStays DEF Tick, threadVars, taskVars
  <2>8. CASE UNCHANGED vars
    BY <2>1, <2>8, UseStays DEF vars, threadVars, taskVars
  <2> QED BY <2>2, <2>3, <2>4, <2>5, <2>6, <2>7, <2>8 DEF Next
<1> QED BY <1>1, <1>2 DEF LInv

LEMMA InitExact == Init => LInv
<1> SUFFICES ASSUME Init PROVE LInv
  OBVIOUS
<1>1. \A kind \in {"read", "write"} : Holders(kind) = {}
  BY DEF Init, LockInit, Holders
<1>2. LockExact
  BY <1>1, FS_EmptySet DEF Init, LockInit, LockExact
<1>3. LockUse
  BY DEF Init, LockInit, LockUse, InLock
<1> QED BY <1>2, <1>3, InitInv DEF LInv

(* A thread that runs a task that called CallLocked holds the mutex for    *)
(* writing, so that no other holds it, which each that runs a task does.   *)
LEMMA LocksWell == ASSUME OneLocks, LInv PROVE LockingCorrect
<1>1. LockStateExact
  BY DEF LockStateExact, LInv, LockExact, IInv, LockCounts, Waiting
<1>2. LockedRunsAlone
  <2> SUFFICES ASSUME NEW th \in Threads, InRun(th), fWriteLock[theTask[th]],
                      NEW u \in Threads \ {th}, InRun(u)
               PROVE  FALSE
    BY DEF LockedRunsAlone
  <2>1. at[th] \in InLock /\ at[th] \in Serving
    BY DEF InRun, InLock, Serving
  <2>2. holds[th] = "write" /\ holds[u] \in {"read", "write"}
    <3>1. holds[th] \in {"read", "write"} /\ holds[th] \in WriteKinds
      BY <2>1 DEF LInv, LockUse, InRun
    <3> QED BY <3>1 DEF LInv, LockUse, InRun, WriteKinds
  <2>3. th \in Holders("write")
    BY <2>2 DEF Holders
  <2>4. holds[u] # "read"
    BY <2>3 DEF LInv, LockExact, Holders
  <2>5. holds[u] = "write"
    BY <2>2, <2>4
  <2>6. u \in Holders("write")
    BY <2>5 DEF Holders
  <2> QED BY <2>1, <2>6, OneWrites
<1> QED BY <1>1, <1>2 DEF LockingCorrect

(* If one task calls CallLocked, the mutex knows who holds it, and no task *)
(* is invoked next to an invocation that CallLocked asked for              *)
(* (OSMutexRW.cpp, Task.cpp:189-215), which two such tasks would break.    *)
THEOREM LocksCorrect ==
    ASSUME \A a, b \in LockingTasks : a = b
    PROVE  Spec => []LockingCorrect
<1>1. OneLocks
  BY DEF OneLocks
<1>2. Init => LInv
  BY InitExact
<1>3. LInv /\ [Next]_vars => LInv'
  BY <1>1, NextExact
<1>4. LInv => LockingCorrect
  BY <1>1, LocksWell
<1> QED BY <1>2, <1>3, <1>4, PTL DEF Spec

-----------------------------------------------------------------------------
(* What the refinement mapping of TaskPool gives the variables of          *)
(* TaskService.                                                            *)
Phases == [t \in Tasks |-> Phase(t)]
Pendings == [t \in Tasks |-> fEvents[t] \ {"alive"}]

(* The phase of a task follows from its place.                             *)
PhaseExact ==
    \A t \in Tasks :
        /\ t \in deleted => Phases[t] = "deleted"
        /\ t \notin deleted /\ "alive" \notin fEvents[t] => Phases[t] = "idle"
        /\ t \notin deleted => Phases[t] # "deleted"
        /\ \A th \in Threads :
             /\ t \in SeqRange(fHeap[th]) => Phases[t] = "asleep"
             /\ theTask[th] = t
                  => Phases[t] = IF at[th] \in {"lock", "locking"} THEN "ready" ELSE "running"
        /\ /\ "alive" \in fEvents[t]
           /\ \A th \in Threads : t \notin SeqRange(fHeap[th]) /\ theTask[th] # t
           => Phases[t] = "ready"

LEMMA PhaseIs == IInv => PhaseExact
<1> SUFFICES ASSUME IInv, NEW t \in Tasks
             PROVE  /\ t \in deleted => Phases[t] = "deleted"
                    /\ t \notin deleted /\ "alive" \notin fEvents[t] => Phases[t] = "idle"
                    /\ t \notin deleted => Phases[t] # "deleted"
                    /\ \A th \in Threads :
                         /\ t \in SeqRange(fHeap[th]) => Phases[t] = "asleep"
                         /\ theTask[th] = t
                              => Phases[t] = IF at[th] \in {"lock", "locking"} THEN "ready"
                                             ELSE "running"
                    /\ /\ "alive" \in fEvents[t]
                       /\ \A th \in Threads : t \notin SeqRange(fHeap[th]) /\ theTask[th] # t
                       => Phases[t] = "ready"
  BY DEF PhaseExact
<1>1. Phases[t] = Phase(t)
  BY DEF Phases
<1>2. ASSUME NEW th \in Threads, t \in SeqRange(fHeap[th]) PROVE Phases[t] = "asleep"
  <2>1. <<"heap", th>> \in Spots /\ t \in Here[<<"heap", th>>]
    BY <1>2, HereFacts, SpotFacts
  <2>2. "alive" \in fEvents[t] /\ t \notin deleted
    BY <2>1, OnlyThere DEF IInv
  <2> QED BY <1>1, <1>2, <2>2 DEF Phase
<1>3. ASSUME NEW th \in Threads, theTask[th] = t
      PROVE  Phases[t] = IF at[th] \in {"lock", "locking"} THEN "ready" ELSE "running"
  <2>1. <<"thread", th>> \in Spots /\ Here[<<"thread", th>>] = {theTask[th]} \ {NULL} /\ t # NULL
    BY HereFacts, SpotFacts, ConstantFacts
  <2>2. t \in Here[<<"thread", th>>]
    BY <1>3, <2>1
  <2>3. /\ "alive" \in fEvents[t] /\ t \notin deleted
        /\ \A u \in Threads : /\ t \notin SeqRange(fHeap[u])
                              /\ theTask[u] = t => u = th
    BY <2>1, <2>2, OnlyThere DEF IInv
  <2> QED BY <1>1, <1>3, <2>3 DEF Phase
<1>4. /\ t \in deleted => Phases[t] = "deleted"
      /\ t \notin deleted /\ "alive" \notin fEvents[t] => Phases[t] = "idle"
      /\ t \notin deleted => Phases[t] # "deleted"
  BY <1>1 DEF Phase
<1>5. ASSUME "alive" \in fEvents[t],
             \A th \in Threads : t \notin SeqRange(fHeap[th]) /\ theTask[th] # t
      PROVE  Phases[t] = "ready"
  <2>1. t \notin deleted
    BY <1>5 DEF IInv, Placed
  <2> QED BY <1>1, <1>5, <2>1 DEF Phase
<1> QED BY <1>2, <1>3, <1>4, <1>5

LEMMA PhaseIsNext == IInv' => PhaseExact'
BY PhaseIs, PTL

(* What leaves the phase and the events of a task as they are.             *)
Still(t) ==
    /\ t \in deleted' <=> t \in deleted
    /\ fEvents'[t] = fEvents[t]
    /\ \A th \in Threads : t \in SeqRange(fHeap'[th]) <=> t \in SeqRange(fHeap[th])
    /\ \A th \in Threads :
          theTask'[th] = t /\ at'[th] \notin {"lock", "locking"}
             <=> theTask[th] = t /\ at[th] \notin {"lock", "locking"}

LEMMA StillLemma ==
    ASSUME NEW t \in Tasks, Still(t)
    PROVE  Phases'[t] = Phases[t] /\ Pendings'[t] = Pendings[t]
<1>1. Phases[t] = Phase(t) /\ Phases'[t] = Phase(t)'
  BY DEF Phases
<1>2. Phase(t)' = Phase(t)
  BY DEF Phase, Still
<1>3. Pendings'[t] = Pendings[t]
  BY DEF Pendings, Still
<1> QED BY <1>1, <1>2, <1>3

LEMMA Stutters ==
    ASSUME \A t \in Tasks : Still(t)
    PROVE  UNCHANGED TS!vars
<1>1. \A t \in Tasks : Phases'[t] = Phases[t] /\ Pendings'[t] = Pendings[t]
  BY StillLemma
<1>2. Phases' = Phases /\ Pendings' = Pendings
  BY <1>1 DEF Phases, Pendings
<1> QED BY <1>2 DEF TS!vars, Phases, Pendings

LEMMA BecomesLemma ==
    ASSUME NEW t \in Tasks, \A u \in Tasks \ {t} : Still(u)
    PROVE  /\ Phases' = [Phases EXCEPT ![t] = Phases'[t]]
           /\ Pendings' = [Pendings EXCEPT ![t] = Pendings'[t]]
<1>1. \A u \in Tasks \ {t} : Phases'[u] = Phases[u] /\ Pendings'[u] = Pendings[u]
  BY StillLemma
<1>2. Phases' = [Phases EXCEPT ![t] = Phases'[t]]
  BY <1>1 DEF Phases
<1>3. Pendings' = [Pendings EXCEPT ![t] = Pendings'[t]]
  BY <1>1 DEF Pendings
<1> QED BY <1>2, <1>3

-----------------------------------------------------------------------------
(* Each step of the pool is a step of the service or none.                 *)

LEMMA SignalSteps ==
    ASSUME IInv, IInv', NEW s \in Parties, NEW t \in Tasks, NEW e \in Events,
           SignalTask(s, t, e),
           \A th \in Threads : at'[th] \in {"lock", "locking"} <=> at[th] \in {"lock", "locking"}
    PROVE  TS!Signal(t, e)
<1>1. PhaseExact /\ PhaseExact'
  BY PhaseIs, PhaseIsNext
<1>2. /\ t \notin deleted /\ UNCHANGED <<deleted, fHeap, theTask>>
      /\ fEvents'[t] = fEvents[t] \cup {e, "alive"}
      /\ \A u \in Tasks \ {t} : fEvents'[u] = fEvents[u]
  BY DEF SignalTask, IInv, PoolTypes
<1>3. \A u \in Tasks \ {t} : Still(u)
  BY <1>2 DEF Still
<1>4. Pendings'[t] = Pendings[t] \cup {e}
  <2>1. e # "alive"
    BY ConstantFacts
  <2> QED BY <1>2, <2>1 DEF Pendings
<1>5. Phases[t] # "deleted"
  BY <1>1, <1>2 DEF PhaseExact
<1>6. Phases'[t] = IF Phases[t] = "idle" THEN "ready" ELSE Phases[t]
  <2>1. CASE "alive" \notin fEvents[t]
    <3>1. \A th \in Threads : t \notin SeqRange(fHeap[th]) /\ theTask[th] # t
      BY <2>1, Nowhere DEF IInv
    <3>2. Phases[t] = "idle"
      BY <1>1, <1>2, <2>1 DEF PhaseExact
    <3>3. Phases'[t] = "ready"
      BY <1>1, <1>2, <3>1 DEF PhaseExact
    <3> QED BY <3>2, <3>3
  <2>2. CASE "alive" \in fEvents[t]
    <3>1. Phases[t] # "idle"
      BY <1>2, <2>2 DEF Phases, Phase
    <3>2. Phase(t)' = Phase(t)
      BY <1>2, <2>2 DEF Phase
    <3>3. Phases'[t] = Phases[t]
      BY <3>2 DEF Phases
    <3> QED BY <3>1, <3>3
  <2> QED BY <2>1, <2>2
<1>7. /\ Phases' = [Phases EXCEPT ![t] = IF Phases[t] = "idle" THEN "ready" ELSE Phases[t]]
      /\ Pendings' = [Pendings EXCEPT ![t] = Pendings[t] \cup {e}]
  BY <1>3, <1>4, <1>6, BecomesLemma
<1> QED BY <1>5, <1>7 DEF TS!Signal, TS!Becomes, Phases, Pendings

(* A task that leaves the heap is due: the service says that its time has  *)
(* come.  One that leaves the queue was ready and still is.                *)
LEMMA ExtractMinSteps ==
    ASSUME IInv, IInv', NEW th \in Threads, ExtractMin(th)
    PROVE  \E t \in Tasks : TS!TimeOut(t)
<1>1. PhaseExact /\ PhaseExact'
  BY PhaseIs, PhaseIsNext
<1>2. fHeap[th] \in Seq(Tasks) /\ fHeap[th] # <<>>
  BY DEF ExtractMin, Expired, IInv, PoolTypes
<1> PICK t \in Tasks : t = Head(fHeap[th])
  BY <1>2
<1>3. t \in SeqRange(fHeap[th])
  BY <1>2 DEF SeqRange
<1>4. /\ UNCHANGED <<deleted, fEvents>> /\ theTask'[th] = t
      /\ at'[th] \in {"exited", "lock"} /\ at[th] = "wait"
      /\ fHeap' = [fHeap EXCEPT ![th] = Tail(@)]
      /\ \A u \in Threads \ {th} : at'[u] = at[u] /\ theTask'[u] = theTask[u]
  BY DEF ExtractMin, Take, IInv, PoolTypes, taskVars
<1>5. theTask[th] = NULL
  BY <1>4 DEF IInv, ThreadPlace, Serving
<1>6. at'[th] = "lock"
  BY <1>4 DEF IInv, PoolTypes, Serving
<1>7. \A u \in Tasks \ {t} : Still(u)
  <2> SUFFICES ASSUME NEW u \in Tasks \ {t} PROVE Still(u)
    OBVIOUS
  <2>1. \A r \in Threads : u \in SeqRange(fHeap'[r]) <=> u \in SeqRange(fHeap[r])
    <3>1. u \in SeqRange(Tail(fHeap[th])) <=> u \in SeqRange(fHeap[th])
      BY <1>2, TailLemma DEF IInv, NoRepeats
    <3> QED BY <1>4, <3>1 DEF IInv, PoolTypes
  <2>2. theTask[th] # u /\ theTask'[th] # u
    BY <1>4, <1>5, ConstantFacts
  <2> QED BY <1>4, <2>1, <2>2 DEF Still
<1>8. Phases[t] = "asleep"
  BY <1>1, <1>3 DEF PhaseExact
<1>9. Phases'[t] = "ready" /\ Pendings'[t] = Pendings[t]
  <2>1. Phases'[t] = "ready"
    BY <1>1, <1>3, <1>4, <1>6 DEF PhaseExact
  <2>2. Pendings'[t] = Pendings[t]
    BY <1>3, <1>4 DEF Pendings
  <2> QED BY <2>1, <2>2
<1>10. /\ Phases' = [Phases EXCEPT ![t] = "ready"]
       /\ Pendings' = [Pendings EXCEPT ![t] = Pendings[t]]
  BY <1>3, <1>7, <1>9, BecomesLemma
<1>11. TS!TimeOut(t)
  BY <1>3, <1>8, <1>10 DEF TS!TimeOut, TS!Becomes, Phases, Pendings
<1> QED BY <1>3, <1>11

LEMMA QueueStutters ==
    ASSUME IInv, IInv', NEW th \in Threads, DeQueueBlocking(th) \/ DeQueue(th)
    PROVE  UNCHANGED TS!vars
<1>1. /\ at[th] \in {"wait", "blocked"} /\ UNCHANGED <<deleted, fEvents, fHeap>>
      /\ \/ UNCHANGED theTask /\ (\E x \in {"blocked", "wait"} : at' = [at EXCEPT ![th] = x])
         \/ Take(th, Head(fTaskQueue[th]))
  BY DEF DeQueueBlocking, DeQueue, TakeFromQueue, taskVars
<1>2. theTask[th] = NULL
  BY <1>1 DEF IInv, ThreadPlace, Serving
<1>3. \A u \in Threads \ {th} : at'[u] = at[u] /\ theTask'[u] = theTask[u]
  BY <1>1 DEF Take, IInv, PoolTypes
<1>4. theTask'[th] = NULL \/ at'[th] \in {"lock", "locking"}
  <2>1. CASE UNCHANGED theTask
    BY <1>2, <2>1
  <2>2. CASE Take(th, Head(fTaskQueue[th]))
    <3>1. at'[th] \in {"exited", "lock"}
      BY <2>2 DEF Take, IInv, PoolTypes
    <3> QED BY <3>1 DEF IInv, PoolTypes, Serving
  <2> QED BY <1>1, <2>1, <2>2
<1>5. \A t \in Tasks : Still(t)
  BY <1>1, <1>2, <1>3, <1>4, ConstantFacts DEF Still
<1> QED BY <1>5, Stutters

(* The task that a thread serves.                                          *)
LEMMA OwnTask ==
    ASSUME IInv, NEW th \in Threads, at[th] \in Serving, NEW t, t = theTask[th]
    PROVE  /\ t \in Tasks /\ "alive" \in fEvents[t] /\ t \notin deleted
           /\ \A u \in Threads : theTask[u] = t <=> u = th
           /\ \A u \in Threads : t \notin SeqRange(fHeap[u])
           /\ Phases[t] = IF at[th] \in {"lock", "locking"} THEN "ready" ELSE "running"
<1>1. t \in Tasks /\ t # NULL
  BY DEF IInv, ThreadPlace, PoolTypes
<1>2. <<"thread", th>> \in Spots /\ Here[<<"thread", th>>] = {t} \ {NULL}
  BY HereFacts, SpotFacts
<1>3. t \in Here[<<"thread", th>>]
  BY <1>1, <1>2
<1>4. /\ "alive" \in fEvents[t] /\ t \notin deleted
      /\ \A u \in Threads : /\ t \notin SeqRange(fHeap[u])
                            /\ theTask[u] = t <=> u = th
  BY <1>1, <1>2, <1>3, OnlyThere DEF IInv
<1>5. Phases[t] = IF at[th] \in {"lock", "locking"} THEN "ready" ELSE "running"
  BY <1>1, PhaseIs DEF PhaseExact
<1> QED BY <1>1, <1>4, <1>5

(* Tasks of other threads, and those of none, do not notice a thread.      *)
LEMMA OthersStill ==
    ASSUME IInv, NEW th \in Threads, at[th] \in Serving, NEW t, t = theTask[th],
           theTask'[th] \in {t, NULL},
           \A u \in Threads \ {th} : at'[u] = at[u] /\ theTask'[u] = theTask[u],
           \A u \in Tasks \ {t} :
              /\ u \in deleted' <=> u \in deleted
              /\ fEvents'[u] = fEvents[u]
              /\ \A r \in Threads : u \in SeqRange(fHeap'[r]) <=> u \in SeqRange(fHeap[r])
    PROVE  \A u \in Tasks \ {t} : Still(u)
BY ConstantFacts DEF Still

LEMMA LockStutters ==
    ASSUME IInv, NEW th \in Threads,
           \/ StartRun(th) \/ KeepLocking(th) \/ LockWaitEnds(th)
           \/ \E how \in {"delete", "finish", "sleep"}, forced, locked \in BOOLEAN :
                 RunReturns(th, how, forced, locked)
    PROVE  UNCHANGED TS!vars
<1>1. CASE StartRun(th)
  <2>1. /\ UNCHANGED <<deleted, fEvents, fHeap, theTask>>
        /\ at[th] = "lock" /\ at' = [at EXCEPT ![th] = "locking"]
    BY <1>1 DEF StartRun, placeVars
  <2>2. \A t \in Tasks : Still(t)
    BY <2>1 DEF Still, IInv, PoolTypes
  <2> QED BY <2>2, Stutters
<1>2. CASE KeepLocking(th) \/ LockWaitEnds(th)
  <2>1. UNCHANGED <<deleted, fEvents, fHeap, theTask, at>>
    BY <1>2 DEF KeepLocking, LockWaitEnds, taskVars, placeVars, threadVars
  <2>2. \A t \in Tasks : Still(t)
    BY <2>1 DEF Still
  <2> QED BY <2>2, Stutters
<1>3. CASE \E how \in {"delete", "finish", "sleep"}, forced, locked \in BOOLEAN :
              RunReturns(th, how, forced, locked)
  <2>1. /\ UNCHANGED <<deleted, fEvents, fHeap, theTask>> /\ at[th] \in {"running", "ran"}
        /\ \E how \in {"delete", "finish", "sleep"} : at' = [at EXCEPT ![th] = how]
    BY <1>3 DEF RunReturns, placeVars
  <2>2. \A t \in Tasks : Still(t)
    BY <2>1 DEF Still, IInv, PoolTypes
  <2> QED BY <2>2, Stutters
<1> QED BY <1>1, <1>2, <1>3

LEMMA GetEventsSteps ==
    ASSUME IInv, IInv', NEW th \in Threads, GetEvents(th)
    PROVE  \E t \in Tasks : TS!Run(t)
<1>1. at[th] = "locking" /\ at[th] \in Serving
  BY DEF GetEvents, Serving
<1> PICK t \in Tasks : t = theTask[th]
  BY <1>1, OwnTask
<1>2. /\ UNCHANGED <<deleted, fHeap, theTask>> /\ at'[th] = "running"
      /\ \A u \in Threads \ {th} : at'[u] = at[u]
      /\ fEvents'[t] = fEvents[t] \cap {"alive"}
      /\ \A u \in Tasks \ {t} : fEvents'[u] = fEvents[u]
  BY DEF GetEvents, placeVars, IInv, PoolTypes
<1>3. Phases[t] = "ready"
  BY <1>1, OwnTask
<1>4. Phases'[t] = "running"
  BY <1>2, PhaseIsNext DEF PhaseExact
<1>5. Pendings'[t] = {}
  BY <1>2 DEF Pendings
<1>6. Phases' = [Phases EXCEPT ![t] = "running"] /\ Pendings' = [Pendings EXCEPT ![t] = {}]
  BY <1>1, <1>2, <1>4, <1>5, OthersStill, BecomesLemma
<1>7. TS!Run(t)
  BY <1>3, <1>6 DEF TS!Run, TS!Becomes, Phases, Pendings
<1> QED BY <1>7

LEMMA ReturnSteps ==
    ASSUME IInv, IInv', NEW th \in Threads,
           DeleteTask(th) \/ FinishTask(th) \/ \E d \in Delays : SleepTask(th, d)
    PROVE  \E t \in Tasks : TS!Return(t)
<1>1. at[th] \in {"delete", "finish", "sleep"} /\ at[th] \in Serving
  BY DEF DeleteTask, FinishTask, SleepTask, Serving
<1> PICK t \in Tasks : t = theTask[th]
  BY <1>1, OwnTask
<1>2. /\ "alive" \in fEvents[t] /\ t \notin deleted /\ Phases[t] = "running" /\ t # NULL
      /\ \A u \in Threads : theTask[u] = t <=> u = th
      /\ \A u \in Threads : t \notin SeqRange(fHeap[u])
  BY <1>1, OwnTask, ConstantFacts
<1>3. Phases[t] = Phase(t) /\ Pendings[t] = fEvents[t] \ {"alive"}
  BY DEF Phases, Pendings
<1>4. PhaseExact'
  BY PhaseIsNext
<1>5. CASE DeleteTask(th)
  <2>1. /\ deleted' = deleted \cup {t} /\ UNCHANGED fHeap
        /\ fEvents'[t] = {} /\ theTask'[th] = NULL
        /\ \A u \in Tasks \ {t} : fEvents'[u] = fEvents[u]
        /\ \A u \in Threads \ {th} : at'[u] = at[u] /\ theTask'[u] = theTask[u]
    BY <1>5 DEF DeleteTask, Released, placeVars, IInv, PoolTypes
  <2>2. Phases'[t] = "deleted" /\ Pendings'[t] = {}
    BY <1>4, <2>1 DEF PhaseExact, Pendings
  <2>3. Phases' = [Phases EXCEPT ![t] = "deleted"] /\ Pendings' = [Pendings EXCEPT ![t] = {}]
    BY <1>1, <2>1, <2>2, OthersStill, BecomesLemma
  <2> QED BY <1>2, <2>3 DEF TS!Return, TS!Becomes, Phases, Pendings
<1>6. CASE FinishTask(th)
  <2>1. /\ UNCHANGED <<deleted, fHeap>> /\ fEvents'[t] = Finished(fEvents[t])
        /\ \A u \in Tasks \ {t} : fEvents'[u] = fEvents[u]
        /\ \A u \in Threads \ {th} : at'[u] = at[u] /\ theTask'[u] = theTask[u]
        /\ \/ Finished(fEvents[t]) = {} /\ theTask'[th] = NULL
           \/ /\ Finished(fEvents[t]) # {}
              /\ at'[th] = "lock" /\ theTask'[th] = t
    BY <1>6 DEF FinishTask, Released, placeVars, IInv, PoolTypes
  <2>2. CASE Finished(fEvents[t]) = {} /\ theTask'[th] = NULL
    <3>1. Pendings[t] = {} /\ Pendings'[t] = {}
      BY <1>2, <2>1, <2>2 DEF Pendings, Finished
    <3>2. Phases'[t] = "idle"
      BY <1>2, <1>4, <2>1, <2>2 DEF PhaseExact
    <3>3. Phases' = [Phases EXCEPT ![t] = "idle"] /\ Pendings' = [Pendings EXCEPT ![t] = {}]
      BY <1>1, <2>1, <2>2, <3>1, <3>2, OthersStill, BecomesLemma
    <3> QED BY <1>2, <3>1, <3>3 DEF TS!Return, TS!Becomes, Phases, Pendings
  <2>3. CASE Finished(fEvents[t]) # {} /\ at'[th] = "lock" /\ theTask'[th] = t
    <3>1. Finished(fEvents[t]) = fEvents[t] /\ fEvents[t] # {"alive"}
      BY <2>3 DEF Finished
    <3>2. Pendings[t] # {} /\ Pendings'[t] = Pendings[t]
      BY <1>2, <2>1, <3>1 DEF Pendings
    <3>3. Phases'[t] = "ready"
      BY <1>4, <2>3 DEF PhaseExact
    <3>4. /\ Phases' = [Phases EXCEPT ![t] = "ready"]
          /\ Pendings' = [Pendings EXCEPT ![t] = Pendings[t]]
      BY <1>1, <2>1, <2>3, <3>2, <3>3, OthersStill, BecomesLemma
    <3> QED BY <1>2, <3>2, <3>4 DEF TS!Return, TS!Becomes, Phases, Pendings
  <2> QED BY <2>1, <2>2, <2>3
<1>7. CASE \E d \in Delays : SleepTask(th, d)
  <2> PICK i \in 0..Len(fHeap[th]) :
         fHeap' = [fHeap EXCEPT ![th] = SubSeq(@, 1, i) \o <<t>> \o SubSeq(@, i + 1, Len(@))]
    BY <1>7 DEF SleepTask
  <2>1. /\ UNCHANGED deleted /\ fEvents'[t] = fEvents[t] \cup {"idle"} /\ theTask'[th] = NULL
        /\ \A u \in Tasks \ {t} : fEvents'[u] = fEvents[u]
        /\ \A u \in Threads \ {th} : at'[u] = at[u] /\ theTask'[u] = theTask[u]
    <3>1. /\ UNCHANGED deleted /\ fEvents' = [fEvents EXCEPT ![t] = @ \cup {"idle"}]
          /\ theTask' = [theTask EXCEPT ![th] = NULL] /\ at' = [at EXCEPT ![th] = "wait"]
      BY <1>7 DEF SleepTask, Released
    <3> QED BY <3>1 DEF IInv, PoolTypes
  <2>2. fHeap[th] \in Seq(Tasks) /\ fHeap \in [Threads -> Seq(Tasks)]
    BY DEF IInv, PoolTypes
  <2>3. \A x : x \in SeqRange(fHeap'[th]) <=> x \in SeqRange(fHeap[th]) \/ x = t
    BY <1>2, <2>2, InsertedLemma
  <2>4. \A r \in Threads \ {th} : fHeap'[r] = fHeap[r]
    BY <2>2
  <2>5. \A u \in Tasks \ {t}, r \in Threads :
           u \in SeqRange(fHeap'[r]) <=> u \in SeqRange(fHeap[r])
    BY <2>3, <2>4
  <2>6. Phases'[t] = "asleep"
    BY <1>4, <2>3 DEF PhaseExact
  <2>7. Pendings'[t] = Pendings[t] \cup {"idle"}
    BY <2>1 DEF Pendings
  <2>8. /\ Phases' = [Phases EXCEPT ![t] = "asleep"]
        /\ Pendings' = [Pendings EXCEPT ![t] = Pendings[t] \cup {"idle"}]
    BY <1>1, <2>1, <2>5, <2>6, <2>7, OthersStill, BecomesLemma
  <2> QED BY <1>2, <2>8 DEF TS!Return, TS!Becomes, Phases, Pendings
<1> QED BY <1>5, <1>6, <1>7

(* The other steps.                                                        *)
LEMMA PoolStutters ==
    ASSUME IInv, \/ AddThreads \/ Tick \/ UNCHANGED vars
                 \/ \E s \in Threads \cup Senders : EnQueue(s)
    PROVE  UNCHANGED TS!vars
<1>1. UNCHANGED <<deleted, fEvents, fHeap, theTask>>
  BY DEF AddThreads, Tick, EnQueue, vars, taskVars, placeVars, threadVars
<1>2. \A th \in Threads : at'[th] = at[th] \/ theTask[th] = NULL
  <2>1. CASE AddThreads
    BY <2>1 DEF AddThreads, IInv, ThreadPlace, Serving
  <2>2. CASE ~AddThreads
    BY <2>2 DEF Tick, EnQueue, vars, threadVars
  <2> QED BY <2>1, <2>2
<1>3. \A t \in Tasks : Still(t)
  BY <1>1, <1>2, ConstantFacts DEF Still
<1> QED BY <1>3, Stutters

-----------------------------------------------------------------------------
LEMMA InitService == Init => TS!Init
<1> SUFFICES ASSUME Init PROVE TS!Init
  OBVIOUS
<1>1. \A t \in Tasks : Phases[t] = "idle" /\ Pendings[t] = {}
  BY DEF Init, Phases, Pendings, Phase
<1>2. Phases = [t \in Tasks |-> "idle"] /\ Pendings = [t \in Tasks |-> {}]
  BY <1>1 DEF Phases, Pendings
<1> QED BY <1>2 DEF TS!Init, Phases, Pendings

LEMMA NextService == IInv /\ IInv' /\ [Next]_vars => [TS!Next]_(TS!vars)
<1> SUFFICES ASSUME IInv, IInv', [Next]_vars PROVE TS!Next \/ UNCHANGED TS!vars
  OBVIOUS
<1>1. CASE \E s \in Senders, t \in Tasks, e \in Events : Signal(s, t, e)
  <2>1. PICK s \in Senders, t \in Tasks, e \in Events : Signal(s, t, e)
    BY <1>1
  <2>2. s \in Parties /\ SignalTask(s, t, e) /\ UNCHANGED at
    BY <2>1 DEF Signal, Parties
  <2>3. TS!Signal(t, e)
    BY <2>2, SignalSteps
  <2> QED BY <2>3 DEF TS!Next
<1>2. CASE \E th \in Threads, t \in Tasks, e \in Events : RunSignals(th, t, e)
  <2>1. PICK th \in Threads, t \in Tasks, e \in Events : RunSignals(th, t, e)
    BY <1>2
  <2>2. th \in Parties /\ SignalTask(th, t, e)
    BY <2>1 DEF RunSignals, Parties
  <2>3. \A u \in Threads : at'[u] \in {"lock", "locking"} <=> at[u] \in {"lock", "locking"}
    BY <2>1 DEF RunSignals, IInv, PoolTypes
  <2>4. TS!Signal(t, e)
    BY <2>2, <2>3, SignalSteps
  <2> QED BY <2>4 DEF TS!Next
<1>3. CASE \E th \in Threads : ThreadStep(th) \/ LockWaitEnds(th)
  <2> PICK th \in Threads : ThreadStep(th) \/ LockWaitEnds(th)
    BY <1>3
  <2>1. CASE ExtractMin(th)
    BY <2>1, ExtractMinSteps DEF TS!Next
  <2>2. CASE DeQueueBlocking(th) \/ DeQueue(th)
    BY <2>2, QueueStutters
  <2>3. CASE \/ StartRun(th) \/ KeepLocking(th) \/ LockWaitEnds(th)
             \/ \E how \in {"delete", "finish", "sleep"}, forced, locked \in BOOLEAN :
                   RunReturns(th, how, forced, locked)
    BY <2>3, LockStutters
  <2>4. CASE GetEvents(th)
    BY <2>4, GetEventsSteps DEF TS!Next
  <2>5. CASE DeleteTask(th) \/ FinishTask(th) \/ \E d \in Delays : SleepTask(th, d)
    BY <2>5, ReturnSteps DEF TS!Next
  <2> QED BY <2>1, <2>2, <2>3, <2>4, <2>5 DEF ThreadStep
<1>4. CASE \/ AddThreads \/ Tick \/ UNCHANGED vars
           \/ \E s \in Threads \cup Senders : EnQueue(s)
  BY <1>4, PoolStutters
<1> QED BY <1>1, <1>2, <1>3, <1>4 DEF Next

(* The task threads implement what Task.h promises: a task that was        *)
(* signalled, or has slept long enough, is invoked once, with all the      *)
(* events since the last time, and by one thread at a time                 *)
(* (Task.cpp:68-98, 189-250).                                              *)
THEOREM ServiceImplemented == Spec => ImplementsTaskService
<1>1. Init => TS!Init
  BY InitService
<1>2. IInv /\ IInv' /\ [Next]_vars => [TS!Next]_(TS!vars)
  BY NextService
<1> QED BY <1>1, <1>2, InductiveInvariant, PTL DEF Spec, ImplementsTaskService, TS!Spec

=============================================================================
