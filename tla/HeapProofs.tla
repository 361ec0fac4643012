----------------------------- MODULE HeapProofs -----------------------------
(***************************************************************************)
(* Theorems about TimeoutHeap: for any threads and timeouts the heap stays *)
(* complete, indexed and in order, and it implements SleepQueue.           *)
(*                                                                         *)
(* A heap is compared with the tree it shows, a function from nodes to     *)
(* threads, so that the lemmas about the loops need not follow pointers.   *)
(***************************************************************************)
EXTENDS TimeoutHeap, QueueProofs

Heaps == [ptr : [Slots -> Threads \cup {None}], index : [Threads -> Nat], size : Nat]

(* A complete tree of n threads: the thread at each node, numbered as in   *)
(* docs/timeout_heap.txt, each thread at one.                              *)
Trees(n) == {N \in [1..n -> Threads] : \A i, j \in 1..n : N[i] = N[j] => i = j}

At(N, n, k) == IF k \in 1..n THEN N[k] ELSE None

(* The slot of node k.                                                     *)
Slot(N, k) == IF k = 1 THEN SLEEPQ ELSE Child(N[k \div 2], k % 2)

(* The pointers and the indices of h are those of the tree N.              *)
Shows(h, N, n) ==
    /\ \A k \in 1..(2 * n + 1) : h.ptr[Slot(N, k)] = At(N, n, k)
    /\ \A k \in 1..n : h.index[N[k]] = k

Members(N, n) == {N[k] : k \in 1..n}

(* No thread is due before its parent.                                     *)
Ordered(d, N, n) == \A k \in 2..n : d[N[k \div 2]] <= d[N[k]]

-----------------------------------------------------------------------------
LEMMA Halves ==
  ASSUME NEW n \in Nat, n >= 2
  PROVE  /\ n \div 2 \in Nat /\ 1 <= n \div 2 /\ n \div 2 < n
         /\ n % 2 \in {0, 1} /\ n = 2 * (n \div 2) + (n % 2)
OBVIOUS

LEMMA ChildIndex ==
  ASSUME NEW k \in Nat, NEW b \in {0, 1}
  PROVE  (2 * k + b) \div 2 = k /\ (2 * k + b) % 2 = b
OBVIOUS

(* What holds of node 1, and of a node when it holds of its parent, holds  *)
(* of all nodes.                                                           *)
LEMMA TreeInduction ==
  ASSUME NEW m \in Nat, NEW Good, 1 \in Good, \A k \in 2..m : k \div 2 \in Good => k \in Good
  PROVE  \A k \in 1..m : k \in Good
<1> DEFINE Bad == {k \in 1..m : k \notin Good}
<1> SUFFICES ASSUME Bad # {} PROVE FALSE
  OBVIOUS
<1>1. Bad \subseteq Nat
  OBVIOUS
<1> HIDE DEF Bad
<1>2. PICK k \in Bad : \A i \in Bad : k <= i
  BY <1>1, NatMin
<1>3. k \in 1..m /\ k \notin Good /\ k # 1
  BY <1>2 DEF Bad
<1>4. k \in 2..m /\ k \in Nat /\ k >= 2
  BY <1>3
<1>5. k \div 2 \in 1..m /\ k \div 2 < k
  BY <1>4, Halves
<1>6. k \div 2 \notin Bad
  BY <1>1, <1>2, <1>5
<1>7. k \div 2 \in Good
  BY <1>5, <1>6 DEF Bad
<1> QED BY <1>3, <1>4, <1>7

LEMMA ChildFacts ==
  /\ SLEEPQ \in Slots
  /\ \A t \in Threads : \A b \in {0, 1} : Child(t, b) \in Slots /\ Child(t, b) # SLEEPQ
  /\ \A t, u \in Threads : \A b, c \in {0, 1} :
        Child(t, b) = Child(u, c) => t = u /\ b = c
  /\ \A t \in Threads : Left(t) = Child(t, 0) /\ Right(t) = Child(t, 1)
<1>1. None \notin Threads
  BY HeapAssumption DEF HeapAssumption
<1> QED BY <1>1 DEF SLEEPQ, Slots, Child, Left, Right

LEMMA SlotFacts ==
  ASSUME NEW n \in Nat, NEW N \in Trees(n)
  PROVE  /\ Slot(N, 1) = SLEEPQ
         /\ \A k \in 2..(2 * n + 1) : /\ k \div 2 \in 1..n /\ k % 2 \in {0, 1}
                                      /\ Slot(N, k) = Child(N[k \div 2], k % 2)
         /\ \A k \in 1..n : \A b \in {0, 1} :
               /\ 2 * k + b \in 2..(2 * n + 1)
               /\ Slot(N, 2 * k + b) = Child(N[k], b)
         /\ \A k \in 1..(2 * n + 1) : Slot(N, k) \in Slots
         /\ \A j, k \in 1..(2 * n + 1) : Slot(N, j) = Slot(N, k) => j = k
<1>1. N \in [1..n -> Threads] /\ \A i, j \in 1..n : N[i] = N[j] => i = j
  BY DEF Trees
<1>2. \A k \in 2..(2 * n + 1) : /\ k \div 2 \in 1..n /\ k % 2 \in {0, 1}
                                /\ k = 2 * (k \div 2) + (k % 2)
  OBVIOUS
<1>3. \A k \in 2..(2 * n + 1) : Slot(N, k) = Child(N[k \div 2], k % 2) /\ k # 1
  BY DEF Slot
<1>4. ASSUME NEW k \in 1..n, NEW b \in {0, 1}
      PROVE  2 * k + b \in 2..(2 * n + 1) /\ Slot(N, 2 * k + b) = Child(N[k], b)
  <2>1. 2 * k + b \in 2..(2 * n + 1) /\ k \in Nat
    OBVIOUS
  <2>2. (2 * k + b) \div 2 = k /\ (2 * k + b) % 2 = b
    BY <2>1, ChildIndex
  <2> QED BY <1>3, <2>1, <2>2
<1>5. Slot(N, 1) = SLEEPQ
  BY DEF Slot
<1>6. \A k \in 1..(2 * n + 1) : k = 1 \/ k \in 2..(2 * n + 1)
  OBVIOUS
<1>7. \A k \in 1..(2 * n + 1) : Slot(N, k) \in Slots
  BY <1>1, <1>2, <1>3, <1>5, <1>6, ChildFacts
<1>8. ASSUME NEW j \in 1..(2 * n + 1), NEW k \in 1..(2 * n + 1), Slot(N, j) = Slot(N, k)
      PROVE  j = k
  <2>1. CASE j = 1 \/ k = 1
    BY <1>1, <1>2, <1>3, <1>5, <1>6, <1>8, <2>1, ChildFacts
  <2>2. CASE j # 1 /\ k # 1
    <3>1. j \in 2..(2 * n + 1) /\ k \in 2..(2 * n + 1)
      BY <1>6, <2>2
    <3>2. Child(N[j \div 2], j % 2) = Child(N[k \div 2], k % 2)
      BY <1>3, <1>8, <3>1
    <3>3. N[j \div 2] = N[k \div 2] /\ j % 2 = k % 2
      BY <1>1, <1>2, <3>1, <3>2, ChildFacts
    <3>4. j \div 2 = k \div 2
      BY <1>1, <1>2, <3>1, <3>3
    <3> QED BY <1>2, <3>1, <3>3, <3>4
  <2> QED BY <2>1, <2>2
<1> QED BY <1>2, <1>3, <1>4, <1>5, <1>7, <1>8

LEMMA SlotParent ==
  ASSUME NEW n \in Nat, NEW N \in Trees(n), NEW k \in 2..(2 * n + 1)
  PROVE  /\ k \div 2 \in 1..n /\ k % 2 \in {0, 1}
         /\ Slot(N, k) = Child(N[k \div 2], k % 2)
BY SlotFacts

LEMMA SlotBelow ==
  ASSUME NEW n \in Nat, NEW N \in Trees(n), NEW k \in 1..n, NEW b \in {0, 1}
  PROVE  2 * k + b \in 2..(2 * n + 1) /\ Slot(N, 2 * k + b) = Child(N[k], b)
<1>1. 2 * k + b \in 2..(2 * n + 1) /\ 2 * k + b # 1 /\ k \in Nat
  OBVIOUS
<1>2. (2 * k + b) \div 2 = k /\ (2 * k + b) % 2 = b
  BY <1>1, ChildIndex
<1> QED BY <1>1, <1>2 DEF Slot

LEMMA InHandApart ==
  ASSUME NEW n \in Nat, NEW N \in Trees(n), NEW k \in 1..(2 * n + 1),
         NEW t \in Threads, t \notin Members(N, n)
  PROVE  \A b \in {0, 1} : Slot(N, k) # Child(t, b)
<1>1. CASE k = 1
  BY <1>1, ChildFacts, SlotFacts
<1>2. CASE k # 1
  <2>1. k \in 2..(2 * n + 1)
    BY <1>2
  <2>2. k \div 2 \in 1..n /\ k % 2 \in {0, 1} /\ Slot(N, k) = Child(N[k \div 2], k % 2)
    BY <2>1, SlotFacts
  <2>3. N[k \div 2] \in Threads /\ N[k \div 2] # t
    BY <2>2 DEF Trees, Members
  <2> QED BY <2>2, <2>3, ChildFacts
<1> QED BY <1>1, <1>2

-----------------------------------------------------------------------------
(* A thread t that is not in the tree takes the place of the one at a.     *)
Placed(N, a, t) == [N EXCEPT ![a] = t]

LEMMA PlacedFacts ==
  ASSUME NEW n \in Nat, NEW N \in Trees(n), NEW a \in 1..n,
         NEW t \in Threads, t \notin Members(N, n)
  PROVE  LET M == Placed(N, a, t) IN
         /\ M \in Trees(n) /\ M[a] = t
         /\ \A i \in 1..n : i # a => M[i] = N[i]
         /\ N[a] \notin Members(M, n)
         /\ Members(M, n) \cup {N[a]} = Members(N, n) \cup {t}
         /\ \A k \in 2..(2 * n + 1) :
               Slot(M, k) = IF k \div 2 = a THEN Child(t, k % 2) ELSE Slot(N, k)
<1> DEFINE M == Placed(N, a, t)
<1>1. N \in [1..n -> Threads] /\ \A i, j \in 1..n : N[i] = N[j] => i = j
  BY DEF Trees
<1>2. \A i \in 1..n : N[i] # t
  BY DEF Members
<1>3. /\ M \in [1..n -> Threads] /\ M[a] = t
      /\ \A i \in 1..n : i # a => M[i] = N[i]
  BY <1>1 DEF Placed
<1> HIDE DEF M
<1>4. M \in Trees(n)
  BY <1>1, <1>2, <1>3 DEF Trees
<1>5. N[a] \notin Members(M, n)
  BY <1>1, <1>2, <1>3 DEF Members
<1>6. Members(M, n) \cup {N[a]} = Members(N, n) \cup {t}
  <2>1. \A i \in 1..n : M[i] \in Members(N, n) \cup {t}
    BY <1>3 DEF Members
  <2>2. \A i \in 1..n : N[i] \in Members(M, n) \cup {N[a]}
    BY <1>3 DEF Members
  <2>3. t \in Members(M, n) /\ N[a] \in Members(N, n)
    BY <1>3 DEF Members
  <2> QED BY <2>1, <2>2, <2>3 DEF Members
<1>7. ASSUME NEW k \in 2..(2 * n + 1)
      PROVE  Slot(M, k) = IF k \div 2 = a THEN Child(t, k % 2) ELSE Slot(N, k)
  <2>1. /\ k \div 2 \in 1..n /\ Slot(N, k) = Child(N[k \div 2], k % 2)
        /\ Slot(M, k) = Child(M[k \div 2], k % 2)
    BY <1>4, SlotFacts
  <2> QED BY <1>3, <2>1
<1> QED BY <1>3, <1>4, <1>5, <1>6, <1>7 DEF M

(* It takes over the children and the slot.                                *)
PlaceWritten(g, h, N, n, a, t) ==
    /\ g.ptr[Slot(N, a)] = t
    /\ \A b \in {0, 1} : g.ptr[Child(t, b)] = h.ptr[Child(N[a], b)]
    /\ \A x \in Slots : x # Slot(N, a) /\ (\A b \in {0, 1} : x # Child(t, b))
                            => g.ptr[x] = h.ptr[x]
    /\ g.index[t] = a
    /\ \A x \in Members(N, n) : x # N[a] => g.index[x] = h.index[x]

LEMMA PlacedShows ==
  ASSUME NEW n \in Nat, NEW N \in Trees(n), NEW a \in 1..n,
         NEW t \in Threads, t \notin Members(N, n),
         NEW h, NEW g, Shows(h, N, n), PlaceWritten(g, h, N, n, a, t)
  PROVE  Shows(g, Placed(N, a, t), n)
<1>0. /\ g.ptr[Slot(N, a)] = t
      /\ \A b \in {0, 1} : g.ptr[Child(t, b)] = h.ptr[Child(N[a], b)]
      /\ \A x \in Slots : x # Slot(N, a) /\ (\A b \in {0, 1} : x # Child(t, b))
                              => g.ptr[x] = h.ptr[x]
      /\ g.index[t] = a
      /\ \A x \in Members(N, n) : x # N[a] => g.index[x] = h.index[x]
  BY DEF PlaceWritten
<1> DEFINE M == Placed(N, a, t)
<1>1. /\ M \in Trees(n) /\ M[a] = t
      /\ \A i \in 1..n : i # a => M[i] = N[i]
      /\ \A k \in 2..(2 * n + 1) :
            Slot(M, k) = IF k \div 2 = a THEN Child(t, k % 2) ELSE Slot(N, k)
  BY PlacedFacts
<1> HIDE DEF M
<1>2. /\ \A k \in 1..(2 * n + 1) : h.ptr[Slot(N, k)] = At(N, n, k)
      /\ \A k \in 1..n : h.index[N[k]] = k
  BY DEF Shows
<1>3. /\ Slot(N, 1) = SLEEPQ /\ Slot(M, 1) = SLEEPQ
      /\ \A k \in 1..(2 * n + 1) : Slot(N, k) \in Slots
      /\ \A j, k \in 1..(2 * n + 1) : Slot(N, j) = Slot(N, k) => j = k
      /\ \A k \in 2..(2 * n + 1) : /\ k \div 2 \in 1..n /\ k % 2 \in {0, 1}
                                   /\ Slot(N, k) = Child(N[k \div 2], k % 2)
  BY <1>1, SlotFacts
<1>4. N \in [1..n -> Threads] /\ \A i \in 1..n : N[i] # t /\ N[i] \in Members(N, n)
  BY DEF Trees, Members
<1>5. \A i, j \in 1..n : N[i] = N[j] => i = j
  BY DEF Trees
<1>6. \A k \in 1..(2 * n + 1) : \A b \in {0, 1} : Slot(N, k) # Child(t, b)
  BY InHandApart
<1>7. ASSUME NEW k \in 1..(2 * n + 1) PROVE g.ptr[Slot(M, k)] = At(M, n, k)
  <2>1. CASE k # 1 /\ k \div 2 = a
    <3>1. k \in 2..(2 * n + 1)
      BY <2>1
    <3>2. /\ Slot(M, k) = Child(t, k % 2) /\ Slot(N, k) = Child(N[a], k % 2)
          /\ k % 2 \in {0, 1}
      BY <1>1, <1>3, <2>1, <3>1
    <3>3. g.ptr[Slot(M, k)] = At(N, n, k)
      BY <1>0, <1>2, <3>2
    <3>4. k # a
      BY <2>1, <3>1, Halves
    <3> QED BY <1>1, <3>3, <3>4 DEF At
  <2>2. CASE ~(k # 1 /\ k \div 2 = a) /\ k = a
    <3>1. Slot(M, k) = Slot(N, a)
      <4>1. CASE k = 1
        BY <1>3, <2>2, <4>1
      <4>2. CASE k # 1
        <5>1. k \in 2..(2 * n + 1)
          BY <4>2
        <5> QED BY <1>1, <2>2, <4>2, <5>1
      <4> QED BY <4>1, <4>2
    <3>2. At(M, n, k) = t
      BY <1>1, <2>2 DEF At
    <3> QED BY <1>0, <3>1, <3>2
  <2>3. CASE ~(k # 1 /\ k \div 2 = a) /\ k # a
    <3>1. Slot(M, k) = Slot(N, k)
      <4>1. CASE k = 1
        BY <1>3, <4>1
      <4>2. CASE k # 1
        <5>1. k \in 2..(2 * n + 1)
          BY <4>2
        <5> QED BY <1>1, <2>3, <4>2, <5>1
      <4> QED BY <4>1, <4>2
    <3>2. Slot(N, k) # Slot(N, a) /\ a \in 1..(2 * n + 1)
      BY <1>3, <2>3
    <3>3. g.ptr[Slot(M, k)] = h.ptr[Slot(N, k)]
      BY <1>0, <1>3, <1>6, <3>1, <3>2
    <3>4. At(M, n, k) = At(N, n, k)
      BY <1>1, <2>3 DEF At
    <3> QED BY <1>2, <3>3, <3>4
  <2> QED BY <2>1, <2>2, <2>3
<1>8. ASSUME NEW k \in 1..n PROVE g.index[M[k]] = k
  <2>1. CASE k = a
    BY <1>0, <1>1, <2>1
  <2>2. CASE k # a
    BY <1>0, <1>1, <1>2, <1>4, <1>5, <2>2
  <2> QED BY <2>1, <2>2
<1> QED BY <1>7, <1>8 DEF M, Shows

LEMMA PlacedOrdered ==
  ASSUME NEW n \in Nat, NEW N \in Trees(n), NEW a \in 1..n, NEW t \in Threads,
         NEW d \in [Threads -> Int], Ordered(d, N, n),
         d[t] <= d[N[a]], a > 1 => d[N[a \div 2]] <= d[t]
  PROVE  Ordered(d, Placed(N, a, t), n)
<1> DEFINE M == Placed(N, a, t)
<1>1. N \in [1..n -> Threads]
  BY DEF Trees
<1>2. M[a] = t /\ \A i \in 1..n : i # a => M[i] = N[i]
  BY <1>1 DEF Placed
<1> HIDE DEF M
<1> SUFFICES ASSUME NEW k \in 2..n PROVE d[M[k \div 2]] <= d[M[k]]
  BY DEF M, Ordered
<1>3. k \div 2 \in 1..n /\ k \div 2 # k /\ k \in 1..n
  BY Halves
<1>4. d[N[k \div 2]] <= d[N[k]]
  BY DEF Ordered
<1>5. d[N[k \div 2]] \in Int /\ d[N[k]] \in Int /\ d[t] \in Int
  BY <1>1, <1>3
<1>6. CASE k = a
  <2>1. d[N[a \div 2]] <= d[t]
    BY <1>6
  <2> QED BY <1>2, <1>3, <1>6, <2>1
<1>7. CASE k # a /\ k \div 2 = a
  <2>1. M[k] = N[k] /\ M[k \div 2] = t
    BY <1>2, <1>3, <1>7
  <2> QED BY <1>4, <1>5, <1>7, <2>1
<1>8. CASE k # a /\ k \div 2 # a
  BY <1>2, <1>3, <1>4, <1>8
<1> QED BY <1>6, <1>7, <1>8

-----------------------------------------------------------------------------
(* One level of the way down of heap_insert.                               *)
InsertStates == [h : Heaps, t : Threads, p : Slots, at : Nat]

LEMMA InsertSwaps ==
  ASSUME NEW d, NEW s \in InsertStates, NEW b \in {0, 1},
         NEW u \in Threads, u = s.h.ptr[s.p], d[s.t] < d[u],
         \A c \in {0, 1} : s.p # Child(s.t, c)
  PROVE  LET r == InsertStep(d, s, b) IN
         /\ r \in InsertStates /\ r.h.size = s.h.size
         /\ r.t = u /\ r.p = Child(s.t, b) /\ r.at = 2 * s.at + b
         /\ r.h.ptr[s.p] = s.t
         /\ \A c \in {0, 1} : r.h.ptr[Child(s.t, c)] = s.h.ptr[Child(u, c)]
         /\ \A x \in Slots : x # s.p /\ (\A c \in {0, 1} : x # Child(s.t, c))
                                => r.h.ptr[x] = s.h.ptr[x]
         /\ r.h.index[s.t] = s.at
         /\ \A x \in Threads : x # s.t => r.h.index[x] = s.h.index[x]
<1> DEFINE r == InsertStep(d, s, b)
           q == [[[s.h.ptr EXCEPT ![Left(s.t)] = s.h.ptr[Left(u)]]
                           EXCEPT ![Right(s.t)] = s.h.ptr[Right(u)]]
                           EXCEPT ![s.p] = s.t]
           x == [s.h.index EXCEPT ![s.t] = s.at]
<1>1. /\ s.h \in Heaps /\ s.t \in Threads /\ s.p \in Slots /\ s.at \in Nat
      /\ s.h.ptr \in [Slots -> Threads \cup {None}] /\ s.h.index \in [Threads -> Nat]
      /\ s.h.size \in Nat
  BY DEF InsertStates, Heaps
<1>2. r = [h |-> [ptr |-> q, index |-> x, size |-> s.h.size],
           t |-> u, p |-> Child(s.t, b), at |-> 2 * s.at + b]
  BY DEF InsertStep
<1>3. r.t = u /\ r.p = Child(s.t, b) /\ r.at = 2 * s.at + b
  BY <1>2
<1>4. r.h = [ptr |-> q, index |-> x, size |-> s.h.size]
  BY <1>2
<1> HIDE DEF r
<1>5. r.h.ptr = q /\ r.h.index = x /\ r.h.size = s.h.size
  BY <1>4
<1>6. /\ Left(s.t) = Child(s.t, 0) /\ Right(s.t) = Child(s.t, 1)
      /\ Left(u) = Child(u, 0) /\ Right(u) = Child(u, 1)
      /\ \A c \in {0, 1} : Child(s.t, c) \in Slots /\ Child(u, c) \in Slots
      /\ Child(s.t, 0) # Child(s.t, 1)
  BY <1>1, ChildFacts
<1>7. q \in [Slots -> Threads \cup {None}]
  BY <1>1, <1>6
<1>8. x \in [Threads -> Nat]
  BY <1>1
<1>9. r \in InsertStates
  <2>1. r.h \in Heaps
    <3> HIDE DEF q, x
    <3> QED BY <1>1, <1>4, <1>7, <1>8 DEF Heaps
  <2>2. r = [h |-> r.h, t |-> r.t, p |-> r.p, at |-> r.at]
    BY <1>2, <1>3 DEF r
  <2>3. 2 * s.at + b \in Nat
    BY <1>1
  <2> QED BY <1>3, <1>6, <2>1, <2>2, <2>3 DEF InsertStates
<1>10. q[s.p] = s.t
  BY <1>1, <1>6
<1>11. q[Child(s.t, 0)] = s.h.ptr[Child(u, 0)] /\ q[Child(s.t, 1)] = s.h.ptr[Child(u, 1)]
  BY <1>1, <1>6
<1>12. \A y \in Slots : y # s.p /\ y # Child(s.t, 0) /\ y # Child(s.t, 1)
                          => q[y] = s.h.ptr[y]
  BY <1>1, <1>6
<1>13. x[s.t] = s.at /\ \A y \in Threads : y # s.t => x[y] = s.h.index[y]
  BY <1>1
<1> HIDE DEF q, x
<1> QED BY <1>3, <1>5, <1>9, <1>10, <1>11, <1>12, <1>13 DEF r

LEMMA InsertPasses ==
  ASSUME NEW d, NEW s \in InsertStates, NEW b \in {0, 1},
         NEW u \in Threads, u = s.h.ptr[s.p], ~(d[s.t] < d[u])
  PROVE  LET r == InsertStep(d, s, b) IN
         /\ r \in InsertStates /\ r.h = s.h
         /\ r.t = s.t /\ r.p = Child(u, b) /\ r.at = 2 * s.at + b
<1>1. InsertStep(d, s, b) = [s EXCEPT !.p = Child(u, b), !.at = 2 * s.at + b]
  BY DEF InsertStep
<1>2. Child(u, b) \in Slots /\ 2 * s.at + b \in Nat
  BY ChildFacts DEF InsertStates
<1> QED BY <1>1, <1>2 DEF InsertStates

(* Where heap_insert is when it has reached node k with s, after it was    *)
(* called for t and the heap that shows N: the threads on the way are due  *)
(* no later than the one in hand, and those below have kept their places.  *)
Inserting(d, h, t, N, n, s, M, k) ==
    /\ M \in Trees(n) /\ s \in InsertStates
    /\ Shows(s.h, M, n) /\ Ordered(d, M, n)
    /\ s.h.size = h.size /\ s.at = k /\ s.p = Slot(M, k)
    /\ s.t \notin Members(M, n)
    /\ Members(M, n) \cup {s.t} = Members(N, n) \cup {t}
    /\ \A j \in k..n : M[j] = N[j]
    /\ k > 1 => d[M[k \div 2]] <= d[s.t]

LEMMA InsertStepKeeps ==
  ASSUME NEW d \in [Threads -> Int], NEW h, NEW t, NEW N, NEW n \in Nat,
         NEW s, NEW M, NEW k \in 2..(n + 1), Inserting(d, h, t, N, n, s, M, k \div 2)
  PROVE  \E L : Inserting(d, h, t, N, n, InsertStep(d, s, k % 2), L, k)
<1> DEFINE a == k \div 2
           b == k % 2
           u == M[a]
           r == InsertStep(d, s, b)
<1> SUFFICES \E L : Inserting(d, h, t, N, n, r, L, k)
  OBVIOUS
<1>0. /\ a \in 1..n /\ b \in {0, 1} /\ k = 2 * a + b /\ a < k
      /\ k \in 2..(2 * n + 1) /\ a \in 1..(2 * n + 1)
  BY Halves
<1>1. /\ M \in Trees(n) /\ s \in InsertStates
      /\ Shows(s.h, M, n) /\ Ordered(d, M, n)
      /\ s.h.size = h.size /\ s.at = a /\ s.p = Slot(M, a)
      /\ s.t \notin Members(M, n)
      /\ Members(M, n) \cup {s.t} = Members(N, n) \cup {t}
      /\ \A j \in a..n : M[j] = N[j]
      /\ a > 1 => d[M[a \div 2]] <= d[s.t]
  BY DEF Inserting
<1>2. u \in Threads /\ u \in Members(M, n) /\ s.t \in Threads
  BY <1>0, <1>1 DEF Trees, Members, InsertStates
<1>3. u = s.h.ptr[s.p]
  BY <1>0, <1>1 DEF Shows, At
<1>4. Slot(M, k) = Child(u, b)
  BY <1>0, <1>1, SlotFacts
<1> HIDE DEF a, b, u, r
<1>5. CASE ~(d[s.t] < d[u])
  <2>1. r \in InsertStates /\ r.h = s.h /\ r.t = s.t /\ r.p = Child(u, b) /\ r.at = k
    <3>1. /\ r \in InsertStates /\ r.h = s.h
          /\ r.t = s.t /\ r.p = Child(u, b) /\ r.at = 2 * s.at + b
      BY <1>0, <1>1, <1>2, <1>3, <1>5, InsertPasses DEF r
    <3> QED BY <1>0, <1>1, <3>1
  <2>2. d[u] <= d[s.t]
    BY <1>2, <1>5
  <2>3. \A j \in k..n : M[j] = N[j]
    BY <1>0, <1>1
  <2> QED BY <1>1, <1>4, <2>1, <2>2, <2>3 DEF Inserting, a, u
<1>6. CASE d[s.t] < d[u]
  <2> DEFINE L == Placed(M, a, s.t)
  <2>1. \A c \in {0, 1} : s.p # Child(s.t, c)
    BY <1>0, <1>1, <1>2, InHandApart
  <2>2. /\ r \in InsertStates /\ r.h.size = s.h.size
        /\ r.t = u /\ r.p = Child(s.t, b) /\ r.at = 2 * s.at + b
        /\ r.h.ptr[s.p] = s.t
        /\ \A c \in {0, 1} : r.h.ptr[Child(s.t, c)] = s.h.ptr[Child(u, c)]
        /\ \A x \in Slots : x # s.p /\ (\A c \in {0, 1} : x # Child(s.t, c))
                               => r.h.ptr[x] = s.h.ptr[x]
        /\ r.h.index[s.t] = s.at
        /\ \A x \in Threads : x # s.t => r.h.index[x] = s.h.index[x]
    BY <1>0, <1>1, <1>2, <1>3, <1>6, <2>1, InsertSwaps DEF r
  <2>3. /\ L \in Trees(n) /\ L[a] = s.t
        /\ \A i \in 1..n : i # a => L[i] = M[i]
        /\ u \notin Members(L, n)
        /\ Members(L, n) \cup {u} = Members(M, n) \cup {s.t}
        /\ \A j \in 2..(2 * n + 1) :
              Slot(L, j) = IF j \div 2 = a THEN Child(s.t, j % 2) ELSE Slot(M, j)
    BY <1>0, <1>1, <1>2, PlacedFacts DEF u
  <2>4. Shows(r.h, L, n)
    <3>1. \A x \in Members(M, n) : x \in Threads /\ x # s.t
      BY <1>1 DEF Members, Trees
    <3>2. \A x \in Members(M, n) : x # u => r.h.index[x] = s.h.index[x]
      BY <2>2, <3>1
    <3>3. /\ M \in Trees(n) /\ a \in 1..n /\ s.t \in Threads /\ s.t \notin Members(M, n)
          /\ Shows(s.h, M, n) /\ r.h.ptr[Slot(M, a)] = s.t /\ r.h.index[s.t] = a
      BY <1>0, <1>1, <1>2, <2>2
    <3>4. \A x \in Slots : x # Slot(M, a) /\ (\A c \in {0, 1} : x # Child(s.t, c))
                               => r.h.ptr[x] = s.h.ptr[x]
      BY <1>1, <2>2
    <3>5. \A c \in {0, 1} : r.h.ptr[Child(s.t, c)] = s.h.ptr[Child(M[a], c)]
      BY <2>2 DEF u
    <3>6. \A x \in Members(M, n) : x # M[a] => r.h.index[x] = s.h.index[x]
      BY <3>2 DEF u
    <3>7. PlaceWritten(r.h, s.h, M, n, a, s.t)
      BY <3>3, <3>4, <3>5, <3>6 DEF PlaceWritten
    <3> QED BY <3>3, <3>7, PlacedShows
  <2>5. Ordered(d, L, n)
    <3>1. d[s.t] <= d[u]
      BY <1>2, <1>6
    <3> QED BY <1>0, <1>1, <1>2, <3>1, PlacedOrdered DEF u
  <2> HIDE DEF L
  <2>6. r.p = Slot(L, k) /\ r.at = k
    BY <1>0, <1>1, <2>2, <2>3
  <2>7. \A j \in k..n : L[j] = N[j]
    <3>1. \A j \in k..n : j \in a..n /\ j \in 1..n /\ j # a
      BY <1>0
    <3> QED BY <1>1, <2>3, <3>1
  <2>8. d[L[a]] <= d[r.t]
    BY <1>2, <1>6, <2>2, <2>3
  <2>9. Inserting(d, h, t, N, n, r, L, k)
    BY <1>1, <2>2, <2>3, <2>4, <2>5, <2>6, <2>7, <2>8 DEF Inserting, a
  <2> QED BY <2>9
<1> QED BY <1>5, <1>6

-----------------------------------------------------------------------------
(* The way down is a function that exists, and arrives.                    *)
WayDef(f, d, s, m) ==
    f = [n \in 1..m |-> IF n = 1 THEN s ELSE InsertStep(d, f[n \div 2], n % 2)]

LEMMA WayExists ==
  ASSUME NEW d, NEW s, NEW m \in Nat
  PROVE  \E f : WayDef(f, d, s, m)
<1> DEFINE Good == {k \in 0..m : \E f : WayDef(f, d, s, k)}
<1>1. 0 \in Good
  <2> DEFINE f == [n \in 1..0 |-> s]
  <2>1. f = [n \in 1..0 |-> IF n = 1 THEN s ELSE InsertStep(d, f[n \div 2], n % 2)]
    OBVIOUS
  <2> HIDE DEF f
  <2>2. WayDef(f, d, s, 0) /\ 0 \in 0..m
    BY <2>1 DEF WayDef
  <2> QED BY <2>2
<1>2. ASSUME NEW k \in 1..m, k - 1 \in Good PROVE k \in Good
  <2>1. PICK f : WayDef(f, d, s, k - 1)
    BY <1>2
  <2>2. \A n \in 1..(k - 1) :
           f[n] = IF n = 1 THEN s ELSE InsertStep(d, f[n \div 2], n % 2)
    BY <2>1 DEF WayDef
  <2> DEFINE e == IF k = 1 THEN s ELSE InsertStep(d, f[k \div 2], k % 2)
             g == [n \in 1..k |-> IF n = k THEN e ELSE f[n]]
  <2>3. \A n \in 1..k : n # 1 => n \div 2 \in 1..k /\ n \div 2 # k
    BY Halves
  <2>4. \A n \in 1..k : n # k => n \in 1..(k - 1)
    OBVIOUS
  <2>5. \A n \in 1..k : n # 1 => g[n \div 2] = f[n \div 2]
    BY <2>3
  <2>6. ASSUME NEW n \in 1..k
        PROVE  g[n] = IF n = 1 THEN s ELSE InsertStep(d, g[n \div 2], n % 2)
    <3>1. CASE n = k
      <4>1. g[n] = e
        BY <3>1
      <4> QED BY <2>5, <3>1, <4>1
    <3>2. CASE n # k
      <4>1. g[n] = f[n]
        BY <3>2
      <4> HIDE DEF g
      <4> QED BY <2>2, <2>4, <2>5, <3>2, <4>1
    <3> QED BY <3>1, <3>2
  <2>7. g = [n \in 1..k |-> g[n]] /\ k \in 0..m
    OBVIOUS
  <2> HIDE DEF g
  <2>8. WayDef(g, d, s, k)
    BY <2>6, <2>7 DEF WayDef
  <2> QED BY <2>7, <2>8
<1> HIDE DEF Good
<1>3. m \in Good
  <2>1. \A k \in 0..m : k \in Good
    BY <1>1, <1>2, LoopInvariant
  <2> QED BY <2>1
<1> QED BY <1>3 DEF Good

LEMMA InsertArrives ==
  ASSUME NEW d \in [Threads -> Int], NEW n \in Nat, NEW N \in Trees(n),
         NEW h \in Heaps, Shows(h, N, n), Ordered(d, N, n),
         NEW t \in Threads, t \notin Members(N, n), h.index[t] \in 1..(n + 1)
  PROVE  \E M : Inserting(d, h, t, N, n, InsertWay(d, h, t), M, h.index[t])
<1> DEFINE m == h.index[t]
           s == [h |-> h, t |-> t, p |-> SLEEPQ, at |-> 1]
           way == CHOOSE f : WayDef(f, d, s, m)
           Good == {k \in 1..m : \E M : Inserting(d, h, t, N, n, way[k], M, k)}
<1>0. m \in Nat /\ m \in 1..m /\ m <= n + 1
  OBVIOUS
<1>1. InsertWay(d, h, t) = way[m]
  BY DEF InsertWay, WayDef
<1> HIDE DEF m, s
<1>2. WayDef(way, d, s, m)
  BY <1>0, WayExists
<1> HIDE DEF way
<1>3. \A k \in 1..m : way[k] = IF k = 1 THEN s ELSE InsertStep(d, way[k \div 2], k % 2)
  BY <1>2 DEF WayDef
<1>4. 1 \in Good
  <2>1. way[1] = s /\ 1 \in 1..m
    BY <1>0, <1>3
  <2>2. s \in InsertStates /\ s.h = h /\ s.t = t /\ s.p = SLEEPQ /\ s.at = 1
    BY ChildFacts DEF InsertStates, s
  <2>3. Inserting(d, h, t, N, n, s, N, 1)
    BY <2>2, SlotFacts DEF Inserting
  <2> QED BY <2>1, <2>3
<1>5. ASSUME NEW k \in 2..m, k \div 2 \in Good PROVE k \in Good
  <2>1. PICK M : Inserting(d, h, t, N, n, way[k \div 2], M, k \div 2)
    BY <1>5
  <2>2. k \in 2..(n + 1) /\ k \in 1..m /\ k # 1
    BY <1>0
  <2>3. \E L : Inserting(d, h, t, N, n, InsertStep(d, way[k \div 2], k % 2), L, k)
    BY <2>1, <2>2, InsertStepKeeps
  <2> QED BY <1>3, <2>2, <2>3
<1> HIDE DEF Good
<1>6. m \in Good
  BY <1>0, <1>4, <1>5, TreeInduction
<1> QED BY <1>1, <1>6 DEF Good, m

(* What it does there.                                                     *)
LEMMA InsertIs ==
  ASSUME NEW d, NEW h, NEW t, NEW s \in InsertStates, s = InsertWay(d, h, t),
         \A b \in {0, 1} : s.p # Child(s.t, b)
  PROVE  LET g == heap_insert(d, h, t).h IN
         /\ g \in Heaps /\ g.size = s.h.size /\ heap_insert(d, h, t).p = s.p
         /\ g.ptr[s.p] = s.t
         /\ \A b \in {0, 1} : g.ptr[Child(s.t, b)] = None
         /\ \A x \in Slots : x # s.p /\ (\A b \in {0, 1} : x # Child(s.t, b))
                                => g.ptr[x] = s.h.ptr[x]
         /\ g.index[s.t] = s.at
         /\ \A x \in Threads : x # s.t => g.index[x] = s.h.index[x]
<1> DEFINE g == heap_insert(d, h, t).h
           q == [s.h.ptr EXCEPT ![s.p] = s.t, ![Left(s.t)] = None, ![Right(s.t)] = None]
           x == [s.h.index EXCEPT ![s.t] = s.at]
<1>1. /\ s.t \in Threads /\ s.p \in Slots /\ s.at \in Nat /\ s.h.size \in Nat
      /\ s.h.ptr \in [Slots -> Threads \cup {None}] /\ s.h.index \in [Threads -> Nat]
  BY DEF InsertStates, Heaps
<1>2. /\ Left(s.t) = Child(s.t, 0) /\ Right(s.t) = Child(s.t, 1)
      /\ Child(s.t, 0) \in Slots /\ Child(s.t, 1) \in Slots
      /\ Child(s.t, 0) # Child(s.t, 1)
  BY <1>1, ChildFacts
<1>3. heap_insert(d, h, t) = [h |-> [ptr |-> q, index |-> x, size |-> s.h.size], p |-> s.p]
  BY DEF heap_insert
<1>4. g = [ptr |-> q, index |-> x, size |-> s.h.size] /\ heap_insert(d, h, t).p = s.p
  BY <1>3
<1> HIDE DEF g
<1>5. q \in [Slots -> Threads \cup {None}] /\ x \in [Threads -> Nat]
  BY <1>1
<1>6. q[s.p] = s.t /\ q[Child(s.t, 0)] = None /\ q[Child(s.t, 1)] = None
  BY <1>1, <1>2
<1>7. \A y \in Slots : y # s.p /\ y # Child(s.t, 0) /\ y # Child(s.t, 1)
                          => q[y] = s.h.ptr[y]
  BY <1>1, <1>2
<1>8. x[s.t] = s.at /\ \A y \in Threads : y # s.t => x[y] = s.h.index[y]
  BY <1>1
<1> HIDE DEF q, x
<1>9. g \in Heaps /\ g.ptr = q /\ g.index = x /\ g.size = s.h.size
  BY <1>1, <1>4, <1>5 DEF Heaps
<1> QED BY <1>4, <1>6, <1>7, <1>8, <1>9 DEF g

-----------------------------------------------------------------------------
(* A thread that is inserted at the end of the tree.                       *)
Grown(N, n, t) == [k \in 1..(n + 1) |-> IF k = n + 1 THEN t ELSE N[k]]

LEMMA GrownFacts ==
  ASSUME NEW n \in Nat, NEW N \in Trees(n), NEW t \in Threads, t \notin Members(N, n)
  PROVE  LET L == Grown(N, n, t) IN
         /\ L \in Trees(n + 1) /\ L[n + 1] = t
         /\ \A i \in 1..n : L[i] = N[i]
         /\ Members(L, n + 1) = Members(N, n) \cup {t}
         /\ \A k \in 1..(2 * n + 1) : Slot(L, k) = Slot(N, k)
         /\ \A b \in {0, 1} : Slot(L, 2 * (n + 1) + b) = Child(t, b)
<1> DEFINE L == Grown(N, n, t)
<1>1. N \in [1..n -> Threads] /\ \A i, j \in 1..n : N[i] = N[j] => i = j
  BY DEF Trees
<1>2. \A i \in 1..n : N[i] # t
  BY DEF Members
<1>3. \A i \in 1..(n + 1) : i = n + 1 \/ (i \in 1..n /\ i # n + 1)
  OBVIOUS
<1>4. \A i \in 1..n : i \in 1..(n + 1) /\ i # n + 1
  OBVIOUS
<1>5. n + 1 \in 1..(n + 1)
  OBVIOUS
<1>6. L[n + 1] = t /\ \A i \in 1..n : L[i] = N[i]
  BY <1>4, <1>5 DEF Grown
<1>7. L \in [1..(n + 1) -> Threads]
  BY <1>1, <1>3 DEF Grown
<1> HIDE DEF L
<1>8. L \in Trees(n + 1)
  BY <1>1, <1>2, <1>3, <1>6, <1>7 DEF Trees
<1>9. Members(L, n + 1) = Members(N, n) \cup {t}
  BY <1>3, <1>4, <1>5, <1>6 DEF Members
<1>10. ASSUME NEW k \in 1..(2 * n + 1) PROVE Slot(L, k) = Slot(N, k)
  <2>1. CASE k = 1
    BY <2>1 DEF Slot
  <2>2. CASE k # 1
    <3>1. k \div 2 \in 1..n
      BY <2>2
    <3> QED BY <1>6, <2>2, <3>1 DEF Slot
  <2> QED BY <2>1, <2>2
<1>11. \A b \in {0, 1} : Slot(L, 2 * (n + 1) + b) = Child(t, b)
  BY <1>5, <1>6, <1>8, SlotFacts
<1> QED BY <1>6, <1>8, <1>9, <1>10, <1>11 DEF L

LEMMA GrownShows ==
  ASSUME NEW n \in Nat, NEW N \in Trees(n), NEW t \in Threads, t \notin Members(N, n),
         NEW h, NEW g, Shows(h, N, n),
         g.ptr[Slot(N, n + 1)] = t,
         \A b \in {0, 1} : g.ptr[Child(t, b)] = None,
         \A x \in Slots : x # Slot(N, n + 1) /\ (\A b \in {0, 1} : x # Child(t, b))
                             => g.ptr[x] = h.ptr[x],
         g.index[t] = n + 1,
         \A x \in Members(N, n) : g.index[x] = h.index[x]
  PROVE  Shows(g, Grown(N, n, t), n + 1)
<1> DEFINE L == Grown(N, n, t)
<1>1. /\ L \in Trees(n + 1) /\ L[n + 1] = t
      /\ \A i \in 1..n : L[i] = N[i]
      /\ \A k \in 1..(2 * n + 1) : Slot(L, k) = Slot(N, k)
      /\ \A b \in {0, 1} : Slot(L, 2 * (n + 1) + b) = Child(t, b)
  BY GrownFacts
<1> HIDE DEF L
<1>2. /\ \A k \in 1..(2 * n + 1) : h.ptr[Slot(N, k)] = At(N, n, k)
      /\ \A k \in 1..n : h.index[N[k]] = k
  BY DEF Shows
<1>3. /\ \A k \in 1..(2 * n + 1) : Slot(N, k) \in Slots
      /\ \A j, k \in 1..(2 * n + 1) : Slot(N, j) = Slot(N, k) => j = k
  BY SlotFacts
<1>4. \A k \in 1..(2 * n + 1) : \A b \in {0, 1} : Slot(N, k) # Child(t, b)
  BY InHandApart
<1>5. ASSUME NEW k \in 1..(2 * (n + 1) + 1) PROVE g.ptr[Slot(L, k)] = At(L, n + 1, k)
  <2>1. CASE k \in 1..(2 * n + 1) /\ k = n + 1
    BY <1>1, <2>1 DEF At
  <2>2. CASE k \in 1..(2 * n + 1) /\ k # n + 1
    <3>1. Slot(L, k) = Slot(N, k) /\ n + 1 \in 1..(2 * n + 1)
      BY <1>1, <2>2
    <3>2. g.ptr[Slot(N, k)] = h.ptr[Slot(N, k)]
      BY <1>3, <1>4, <2>2, <3>1
    <3>3. At(L, n + 1, k) = At(N, n, k)
      BY <1>1, <2>2 DEF At
    <3> QED BY <1>2, <2>2, <3>1, <3>2, <3>3
  <2>3. CASE k \notin 1..(2 * n + 1)
    <3>1. PICK b \in {0, 1} : k = 2 * (n + 1) + b
      BY <2>3
    <3>2. g.ptr[Slot(L, k)] = None
      BY <1>1, <3>1
    <3>3. k \notin 1..(n + 1)
      BY <3>1
    <3> QED BY <3>2, <3>3 DEF At
  <2> QED BY <2>1, <2>2, <2>3
<1>6. ASSUME NEW k \in 1..(n + 1) PROVE g.index[L[k]] = k
  <2>1. CASE k = n + 1
    BY <1>1, <2>1
  <2>2. CASE k # n + 1
    <3>1. k \in 1..n /\ N[k] \in Members(N, n)
      BY <2>2 DEF Members
    <3> QED BY <1>1, <1>2, <3>1
  <2> QED BY <2>1, <2>2
<1> QED BY <1>5, <1>6 DEF L, Shows

LEMMA GrownOrdered ==
  ASSUME NEW n \in Nat, NEW N \in Trees(n), NEW t \in Threads, t \notin Members(N, n),
         NEW d, Ordered(d, N, n), n + 1 > 1 => d[N[(n + 1) \div 2]] <= d[t]
  PROVE  Ordered(d, Grown(N, n, t), n + 1)
<1> DEFINE L == Grown(N, n, t)
<1>1. L[n + 1] = t /\ \A i \in 1..n : L[i] = N[i]
  BY GrownFacts
<1> HIDE DEF L
<1> SUFFICES ASSUME NEW k \in 2..(n + 1) PROVE d[L[k \div 2]] <= d[L[k]]
  BY DEF L, Ordered
<1>2. k \div 2 \in 1..n /\ n + 1 > 1
  BY Halves
<1>3. CASE k = n + 1
  BY <1>1, <1>2, <1>3
<1>4. CASE k # n + 1
  <2>1. k \in 2..n /\ k \in 1..n
    BY <1>4
  <2> QED BY <1>1, <1>2, <2>1 DEF Ordered
<1> QED BY <1>3, <1>4

(* heap_insert at the end (_st_add_sleep_q).                               *)
LEMMA InsertAtEnd ==
  ASSUME NEW d \in [Threads -> Int], NEW n \in Nat, NEW N \in Trees(n),
         NEW h \in Heaps, Shows(h, N, n), Ordered(d, N, n),
         NEW t \in Threads, t \notin Members(N, n), h.index[t] = n + 1
  PROVE  LET g == heap_insert(d, h, t).h IN
         /\ g \in Heaps /\ g.size = h.size
         /\ \E L \in Trees(n + 1) : /\ Shows(g, L, n + 1) /\ Ordered(d, L, n + 1)
                                    /\ Members(L, n + 1) = Members(N, n) \cup {t}
<1> DEFINE s == InsertWay(d, h, t)
           g == heap_insert(d, h, t).h
<1>0. n + 1 \in 1..(n + 1) /\ n + 1 \in 1..(2 * n + 1)
  OBVIOUS
<1>1. PICK M : Inserting(d, h, t, N, n, s, M, n + 1)
  BY <1>0, InsertArrives
<1> HIDE DEF s, g
<1>2. /\ M \in Trees(n) /\ s \in InsertStates
      /\ Shows(s.h, M, n) /\ Ordered(d, M, n)
      /\ s.h.size = h.size /\ s.at = n + 1 /\ s.p = Slot(M, n + 1)
      /\ s.t \notin Members(M, n) /\ s.t \in Threads
      /\ Members(M, n) \cup {s.t} = Members(N, n) \cup {t}
      /\ n + 1 > 1 => d[M[(n + 1) \div 2]] <= d[s.t]
  BY <1>1 DEF Inserting, InsertStates
<1>3. \A b \in {0, 1} : s.p # Child(s.t, b)
  BY <1>0, <1>2, InHandApart
<1>4. /\ g \in Heaps /\ g.size = s.h.size
      /\ g.ptr[s.p] = s.t
      /\ \A b \in {0, 1} : g.ptr[Child(s.t, b)] = None
      /\ \A x \in Slots : x # s.p /\ (\A b \in {0, 1} : x # Child(s.t, b))
                             => g.ptr[x] = s.h.ptr[x]
      /\ g.index[s.t] = s.at
      /\ \A x \in Threads : x # s.t => g.index[x] = s.h.index[x]
  BY <1>2, <1>3, InsertIs DEF s, g
<1> DEFINE L == Grown(M, n, s.t)
<1>5. L \in Trees(n + 1) /\ Members(L, n + 1) = Members(M, n) \cup {s.t}
  BY <1>2, GrownFacts
<1>6. Ordered(d, L, n + 1)
  BY <1>2, GrownOrdered
<1>7. Shows(g, L, n + 1)
  <2>1. \A x \in Members(M, n) : x \in Threads /\ x # s.t
    BY <1>2 DEF Members, Trees
  <2>2. \A x \in Members(M, n) : g.index[x] = s.h.index[x]
    BY <1>4, <2>1
  <2>3. /\ g.ptr[Slot(M, n + 1)] = s.t /\ g.index[s.t] = n + 1
        /\ \A x \in Slots : x # Slot(M, n + 1) /\ (\A b \in {0, 1} : x # Child(s.t, b))
                               => g.ptr[x] = s.h.ptr[x]
    BY <1>2, <1>4
  <2> QED BY <1>2, <1>4, <2>2, <2>3, GrownShows
<1> HIDE DEF L
<1> QED BY <1>2, <1>4, <1>5, <1>6, <1>7 DEF g

-----------------------------------------------------------------------------
(* The tree is in order but for the children of node k, which may be due   *)
(* before it, though not before its parent.                                *)
AlmostOrdered(d, N, n, k) ==
    /\ \A j \in 2..n : j \div 2 # k => d[N[j \div 2]] <= d[N[j]]
    /\ k > 1 => \A j \in 2..n : j \div 2 = k => d[N[k \div 2]] <= d[N[j]]

LEMMA PlacedAlmost ==
  ASSUME NEW n \in Nat, NEW N \in Trees(n), NEW a \in 1..n, NEW t \in Threads,
         NEW d \in [Threads -> Int], Ordered(d, N, n),
         a > 1 => d[N[a \div 2]] <= d[t]
  PROVE  AlmostOrdered(d, Placed(N, a, t), n, a)
<1> DEFINE M == Placed(N, a, t)
<1>1. N \in [1..n -> Threads]
  BY DEF Trees
<1>2. M[a] = t /\ \A i \in 1..n : i # a => M[i] = N[i]
  BY <1>1 DEF Placed
<1> HIDE DEF M
<1>3. \A k \in 2..n : k \div 2 \in 1..n /\ k \div 2 # k /\ k \in 1..n
  BY Halves
<1>4. \A k \in 2..n : /\ d[N[k \div 2]] <= d[N[k]]
                      /\ d[N[k \div 2]] \in Int /\ d[N[k]] \in Int
  BY <1>1, <1>3 DEF Ordered
<1>5. ASSUME NEW k \in 2..n, k \div 2 # a PROVE d[M[k \div 2]] <= d[M[k]]
  <2>1. M[k \div 2] = N[k \div 2]
    BY <1>2, <1>3, <1>5
  <2>2. CASE k = a
    <3>1. d[N[a \div 2]] <= d[t]
      BY <2>2
    <3> QED BY <1>2, <2>1, <2>2, <3>1
  <2>3. CASE k # a
    BY <1>2, <1>3, <1>4, <2>1, <2>3
  <2> QED BY <2>2, <2>3
<1>6. ASSUME a > 1, NEW k \in 2..n, k \div 2 = a PROVE d[M[a \div 2]] <= d[M[k]]
  <2>1. a \in 2..n /\ a \div 2 \in 1..n /\ a \div 2 # a
    BY <1>3, <1>6
  <2>2. M[a \div 2] = N[a \div 2] /\ M[k] = N[k]
    BY <1>2, <1>3, <1>6, <2>1
  <2>3. d[N[a \div 2]] <= d[N[a]] /\ d[N[a]] <= d[N[k]]
    BY <1>4, <1>6, <2>1
  <2>4. d[N[a \div 2]] \in Int /\ d[N[a]] \in Int /\ d[N[k]] \in Int
    BY <1>4, <2>1
  <2>5. d[N[a \div 2]] <= d[N[k]]
    BY <2>3, <2>4
  <2> QED BY <2>2, <2>5
<1> QED BY <1>5, <1>6 DEF AlmostOrdered, M

(* heap_insert in the place of a thread whose children are taken over      *)
(* (heap_delete).                                                          *)
TakenOver(d, h, t, last) ==
    LET i == [ptr |-> h.ptr, index |-> [h.index EXCEPT ![last] = h.index[t]],
              size |-> h.size]
        s == heap_insert(d, i, last)
        u == s.h.ptr[s.p]
        g == [ptr |-> [s.h.ptr EXCEPT ![Left(u)] = s.h.ptr[Left(t)],
                                      ![Right(u)] = s.h.ptr[Right(t)]],
              index |-> s.h.index, size |-> s.h.size]
    IN  [h |-> g, p |-> s.p]

LEMMA TakenOverIs ==
  ASSUME NEW d \in [Threads -> Int], NEW n \in Nat, NEW N \in Trees(n),
         NEW h \in Heaps, Shows(h, N, n), Ordered(d, N, n), NEW a \in 1..n,
         NEW last \in Threads, last \notin Members(N, n)
  PROVE  LET s == TakenOver(d, h, N[a], last) IN
         /\ s.h \in Heaps /\ s.h.size = h.size
         /\ \E L \in Trees(n) : /\ Shows(s.h, L, n) /\ AlmostOrdered(d, L, n, a)
                                /\ s.p = Slot(L, a)
                                /\ Members(L, n) = (Members(N, n) \cup {last}) \ {N[a]}
<1> DEFINE t == N[a]
           i == [ptr |-> h.ptr, index |-> [h.index EXCEPT ![last] = h.index[t]],
                 size |-> h.size]
           w == InsertWay(d, i, last)
           r == heap_insert(d, i, last)
           u == r.h.ptr[r.p]
           q == [r.h.ptr EXCEPT ![Left(u)] = r.h.ptr[Left(t)],
                                ![Right(u)] = r.h.ptr[Right(t)]]
           g == [ptr |-> q, index |-> r.h.index, size |-> r.h.size]
           s == TakenOver(d, h, t, last)
<1>0. s = [h |-> g, p |-> r.p]
  BY DEF TakenOver
<1>1. /\ t \in Threads /\ t # last /\ t \in Members(N, n)
      /\ h.ptr \in [Slots -> Threads \cup {None}] /\ h.index \in [Threads -> Nat]
      /\ h.size \in Nat /\ h.index[t] = a
      /\ a \in 1..(2 * n + 1) /\ a \in 1..(n + 1)
  BY DEF Trees, Members, Heaps, Shows
<1>2. /\ i \in Heaps /\ i.ptr = h.ptr /\ i.size = h.size
      /\ i.index[last] = a /\ \A x \in Threads : x # last => i.index[x] = h.index[x]
  BY <1>1 DEF Heaps
<1> HIDE DEF s, g, i
<1>3. Shows(i, N, n)
  <2>1. \A k \in 1..n : N[k] \in Threads /\ N[k] # last
    BY DEF Trees, Members
  <2> QED BY <1>2, <2>1 DEF Shows
<1>4. PICK M : Inserting(d, i, last, N, n, w, M, a)
  BY <1>1, <1>2, <1>3, InsertArrives
<1> HIDE DEF w
<1>5. /\ M \in Trees(n) /\ w \in InsertStates
      /\ Shows(w.h, M, n) /\ Ordered(d, M, n)
      /\ w.h.size = h.size /\ w.at = a /\ w.p = Slot(M, a)
      /\ w.t \notin Members(M, n) /\ w.t \in Threads
      /\ Members(M, n) \cup {w.t} = Members(N, n) \cup {last}
      /\ M[a] = t
      /\ a > 1 => d[M[a \div 2]] <= d[w.t]
  BY <1>2, <1>4 DEF Inserting, InsertStates
<1>6. \A b \in {0, 1} : w.p # Child(w.t, b)
  BY <1>1, <1>5, InHandApart
<1>7. /\ r.h \in Heaps /\ r.h.size = w.h.size /\ r.p = w.p
      /\ r.h.ptr[w.p] = w.t
      /\ \A x \in Slots : x # w.p /\ (\A b \in {0, 1} : x # Child(w.t, b))
                             => r.h.ptr[x] = w.h.ptr[x]
      /\ r.h.index[w.t] = w.at
      /\ \A x \in Threads : x # w.t => r.h.index[x] = w.h.index[x]
  BY <1>5, <1>6, InsertIs DEF w
<1> HIDE DEF r
<1>8. u = w.t /\ w.t # t
  BY <1>5, <1>7 DEF Members
<1> HIDE DEF u
<1>9. /\ Left(u) = Child(u, 0) /\ Right(u) = Child(u, 1)
      /\ Left(t) = Child(t, 0) /\ Right(t) = Child(t, 1)
      /\ \A b \in {0, 1} : Child(u, b) \in Slots /\ Child(t, b) \in Slots
      /\ Child(u, 0) # Child(u, 1)
      /\ \A b, c \in {0, 1} : Child(t, b) # Child(u, c)
  BY <1>1, <1>5, <1>8, ChildFacts
<1>10. \A b \in {0, 1} : Child(t, b) # w.p
  <2> TAKE b \in {0, 1}
  <2>1. 2 * a + b \in 1..(2 * n + 1) /\ 2 * a + b # a
    OBVIOUS
  <2>2. Slot(M, 2 * a + b) = Child(M[a], b)
    BY <1>5, SlotFacts
  <2> QED BY <1>1, <1>5, <2>1, <2>2, SlotFacts
<1>11. r.h.ptr \in [Slots -> Threads \cup {None}]
  BY <1>7 DEF Heaps
<1>12. /\ q \in [Slots -> Threads \cup {None}]
       /\ q[Child(u, 0)] = r.h.ptr[Child(t, 0)] /\ q[Child(u, 1)] = r.h.ptr[Child(t, 1)]
       /\ \A x \in Slots : x # Child(u, 0) /\ x # Child(u, 1) => q[x] = r.h.ptr[x]
  BY <1>9, <1>11
<1> HIDE DEF q
<1>13. g \in Heaps /\ g.ptr = q /\ g.index = r.h.index /\ g.size = h.size
  BY <1>5, <1>7, <1>12 DEF Heaps, g
<1> DEFINE L == Placed(M, a, w.t)
<1>14. Shows(g, L, n)
  <2>1. g.ptr[Slot(M, a)] = w.t
    BY <1>5, <1>6, <1>7, <1>8, <1>12, <1>13 DEF InsertStates
  <2>2. \A b \in {0, 1} : g.ptr[Child(w.t, b)] = w.h.ptr[Child(M[a], b)]
    BY <1>5, <1>7, <1>8, <1>9, <1>10, <1>12, <1>13
  <2>3. \A x \in Slots : x # Slot(M, a) /\ (\A b \in {0, 1} : x # Child(w.t, b))
                            => g.ptr[x] = w.h.ptr[x]
    BY <1>5, <1>7, <1>8, <1>12, <1>13
  <2>4. \A x \in Members(M, n) : x \in Threads /\ x # w.t
    BY <1>5 DEF Members, Trees
  <2>5. \A x \in Members(M, n) : x # M[a] => g.index[x] = w.h.index[x]
    BY <1>7, <1>13, <2>4
  <2>6. g.index[w.t] = a
    BY <1>5, <1>7, <1>13
  <2>7. M \in Trees(n) /\ w.t \in Threads /\ w.t \notin Members(M, n) /\ Shows(w.h, M, n)
    BY <1>5 DEF InsertStates
  <2> HIDE DEF w, L
  <2>8. PlaceWritten(g, w.h, M, n, a, w.t)
    BY <2>1, <2>2, <2>3, <2>5, <2>6 DEF PlaceWritten
  <2> QED BY <2>7, <2>8, PlacedShows DEF L
<1>15. AlmostOrdered(d, L, n, a)
  BY <1>5, PlacedAlmost
<1>16. /\ L \in Trees(n)
       /\ M[a] \notin Members(L, n) /\ Members(L, n) \cup {M[a]} = Members(M, n) \cup {w.t}
       /\ \A k \in 2..(2 * n + 1) : k \div 2 # a => Slot(L, k) = Slot(M, k)
  <2>1. M \in Trees(n) /\ w.t \in Threads /\ w.t \notin Members(M, n)
    BY <1>5
  <2> HIDE DEF L
  <2>2. /\ L \in Trees(n)
        /\ M[a] \notin Members(L, n)
        /\ Members(L, n) \cup {M[a]} = Members(M, n) \cup {w.t}
        /\ \A k \in 2..(2 * n + 1) :
              Slot(L, k) = IF k \div 2 = a THEN Child(w.t, k % 2) ELSE Slot(M, k)
    BY <2>1, PlacedFacts DEF L
  <2> QED BY <2>2
<1> HIDE DEF L
<1>17. Members(L, n) = (Members(N, n) \cup {last}) \ {t}
  BY <1>5, <1>16
<1>18. Slot(M, a) = Slot(L, a)
  <2>1. CASE a = 1
    BY <2>1 DEF Slot
  <2>2. CASE a # 1
    <3>1. a \in 2..(2 * n + 1) /\ a \div 2 # a
      BY <1>1, <2>2, Halves
    <3> QED BY <1>16, <3>1
  <2> QED BY <2>1, <2>2
<1>19. s.h = g /\ s.p = Slot(L, a)
  BY <1>0, <1>5, <1>7, <1>18
<1> QED BY <1>13, <1>14, <1>15, <1>16, <1>17, <1>19 DEF s

-----------------------------------------------------------------------------
(* A thread changes places with a child (the loop of heap_delete).         *)
Swapped(N, k, c) == [N EXCEPT ![k] = N[c], ![c] = N[k]]

(* M is the tree N with the threads at k and c exchanged.                  *)
Exchange(M, N, n, k, c) ==
    /\ M \in Trees(n) /\ M[k] = N[c] /\ M[c] = N[k]
    /\ \A i \in 1..n : i # k /\ i # c => M[i] = N[i]
    /\ Members(M, n) = Members(N, n)
    /\ \A j \in 2..(2 * n + 1) :
          Slot(M, j) = IF j \div 2 = k THEN Child(N[c], j % 2)
                       ELSE IF j \div 2 = c THEN Child(N[k], j % 2)
                       ELSE Slot(N, j)

LEMMA SwappedFacts ==
  ASSUME NEW n \in Nat, NEW N \in Trees(n), NEW k \in 1..n, NEW c \in 1..n, k # c
  PROVE  Exchange(Swapped(N, k, c), N, n, k, c)
<1> DEFINE M == Swapped(N, k, c)
<1>1. N \in [1..n -> Threads] /\ \A i, j \in 1..n : N[i] = N[j] => i = j
  BY DEF Trees
<1>2. /\ M \in [1..n -> Threads] /\ M[k] = N[c] /\ M[c] = N[k]
      /\ \A i \in 1..n : i # k /\ i # c => M[i] = N[i]
  BY <1>1 DEF Swapped
<1> HIDE DEF M
<1>3. M \in Trees(n)
  BY <1>1, <1>2 DEF Trees
<1>4. Members(M, n) = Members(N, n)
  <2>1. \A i \in 1..n : M[i] \in Members(N, n)
    BY <1>2 DEF Members
  <2>2. \A i \in 1..n : N[i] \in Members(M, n)
    BY <1>2 DEF Members
  <2> QED BY <2>1, <2>2 DEF Members
<1>5. ASSUME NEW j \in 2..(2 * n + 1)
      PROVE  Slot(M, j) = IF j \div 2 = k THEN Child(N[c], j % 2)
                          ELSE IF j \div 2 = c THEN Child(N[k], j % 2)
                          ELSE Slot(N, j)
  <2>1. /\ j \div 2 \in 1..n /\ Slot(N, j) = Child(N[j \div 2], j % 2)
    BY SlotParent
  <2>2. Slot(M, j) = Child(M[j \div 2], j % 2)
    BY <1>3, SlotParent
  <2> QED BY <1>2, <2>1, <2>2
<1> QED BY <1>2, <1>3, <1>4, <1>5 DEF M, Exchange

(* What the loop writes into h: the slot of node k and the fields of the   *)
(* threads at k and at c, its child on side b.                             *)
SwapWritten(g, h, N, n, k, c, b) ==
    /\ g.ptr[Slot(N, k)] = N[c]
    /\ g.ptr[Child(N[c], b)] = N[k]
    /\ g.ptr[Child(N[c], 1 - b)] = h.ptr[Child(N[k], 1 - b)]
    /\ \A e \in {0, 1} : g.ptr[Child(N[k], e)] = h.ptr[Child(N[c], e)]
    /\ \A x \in Slots : x # Slot(N, k) /\ (\A e \in {0, 1} : /\ x # Child(N[k], e)
                                                            /\ x # Child(N[c], e))
                           => g.ptr[x] = h.ptr[x]
    /\ g.index[N[k]] = c /\ g.index[N[c]] = k
    /\ \A x \in Members(N, n) : x # N[k] /\ x # N[c] => g.index[x] = h.index[x]

LEMMA SwappedShows ==
  ASSUME NEW n \in Nat, NEW N \in Trees(n), NEW k \in 1..n, NEW c \in 1..n,
         NEW b \in {0, 1}, c = 2 * k + b,
         NEW h, NEW g, Shows(h, N, n), SwapWritten(g, h, N, n, k, c, b)
  PROVE  Shows(g, Swapped(N, k, c), n)
<1> PICK M : M = Swapped(N, k, c)
  OBVIOUS
<1>0. k # c /\ c \div 2 = k /\ c % 2 = b /\ c \in 2..(2 * n + 1) /\ k \in 1..(2 * n + 1)
  <2>1. c \div 2 = k /\ c % 2 = b
    BY ChildIndex
  <2> QED BY <2>1
<1>1. /\ M \in Trees(n) /\ M[k] = N[c] /\ M[c] = N[k]
      /\ \A i \in 1..n : i # k /\ i # c => M[i] = N[i]
      /\ \A j \in 2..(2 * n + 1) :
            Slot(M, j) = IF j \div 2 = k THEN Child(N[c], j % 2)
                         ELSE IF j \div 2 = c THEN Child(N[k], j % 2)
                         ELSE Slot(N, j)
  <2>1. Exchange(M, N, n, k, c)
    BY <1>0, SwappedFacts
  <2> QED BY <2>1 DEF Exchange
<1>2. /\ \A j \in 1..(2 * n + 1) : h.ptr[Slot(N, j)] = At(N, n, j)
      /\ \A j \in 1..n : h.index[N[j]] = j
  BY DEF Shows
<1>3. /\ Slot(N, 1) = SLEEPQ /\ Slot(M, 1) = SLEEPQ
      /\ \A j \in 1..(2 * n + 1) : Slot(N, j) \in Slots
      /\ \A i, j \in 1..(2 * n + 1) : Slot(N, i) = Slot(N, j) => i = j
      /\ \A j \in 2..(2 * n + 1) : /\ j \div 2 \in 1..n /\ j % 2 \in {0, 1}
                                   /\ Slot(N, j) = Child(N[j \div 2], j % 2)
      /\ \A i \in 1..n : \A e \in {0, 1} : Slot(N, 2 * i + e) = Child(N[i], e)
  <2>1. Slot(N, 1) = SLEEPQ /\ Slot(M, 1) = SLEEPQ
    BY DEF Slot
  <2>2. \A j \in 1..(2 * n + 1) : Slot(N, j) \in Slots
    BY SlotFacts
  <2>3. \A i, j \in 1..(2 * n + 1) : Slot(N, i) = Slot(N, j) => i = j
    BY SlotFacts
  <2>4. \A j \in 2..(2 * n + 1) : /\ j \div 2 \in 1..n /\ j % 2 \in {0, 1}
                                 /\ Slot(N, j) = Child(N[j \div 2], j % 2)
    BY SlotFacts
  <2>5. \A i \in 1..n : \A e \in {0, 1} : Slot(N, 2 * i + e) = Child(N[i], e)
    BY SlotBelow
  <2> QED BY <2>1, <2>2, <2>3, <2>4, <2>5
<1>4. /\ N \in [1..n -> Threads] /\ \A i \in 1..n : N[i] \in Members(N, n)
      /\ \A i, j \in 1..n : N[i] = N[j] => i = j
  BY DEF Trees, Members
<1>5. ASSUME NEW j \in 1..(2 * n + 1) PROVE g.ptr[Slot(M, j)] = At(M, n, j)
  <2>1. CASE j = c
    <3>1. Slot(M, j) = Child(N[c], b)
      BY <1>0, <1>1, <2>1
    <3> QED BY <1>1, <2>1, <3>1 DEF At, SwapWritten
  <2>2. CASE j # c /\ j # 1 /\ j \div 2 = k
    <3>1. j \in 2..(2 * n + 1) /\ j # k
      BY <2>2, Halves
    <3>2. j % 2 = 1 - b
      <4>1. j = 2 * k + (j % 2) /\ j % 2 \in {0, 1}
        BY <2>2, <3>1
      <4> QED BY <2>2, <4>1
    <3>3. Slot(M, j) = Child(N[c], 1 - b)
      <4>1. Slot(M, j) = Child(N[c], j % 2)
        BY <1>1, <2>2, <3>1
      <4> QED BY <3>2, <4>1
    <3>4. Slot(N, j) = Child(N[k], 1 - b)
      <4>1. Slot(N, j) = Child(N[k], j % 2)
        BY <1>3, <2>2, <3>1
      <4> QED BY <3>2, <4>1
    <3>5. At(M, n, j) = At(N, n, j)
      BY <1>1, <2>2, <3>1 DEF At
    <3> QED BY <1>2, <3>3, <3>4, <3>5 DEF SwapWritten
  <2>3. CASE j # 1 /\ j \div 2 = c
    <3>1. j \in 2..(2 * n + 1) /\ j # c /\ j # k
      BY <1>0, <2>3, Halves
    <3>2. /\ Slot(M, j) = Child(N[k], j % 2) /\ Slot(N, j) = Child(N[c], j % 2)
          /\ j % 2 \in {0, 1}
      BY <1>0, <1>1, <1>3, <2>3, <3>1
    <3>3. At(M, n, j) = At(N, n, j)
      BY <1>1, <3>1 DEF At
    <3> QED BY <1>2, <3>2, <3>3 DEF SwapWritten
  <2>4. CASE j = k
    <3>1. Slot(M, k) = Slot(N, k)
      <4>1. CASE k = 1
        BY <1>3, <4>1
      <4>2. CASE k # 1
        <5>1. k \in 2..(2 * n + 1) /\ k \div 2 # k /\ k \div 2 # c
          BY <1>0, <4>2, Halves
        <5> QED BY <1>1, <5>1
      <4> QED BY <4>1, <4>2
    <3> QED BY <1>1, <2>4, <3>1 DEF At, SwapWritten
  <2>5. CASE j # c /\ j # k /\ ~(j # 1 /\ j \div 2 \in {k, c})
    <3>1. Slot(M, j) = Slot(N, j)
      <4>1. CASE j = 1
        BY <1>3, <4>1
      <4>2. CASE j # 1
        <5>1. j \in 2..(2 * n + 1) /\ j \div 2 # k /\ j \div 2 # c
          BY <2>5, <4>2
        <5> QED BY <1>1, <5>1
      <4> QED BY <4>1, <4>2
    <3>2. \A i \in {k, c} : \A e \in {0, 1} : Slot(N, j) # Child(N[i], e)
      <4> TAKE i \in {k, c}
      <4> TAKE e \in {0, 1}
      <4>1. /\ i \in 1..n /\ 2 * i + e \in 1..(2 * n + 1) /\ 2 * i + e # 1
            /\ (2 * i + e) \div 2 = i
        BY ChildIndex
      <4>2. j # 2 * i + e
        BY <2>5, <4>1
      <4>3. Slot(N, 2 * i + e) = Child(N[i], e)
        BY <1>3, <4>1
      <4> QED BY <1>3, <4>1, <4>2, <4>3
    <3>3. Slot(N, j) # Slot(N, k) /\ Slot(N, j) \in Slots
      BY <1>0, <1>3, <2>5
    <3>4. g.ptr[Slot(N, j)] = h.ptr[Slot(N, j)]
      BY <3>2, <3>3 DEF SwapWritten
    <3>5. At(M, n, j) = At(N, n, j)
      BY <1>1, <2>5 DEF At
    <3> QED BY <1>2, <3>1, <3>4, <3>5
  <2> QED BY <2>1, <2>2, <2>3, <2>4, <2>5
<1>6. ASSUME NEW j \in 1..n PROVE g.index[M[j]] = j
  <2>1. CASE j = k \/ j = c
    BY <1>1, <2>1 DEF SwapWritten
  <2>2. CASE j # k /\ j # c
    <3>1. g.index[N[j]] = h.index[N[j]]
      BY <1>4, <2>2 DEF SwapWritten
    <3> QED BY <1>1, <1>2, <2>2, <3>1
  <2> QED BY <2>1, <2>2
<1> QED BY <1>5, <1>6 DEF Shows

LEMMA SwappedAlmost ==
  ASSUME NEW n \in Nat, NEW N \in Trees(n), NEW k \in 1..n, NEW c \in 2..n, c \div 2 = k,
         NEW d \in [Threads -> Int], AlmostOrdered(d, N, n, k), d[N[c]] < d[N[k]],
         \A j \in 2..n : j \div 2 = k => d[N[c]] <= d[N[j]]
  PROVE  AlmostOrdered(d, Swapped(N, k, c), n, c)
<1> DEFINE M == Swapped(N, k, c)
<1>1. N \in [1..n -> Threads] /\ c \in 1..n /\ k # c /\ k < c
  BY Halves DEF Trees
<1>2. M[k] = N[c] /\ M[c] = N[k] /\ \A i \in 1..n : i # k /\ i # c => M[i] = N[i]
  BY <1>1 DEF Swapped
<1> HIDE DEF M
<1>3. \A j \in 2..n : j \in 1..n /\ j \div 2 \in 1..n /\ j \div 2 < j
  BY Halves
<1>4. /\ \A j \in 2..n : j \div 2 # k => d[N[j \div 2]] <= d[N[j]]
      /\ k > 1 => \A j \in 2..n : j \div 2 = k => d[N[k \div 2]] <= d[N[j]]
  BY DEF AlmostOrdered
<1>5. d[N[c]] <= d[N[k]]
  <2>1. d[N[c]] \in Int /\ d[N[k]] \in Int
    BY <1>1
  <2> QED BY <2>1
<1>6. ASSUME NEW j \in 2..n, j \div 2 # c PROVE d[M[j \div 2]] <= d[M[j]]
  <2>1. CASE j = c
    BY <1>2, <1>5, <2>1
  <2>2. CASE j # c /\ j \div 2 = k
    <3>1. j # k /\ j \in 1..n
      BY <1>3, <2>2
    <3> QED BY <1>2, <2>2, <3>1
  <2>3. CASE j = k
    <3>1. k > 1 /\ k \div 2 \in 1..n /\ k \div 2 # k /\ k \div 2 # c
      BY <1>1, <1>3, <2>3
    <3>2. d[N[k \div 2]] <= d[N[c]]
      BY <1>4, <3>1
    <3>3. M[k \div 2] = N[k \div 2]
      BY <1>2, <3>1
    <3> QED BY <1>2, <2>3, <3>2, <3>3
  <2>4. CASE j # c /\ j # k /\ j \div 2 # k
    <3>1. M[j] = N[j] /\ M[j \div 2] = N[j \div 2]
      BY <1>2, <1>3, <1>6, <2>4
    <3> QED BY <1>4, <2>4, <3>1
  <2> QED BY <2>1, <2>2, <2>3, <2>4
<1>7. ASSUME NEW j \in 2..n, j \div 2 = c PROVE d[M[c \div 2]] <= d[M[j]]
  <2>1. j \in 1..n /\ j # c /\ j # k /\ j \div 2 # k
    BY <1>1, <1>3, <1>7
  <2>2. M[j] = N[j] /\ d[N[c]] <= d[N[j]]
    BY <1>2, <1>4, <1>7, <2>1
  <2> QED BY <1>2, <2>2
<1> QED BY <1>6, <1>7 DEF AlmostOrdered, M

LEMMA AlmostIsOrdered ==
  ASSUME NEW n \in Nat, NEW N, NEW k, NEW d, AlmostOrdered(d, N, n, k),
         \A j \in 2..n : j \div 2 = k => d[N[k]] <= d[N[j]]
  PROVE  Ordered(d, N, n)
BY DEF AlmostOrdered, Ordered

(* The pointers written by one round of the loop.                          *)
LEMMA ExchangedFacts ==
  ASSUME NEW ptr \in [Slots -> Threads \cup {None}], NEW p \in Slots,
         NEW t \in Threads, NEW y \in Threads, t # y, NEW b \in {0, 1},
         \A e \in {0, 1} : p # Child(t, e) /\ p # Child(y, e),
         ptr[Child(t, b)] = y, y = ptr[Left(t)] <=> b = 0,
         NEW q, q = Exchanged(ptr, p, t, y)
  PROVE  /\ q \in [Slots -> Threads \cup {None}]
         /\ q[p] = y /\ q[Child(y, b)] = t
         /\ q[Child(y, 1 - b)] = ptr[Child(t, 1 - b)]
         /\ \A e \in {0, 1} : q[Child(t, e)] = ptr[Child(y, e)]
         /\ \A x \in Slots : x # p /\ (\A e \in {0, 1} : x # Child(t, e) /\ x # Child(y, e))
                                => q[x] = ptr[x]
<1>1. /\ Left(t) = Child(t, 0) /\ Right(t) = Child(t, 1)
      /\ Left(y) = Child(y, 0) /\ Right(y) = Child(y, 1)
      /\ Child(t, 0) \in Slots /\ Child(t, 1) \in Slots
      /\ Child(y, 0) \in Slots /\ Child(y, 1) \in Slots
      /\ Child(t, 0) # Child(t, 1) /\ Child(y, 0) # Child(y, 1)
  BY ChildFacts
<1>2. /\ Child(t, 0) # Child(y, 0) /\ Child(t, 0) # Child(y, 1)
      /\ Child(t, 1) # Child(y, 0) /\ Child(t, 1) # Child(y, 1)
  BY ChildFacts
<1>3. p # Child(t, 0) /\ p # Child(t, 1) /\ p # Child(y, 0) /\ p # Child(y, 1)
  OBVIOUS
<1> DEFINE l == ptr[Left(t)]
           r == ptr[Right(t)]
           yl == IF y = l THEN t ELSE l
           yr == IF y = l THEN r ELSE t
           q2 == [[[ptr EXCEPT ![p] = y] EXCEPT ![Left(y)] = yl] EXCEPT ![Right(y)] = yr]
<1>4. q = [[q2 EXCEPT ![Left(t)] = ptr[Left(y)]] EXCEPT ![Right(t)] = ptr[Right(y)]]
  BY DEF Exchanged
<1>5. yl \in Threads \cup {None} /\ yr \in Threads \cup {None}
  BY <1>1
<1> HIDE DEF yl, yr
<1>6. /\ q2 \in [Slots -> Threads \cup {None}]
      /\ q2[p] = y /\ q2[Child(y, 0)] = yl /\ q2[Child(y, 1)] = yr
      /\ \A x \in Slots : x # p /\ x # Child(y, 0) /\ x # Child(y, 1) => q2[x] = ptr[x]
  BY <1>1, <1>3, <1>5
<1> HIDE DEF q2
<1>7. /\ q \in [Slots -> Threads \cup {None}]
      /\ q[Child(t, 0)] = ptr[Child(y, 0)] /\ q[Child(t, 1)] = ptr[Child(y, 1)]
      /\ \A x \in Slots : x # Child(t, 0) /\ x # Child(t, 1) => q[x] = q2[x]
  BY <1>1, <1>4, <1>6
<1>8. q[p] = y /\ q[Child(y, 0)] = yl /\ q[Child(y, 1)] = yr
  BY <1>1, <1>2, <1>3, <1>6, <1>7
<1>9. q[Child(y, b)] = t /\ q[Child(y, 1 - b)] = ptr[Child(t, 1 - b)]
  <2>1. CASE b = 0
    <3>1. yl = t /\ yr = ptr[Child(t, 1)] /\ 1 - b = 1
      BY <1>1, <2>1 DEF yl, yr
    <3> QED BY <1>8, <2>1, <3>1
  <2>2. CASE b = 1
    <3>1. yr = t /\ yl = ptr[Child(t, 0)] /\ 1 - b = 0
      BY <1>1, <2>2 DEF yl, yr
    <3> QED BY <1>8, <2>2, <3>1
  <2> QED BY <2>1, <2>2
<1>10. ASSUME NEW x \in Slots, x # p, \A e \in {0, 1} : x # Child(t, e) /\ x # Child(y, e)
       PROVE  q[x] = ptr[x]
  <2>1. x # Child(t, 0) /\ x # Child(t, 1) /\ x # Child(y, 0) /\ x # Child(y, 1)
    BY <1>10
  <2> QED BY <1>6, <1>7, <1>10, <2>1
<1>11. \A e \in {0, 1} : q[Child(t, e)] = ptr[Child(y, e)]
  BY <1>7
<1> QED BY <1>7, <1>8, <1>9, <1>10, <1>11

-----------------------------------------------------------------------------
(* One round of the loop of heap_delete, that has reached node k with s.   *)
SiftStates == [h : Heaps, p : Slots]

Sifting(d, s, N, n, k) ==
    /\ N \in Trees(n) /\ k \in 1..n /\ s \in SiftStates
    /\ Shows(s.h, N, n) /\ AlmostOrdered(d, N, n, k) /\ s.p = Slot(N, k)

(* The child chosen is the one that is due first.                          *)
LEMMA SiftChoice ==
  ASSUME NEW n \in Nat, NEW N \in Trees(n), NEW k \in 1..n, NEW d \in [Threads -> Int],
         NEW l, l = At(N, n, 2 * k), NEW r, r = At(N, n, 2 * k + 1), l # None,
         NEW y, y = IF r = None \/ d[l] < d[r] THEN l ELSE r
  PROVE  \E b \in {0, 1} : /\ 2 * k + b \in 2..n /\ y = N[2 * k + b]
                           /\ y = l <=> b = 0
                           /\ \A j \in 2..n : j \div 2 = k => d[y] <= d[N[j]]
<1>1. /\ N \in [1..n -> Threads] /\ \A i, j \in 1..n : N[i] = N[j] => i = j
      /\ None \notin Threads
  BY HeapAssumption DEF Trees, HeapAssumption
<1>2. 2 * k \in 2..n /\ l = N[2 * k]
  <2>1. 2 * k \in 1..n
    BY DEF At
  <2>2. 2 * k >= 2
    OBVIOUS
  <2> QED BY <2>1, <2>2 DEF At
<1>3. \A j \in 2..n : j \div 2 = k => j = 2 * k \/ j = 2 * k + 1
  OBVIOUS
<1>4. CASE r = None
  <2>1. 2 * k + 1 \notin 1..n
    BY <1>1, <1>4 DEF At
  <2>2. \A j \in 2..n : j \div 2 = k => j = 2 * k
    <3> TAKE j \in 2..n
    <3>1. j \in 1..n
      OBVIOUS
    <3> QED BY <1>3, <2>1, <3>1
  <2>3. y = N[2 * k]
    BY <1>2, <1>4
  <2>4. d[y] <= d[y]
    <3>1. d[y] \in Int
      BY <1>1, <1>2, <2>3
    <3> QED BY <3>1
  <2>5. 2 * k + 0 = 2 * k
    OBVIOUS
  <2>6. \A j \in 2..n : j \div 2 = k => d[y] <= d[N[j]]
    BY <2>2, <2>3, <2>4
  <2>7. y = l
    BY <1>2, <2>3
  <2> WITNESS 0 \in {0, 1}
  <2> QED BY <1>2, <2>3, <2>5, <2>6, <2>7
<1>5. CASE r # None
  <2>1. 2 * k + 1 \in 2..n /\ r = N[2 * k + 1]
    <3>1. 2 * k + 1 \in 1..n
      BY <1>5 DEF At
    <3>2. 2 * k + 1 >= 2
      OBVIOUS
    <3> QED BY <3>1, <3>2 DEF At
  <2>2. d[l] \in Int /\ d[r] \in Int
    BY <1>1, <1>2, <2>1
  <2>3. l # r
    <3>1. 2 * k # 2 * k + 1 /\ 2 * k \in 1..n /\ 2 * k + 1 \in 1..n
      BY <1>2, <2>1
    <3> QED BY <1>1, <1>2, <2>1, <3>1
  <2>4. CASE d[l] < d[r]
    <3>1. y = l /\ d[l] <= d[l] /\ d[l] <= d[r]
      BY <2>2, <2>4
    <3>2. \A j \in 2..n : j \div 2 = k => d[y] <= d[N[j]]
      BY <1>2, <1>3, <2>1, <3>1
    <3>3. 2 * k + 0 = 2 * k
      OBVIOUS
    <3> WITNESS 0 \in {0, 1}
    <3> QED BY <1>2, <3>1, <3>2, <3>3
  <2>5. CASE ~(d[l] < d[r])
    <3>1. y = r /\ d[r] <= d[l] /\ d[r] <= d[r]
      BY <1>5, <2>2, <2>5
    <3>2. \A j \in 2..n : j \div 2 = k => d[y] <= d[N[j]]
      BY <1>2, <1>3, <2>1, <3>1
    <3> WITNESS 1 \in {0, 1}
    <3> QED BY <2>1, <2>3, <3>1, <3>2
  <2> QED BY <2>4, <2>5
<1> QED BY <1>4, <1>5

Moved(d, s, r, N, n, k, c) ==
    /\ c > k /\ Sifting(d, r, Swapped(N, k, c), n, c)
    /\ Members(Swapped(N, k, c), n) = Members(N, n)
    /\ r.h.size = s.h.size

LEMMA SiftStepKeeps ==
  ASSUME NEW d \in [Threads -> Int], NEW n \in Nat, NEW N, NEW k, NEW s,
         Sifting(d, s, N, n, k)
  PROVE  \/ SiftStep(d, s) = s /\ Ordered(d, N, n)
         \/ ~Ordered(d, N, n) /\ \E c \in 2..n : Moved(d, s, SiftStep(d, s), N, n, k, c)
<1> DEFINE h == s.h
           t == h.ptr[s.p]
           l == h.ptr[Left(t)]
           r == h.ptr[Right(t)]
           y == IF r = None \/ d[l] < d[r] THEN l ELSE r
           q == Exchanged(h.ptr, s.p, t, y)
           x == [h.index EXCEPT ![t] = h.index[y], ![y] = h.index[t]]
           f == [h |-> [ptr |-> q, index |-> x, size |-> h.size],
                 p |-> IF y = l THEN Left(y) ELSE Right(y)]
<1>1. /\ N \in Trees(n) /\ k \in 1..n /\ s \in SiftStates /\ s.p = Slot(N, k)
      /\ Shows(h, N, n) /\ AlmostOrdered(d, N, n, k)
  BY DEF Sifting
<1>2. /\ h \in Heaps /\ s.p \in Slots
      /\ h.ptr \in [Slots -> Threads \cup {None}] /\ h.index \in [Threads -> Nat]
      /\ h.size \in Nat
  BY <1>1 DEF SiftStates, Heaps
<1>3. SiftStep(d, s) = IF l = None \/ d[t] <= d[y] THEN s ELSE f
  BY DEF SiftStep
<1>4. N \in [1..n -> Threads] /\ \A i, j \in 1..n : N[i] = N[j] => i = j
  BY <1>1 DEF Trees
<1>5. None \notin Threads
  BY HeapAssumption DEF HeapAssumption
<1>6. t = N[k]
  <2>1. k \in 1..(2 * n + 1) /\ At(N, n, k) = N[k]
    BY <1>1 DEF At
  <2> QED BY <1>1, <2>1 DEF Shows
<1>7. Left(t) = Child(t, 0) /\ Right(t) = Child(t, 1) /\ t \in Threads
  BY <1>1, <1>4, <1>6, ChildFacts
<1>8. l = At(N, n, 2 * k) /\ r = At(N, n, 2 * k + 1)
  <2>1. /\ 2 * k + 0 \in 2..(2 * n + 1) /\ Slot(N, 2 * k + 0) = Child(t, 0)
        /\ 2 * k + 1 \in 2..(2 * n + 1) /\ Slot(N, 2 * k + 1) = Child(t, 1)
    BY <1>1, <1>6, SlotBelow
  <2>2. 2 * k + 0 = 2 * k /\ 2 * k \in 1..(2 * n + 1) /\ 2 * k + 1 \in 1..(2 * n + 1)
    BY <1>1
  <2> QED BY <1>1, <1>7, <2>1, <2>2 DEF Shows
<1>9. CASE l = None
  <2>1. 2 * k \notin 1..n
    BY <1>4, <1>5, <1>8, <1>9 DEF At
  <2>2. \A j \in 2..n : j \div 2 # k
    BY <1>1, <2>1
  <2>3. Ordered(d, N, n)
    BY <1>1, <2>2, AlmostIsOrdered
  <2> QED BY <1>3, <1>9, <2>3
<1>10. ASSUME l # None
       PROVE  \E b \in {0, 1} : /\ 2 * k + b \in 2..n /\ y = N[2 * k + b]
                                /\ y = l <=> b = 0
                                /\ \A j \in 2..n : j \div 2 = k => d[y] <= d[N[j]]
  <2> HIDE DEF l, r
  <2>1. PICK y2 : y2 = y
    OBVIOUS
  <2> HIDE DEF y
  <2>2. y2 = IF r = None \/ d[l] < d[r] THEN l ELSE r
    BY <2>1 DEF y
  <2> QED BY <1>1, <1>8, <1>10, <2>1, <2>2, SiftChoice
<1>11. CASE l # None /\ d[t] <= d[y]
  <2>1. \A j \in 2..n : j \div 2 = k => d[y] <= d[N[j]] /\ d[y] \in Int
    <3>1. PICK b \in {0, 1} : /\ 2 * k + b \in 2..n /\ y = N[2 * k + b]
                              /\ \A j \in 2..n : j \div 2 = k => d[y] <= d[N[j]]
      BY <1>10, <1>11
    <3> HIDE DEF y
    <3>2. 2 * k + b \in 1..n
      BY <1>1, <3>1
    <3>3. y \in Threads
      BY <1>4, <3>1, <3>2
    <3> QED BY <3>1, <3>3
  <2>2. ASSUME NEW j \in 2..n, j \div 2 = k PROVE d[N[k]] <= d[N[j]]
    <3> HIDE DEF y, t
    <3>1. d[N[k]] <= d[y] /\ d[y] <= d[N[j]]
      BY <1>6, <1>11, <2>1, <2>2
    <3>2. d[N[k]] \in Int /\ d[y] \in Int /\ d[N[j]] \in Int
      BY <1>1, <1>4, <2>1, <2>2
    <3> QED BY <3>1, <3>2
  <2>3. Ordered(d, N, n)
    BY <1>1, <2>2, AlmostIsOrdered
  <2> QED BY <1>3, <1>11, <2>3
<1>12. CASE l # None /\ ~(d[t] <= d[y])
  <2>1. PICK b \in {0, 1} : /\ 2 * k + b \in 2..n /\ y = N[2 * k + b]
                            /\ y = l <=> b = 0
                            /\ \A j \in 2..n : j \div 2 = k => d[y] <= d[N[j]]
    BY <1>10, <1>12
  <2>2. PICK c \in 2..n : c = 2 * k + b
    BY <2>1
  <2>3. /\ c \div 2 = k /\ c % 2 = b /\ c > k /\ c # k /\ c \in 1..n
        /\ c \in 1..(2 * n + 1) /\ k \in 1..(2 * n + 1)
    <3>1. c \div 2 = k /\ c % 2 = b
      BY <1>1, <2>2, ChildIndex
    <3> QED BY <1>1, <2>2, <3>1
  <2>4. y = N[c] /\ y \in Threads /\ y # t
    <3>1. y = N[c] /\ y \in Threads
      BY <1>4, <2>1, <2>2, <2>3
    <3> QED BY <1>1, <1>4, <1>6, <2>3, <3>1
  <2>5. d[y] < d[t]
    <3> HIDE DEF y, t
    <3>1. d[t] \in Int /\ d[y] \in Int
      BY <1>7, <2>4
    <3> QED BY <1>12, <3>1
  <2>6. SiftStep(d, s) = f
    BY <1>3, <1>12
  <2> HIDE DEF f
  <2>7. h.ptr[Child(t, b)] = y
    <3>1. Slot(N, c) = Child(t, b)
      BY <1>1, <1>6, <2>2, SlotBelow
    <3>2. At(N, n, c) = y
      BY <2>3, <2>4 DEF At
    <3> QED BY <1>1, <2>3, <3>1, <3>2 DEF Shows
  <2>8. \A e \in {0, 1} : s.p # Child(t, e) /\ s.p # Child(y, e)
    <3> TAKE e \in {0, 1}
    <3>1. /\ Slot(N, 2 * k + e) = Child(t, e) /\ Slot(N, 2 * c + e) = Child(y, e)
          /\ 2 * k + e \in 2..(2 * n + 1) /\ 2 * c + e \in 2..(2 * n + 1)
      BY <1>1, <1>6, <2>3, <2>4, SlotBelow
    <3>2. k # 2 * k + e /\ k # 2 * c + e
      BY <1>1, <2>3
    <3>3. 2 * k + e \in 1..(2 * n + 1) /\ 2 * c + e \in 1..(2 * n + 1)
      BY <3>1
    <3> QED BY <1>1, <2>3, <3>1, <3>2, <3>3, SlotFacts
  <2>9. y = h.ptr[Left(t)] <=> b = 0
    BY <2>1
  <2> DEFINE g == f.h
  <2>10. /\ q \in [Slots -> Threads \cup {None}]
         /\ q[s.p] = y /\ q[Child(y, b)] = t
         /\ q[Child(y, 1 - b)] = h.ptr[Child(t, 1 - b)]
         /\ \A e \in {0, 1} : q[Child(t, e)] = h.ptr[Child(y, e)]
         /\ \A z \in Slots : z # s.p /\ (\A e \in {0, 1} : z # Child(t, e) /\ z # Child(y, e))
                                => q[z] = h.ptr[z]
    <3> HIDE DEF l, r, y, t, h
    <3> PICK q2 : q2 = q
      OBVIOUS
    <3> QED BY <1>2, <1>7, <2>4, <2>7, <2>8, <2>9, ExchangedFacts DEF l
  <2> HIDE DEF q, y, l, r, t, h, x
  <2>11. /\ x \in [Threads -> Nat] /\ x[t] = h.index[y] /\ x[y] = h.index[t]
         /\ \A z \in Threads : z # t /\ z # y => x[z] = h.index[z]
    BY <1>2, <1>7, <2>4 DEF x
  <2>12. h.index[t] = k /\ h.index[y] = c
    BY <1>1, <1>6, <2>3, <2>4 DEF Shows
  <2>13. f.p = IF y = l THEN Left(y) ELSE Right(y)
    BY DEF f
  <2>14. f.h = [ptr |-> q, index |-> x, size |-> h.size]
    BY DEF f
  <2>15. g \in Heaps /\ g.ptr = q /\ g.index = x /\ g.size = h.size
    BY <1>2, <2>10, <2>11, <2>14 DEF Heaps
  <2>16. f.p = Child(y, b)
    <3>1. Left(y) = Child(y, 0) /\ Right(y) = Child(y, 1)
      BY <2>4, ChildFacts
    <3> QED BY <2>1, <2>13, <3>1
  <2>17. f \in SiftStates
    <3>1. f = [h |-> f.h, p |-> f.p]
      BY DEF f
    <3>2. f.p \in Slots
      BY <2>4, <2>16, ChildFacts
    <3> QED BY <2>15, <3>1, <3>2 DEF SiftStates
  <2>18. SwapWritten(g, h, N, n, k, c, b)
    <3>1. \A z \in Members(N, n) : z \in Threads
      BY <1>4 DEF Members
    <3> HIDE DEF g
    <3> QED BY <1>1, <1>6, <2>4, <2>10, <2>11, <2>12, <2>15, <3>1 DEF SwapWritten
  <2>19. Shows(g, Swapped(N, k, c), n)
    <3> HIDE DEF g
    <3> QED BY <1>1, <2>2, <2>3, <2>18, SwappedShows
  <2>20. AlmostOrdered(d, Swapped(N, k, c), n, c)
    BY <1>1, <1>6, <2>1, <2>3, <2>4, <2>5, SwappedAlmost
  <2>21. Exchange(Swapped(N, k, c), N, n, k, c)
    BY <1>1, <2>3, SwappedFacts
  <2>22. Slot(Swapped(N, k, c), c) = Child(y, b)
    <3>1. c \in 2..(2 * n + 1)
      BY <2>3
    <3> QED BY <2>3, <2>4, <2>21, <3>1 DEF Exchange
  <2>23. Sifting(d, f, Swapped(N, k, c), n, c)
    BY <2>3, <2>16, <2>17, <2>19, <2>20, <2>21, <2>22 DEF Sifting, Exchange
  <2>24. Moved(d, s, f, N, n, k, c)
    BY <2>3, <2>15, <2>21, <2>23 DEF Moved, Exchange, h
  <2>25. ~Ordered(d, N, n)
    <3>1. d[N[c]] \in Int /\ d[N[k]] \in Int
      BY <1>1, <1>4, <2>3
    <3> QED BY <1>6, <2>3, <2>4, <2>5, <3>1 DEF Ordered
  <2> QED BY <2>6, <2>24, <2>25
<1> QED BY <1>9, <1>11, <1>12

-----------------------------------------------------------------------------
(* The loop is a function that exists, and ends with the heap in order.    *)
RoundDef(f, d, s, n) ==
    f = [i \in 0..n |-> IF i = 0 THEN s ELSE SiftStep(d, f[i - 1])]

LEMMA RoundExists ==
  ASSUME NEW d, NEW s, NEW n \in Nat
  PROVE  \E f : RoundDef(f, d, s, n)
<1> DEFINE Good == {k \in 0..n : \E f : RoundDef(f, d, s, k)}
<1>1. 0 \in Good
  <2> DEFINE f == [i \in 0..0 |-> s]
  <2>1. \A i \in 0..0 : i = 0 /\ f[i] = s
    OBVIOUS
  <2>2. f = [i \in 0..0 |-> f[i]]
    OBVIOUS
  <2> HIDE DEF f
  <2>3. RoundDef(f, d, s, 0) /\ 0 \in 0..n
    BY <2>1, <2>2 DEF RoundDef
  <2> QED BY <2>3
<1>2. ASSUME NEW k \in 1..n, k - 1 \in Good PROVE k \in Good
  <2>1. PICK f : RoundDef(f, d, s, k - 1)
    BY <1>2
  <2>2. \A i \in 0..(k - 1) : f[i] = IF i = 0 THEN s ELSE SiftStep(d, f[i - 1])
    BY <2>1 DEF RoundDef
  <2> DEFINE g == [i \in 0..k |-> IF i = k THEN SiftStep(d, f[k - 1]) ELSE f[i]]
  <2>3. \A i \in 0..k : i # 0 => i - 1 \in 0..k /\ i - 1 # k
    OBVIOUS
  <2>4. \A i \in 0..k : i # k => i \in 0..(k - 1)
    OBVIOUS
  <2>5. \A i \in 0..k : i # 0 => g[i - 1] = f[i - 1]
    BY <2>3
  <2>6. ASSUME NEW i \in 0..k
        PROVE  g[i] = IF i = 0 THEN s ELSE SiftStep(d, g[i - 1])
    <3>1. CASE i = k
      <4>1. g[i] = SiftStep(d, f[i - 1]) /\ i # 0
        BY <3>1
      <4> HIDE DEF g
      <4> QED BY <2>5, <3>1, <4>1
    <3>2. CASE i # k
      <4>1. g[i] = f[i]
        BY <3>2
      <4> HIDE DEF g
      <4> QED BY <2>2, <2>4, <2>5, <3>2, <4>1
    <3> QED BY <3>1, <3>2
  <2>7. g = [i \in 0..k |-> g[i]] /\ k \in 0..n
    OBVIOUS
  <2> HIDE DEF g
  <2>8. RoundDef(g, d, s, k)
    BY <2>6, <2>7 DEF RoundDef
  <2> QED BY <2>7, <2>8
<1> HIDE DEF Good
<1>3. n \in Good
  <2>1. \A k \in 0..n : k \in Good
    BY <1>1, <1>2, LoopInvariant
  <2> QED BY <2>1
<1> QED BY <1>3 DEF Good

(* After i rounds the loop has ended or gone down i levels at least.       *)
Sifted(d, s, N, n, i, L, j) ==
    /\ Sifting(d, s, L, n, j) /\ s.h.size = n
    /\ Members(L, n) = Members(N, n)
    /\ Ordered(d, L, n) \/ j > i

LEMMA SiftIs ==
  ASSUME NEW d \in [Threads -> Int], NEW n \in Nat, NEW N, NEW k, NEW s,
         Sifting(d, s, N, n, k), s.h.size = n
  PROVE  /\ Sift(d, s) \in Heaps /\ Sift(d, s).size = n
         /\ \E L \in Trees(n) : /\ Shows(Sift(d, s), L, n) /\ Ordered(d, L, n)
                                /\ Members(L, n) = Members(N, n)
<1> DEFINE round == CHOOSE f : RoundDef(f, d, s, n)
           Good == {i \in 0..n : \E L, j : Sifted(d, round[i], N, n, i, L, j)}
<1>1. Sift(d, s) = round[n].h
  BY DEF Sift, RoundDef
<1>2. RoundDef(round, d, s, n)
  BY RoundExists
<1> HIDE DEF round
<1>3. \A i \in 0..n : round[i] = IF i = 0 THEN s ELSE SiftStep(d, round[i - 1])
  BY <1>2 DEF RoundDef
<1>4. 0 \in Good
  <2>1. round[0] = s /\ 0 \in 0..n
    BY <1>3
  <2>2. k > 0
    BY DEF Sifting
  <2>3. Sifted(d, s, N, n, 0, N, k)
    BY <2>2 DEF Sifted
  <2> QED BY <2>1, <2>3
<1>5. ASSUME NEW i \in 1..n, i - 1 \in Good PROVE i \in Good
  <2>1. PICK L, j : Sifted(d, round[i - 1], N, n, i - 1, L, j)
    BY <1>5
  <2> DEFINE s1 == round[i - 1]
             s2 == SiftStep(d, s1)
  <2>2. round[i] = s2 /\ i \in 0..n
    BY <1>3
  <2> HIDE DEF s1, s2
  <2>3. /\ Sifting(d, s1, L, n, j) /\ s1.h.size = n /\ Members(L, n) = Members(N, n)
        /\ Ordered(d, L, n) \/ j > i - 1
    BY <2>1 DEF Sifted, s1
  <2>4. \/ s2 = s1 /\ Ordered(d, L, n)
        \/ ~Ordered(d, L, n) /\ \E c \in 2..n : Moved(d, s1, s2, L, n, j, c)
    BY <2>3, SiftStepKeeps DEF s2
  <2>5. CASE s2 = s1 /\ Ordered(d, L, n)
    <3>1. Sifted(d, s2, N, n, i, L, j)
      BY <2>3, <2>5 DEF Sifted
    <3> QED BY <2>2, <3>1
  <2>6. CASE ~Ordered(d, L, n) /\ \E c \in 2..n : Moved(d, s1, s2, L, n, j, c)
    <3>1. PICK c \in 2..n : Moved(d, s1, s2, L, n, j, c)
      BY <2>6
    <3>2. c > j /\ j > i - 1 /\ j \in 1..n
      BY <2>3, <2>6, <3>1 DEF Moved, Sifting
    <3>3. c > i
      BY <3>2
    <3>4. Sifted(d, s2, N, n, i, Swapped(L, j, c), c)
      BY <2>3, <3>1, <3>3 DEF Sifted, Moved
    <3> QED BY <2>2, <3>4
  <2> QED BY <2>4, <2>5, <2>6
<1> HIDE DEF Good
<1>6. n \in Good
  <2>1. \A i \in 0..n : i \in Good
    BY <1>4, <1>5, LoopInvariant
  <2> QED BY <2>1
<1>7. PICK L, j : Sifted(d, round[n], N, n, n, L, j)
  BY <1>6 DEF Good
<1> DEFINE g == Sift(d, s)
<1>8. /\ Sifting(d, round[n], L, n, j) /\ g.size = n /\ Members(L, n) = Members(N, n)
      /\ Ordered(d, L, n) \/ j > n
  BY <1>1, <1>7 DEF Sifted
<1>9. L \in Trees(n) /\ j \in 1..n /\ round[n] \in SiftStates /\ Shows(g, L, n)
  BY <1>1, <1>8 DEF Sifting
<1>10. g \in Heaps
  BY <1>1, <1>9 DEF SiftStates
<1>11. Ordered(d, L, n)
  BY <1>8, <1>9
<1> QED BY <1>8, <1>9, <1>10, <1>11

-----------------------------------------------------------------------------
(* The slot of a node, found from the root.                                *)
LEMMA SlotAtIs ==
  ASSUME NEW n \in Nat, NEW N \in Trees(n), NEW h, Shows(h, N, n), NEW m \in 1..n
  PROVE  SlotAt(h, m) = Slot(N, m)
<1> DEFINE Def(f) == f = [k \in 1..m |-> IF k = 1 THEN SLEEPQ
                                         ELSE Child(h.ptr[f[k \div 2]], k % 2)]
           slot == CHOOSE f : Def(f)
           e == [k \in 1..m |-> Slot(N, k)]
           Good == {k \in 1..m : slot[k] = Slot(N, k)}
<1>1. SlotAt(h, m) = slot[m]
  BY DEF SlotAt
<1>2. ASSUME NEW k \in 2..m
      PROVE  k \div 2 \in 1..m /\ Slot(N, k) = Child(h.ptr[Slot(N, k \div 2)], k % 2)
  <2>1. k \in 2..(2 * n + 1) /\ k \div 2 \in 1..n /\ k \div 2 \in 1..(2 * n + 1)
        /\ k \div 2 \in 1..m
    BY Halves
  <2>2. Slot(N, k) = Child(N[k \div 2], k % 2)
    BY <2>1, SlotParent
  <2>3. h.ptr[Slot(N, k \div 2)] = N[k \div 2]
    BY <2>1 DEF Shows, At
  <2> QED BY <2>1, <2>2, <2>3
<1>3. Def(e)
  <2>1. ASSUME NEW k \in 1..m
        PROVE  e[k] = IF k = 1 THEN SLEEPQ ELSE Child(h.ptr[e[k \div 2]], k % 2)
    <3>1. CASE k = 1
      BY <3>1 DEF Slot
    <3>2. CASE k # 1
      <4>1. k \in 2..m
        BY <3>2
      <4>2. e[k] = Slot(N, k) /\ e[k \div 2] = Slot(N, k \div 2)
        BY <1>2, <4>1
      <4> HIDE DEF e
      <4> QED BY <1>2, <3>2, <4>1, <4>2
    <3> QED BY <3>1, <3>2
  <2>2. e = [k \in 1..m |-> e[k]]
    OBVIOUS
  <2> HIDE DEF e
  <2> QED BY <2>1, <2>2
<1>4. Def(slot)
  <2> HIDE DEF Def
  <2> QED BY <1>3
<1> HIDE DEF slot
<1>5. \A k \in 1..m : slot[k] = IF k = 1 THEN SLEEPQ
                               ELSE Child(h.ptr[slot[k \div 2]], k % 2)
  BY <1>4
<1> HIDE DEF Def
<1>6. 1 \in Good
  BY <1>5 DEF Slot
<1>7. ASSUME NEW k \in 2..m, k \div 2 \in Good PROVE k \in Good
  <2>1. k \in 1..m /\ k # 1 /\ slot[k \div 2] = Slot(N, k \div 2)
    BY <1>7
  <2>2. slot[k] = Child(h.ptr[Slot(N, k \div 2)], k % 2)
    BY <1>5, <2>1
  <2> QED BY <1>2, <2>1, <2>2
<1> HIDE DEF Good
<1>8. m \in Good
  <2>1. m \in Nat /\ m \in 1..m
    OBVIOUS
  <2> QED BY <1>6, <1>7, <2>1, TreeInduction
<1> QED BY <1>1, <1>8 DEF Good

-----------------------------------------------------------------------------
(* heap_delete: the tree without its last node, and the fields of the      *)
(* deleted thread.                                                         *)
Cut(N, n) == [k \in 1..(n - 1) |-> N[k]]

LEMMA CutFacts ==
  ASSUME NEW n \in Nat, n # 0, NEW N \in Trees(n)
  PROVE  /\ n - 1 \in Nat /\ Cut(N, n) \in Trees(n - 1)
         /\ \A i \in 1..(n - 1) : i \in 1..n /\ Cut(N, n)[i] = N[i]
         /\ N[n] \notin Members(Cut(N, n), n - 1)
         /\ Members(Cut(N, n), n - 1) \cup {N[n]} = Members(N, n)
         /\ \A k \in 1..(2 * n - 1) : Slot(Cut(N, n), k) = Slot(N, k)
<1> DEFINE M == Cut(N, n)
<1>1. N \in [1..n -> Threads] /\ \A i, j \in 1..n : N[i] = N[j] => i = j
  BY DEF Trees
<1>2. n - 1 \in Nat /\ n \in 1..n /\ \A i \in 1..(n - 1) : i \in 1..n /\ i # n
  OBVIOUS
<1>3. M \in [1..(n - 1) -> Threads] /\ \A i \in 1..(n - 1) : M[i] = N[i]
  BY <1>1, <1>2 DEF Cut
<1> HIDE DEF M
<1>4. M \in Trees(n - 1)
  BY <1>1, <1>2, <1>3 DEF Trees
<1>5. N[n] \notin Members(M, n - 1)
  BY <1>1, <1>2, <1>3 DEF Members
<1>6. Members(M, n - 1) \cup {N[n]} = Members(N, n)
  <2>1. \A i \in 1..n : i = n \/ i \in 1..(n - 1)
    OBVIOUS
  <2> QED BY <1>2, <1>3, <2>1 DEF Members
<1>7. ASSUME NEW k \in 1..(2 * n - 1) PROVE Slot(M, k) = Slot(N, k)
  <2>1. CASE k = 1
    BY <2>1 DEF Slot
  <2>2. CASE k # 1
    <3>1. k \div 2 \in 1..(n - 1)
      BY <2>2
    <3> QED BY <1>3, <2>2, <3>1 DEF Slot
  <2> QED BY <2>1, <2>2
<1> QED BY <1>2, <1>3, <1>4, <1>5, <1>6, <1>7 DEF M

LEMMA CutShows ==
  ASSUME NEW n \in Nat, n # 0, NEW N \in Trees(n), NEW h \in Heaps, Shows(h, N, n),
         h.size = n, NEW g,
         g = [ptr |-> [h.ptr EXCEPT ![Slot(N, n)] = None], index |-> h.index,
              size |-> h.size - 1]
  PROVE  g \in Heaps /\ g.size = n - 1 /\ Shows(g, Cut(N, n), n - 1)
<1> DEFINE q == [h.ptr EXCEPT ![Slot(N, n)] = None]
           M == Cut(N, n)
<1>1. /\ h.ptr \in [Slots -> Threads \cup {None}] /\ h.index \in [Threads -> Nat]
      /\ n - 1 \in Nat /\ n \in 1..(2 * n + 1)
  BY DEF Heaps
<1>2. /\ \A k \in 1..(2 * n + 1) : Slot(N, k) \in Slots
      /\ \A j, k \in 1..(2 * n + 1) : Slot(N, j) = Slot(N, k) => j = k
  BY SlotFacts
<1>3. /\ q \in [Slots -> Threads \cup {None}] /\ q[Slot(N, n)] = None
      /\ \A x \in Slots : x # Slot(N, n) => q[x] = h.ptr[x]
  BY <1>1, <1>2
<1> HIDE DEF q
<1>4. g \in Heaps /\ g.ptr = q /\ g.index = h.index /\ g.size = n - 1
  BY <1>1, <1>3 DEF Heaps, q
<1>5. /\ \A k \in 1..(2 * n + 1) : h.ptr[Slot(N, k)] = At(N, n, k)
      /\ \A k \in 1..n : h.index[N[k]] = k
  BY DEF Shows
<1>6. /\ \A i \in 1..(n - 1) : i \in 1..n /\ M[i] = N[i]
      /\ \A k \in 1..(2 * n - 1) : Slot(M, k) = Slot(N, k)
  BY CutFacts
<1> HIDE DEF M
<1>7. ASSUME NEW k \in 1..(2 * (n - 1) + 1) PROVE g.ptr[Slot(M, k)] = At(M, n - 1, k)
  <2>1. k \in 1..(2 * n - 1) /\ k \in 1..(2 * n + 1)
    OBVIOUS
  <2>2. Slot(M, k) = Slot(N, k)
    BY <1>6, <2>1
  <2>3. CASE k = n
    <3>1. k \notin 1..(n - 1)
      BY <2>3
    <3>2. At(M, n - 1, k) = None
      BY <3>1 DEF At
    <3>3. q[Slot(M, k)] = None
      BY <1>3, <2>2, <2>3
    <3> QED BY <1>4, <3>2, <3>3
  <2>4. CASE k # n
    <3>1. Slot(N, k) # Slot(N, n) /\ Slot(N, k) \in Slots
      BY <1>1, <1>2, <2>1, <2>4
    <3>2. g.ptr[Slot(N, k)] = At(N, n, k)
      BY <1>3, <1>4, <1>5, <2>1, <3>1
    <3>3. k \in 1..n <=> k \in 1..(n - 1)
      BY <2>4
    <3>4. At(M, n - 1, k) = At(N, n, k)
      BY <1>6, <3>3 DEF At
    <3> QED BY <2>2, <3>2, <3>4
  <2> QED BY <2>3, <2>4
<1>8. \A k \in 1..(n - 1) : g.index[M[k]] = k
  BY <1>4, <1>5, <1>6
<1> QED BY <1>4, <1>7, <1>8 DEF Shows, M

LEMMA CutOrdered ==
  ASSUME NEW n \in Nat, n # 0, NEW N \in Trees(n), NEW d, Ordered(d, N, n)
  PROVE  Ordered(d, Cut(N, n), n - 1)
<1>1. \A i \in 1..(n - 1) : Cut(N, n)[i] = N[i]
  BY CutFacts
<1>2. \A k \in 2..(n - 1) : k \div 2 \in 1..(n - 1) /\ k \in 1..(n - 1) /\ k \in 2..n
  OBVIOUS
<1> QED BY <1>1, <1>2 DEF Ordered

LEMMA Cleared ==
  ASSUME NEW n \in Nat, NEW N \in Trees(n), NEW h \in Heaps, Shows(h, N, n),
         NEW t \in Threads, t \notin Members(N, n), NEW g,
         g = [ptr |-> [h.ptr EXCEPT ![Left(t)] = None, ![Right(t)] = None],
              index |-> [h.index EXCEPT ![t] = 0], size |-> h.size]
  PROVE  g \in Heaps /\ g.size = h.size /\ Shows(g, N, n)
<1> DEFINE q == [h.ptr EXCEPT ![Left(t)] = None, ![Right(t)] = None]
           x == [h.index EXCEPT ![t] = 0]
<1>1. /\ h.ptr \in [Slots -> Threads \cup {None}] /\ h.index \in [Threads -> Nat]
      /\ h.size \in Nat
  BY DEF Heaps
<1>2. Left(t) = Child(t, 0) /\ Right(t) = Child(t, 1)
  BY ChildFacts
<1>3. /\ q \in [Slots -> Threads \cup {None}]
      /\ \A y \in Slots : y # Child(t, 0) /\ y # Child(t, 1) => q[y] = h.ptr[y]
  BY <1>1, <1>2
<1>4. x \in [Threads -> Nat] /\ \A y \in Threads : y # t => x[y] = h.index[y]
  BY <1>1
<1> HIDE DEF q, x
<1>5. g \in Heaps /\ g.ptr = q /\ g.index = x /\ g.size = h.size
  BY <1>1, <1>3, <1>4 DEF Heaps, q, x
<1>6. \A k \in 1..(2 * n + 1) : /\ Slot(N, k) # Child(t, 0) /\ Slot(N, k) # Child(t, 1)
                                /\ Slot(N, k) \in Slots
  BY InHandApart, SlotFacts
<1>7. \A k \in 1..n : N[k] \in Threads /\ N[k] # t
  BY DEF Trees, Members
<1>8. \A k \in 1..(2 * n + 1) : g.ptr[Slot(N, k)] = At(N, n, k)
  BY <1>3, <1>5, <1>6 DEF Shows
<1>9. \A k \in 1..n : g.index[N[k]] = k
  BY <1>4, <1>5, <1>7 DEF Shows
<1> QED BY <1>5, <1>8, <1>9 DEF Shows

LEMMA DeleteIs ==
  ASSUME NEW d \in [Threads -> Int], NEW n \in Nat, NEW N \in Trees(n),
         NEW h \in Heaps, h.size = n, Shows(h, N, n), Ordered(d, N, n),
         NEW t \in Members(N, n)
  PROVE  LET g == heap_delete(d, h, t) IN
         /\ n - 1 \in Nat /\ g \in Heaps /\ g.size = n - 1
         /\ \E L \in Trees(n - 1) : /\ Shows(g, L, n - 1) /\ Ordered(d, L, n - 1)
                                    /\ Members(L, n - 1) = Members(N, n) \ {t}
<1> DEFINE lastSlot == SlotAt(h, h.size)
           last == h.ptr[lastSlot]
           cut == [ptr |-> [h.ptr EXCEPT ![lastSlot] = None], index |-> h.index,
                   size |-> h.size - 1]
           rest == IF last = t THEN cut ELSE Replace(d, cut, t, last)
           g == heap_delete(d, h, t)
           M == Cut(N, n)
<1>1. g = [ptr |-> [rest.ptr EXCEPT ![Left(t)] = None, ![Right(t)] = None],
           index |-> [rest.index EXCEPT ![t] = 0], size |-> rest.size]
  BY DEF heap_delete
<1> HIDE DEF g
<1>2. PICK a \in 1..n : t = N[a]
  BY DEF Members
<1>3. n # 0 /\ n \in 1..n /\ n \in 1..(2 * n + 1)
  BY <1>2
<1>4. N \in [1..n -> Threads] /\ \A i, j \in 1..n : N[i] = N[j] => i = j
  BY DEF Trees
<1>5. lastSlot = Slot(N, n)
  BY <1>3, SlotAtIs
<1>6. last = N[n] /\ last \in Threads /\ t \in Threads
  <2>1. h.ptr[Slot(N, n)] = N[n]
    BY <1>3 DEF Shows, At
  <2> QED BY <1>2, <1>3, <1>4, <1>5, <2>1
<1> HIDE DEF lastSlot, last
<1>7. cut \in Heaps /\ cut.size = n - 1 /\ Shows(cut, M, n - 1)
  BY <1>3, <1>5, CutShows
<1> HIDE DEF cut
<1>8. Ordered(d, M, n - 1)
  BY <1>3, CutOrdered
<1>9. /\ n - 1 \in Nat /\ M \in Trees(n - 1)
      /\ \A i \in 1..(n - 1) : M[i] = N[i]
      /\ last \notin Members(M, n - 1)
      /\ Members(M, n - 1) \cup {last} = Members(N, n)
  BY <1>3, <1>6, CutFacts
<1> HIDE DEF M
<1>10. /\ rest \in Heaps /\ rest.size = n - 1
       /\ \E L \in Trees(n - 1) : /\ Shows(rest, L, n - 1) /\ Ordered(d, L, n - 1)
                                  /\ Members(L, n - 1) = Members(N, n) \ {t}
  <2>1. CASE last = t
    <3>1. rest = cut
      BY <2>1
    <3>2. Members(M, n - 1) = Members(N, n) \ {t}
      BY <1>9, <2>1
    <3> QED BY <1>7, <1>8, <1>9, <3>1, <3>2
  <2>2. CASE last # t
    <3> DEFINE s == TakenOver(d, cut, t, last)
    <3>1. rest = Sift(d, s)
      BY <2>2 DEF Replace, TakenOver
    <3>2. a # n
      BY <1>2, <1>6, <2>2
    <3>3. a \in 1..(n - 1)
      BY <1>3, <3>2
    <3>4. t = M[a]
      BY <1>2, <1>9, <3>3
    <3> HIDE DEF s, rest
    <3>5. /\ s.h \in Heaps /\ s.h.size = cut.size
          /\ \E L \in Trees(n - 1) : /\ Shows(s.h, L, n - 1) /\ AlmostOrdered(d, L, n - 1, a)
                                     /\ s.p = Slot(L, a)
                                     /\ Members(L, n - 1) = (Members(M, n - 1) \cup {last}) \ {t}
      BY <1>6, <1>7, <1>8, <1>9, <3>3, <3>4, TakenOverIs DEF s
    <3>6. PICK L \in Trees(n - 1) : /\ Shows(s.h, L, n - 1) /\ AlmostOrdered(d, L, n - 1, a)
                                    /\ s.p = Slot(L, a)
                                    /\ Members(L, n - 1) = Members(N, n) \ {t}
      BY <1>9, <3>5
    <3>7. s \in SiftStates
      <4>1. s = [h |-> s.h, p |-> s.p]
        BY DEF s, TakenOver
      <4>2. s.p \in Slots
        <5>1. a \in 1..(2 * (n - 1) + 1)
          BY <1>3, <3>3
        <5> QED BY <1>9, <3>6, <5>1, SlotFacts
      <4> QED BY <3>5, <4>1, <4>2 DEF SiftStates
    <3>8. Sifting(d, s, L, n - 1, a)
      BY <3>3, <3>6, <3>7 DEF Sifting
    <3>9. s.h.size = n - 1
      BY <1>7, <3>5
    <3>10. /\ Sift(d, s) \in Heaps /\ Sift(d, s).size = n - 1
           /\ \E K \in Trees(n - 1) : /\ Shows(Sift(d, s), K, n - 1) /\ Ordered(d, K, n - 1)
                                      /\ Members(K, n - 1) = Members(L, n - 1)
      BY <1>9, <3>8, <3>9, SiftIs
    <3> QED BY <3>1, <3>6, <3>10
  <2> QED BY <2>1, <2>2
<1> HIDE DEF rest
<1>11. PICK L \in Trees(n - 1) : /\ Shows(rest, L, n - 1) /\ Ordered(d, L, n - 1)
                                 /\ Members(L, n - 1) = Members(N, n) \ {t}
  BY <1>10
<1>12. g \in Heaps /\ g.size = rest.size /\ Shows(g, L, n - 1)
  <2>1. t \notin Members(L, n - 1)
    BY <1>11
  <2> QED BY <1>1, <1>6, <1>9, <1>10, <1>11, <2>1, Cleared
<1> QED BY <1>9, <1>10, <1>11, <1>12 DEF g

-----------------------------------------------------------------------------
(* The tree of the heap, found from the root.                              *)
NodeDef(f, h, m) ==
    f = [n \in 1..m |-> IF n = 1 THEN h.ptr[SLEEPQ]
                        ELSE IF f[n \div 2] = None THEN None
                        ELSE h.ptr[Child(f[n \div 2], n % 2)]]

LEMMA NodeExists ==
  ASSUME NEW h, NEW m \in Nat
  PROVE  \E f : NodeDef(f, h, m)
<1> DEFINE Next1(n, p) == IF n = 1 THEN h.ptr[SLEEPQ]
                          ELSE IF p = None THEN None ELSE h.ptr[Child(p, n % 2)]
           Def(f, k) == f = [n \in 1..k |-> Next1(n, f[n \div 2])]
           Good == {k \in 0..m : \E f : Def(f, k)}
<1>1. 0 \in Good
  <2> DEFINE f == [n \in 1..0 |-> None]
  <2>1. f = [n \in 1..0 |-> Next1(n, f[n \div 2])]
    OBVIOUS
  <2> HIDE DEF f
  <2>2. Def(f, 0) /\ 0 \in 0..m
    BY <2>1
  <2> QED BY <2>2
<1>2. ASSUME NEW k \in 1..m, k - 1 \in Good PROVE k \in Good
  <2>1. PICK f : Def(f, k - 1)
    BY <1>2
  <2>2. \A n \in 1..(k - 1) : f[n] = Next1(n, f[n \div 2])
    BY <2>1
  <2> DEFINE g == [n \in 1..k |-> IF n = k THEN Next1(k, f[k \div 2]) ELSE f[n]]
  <2>3. \A n \in 1..k : n # 1 => n \div 2 \in 1..k /\ n \div 2 # k
    BY Halves
  <2>4. \A n \in 1..k : n # k => n \in 1..(k - 1)
    OBVIOUS
  <2>5. \A n \in 1..k : n # 1 => g[n \div 2] = f[n \div 2]
    BY <2>3
  <2>6. \A n \in 1..k : Next1(n, g[n \div 2]) = Next1(n, f[n \div 2])
    <3> HIDE DEF g
    <3> QED BY <2>5
  <2>7. \A n \in 1..k : g[n] = IF n = k THEN Next1(k, f[k \div 2]) ELSE f[n]
    OBVIOUS
  <2>8. g = [n \in 1..k |-> g[n]] /\ k \in 0..m
    OBVIOUS
  <2> HIDE DEF g, Next1
  <2>9. \A n \in 1..k : g[n] = Next1(n, g[n \div 2])
    BY <2>2, <2>4, <2>6, <2>7
  <2>10. Def(g, k)
    BY <2>8, <2>9
  <2> HIDE DEF Def
  <2> QED BY <2>8, <2>10
<1> HIDE DEF Good
<1>3. m \in Good
  <2>1. \A k \in 0..m : k \in Good
    BY <1>1, <1>2, LoopInvariant
  <2> QED BY <2>1
<1>4. PICK f : Def(f, m)
  BY <1>3 DEF Good
<1> QED BY <1>4 DEF NodeDef

(* What HeapCorrect says of node, the nodes of heap h, when F is flagged   *)
(* and d are the due times.                                                *)
Correct(node, h, F, d) ==
    /\ \A n \in 1..h.size : node[n] \in F
    /\ \A m, n \in 1..h.size : node[m] = node[n] => m = n
    /\ \A t \in F : t \in {node[n] : n \in 1..h.size}
    /\ \A n \in (h.size + 1)..(2 * h.size + 1) : node[n] = None
    /\ \A n \in 1..h.size : h.index[node[n]] = n
    /\ \A n \in 2..h.size : d[node[n \div 2]] <= d[node[n]]

NodeOf(h) == CHOOSE f : NodeDef(f, h, 2 * h.size + 1)

(* The tree N is what heap h is, when F is flagged and d are the due times. *)
TreeOf(N, h, F, d) ==
    /\ N \in Trees(h.size) /\ Shows(h, N, h.size) /\ Ordered(d, N, h.size)
    /\ Members(N, h.size) = F

LEMMA NodeOfIs ==
  ASSUME NEW h \in Heaps, NEW n \in 1..(2 * h.size + 1)
  PROVE  NodeOf(h)[n] = IF n = 1 THEN h.ptr[SLEEPQ]
                        ELSE IF NodeOf(h)[n \div 2] = None THEN None
                        ELSE h.ptr[Child(NodeOf(h)[n \div 2], n % 2)]
<1>1. 2 * h.size + 1 \in Nat
  BY DEF Heaps
<1>2. NodeDef(NodeOf(h), h, 2 * h.size + 1)
  BY <1>1, NodeExists DEF NodeOf
<1> QED BY <1>2 DEF NodeDef

LEMMA TreeIsCorrect ==
  ASSUME NEW h \in Heaps, NEW F, NEW d, NEW N, TreeOf(N, h, F, d)
  PROVE  /\ Correct(NodeOf(h), h, F, d)
         /\ {NodeOf(h)[n] : n \in 1..h.size} = F
<1> DEFINE n == h.size
           node == NodeOf(h)
           Good == {k \in 1..(2 * n + 1) : node[k] = At(N, n, k)}
<1>1. /\ n \in Nat /\ N \in Trees(n) /\ Shows(h, N, n) /\ Ordered(d, N, n)
      /\ Members(N, n) = F
  BY DEF Heaps, TreeOf
<1>2. \A k \in 1..(2 * n + 1) :
         node[k] = IF k = 1 THEN h.ptr[SLEEPQ]
                   ELSE IF node[k \div 2] = None THEN None
                   ELSE h.ptr[Child(node[k \div 2], k % 2)]
  BY NodeOfIs
<1>3. None \notin Threads
  BY HeapAssumption DEF HeapAssumption
<1>4. N \in [1..n -> Threads] /\ \A i, j \in 1..n : N[i] = N[j] => i = j
  BY <1>1 DEF Trees
<1> HIDE DEF node, n
<1>5. 1 \in Good
  <2>1. 1 \in 1..(2 * n + 1)
    BY <1>1
  <2>2. h.ptr[SLEEPQ] = At(N, n, 1)
    BY <1>1, <2>1 DEF Shows, Slot
  <2> QED BY <1>2, <2>1, <2>2
<1>6. ASSUME NEW k \in 2..(2 * n + 1), k \div 2 \in Good PROVE k \in Good
  <2>1. k \div 2 \in 1..n /\ k % 2 \in {0, 1} /\ Slot(N, k) = Child(N[k \div 2], k % 2)
    BY <1>1, SlotParent
  <2>2. node[k \div 2] = N[k \div 2] /\ N[k \div 2] # None
    BY <1>3, <1>4, <1>6, <2>1 DEF At
  <2>3. k \in 1..(2 * n + 1) /\ k # 1
    BY <1>1
  <2>4. node[k] = h.ptr[Slot(N, k)]
    BY <1>2, <2>1, <2>2, <2>3
  <2> QED BY <1>1, <2>3, <2>4 DEF Shows
<1> HIDE DEF Good
<1>7. \A k \in 1..(2 * n + 1) : node[k] = At(N, n, k)
  <2>1. 2 * n + 1 \in Nat
    BY <1>1
  <2>2. \A k \in 1..(2 * n + 1) : k \in Good
    BY <1>5, <1>6, <2>1, TreeInduction
  <2> QED BY <2>2 DEF Good
<1>8. \A k \in 1..n : k \in 1..(2 * n + 1) /\ node[k] = N[k]
  <2>1. \A k \in 1..n : k \in 1..(2 * n + 1)
    BY <1>1
  <2> QED BY <1>7, <2>1 DEF At
<1>9. \A k \in 1..n : node[k] \in F
  BY <1>1, <1>8 DEF Members
<1>10. \A i, j \in 1..n : node[i] = node[j] => i = j
  BY <1>4, <1>8
<1>11. {node[k] : k \in 1..n} = F
  BY <1>1, <1>8 DEF Members
<1>12. \A k \in (n + 1)..(2 * n + 1) : node[k] = None
  <2>1. \A k \in (n + 1)..(2 * n + 1) : k \in 1..(2 * n + 1) /\ k \notin 1..n
    BY <1>1
  <2> QED BY <1>7, <2>1 DEF At
<1>13. \A k \in 1..n : h.index[node[k]] = k
  BY <1>1, <1>8 DEF Shows
<1>14. \A k \in 2..n : d[node[k \div 2]] <= d[node[k]]
  <2>1. \A k \in 2..n : k \in 1..n /\ k \div 2 \in 1..n
    BY <1>1, Halves
  <2> QED BY <1>1, <1>8, <2>1 DEF Ordered
<1> QED BY <1>9, <1>10, <1>11, <1>12, <1>13, <1>14 DEF Correct, node, n

LEMMA CorrectHasTree ==
  ASSUME NEW h \in Heaps, NEW F \in SUBSET Threads, NEW d, Correct(NodeOf(h), h, F, d)
  PROVE  \E N : TreeOf(N, h, F, d)
<1> DEFINE n == h.size
           node == NodeOf(h)
           N == [k \in 1..n |-> node[k]]
<1>1. n \in Nat
  BY DEF Heaps
<1>2. \A k \in 1..(2 * n + 1) :
         node[k] = IF k = 1 THEN h.ptr[SLEEPQ]
                   ELSE IF node[k \div 2] = None THEN None
                   ELSE h.ptr[Child(node[k \div 2], k % 2)]
  BY NodeOfIs
<1>3. None \notin Threads
  BY HeapAssumption DEF HeapAssumption
<1>4. /\ \A k \in 1..n : node[k] \in F
      /\ \A i, j \in 1..n : node[i] = node[j] => i = j
      /\ \A t \in F : t \in {node[k] : k \in 1..n}
      /\ \A k \in (n + 1)..(2 * n + 1) : node[k] = None
      /\ \A k \in 1..n : h.index[node[k]] = k
      /\ \A k \in 2..n : d[node[k \div 2]] <= d[node[k]]
  BY DEF Correct
<1> HIDE DEF node, n
<1>5. \A k \in 1..n : N[k] = node[k]
  OBVIOUS
<1>6. N \in [1..n -> Threads]
  BY <1>4
<1> HIDE DEF N
<1>7. N \in Trees(n)
  BY <1>4, <1>5, <1>6 DEF Trees
<1>8. ASSUME NEW k \in 1..(2 * n + 1) PROVE h.ptr[Slot(N, k)] = At(N, n, k)
  <2>1. node[k] = At(N, n, k)
    <3>1. k \in 1..n \/ k \in (n + 1)..(2 * n + 1)
      BY <1>1
    <3>2. k \in (n + 1)..(2 * n + 1) => k \notin 1..n
      BY <1>1
    <3> QED BY <1>4, <1>5, <3>1, <3>2 DEF At
  <2>2. CASE k = 1
    BY <1>2, <2>1, <2>2 DEF Slot
  <2>3. CASE k # 1
    <3>1. k \in 2..(2 * n + 1)
      BY <1>1, <2>3
    <3>2. k \div 2 \in 1..n /\ Slot(N, k) = Child(N[k \div 2], k % 2)
      BY <1>1, <1>7, <3>1, SlotParent
    <3>3. node[k \div 2] = N[k \div 2] /\ N[k \div 2] # None
      BY <1>3, <1>5, <1>6, <3>2
    <3> QED BY <1>2, <2>1, <2>3, <3>2, <3>3
  <2> QED BY <2>2, <2>3
<1>9. Shows(h, N, n)
  BY <1>4, <1>5, <1>8 DEF Shows
<1>10. Ordered(d, N, n)
  <2>1. \A k \in 2..n : k \in 1..n /\ k \div 2 \in 1..n
    BY <1>1, Halves
  <2> QED BY <1>4, <1>5, <2>1 DEF Ordered
<1>11. Members(N, n) = F
  BY <1>4, <1>5 DEF Members
<1> QED BY <1>7, <1>9, <1>10, <1>11 DEF TreeOf, n

LEMMA OrderedAgree ==
  ASSUME NEW n \in Nat, NEW N, NEW d, NEW e, Ordered(d, N, n),
         \A t \in Members(N, n) : d[t] = e[t]
  PROVE  Ordered(e, N, n)
<1>1. \A k \in 2..n : k \in 1..n /\ k \div 2 \in 1..n
  BY Halves
<1>2. \A k \in 1..n : d[N[k]] = e[N[k]]
  BY DEF Members
<1> QED BY <1>1, <1>2 DEF Ordered

(* The thread at the root is due first.                                    *)
LEMMA RootIsFirst ==
  ASSUME NEW n \in Nat, NEW N \in Trees(n), NEW d \in [Threads -> Int], Ordered(d, N, n)
  PROVE  \A t \in Members(N, n) : d[N[1]] <= d[t]
<1> DEFINE Good == {k \in 1..n : d[N[1]] <= d[N[k]]}
<1>1. \A k \in 1..n : N[k] \in Threads /\ d[N[k]] \in Int
  BY DEF Trees
<1>2. CASE n = 0
  BY <1>2 DEF Members
<1>3. CASE n # 0
  <2>1. 1 \in 1..n
    BY <1>3
  <2>2. 1 \in Good
    <3>1. d[N[1]] <= d[N[1]]
      BY <1>1, <2>1
    <3> QED BY <2>1, <3>1
  <2>3. ASSUME NEW k \in 2..n, k \div 2 \in Good PROVE k \in Good
    <3>1. k \in 1..n /\ k \div 2 \in 1..n /\ d[N[1]] <= d[N[k \div 2]]
      BY <2>3
    <3>2. d[N[k \div 2]] <= d[N[k]]
      BY DEF Ordered
    <3>3. d[N[1]] \in Int /\ d[N[k \div 2]] \in Int /\ d[N[k]] \in Int
      BY <1>1, <2>1, <3>1
    <3>4. d[N[1]] <= d[N[k]]
      BY <3>1, <3>2, <3>3
    <3> QED BY <3>1, <3>4
  <2> HIDE DEF Good
  <2>4. \A k \in 1..n : k \in Good
    BY <2>2, <2>3, TreeInduction
  <2>5. \A k \in 1..n : d[N[1]] <= d[N[k]]
    BY <2>4 DEF Good
  <2> QED BY <2>5 DEF Members
<1> QED BY <1>2, <1>3

-----------------------------------------------------------------------------
(* The heap is a complete tree in order; a thread that is not in it has no *)
(* due time.                                                               *)
Awake == \A t \in Threads \ flagged : due[t] = 0

IInv == TypeOK /\ HeapCorrect /\ Awake

LEMMA HeapHasTree ==
  ASSUME TypeOK, HeapCorrect
  PROVE  /\ heap \in Heaps /\ \E N : TreeOf(N, heap, flagged, due)
         /\ Nodes = flagged
<1>1. heap \in Heaps /\ flagged \in SUBSET Threads
  BY DEF TypeOK, Heaps
<1>2. Node = NodeOf(heap)
  BY DEF Node, NodeOf, NodeDef
<1>3. Correct(NodeOf(heap), heap, flagged, due)
  BY <1>2 DEF Correct, HeapCorrect, CompleteTree, IndexExact, HeapOrder, Nodes
<1>4. \E N : TreeOf(N, heap, flagged, due)
  BY <1>1, <1>3, CorrectHasTree
<1>5. Nodes = flagged
  BY <1>1, <1>2, <1>4, TreeIsCorrect DEF Nodes
<1> QED BY <1>1, <1>4, <1>5

LEMMA TreeThenCorrect ==
  ASSUME heap \in Heaps, NEW N, TreeOf(N, heap, flagged, due)
  PROVE  HeapCorrect /\ Nodes = flagged
<1>1. Node = NodeOf(heap)
  BY DEF Node, NodeOf, NodeDef
<1>2. Correct(NodeOf(heap), heap, flagged, due) /\ {NodeOf(heap)[n] : n \in 1..heap.size} = flagged
  BY TreeIsCorrect
<1> QED BY <1>1, <1>2 DEF Correct, HeapCorrect, CompleteTree, IndexExact, HeapOrder, Nodes

LEMMA TreeThenCorrectNext ==
  ASSUME heap' \in Heaps, NEW N, TreeOf(N, heap', flagged', due')
  PROVE  HeapCorrect' /\ Nodes' = flagged'
<1>1. Node' = NodeOf(heap')
  BY DEF Node, NodeOf, NodeDef
<1>2. Correct(NodeOf(heap'), heap', flagged', due') /\ {NodeOf(heap')[n] : n \in 1..heap'.size} = flagged'
  BY TreeIsCorrect
<1> QED BY <1>1, <1>2 DEF Correct, HeapCorrect, CompleteTree, IndexExact, HeapOrder, Nodes

LEMMA InitHolds == Init => IInv
<1> SUFFICES ASSUME Init PROVE IInv
  OBVIOUS
<1> DEFINE N == [k \in 1..0 |-> None]
<1>1. heap.size = 0 /\ heap.ptr = [s \in Slots |-> None] /\ heap.index = [t \in Threads |-> 0]
  BY DEF Init
<1>2. heap = [ptr |-> heap.ptr, index |-> heap.index, size |-> heap.size]
  BY <1>1 DEF Init
<1>3. heap \in Heaps
  BY <1>1, <1>2 DEF Heaps
<1>4. due \in [Threads -> Int] /\ flagged = {} /\ expiring = FALSE /\ \A t \in Threads : due[t] = 0
  BY DEF Init
<1>5. TypeOK /\ Awake
  BY <1>3, <1>4 DEF TypeOK, Awake, Heaps
<1>6. N \in Trees(0) /\ Members(N, 0) = {}
  BY DEF Trees, Members
<1> HIDE DEF N
<1>7. Shows(heap, N, 0)
  <2>1. \A k \in 1..(2 * 0 + 1) : k = 1 /\ Slot(N, k) = SLEEPQ /\ At(N, 0, k) = None
    BY DEF Slot, At
  <2> QED BY <1>1, <2>1, ChildFacts DEF Shows
<1>8. Ordered(due, N, 0)
  BY DEF Ordered
<1>9. TreeOf(N, heap, flagged, due)
  BY <1>1, <1>4, <1>6, <1>7, <1>8 DEF TreeOf
<1> QED BY <1>3, <1>5, <1>9, TreeThenCorrect DEF IInv

(* _st_add_sleep_q.                                                        *)
LEMMA AddKeeps ==
  ASSUME IInv, NEW t \in Threads, NEW timeout \in Timeouts, add_sleep_q(t, timeout)
  PROVE  IInv' /\ Nodes' = flagged'
<1> DEFINE last == heap.size + 1
           h == [ptr |-> heap.ptr, index |-> [heap.index EXCEPT ![t] = last], size |-> last]
<1>1. /\ t \notin flagged /\ due' = [due EXCEPT ![t] = timeout]
      /\ flagged' = flagged \cup {t} /\ expiring' = expiring
      /\ heap' = heap_insert(due', h, t).h
  BY DEF add_sleep_q
<1>2. TypeOK /\ Awake /\ heap \in Heaps
  BY HeapHasTree DEF IInv
<1>3. PICK N : TreeOf(N, heap, flagged, due)
  BY HeapHasTree DEF IInv
<1> DEFINE n == heap.size
<1>4. /\ n \in Nat /\ N \in Trees(n) /\ Shows(heap, N, n) /\ Ordered(due, N, n)
      /\ Members(N, n) = flagged
      /\ heap.ptr \in [Slots -> Threads \cup {None}] /\ heap.index \in [Threads -> Nat]
  BY <1>2, <1>3 DEF TreeOf, Heaps
<1>5. due' \in [Threads -> Int] /\ flagged' \subseteq Threads
  <2>1. timeout \in Int
    BY HeapAssumption DEF HeapAssumption
  <2> QED BY <1>1, <1>2, <2>1 DEF TypeOK
<1>6. \A u \in Threads : u # t => due'[u] = due[u]
  BY <1>1, <1>2 DEF TypeOK
<1>7. Ordered(due', N, n)
  <2>1. \A u \in Members(N, n) : due[u] = due'[u]
    BY <1>1, <1>2, <1>4, <1>6 DEF TypeOK
  <2> HIDE DEF n
  <2> QED BY <1>4, <2>1, OrderedAgree
<1>8. /\ h \in Heaps /\ h.ptr = heap.ptr /\ h.size = n + 1 /\ h.index[t] = n + 1
      /\ \A u \in Threads : u # t => h.index[u] = heap.index[u]
  BY <1>4 DEF Heaps
<1> HIDE DEF h, n
<1>9. Shows(h, N, n)
  <2>1. \A k \in 1..n : N[k] \in Threads /\ N[k] # t
    BY <1>1, <1>4 DEF Trees, Members
  <2> QED BY <1>4, <1>8, <2>1 DEF Shows
<1>10. /\ heap' \in Heaps /\ heap'.size = h.size
       /\ \E L \in Trees(n + 1) : /\ Shows(heap', L, n + 1) /\ Ordered(due', L, n + 1)
                                  /\ Members(L, n + 1) = Members(N, n) \cup {t}
  <2>1. t \notin Members(N, n)
    BY <1>1, <1>4
  <2>2. PICK d \in [Threads -> Int] : d = due'
    BY <1>5
  <2> DEFINE g == heap_insert(d, h, t).h
  <2>3. heap' = g /\ Ordered(d, N, n)
    BY <1>1, <1>7, <2>2
  <2>4. /\ g \in Heaps /\ g.size = h.size
        /\ \E L \in Trees(n + 1) : /\ Shows(g, L, n + 1) /\ Ordered(d, L, n + 1)
                                   /\ Members(L, n + 1) = Members(N, n) \cup {t}
    BY <1>4, <1>8, <1>9, <2>1, <2>3, InsertAtEnd
  <2> HIDE DEF g
  <2> QED BY <2>2, <2>3, <2>4
<1>11. PICK L : TreeOf(L, heap', flagged', due')
  BY <1>1, <1>4, <1>8, <1>10 DEF TreeOf
<1>12. TypeOK'
  BY <1>1, <1>2, <1>5, <1>10 DEF TypeOK, Heaps
<1>13. Awake'
  BY <1>1, <1>2, <1>6 DEF Awake
<1> QED BY <1>10, <1>11, <1>12, <1>13, TreeThenCorrectNext DEF IInv

(* _st_del_sleep_q.                                                        *)
LEMMA UnlinkedKeeps ==
  ASSUME IInv, NEW t \in flagged, Unlinked(t)
  PROVE  IInv' /\ Nodes' = flagged'
<1>1. /\ due' = [due EXCEPT ![t] = 0] /\ flagged' = flagged \ {t} /\ expiring' = expiring
      /\ heap' = heap_delete(due, heap, t)
  BY DEF Unlinked
<1>2. TypeOK /\ Awake /\ heap \in Heaps
  BY HeapHasTree DEF IInv
<1>3. PICK N : TreeOf(N, heap, flagged, due)
  BY HeapHasTree DEF IInv
<1> DEFINE n == heap.size
<1>4. /\ n \in Nat /\ N \in Trees(n) /\ Shows(heap, N, n) /\ Ordered(due, N, n)
      /\ Members(N, n) = flagged /\ due \in [Threads -> Int]
  BY <1>2, <1>3 DEF TreeOf, Heaps, TypeOK
<1>5. due' \in [Threads -> Int] /\ flagged' \subseteq Threads
  BY <1>1, <1>2 DEF TypeOK
<1>6. /\ due'[t] = 0
      /\ \A u \in Threads : u # t => due'[u] = due[u]
  BY <1>1, <1>2 DEF TypeOK
<1>7. /\ n - 1 \in Nat /\ heap' \in Heaps /\ heap'.size = n - 1
      /\ \E L \in Trees(n - 1) : /\ Shows(heap', L, n - 1) /\ Ordered(due, L, n - 1)
                                 /\ Members(L, n - 1) = Members(N, n) \ {t}
  BY <1>1, <1>2, <1>4, DeleteIs
<1>8. PICK L \in Trees(n - 1) : /\ Shows(heap', L, n - 1) /\ Ordered(due, L, n - 1)
                                /\ Members(L, n - 1) = flagged'
  BY <1>1, <1>4, <1>7
<1>9. Ordered(due', L, n - 1)
  <2>1. \A u \in Members(L, n - 1) : due[u] = due'[u]
    BY <1>1, <1>2, <1>6, <1>8 DEF TypeOK
  <2> HIDE DEF n
  <2> QED BY <1>7, <1>8, <2>1, OrderedAgree
<1>10. TreeOf(L, heap', flagged', due')
  BY <1>7, <1>8, <1>9 DEF TreeOf
<1>11. TypeOK'
  BY <1>1, <1>2, <1>5, <1>7 DEF TypeOK, Heaps
<1>12. Awake'
  BY <1>1, <1>2, <1>6 DEF Awake
<1> QED BY <1>7, <1>10, <1>11, <1>12, TreeThenCorrectNext DEF IInv

LEMMA ClockKeeps ==
  ASSUME IInv, NEW e \in Elapsed, read_clock(e)
  PROVE  IInv' /\ Nodes' = flagged'
<1>1. /\ due' = [t \in Threads |-> IF t \in flagged THEN due[t] - e ELSE 0]
      /\ flagged' = flagged /\ expiring' = TRUE /\ heap' = heap
  BY DEF read_clock
<1>2. TypeOK /\ Awake /\ heap \in Heaps
  BY HeapHasTree DEF IInv
<1>3. PICK N : TreeOf(N, heap, flagged, due)
  BY HeapHasTree DEF IInv
<1> DEFINE n == heap.size
<1>4. /\ n \in Nat /\ N \in Trees(n) /\ Shows(heap, N, n) /\ Ordered(due, N, n)
      /\ Members(N, n) = flagged /\ due \in [Threads -> Int] /\ flagged \subseteq Threads
  BY <1>2, <1>3 DEF TreeOf, Heaps, TypeOK
<1>5. e \in Int
  BY HeapAssumption DEF HeapAssumption
<1>6. due' \in [Threads -> Int]
  BY <1>1, <1>4, <1>5
<1>7. \A t \in flagged : due'[t] = due[t] - e
  BY <1>1, <1>4
<1>8. Ordered(due', N, n)
  <2> SUFFICES ASSUME NEW k \in 2..n PROVE due'[N[k \div 2]] <= due'[N[k]]
    BY DEF Ordered
  <2>1. k \in 1..n /\ k \div 2 \in 1..n
    BY <1>4, Halves
  <2>2. N[k] \in flagged /\ N[k \div 2] \in flagged
    BY <1>4, <2>1 DEF Members
  <2>3. due[N[k \div 2]] <= due[N[k]]
    BY <1>4 DEF Ordered
  <2>4. due[N[k \div 2]] \in Int /\ due[N[k]] \in Int
    BY <1>4, <2>2
  <2>5. due[N[k \div 2]] - e <= due[N[k]] - e
    BY <1>5, <2>3, <2>4
  <2> QED BY <1>7, <2>2, <2>5
<1>9. TreeOf(N, heap', flagged', due')
  BY <1>1, <1>3, <1>8 DEF TreeOf
<1>10. TypeOK' /\ Awake'
  BY <1>1, <1>2, <1>6 DEF TypeOK, Awake
<1> QED BY <1>1, <1>2, <1>9, <1>10, TreeThenCorrectNext DEF IInv

(* The root of the heap.                                                   *)
LEMMA RootFacts ==
  ASSUME IInv, NEW t, t = heap.ptr[SLEEPQ]
  PROVE  /\ t # None => t \in flagged /\ \A u \in flagged : due[t] <= due[u]
         /\ t = None => flagged = {}
<1>1. TypeOK /\ heap \in Heaps
  BY HeapHasTree DEF IInv
<1>2. PICK N : TreeOf(N, heap, flagged, due)
  BY HeapHasTree DEF IInv
<1> DEFINE n == heap.size
<1>3. /\ n \in Nat /\ N \in Trees(n) /\ Shows(heap, N, n) /\ Ordered(due, N, n)
      /\ Members(N, n) = flagged /\ due \in [Threads -> Int]
  BY <1>1, <1>2 DEF TreeOf, Heaps, TypeOK
<1>4. t = At(N, n, 1)
  <2>1. 1 \in 1..(2 * n + 1) /\ Slot(N, 1) = SLEEPQ
    BY <1>3 DEF Slot
  <2> QED BY <1>3, <2>1 DEF Shows
<1>5. CASE n = 0
  <2>1. t = None /\ flagged = {}
    BY <1>3, <1>4, <1>5 DEF At, Members
  <2> QED BY <2>1
<1>6. CASE n # 0
  <2>1. 1 \in 1..n
    BY <1>3, <1>6
  <2>2. t = N[1] /\ t \in flagged
    BY <1>3, <1>4, <2>1 DEF At, Members
  <2>3. \A u \in flagged : due[t] <= due[u]
    BY <1>3, <2>2, RootIsFirst
  <2>4. t # None
    BY <1>1, <2>2, HeapAssumption DEF HeapAssumption, TypeOK
  <2> QED BY <2>2, <2>3, <2>4
<1> QED BY <1>5, <1>6

LEMMA NextKeeps ==
  ASSUME IInv, [Next]_vars
  PROVE  IInv' /\ Nodes' = flagged'
<1>1. ASSUME NEW t \in Threads, NEW d \in Timeouts, add_sleep_q(t, d)
      PROVE  IInv' /\ Nodes' = flagged'
  BY <1>1, AddKeeps
<1>2. ASSUME NEW t \in Threads, del_sleep_q(t)
      PROVE  IInv' /\ Nodes' = flagged'
  <2>1. t \in flagged /\ Unlinked(t)
    BY <1>2 DEF del_sleep_q
  <2> QED BY <2>1, UnlinkedKeeps
<1>3. ASSUME NEW e \in Elapsed, read_clock(e)
      PROVE  IInv' /\ Nodes' = flagged'
  BY <1>3, ClockKeeps
<1>4. CASE check_clock_expire
  <2>1. PICK t : t = heap.ptr[SLEEPQ]
    OBVIOUS
  <2>2. t # None /\ Unlinked(t)
    BY <1>4, <2>1 DEF check_clock_expire
  <2>3. t \in flagged
    BY <2>1, <2>2, RootFacts
  <2> QED BY <2>2, <2>3, UnlinkedKeeps
<1>5. CASE UNCHANGED <<heap, due, flagged>> /\ expiring' \in BOOLEAN
  <2>1. TypeOK /\ Awake /\ heap \in Heaps
    BY HeapHasTree DEF IInv
  <2>2. PICK N : TreeOf(N, heap, flagged, due)
    BY HeapHasTree DEF IInv
  <2>3. TreeOf(N, heap', flagged', due') /\ heap' \in Heaps
    BY <1>5, <2>1, <2>2
  <2>4. TypeOK' /\ Awake'
    BY <1>5, <2>1 DEF TypeOK, Awake
  <2> QED BY <2>3, <2>4, TreeThenCorrectNext DEF IInv
<1>6. CASE check_clock_end
  <2>1. UNCHANGED <<heap, due, flagged>> /\ expiring' \in BOOLEAN
    BY <1>6 DEF check_clock_end
  <2> QED BY <1>5, <2>1
<1>7. CASE UNCHANGED vars
  <2>1. UNCHANGED <<heap, due, flagged>> /\ expiring' \in BOOLEAN
    BY <1>7 DEF vars, IInv, TypeOK
  <2> QED BY <1>5, <2>1
<1> QED BY <1>1, <1>2, <1>3, <1>4, <1>6, <1>7 DEF Next

(* The heap is complete and in order in every reachable state, and what is *)
(* off it has no due time.                                                 *)
THEOREM InductiveInvariant == Spec => []IInv
<1>1. Init => IInv
  BY InitHolds
<1>2. IInv /\ [Next]_vars => IInv'
  BY NextKeeps
<1> QED BY <1>1, <1>2, PTL DEF Spec

(* docs/timeout_heap.txt: "The tree is kept fully balanced and             *)
(* left-adjusted at all times", heap_index is the thread's place in it,    *)
(* and "children always time out later than their parents", whatever       *)
(* _st_add_sleep_q and _st_del_sleep_q were called for.                    *)
THEOREM HeapAlwaysCorrect == Spec => []HeapCorrect
<1>1. IInv => HeapCorrect
  BY DEF IInv
<1> QED BY <1>1, InductiveInvariant, PTL

-----------------------------------------------------------------------------
(* Every step of the heap is a step of the sleep queue.                    *)
LEMMA UnlinkedRemoves ==
  ASSUME IInv, IInv', Nodes = flagged, Nodes' = flagged', NEW t \in flagged, Unlinked(t)
  PROVE  SQ!Remove(t)
BY DEF Unlinked, SQ!Remove

LEMMA StepImplements ==
  ASSUME IInv, [Next]_vars
  PROVE  [SQ!Next]_SQ!vars
<1>1. IInv' /\ Nodes' = flagged' /\ Nodes = flagged /\ TypeOK /\ Awake
  BY NextKeeps, HeapHasTree DEF IInv
<1>2. ASSUME NEW t \in Threads, NEW d \in Timeouts, add_sleep_q(t, d)
      PROVE  SQ!Next
  <2>1. SQ!Add(t, d)
    BY <1>1, <1>2 DEF add_sleep_q, SQ!Add
  <2> QED BY <2>1 DEF SQ!Next
<1>3. ASSUME NEW t \in Threads, del_sleep_q(t)
      PROVE  SQ!Next
  <2>1. t \in flagged /\ Unlinked(t) /\ ~expiring
    BY <1>3 DEF del_sleep_q
  <2>2. SQ!Delete(t)
    BY <1>1, <2>1, UnlinkedRemoves DEF SQ!Delete
  <2> QED BY <2>2 DEF SQ!Next
<1>4. ASSUME NEW e \in Elapsed, read_clock(e)
      PROVE  SQ!Next
  <2>1. \A t \in Threads : t \notin flagged => due[t] = 0
    BY <1>1 DEF Awake
  <2>2. due' = [t \in Threads |-> IF t \in flagged THEN due[t] - e ELSE due[t]]
    BY <1>4, <2>1 DEF read_clock
  <2>3. ~expiring /\ expiring' = TRUE /\ flagged' = flagged
    BY <1>4 DEF read_clock
  <2>4. SQ!ReadClock(e)
    BY <1>1, <2>2, <2>3 DEF SQ!ReadClock
  <2> QED BY <2>4 DEF SQ!Next
<1>5. CASE check_clock_expire
  <2>1. PICK t : t = heap.ptr[SLEEPQ]
    OBVIOUS
  <2>2. expiring /\ t # None /\ due[t] <= 0 /\ Unlinked(t)
    BY <1>5, <2>1 DEF check_clock_expire
  <2>3. t \in flagged /\ \A u \in flagged : due[t] <= due[u]
    BY <2>1, <2>2, RootFacts
  <2>4. SQ!Expire(t) /\ t \in Threads
    BY <1>1, <2>2, <2>3, UnlinkedRemoves DEF SQ!Expire, TypeOK
  <2> QED BY <2>4 DEF SQ!Next
<1>6. CASE check_clock_end
  <2>1. PICK t : t = heap.ptr[SLEEPQ]
    OBVIOUS
  <2>2. /\ expiring /\ expiring' = FALSE
        /\ t # None => due[t] > 0
        /\ UNCHANGED <<heap, due, flagged>>
    BY <1>6, <2>1 DEF check_clock_end
  <2>3. \A u \in flagged : due[u] > 0
    <3> SUFFICES ASSUME NEW u \in flagged PROVE due[u] > 0
      OBVIOUS
    <3>1. t # None /\ t \in flagged /\ due[t] <= due[u]
      BY <2>1, RootFacts
    <3>2. due[t] > 0 /\ due[t] \in Int /\ due[u] \in Int
      BY <1>1, <2>2, <3>1 DEF TypeOK
    <3> QED BY <3>1, <3>2
  <2>4. SQ!Stop
    BY <1>1, <2>2, <2>3 DEF SQ!Stop
  <2> QED BY <2>4 DEF SQ!Next
<1>7. CASE UNCHANGED vars
  <2>1. UNCHANGED <<flagged, due, expiring>>
    BY <1>7 DEF vars
  <2> QED BY <1>1, <2>1 DEF SQ!vars
<1> QED BY <1>2, <1>3, <1>4, <1>5, <1>6, <1>7 DEF Next

(* The heap is the sleep queue: the clock wakes the threads that are due,  *)
(* earliest first, and stops when none is left (_st_vp_check_clock).       *)
THEOREM SleepQueueImplemented == Spec => ImplementsSleepQueue
<1>1. Init => SQ!Init
  <2> SUFFICES ASSUME Init PROVE SQ!Init
    OBVIOUS
  <2>1. IInv
    BY InitHolds
  <2>2. Nodes = flagged
    BY <2>1, HeapHasTree DEF IInv
  <2> QED BY <2>2 DEF Init, SQ!Init
<1>2. IInv /\ [Next]_vars => [SQ!Next]_SQ!vars
  BY StepImplements
<1> QED BY <1>1, <1>2, InductiveInvariant, PTL DEF Spec, ImplementsSleepQueue, SQ!Spec

=============================================================================
