---------------------------- MODULE TimeoutHeap ----------------------------
(***************************************************************************)
(* The timeout heap of the scheduler (sched.c, docs/timeout_heap.txt): the *)
(* sleeping threads form a complete binary tree through the pointers       *)
(* `left' and `right' of their structures, addressed from the root by the  *)
(* bits of heap_index.  There are no parent pointers.                      *)
(*                                                                         *)
(* A slot is a place that holds a pointer: the root, or a field of a       *)
(* thread; the code's `_st_thread_t **p' is a slot.  ptr, index and size   *)
(* make up one heap record, so that the loops below are functions of it.   *)
(***************************************************************************)
EXTENDS Integers

CONSTANTS
    Threads,    \* threads that may sleep
    None,       \* the NULL pointer
    Timeouts,   \* timeouts they ask for
    Elapsed     \* clock advances seen by one _st_vp_check_clock

ASSUME HeapAssumption ==
    /\ None \notin Threads
    /\ Timeouts \subseteq Nat
    /\ Elapsed \subseteq Nat

VARIABLES
    heap,       \* the pointers, heap_index of each thread, _ST_SLEEPQ_SIZE
    due,        \* thread->due relative to last_clock, 0 off the heap
    flagged,    \* threads with _ST_FL_ON_SLEEPQ
    expiring    \* _st_vp_check_clock is in its loop

vars == <<heap, due, flagged, expiring>>

SLEEPQ == <<None, "root">>
Left(t) == <<t, "left">>
Right(t) == <<t, "right">>
Slots == {SLEEPQ} \cup (Threads \X {"left", "right"})

(* The bits of n but the first are the directions from the root to node n, *)
(* so the way to it is the way to n \div 2 and a step more.                *)
Child(t, bit) == IF bit = 1 THEN Right(t) ELSE Left(t)

Init ==
    /\ heap = [ptr |-> [s \in Slots |-> None],
               index |-> [t \in Threads |-> 0],
               size |-> 0]
    /\ due = [t \in Threads |-> 0]
    /\ flagged = {}
    /\ expiring = FALSE

-----------------------------------------------------------------------------
(* Fault: no thread on the way down is ever displaced.                     *)
InsertStep_NoSwap(d, s, bit) ==
    LET n == 2 * s.at + bit
    IN  [s EXCEPT !.p = Child(s.h.ptr[s.p], bit), !.at = n]

(* One level of the way down, to the child named by bit: s.t is the thread *)
(* in hand, s.p the slot reached and s.at its index.  A thread that is due *)
(* later than the one in hand is exchanged with it.                        *)
InsertStep(d, s, bit) ==
    LET u == s.h.ptr[s.p]
        n == 2 * s.at + bit
    IN  IF d[s.t] < d[u]
        THEN [h |-> [ptr |-> [s.h.ptr EXCEPT ![Left(s.t)] = s.h.ptr[Left(u)],
                                             ![Right(s.t)] = s.h.ptr[Right(u)],
                                             ![s.p] = s.t],
                     index |-> [s.h.index EXCEPT ![s.t] = s.at],
                     size |-> s.h.size],
              t |-> u, p |-> Child(s.t, bit), at |-> n]
        ELSE [s EXCEPT !.p = Child(u, bit), !.at = n]

(* The way down to the heap_index of t.                                    *)
InsertWay(d, h, t) ==
    LET way[n \in 1..h.index[t]] ==
          IF n = 1 THEN [h |-> h, t |-> t, p |-> SLEEPQ, at |-> 1]
          ELSE InsertStep(d, way[n \div 2], n % 2)
    IN  way[h.index[t]]

(* Fault: a displaced thread keeps its old children.                       *)
heap_insert_ChildrenKept(d, h, t) ==
    LET s == InsertWay(d, h, t)
    IN  [h |-> [ptr |-> [s.h.ptr EXCEPT ![s.p] = s.t],
                index |-> [s.h.index EXCEPT ![s.t] = s.at],
                size |-> s.h.size],
         p |-> s.p]

(* The heap after the insertion of t at its heap_index, and the slot there. *)
heap_insert(d, h, t) ==
    LET s == InsertWay(d, h, t)
    IN  [h |-> [ptr |-> [s.h.ptr EXCEPT ![s.p] = s.t,
                                        ![Left(s.t)] = None,
                                        ![Right(s.t)] = None],
                index |-> [s.h.index EXCEPT ![s.t] = s.at],
                size |-> s.h.size],
         p |-> s.p]

(* The pointers after t in slot p has changed places with its child y.     *)
Exchanged(ptr, p, t, y) ==
    LET l == ptr[Left(t)]
        r == ptr[Right(t)]
    IN  [ptr EXCEPT ![p] = y,
                    ![Left(y)] = IF y = l THEN t ELSE l,
                    ![Right(y)] = IF y = l THEN r ELSE t,
                    ![Left(t)] = ptr[Left(y)],
                    ![Right(t)] = ptr[Right(y)]]

(* Fault: the indices are not exchanged.                                   *)
SiftStep_IndexKept(d, s) ==
    LET h == s.h
        t == h.ptr[s.p]
        l == h.ptr[Left(t)]
        r == h.ptr[Right(t)]
        y == IF r = None \/ d[l] < d[r] THEN l ELSE r
    IN  IF l = None \/ d[t] <= d[y] THEN s
        ELSE [h |-> [h EXCEPT !.ptr = Exchanged(h.ptr, s.p, t, y)],
              p |-> IF y = l THEN Left(y) ELSE Right(y)]

(* One round of the loop that reestablishes the heap invariant: the thread *)
(* in slot s.p changes places with its younger child, if that is due       *)
(* earlier.  A finished loop stays as it is.                               *)
SiftStep(d, s) ==
    LET h == s.h
        t == h.ptr[s.p]
        l == h.ptr[Left(t)]
        r == h.ptr[Right(t)]
        y == IF r = None \/ d[l] < d[r] THEN l ELSE r
    IN  IF l = None \/ d[t] <= d[y] THEN s
        ELSE [h |-> [ptr |-> Exchanged(h.ptr, s.p, t, y),
                     index |-> [h.index EXCEPT ![t] = h.index[y], ![y] = h.index[t]],
                     size |-> h.size],
              p |-> IF y = l THEN Left(y) ELSE Right(y)]

Sift(d, s) ==
    LET round[n \in 0..s.h.size] == IF n = 0 THEN s ELSE SiftStep(d, round[n - 1])
    IN  round[s.h.size].h

(* The slot of node m; heap_delete goes to the last heap element.          *)
SlotAt(h, m) ==
    LET slot[n \in 1..m] ==
          IF n = 1 THEN SLEEPQ ELSE Child(h.ptr[slot[n \div 2]], n % 2)
    IN  slot[m]

(* Fault: the moved element is only ever sifted down.                      *)
Replace_DownOnly(d, h, t, last) ==
    LET p == SlotAt(h, h.index[t])
    IN  Sift(d, [h |-> [ptr |-> [h.ptr EXCEPT ![p] = last,
                                              ![Left(last)] = h.ptr[Left(t)],
                                              ![Right(last)] = h.ptr[Right(t)]],
                        index |-> [h.index EXCEPT ![last] = h.index[t]],
                        size |-> h.size],
                 p |-> p])

(* The unlinked last element is inserted in place of t: what ends up there *)
(* takes over t's children and sinks to its place.                         *)
Replace(d, h, t, last) ==
    LET i == [ptr |-> h.ptr, index |-> [h.index EXCEPT ![last] = h.index[t]],
              size |-> h.size]
        s == heap_insert(d, i, last)
        u == s.h.ptr[s.p]
        g == [ptr |-> [s.h.ptr EXCEPT ![Left(u)] = s.h.ptr[Left(t)],
                                      ![Right(u)] = s.h.ptr[Right(t)]],
              index |-> s.h.index, size |-> s.h.size]
    IN  Sift(d, [h |-> g, p |-> s.p])

(* (The code leaves heap_index as it is; nothing reads it off the heap.)   *)
heap_delete(d, h, t) ==
    LET lastSlot == SlotAt(h, h.size)
        last == h.ptr[lastSlot]
        cut == [ptr |-> [h.ptr EXCEPT ![lastSlot] = None], index |-> h.index,
                size |-> h.size - 1]
        rest == IF last = t THEN cut ELSE Replace(d, cut, t, last)
    IN  [ptr |-> [rest.ptr EXCEPT ![Left(t)] = None, ![Right(t)] = None],
         index |-> [rest.index EXCEPT ![t] = 0],
         size |-> rest.size]

-----------------------------------------------------------------------------
(* The operations of the scheduler on the heap.                            *)

add_sleep_q(t, timeout) ==
    /\ ~expiring
    /\ t \notin flagged
    /\ due' = [due EXCEPT ![t] = timeout]
    /\ flagged' = flagged \cup {t}
    /\ LET last == heap.size + 1
           h == [ptr |-> heap.ptr, index |-> [heap.index EXCEPT ![t] = last],
                 size |-> last]
       IN  heap' = heap_insert(due', h, t).h
    /\ UNCHANGED expiring

(* _st_del_sleep_q.                                                        *)
Unlinked(t) ==
    /\ heap' = heap_delete(due, heap, t)
    /\ flagged' = flagged \ {t}
    /\ due' = [due EXCEPT ![t] = 0]
    /\ UNCHANGED expiring

(* A sleeping thread is woken by something other than the clock.           *)
del_sleep_q(t) ==
    /\ ~expiring
    /\ t \in flagged
    /\ Unlinked(t)

read_clock(e) ==
    /\ ~expiring
    /\ expiring' = TRUE
    /\ due' = [t \in Threads |-> IF t \in flagged THEN due[t] - e ELSE 0]
    /\ UNCHANGED <<heap, flagged>>

check_clock_expire ==
    LET t == heap.ptr[SLEEPQ] IN
    /\ expiring
    /\ t # None
    /\ due[t] <= 0
    /\ Unlinked(t)

check_clock_end ==
    LET t == heap.ptr[SLEEPQ] IN
    /\ expiring
    /\ t # None => due[t] > 0
    /\ expiring' = FALSE
    /\ UNCHANGED <<heap, due, flagged>>

Next ==
    \/ \E t \in Threads : \/ \E d \in Timeouts : add_sleep_q(t, d)
                          \/ del_sleep_q(t)
    \/ \E e \in Elapsed : read_clock(e)
    \/ check_clock_expire
    \/ check_clock_end

Spec == Init /\ [][Next]_vars

-----------------------------------------------------------------------------
(* The thread at index n of the tree, found from the root through the      *)
(* pointers, if there is one.                                              *)
Node[n \in 1..(2 * heap.size + 1)] ==
    IF n = 1 THEN heap.ptr[SLEEPQ]
    ELSE LET parent == Node[n \div 2]
         IN  IF parent = None THEN None ELSE heap.ptr[Child(parent, n % 2)]

Nodes == {Node[n] : n \in 1..heap.size}

TypeOK ==
    /\ heap \in [ptr : [Slots -> Threads \cup {None}], index : [Threads -> Nat],
                 size : Nat]
    /\ due \in [Threads -> Int]
    /\ flagged \subseteq Threads
    /\ expiring \in BOOLEAN

(* "The tree is kept fully balanced and left-adjusted at all times": the   *)
(* indices 1 to size are the threads with _ST_FL_ON_SLEEPQ, each once, and *)
(* there is nothing below them.  A thread lost from the tree would never   *)
(* wake; deleting it would follow a NULL pointer.                          *)
CompleteTree ==
    /\ \A n \in 1..heap.size : Node[n] \in flagged
    /\ \A m, n \in 1..heap.size : Node[m] = Node[n] => m = n
    /\ \A t \in flagged : t \in Nodes
    /\ \A n \in (heap.size + 1)..(2 * heap.size + 1) : Node[n] = None

(* heap_index names the place of the thread in the tree; heap_delete walks *)
(* there by its bits.                                                      *)
IndexExact == \A n \in 1..heap.size : heap.index[Node[n]] = n

(* "Children always time out later than their parents."                    *)
HeapOrder == \A n \in 2..heap.size : due[Node[n \div 2]] <= due[Node[n]]

(* docs/timeout_heap.txt: what insertion and deletion keep.                *)
HeapCorrect == CompleteTree /\ IndexExact /\ HeapOrder

(* The heap implements the sleep queue the scheduler relies on: whatever   *)
(* was inserted and deleted, the clock wakes the threads that are due,     *)
(* earliest first, and stops only when none is left.                       *)
SQ == INSTANCE SleepQueue WITH sleepq <- Nodes
ImplementsSleepQueue == SQ!Spec

=============================================================================
