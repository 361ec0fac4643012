------------------------------ MODULE LRUCache ------------------------------
(***************************************************************************)
(* The cache of the extensions (lrucache.c): entries under their keys,     *)
(* counted while somebody uses them and kept in the order of their last    *)
(* use while nobody does.  No call gives up the processor, so each is a    *)
(* function from the cache to the cache.                                   *)
(*                                                                         *)
(* A hash chain is a set here: of the entries of one key at most one is    *)
(* not marked for deletion, so the order of a chain is never seen.         *)
(***************************************************************************)
EXTENDS Queues

CONSTANTS Entries, Keys, Weights, max_size, max_weight, NULL

VARIABLE cache  \* the cache of those who use it (CacheUsers, DNSCache)

ASSUME CacheAssumption ==
    /\ IsFiniteSet(Entries)
    /\ Weights \subseteq Nat /\ NULL \notin Entries \cup Keys
    /\ max_size \in Nat /\ max_weight \in Nat

(* The memory of entries (allocated, key, weight, ref_count and            *)
(* delete_pending of each) and what _stx_cache keeps.                      *)
Caches ==
    [allocated : SUBSET Entries, key : [Entries -> Keys \cup {NULL}],
     weight : [Entries -> Weights \cup {0}], ref_count : [Entries -> Nat],
     delete_pending : SUBSET Entries, table : SUBSET Entries,
     lru_list : Seq(Entries), cur_size : Int, cur_weight : Int]

(* stx_cache_create.                                                       *)
NewCache ==
    [allocated |-> {}, key |-> [e \in Entries |-> NULL], weight |-> [e \in Entries |-> 0],
     ref_count |-> [e \in Entries |-> 0], delete_pending |-> {}, table |-> {},
     lru_list |-> <<>>, cur_size |-> 0, cur_weight |-> 0]

Unreferenced(c, e) == c.ref_count[e] = 0

(* stx_cache_entry_create.                                                 *)
Created(c, e, k, w) ==
    [c EXCEPT !.allocated = @ \cup {e}, !.key[e] = k, !.weight[e] = w]

(* Nothing is left of entries that are freed.                              *)
Freed(c, S) ==
    [c EXCEPT !.allocated = @ \ S, !.delete_pending = @ \ S,
              !.key = [e \in Entries |-> IF e \in S THEN NULL ELSE @[e]],
              !.weight = [e \in Entries |-> IF e \in S THEN 0 ELSE @[e]],
              !.ref_count = [e \in Entries |-> IF e \in S THEN 0 ELSE @[e]]]

(* Fault: the entry is freed although somebody uses it.                    *)
Deleted_InUse(c, e) ==
    LET d == IF e \notin c.table THEN c
             ELSE [c EXCEPT !.table = @ \ {e}, !.cur_size = @ - 1,
                            !.cur_weight = @ - c.weight[e],
                            !.lru_list = IF Unreferenced(c, e) THEN Unlink(@, e) ELSE @]
    IN  Freed(d, {e})

(* stx_cache_entry_delete: put off while the entry is in use.              *)
Deleted(c, e) ==
    IF ~Unreferenced(c, e) THEN [c EXCEPT !.delete_pending = @ \cup {e}]
    ELSE LET d == IF e \notin c.table THEN c
                  ELSE [c EXCEPT !.table = @ \ {e}, !.lru_list = Unlink(@, e),
                                 !.cur_size = @ - 1, !.cur_weight = @ - c.weight[e]]
         IN  Freed(d, {e})

(* What a lookup may find.                                                 *)
Hits(c, k) == {e \in c.table \ c.delete_pending : c.key[e] = k}

(* Fault: the entry stays on the list of those nobody uses.                *)
Taken_Listed(c, e) == [c EXCEPT !.ref_count[e] = @ + 1]

(* stx_cache_entry_lookup that found e.                                    *)
Taken(c, e) ==
    [c EXCEPT !.ref_count[e] = @ + 1,
              !.lru_list = IF Unreferenced(c, e) THEN Unlink(@, e) ELSE @]

(* Fault: the entry comes to the wrong end of the list.                    *)
Released_Head(c, e) ==
    IF Unreferenced(c, e) THEN c
    ELSE LET d == [c EXCEPT !.ref_count[e] = @ - 1,
                            !.lru_list = IF c.ref_count[e] = 1 THEN <<e>> \o @ ELSE @]
         IN  IF Unreferenced(d, e) /\ e \in d.delete_pending THEN Deleted(d, e) ELSE d

(* Fault: the deletion that was put off is forgotten.                      *)
Released_KeepPending(c, e) ==
    IF Unreferenced(c, e) THEN c
    ELSE [c EXCEPT !.ref_count[e] = @ - 1,
                   !.lru_list = IF c.ref_count[e] = 1 THEN Append(@, e) ELSE @]

(* stx_cache_entry_release.                                                *)
Released(c, e) ==
    IF Unreferenced(c, e) THEN c
    ELSE LET d == [c EXCEPT !.ref_count[e] = @ - 1,
                            !.lru_list = IF c.ref_count[e] = 1 THEN Append(@, e) ELSE @]
         IN  IF Unreferenced(d, e) /\ e \in d.delete_pending THEN Deleted(d, e) ELSE d

-----------------------------------------------------------------------------
(* stx_cache_entry_insert.                                                 *)

TotalWeight(c, S) == MapThenSumSet(LAMBDA e : c.weight[e], S)

(* The n entries that nobody has used for longest are deleted.             *)
Evicted(c, n) ==
    LET gone == {c.lru_list[i] : i \in 1..n} IN
    Freed([c EXCEPT !.table = @ \ gone,
                    !.lru_list = SubSeq(@, n + 1, Len(@)),
                    !.cur_size = @ - n,
                    !.cur_weight = @ - TotalWeight(c, gone)], gone)

TooHeavy(c, w) == c.cur_weight + w > max_weight

(* How many have to go until there is room, or all.                        *)
Evictions(c, w) ==
    CHOOSE n \in 0..Len(c.lru_list) :
        /\ n = Len(c.lru_list) \/ ~TooHeavy(Evicted(c, n), w)
        /\ \A m \in 0..(n - 1) : TooHeavy(Evicted(c, m), w)

Full(c) == c.cur_size >= max_size

(* Fault: the entry of the same key stays.                                 *)
Linked_Twice(c, e) ==
    [c EXCEPT !.table = @ \cup {e}, !.ref_count[e] = @ + 1,
              !.cur_size = @ + 1, !.cur_weight = @ + c.weight[e]]

(* The entry replaces the one of the same key, and the caller uses it.     *)
Linked(c, e) ==
    LET old == Hits(c, c.key[e])
        d == IF old = {} THEN c ELSE Deleted(c, CHOOSE o \in old : TRUE)
    IN  [d EXCEPT !.table = @ \cup {e}, !.ref_count[e] = @ + 1,
                  !.cur_size = @ + 1, !.cur_weight = @ + c.weight[e]]

(* Room is made first, so an insertion that fails has emptied the list.    *)
Lightened(c, e) == Evicted(c, Evictions(c, c.weight[e]))

Fails(c, e) ==
    LET d == Lightened(c, e) IN
    TooHeavy(d, c.weight[e]) \/ (Full(d) /\ d.lru_list = <<>>)

(* Fault: an entry too many is let in.                                     *)
Inserted_NoSize(c, e) ==
    IF Fails(c, e) THEN Lightened(c, e) ELSE Linked(Lightened(c, e), e)

Inserted(c, e) ==
    LET d == Lightened(c, e) IN
    IF Fails(c, e) THEN d
    ELSE Linked(IF Full(d) THEN Evicted(d, 1) ELSE d, e)

(* stx_cache_empty.                                                        *)
Emptied(c) ==
    LET gone == {e \in c.table : Unreferenced(c, e)} IN
    Freed([c EXCEPT !.table = @ \ gone,
                    !.delete_pending = @ \cup c.table,
                    !.lru_list = Only(@, Entries \ gone),
                    !.cur_size = @ - Cardinality(gone),
                    !.cur_weight = @ - TotalWeight(c, gone)], gone)

-----------------------------------------------------------------------------
(* The list holds what is in the table and not in use, each once.          *)
LruExact(c) ==
    /\ IsInjective(c.lru_list)
    /\ \A e \in Entries :
          e \in ToSet(c.lru_list) <=> e \in c.table /\ Unreferenced(c, e)

(* What is marked for deletion is in use, or is not in the table.          *)
PendingInUse(c) == \A e \in c.table \cap c.delete_pending : ~Unreferenced(c, e)

OneLivePerKey(c) ==
    \A e, f \in c.table \ c.delete_pending : c.key[e] = c.key[f] => e = f

WithinLimits(c) ==
    /\ c.cur_size = Cardinality(c.table) /\ c.cur_size <= max_size
    /\ c.cur_weight = TotalWeight(c, c.table) /\ c.cur_weight <= max_weight

CacheConsistent(c) ==
    /\ c.table \subseteq c.allocated
    /\ LruExact(c) /\ PendingInUse(c) /\ OneLivePerKey(c)

=============================================================================
