----------------------------- MODULE CacheUsers -----------------------------
(***************************************************************************)
(* Threads that share a cache (lrucache.c) and hold its entries while they *)
(* do other things.  They keep to the interface: an entry is released once *)
(* for each time it was found or inserted and not used afterwards, and     *)
(* deleted only by who holds it, who made it, or as the one that nobody    *)
(* has used for longest.                                                   *)
(*                                                                         *)
(* Bounds: Entries, and one reference of each user to each entry.          *)
(***************************************************************************)
EXTENDS LRUCache

CONSTANT Users

ASSUME UsersAssumption == IsFiniteSet(Users)

VARIABLES
    made,   \* the entry a user created and did not insert yet
    held    \* the entries a user may use

vars == <<cache, made, held>>

TypeOK ==
    /\ cache \in Caches
    /\ made \in [Users -> Entries \cup {NULL}]
    /\ held \in [Users -> SUBSET Entries]

Init ==
    /\ cache = NewCache
    /\ made = [u \in Users |-> NULL]
    /\ held = [u \in Users |-> {}]

CreateEntry(u) ==
    \E e \in Entries \ cache.allocated, k \in Keys, w \in Weights :
        /\ made[u] = NULL
        /\ cache' = Created(cache, e, k, w)
        /\ made' = [made EXCEPT ![u] = e]
        /\ UNCHANGED held

(* If it fails the entry is still the user's, who may try again.           *)
InsertEntry(u) ==
    /\ made[u] # NULL
    /\ cache' = Inserted(cache, made[u])
    /\ IF Fails(cache, made[u]) THEN UNCHANGED <<made, held>>
       ELSE /\ held' = [held EXCEPT ![u] = @ \cup {made[u]}]
            /\ made' = [made EXCEPT ![u] = NULL]

DiscardEntry(u) ==
    /\ made[u] # NULL
    /\ cache' = Deleted(cache, made[u])
    /\ made' = [made EXCEPT ![u] = NULL]
    /\ UNCHANGED held

LookupEntry(u, k) ==
    \E e \in Hits(cache, k) \ held[u] :
        /\ cache' = Taken(cache, e)
        /\ held' = [held EXCEPT ![u] = @ \cup {e}]
        /\ UNCHANGED made

ReleaseEntry(u) ==
    \E e \in held[u] :
        /\ cache' = Released(cache, e)
        /\ held' = [held EXCEPT ![u] = @ \ {e}]
        /\ UNCHANGED made

DeleteHeldEntry(u) ==
    \E e \in held[u] :
        /\ cache' = Deleted(cache, e)
        /\ UNCHANGED <<made, held>>

(* stx_cache_entry_getlru, and the entry is deleted.                       *)
DeleteLruEntry ==
    /\ cache.lru_list # <<>>
    /\ cache' = Deleted(cache, Head(cache.lru_list))
    /\ UNCHANGED <<made, held>>

EmptyCache ==
    /\ cache' = Emptied(cache)
    /\ UNCHANGED <<made, held>>

Next ==
    \/ \E u \in Users :
          \/ CreateEntry(u) \/ InsertEntry(u) \/ DiscardEntry(u)
          \/ \E k \in Keys : LookupEntry(u, k)
          \/ ReleaseEntry(u) \/ DeleteHeldEntry(u)
    \/ DeleteLruEntry \/ EmptyCache

Spec == Init /\ [][Next]_vars

-----------------------------------------------------------------------------
Holders(e) == {u \in Users : e \in held[u]}

(* The counts of references are those of the users, and what a user holds  *)
(* or made exists and is not somebody else's new entry.                    *)
HeldExists ==
    /\ \A e \in Entries :
          /\ cache.ref_count[e] = Cardinality(Holders(e))
          /\ Holders(e) # {} => e \in cache.table
    /\ \A u \in Users : made[u] # NULL =>
          /\ made[u] \in cache.allocated \ (cache.table \cup cache.delete_pending)
          /\ Holders(made[u]) = {}
          /\ \A v \in Users \ {u} : made[v] # made[u]

(* The cache agrees with its users after any sequence of calls: no entry   *)
(* is freed or evicted that somebody holds, none that is to be deleted     *)
(* stays behind when the last user is gone, the list of the least recently *)
(* used has all entries that could be evicted and no other, and a key      *)
(* finds one entry at most (lrucache.c:192-309).                           *)
CacheCorrect == CacheConsistent(cache) /\ HeldExists

(* Size and weight are what is in the table, and within their limits       *)
(* (lrucache.c:266-285): they count entries that are marked for deletion.  *)
CacheWithinLimits == WithinLimits(cache)

(* Entries are evicted in the order of their last use: whatever step, what *)
(* stays on the list keeps its order, what comes is put at its end, and an *)
(* insertion that evicts an entry has evicted all that were used before it *)
(* (lrucache.c:249-250, 266-285).                                          *)
EvictionInOrder ==
    [][LET old == cache.lru_list
           new == cache'.lru_list
           Evicting == \E u \in Users : made[u] # NULL /\ InsertEntry(u)
           Replaced(f) == \E u \in Users : made[u] # NULL /\ cache.key[made[u]] = cache.key[f]
       IN  /\ \A e, f \in ToSet(old) : Before(old, e, f) =>
                /\ {e, f} \subseteq ToSet(new) => Before(new, e, f)
                /\ Evicting /\ f \notin ToSet(new) /\ ~Replaced(f) => e \notin ToSet(new)
           /\ \A e \in ToSet(old), f \in ToSet(new) \ ToSet(old) :
                e \in ToSet(new) => Before(new, e, f)]_vars

(* The users see a cache that destroys nothing in use.                     *)
Stands(k) == IF Hits(cache, k) = {} THEN NULL ELSE CHOOSE e \in Hits(cache, k) : TRUE

SC == INSTANCE SharedCache WITH
        content <- [k \in Keys |-> Stands(k)], key <- cache.key, fresh <- made,
        alive <- cache.allocated
ImplementsSharedCache == SC!Spec

=============================================================================
