---------------------------- MODULE CacheProofs ----------------------------
(***************************************************************************)
(* Theorems about CacheUsers and about DNSCache, which both use the        *)
(* functions of LRUCache.                                                  *)
(*                                                                         *)
(* CacheUsers: the cache and its users agree after any sequence of calls,  *)
(* for any entries, keys, weights, limits and users.                       *)
(*                                                                         *)
(* DNSCache: a lookup returns addresses of its host that are still good,   *)
(* and leaves the cache so that every entry can make room, for any         *)
(* threads, ports, ids, entries, limits and lifetimes.                     *)
(***************************************************************************)
EXTENDS CacheUsers, DNSCache, QueueProofs

(* A cache in order, but for entries X that nobody uses and that are       *)
(* marked for deletion although they are still in the table.               *)
PendingBut(c, X) ==
    \A e \in (c.table \cap c.delete_pending) \ X : ~Unreferenced(c, e)

SumsExact(c) ==
    /\ c.cur_size = Cardinality(c.table)
    /\ c.cur_weight = Total(c.weight, c.table)

Sound(c, X) ==
    /\ c \in Caches
    /\ c.table \subseteq c.allocated /\ c.delete_pending \subseteq c.allocated
    /\ LruExact(c) /\ PendingBut(c, X) /\ OneLivePerKey(c) /\ SumsExact(c)

(* Entries S leave the table, and list l is left, and they are freed.      *)
Removed(c, S, l) ==
    Freed([c EXCEPT !.table = @ \ S, !.lru_list = l,
                    !.cur_size = @ - Cardinality(S),
                    !.cur_weight = @ - Total(c.weight, S)], S)

LEMMA ConstantFacts ==
    /\ IsFiniteSet(Entries) /\ Weights \subseteq Nat
    /\ NULL \notin Entries /\ NULL \notin Keys
    /\ max_size \in Nat /\ max_weight \in Nat
    /\ \A S \in SUBSET Entries : IsFiniteSet(S) /\ Cardinality(S) \in Nat
    /\ IsFiniteSet(Users)
BY CacheAssumption, UsersAssumption, FS_Subset, FS_CardinalityType DEF CacheAssumption

LEMMA CacheType ==
    ASSUME NEW c \in Caches
    PROVE  /\ c.allocated \subseteq Entries /\ c.key \in [Entries -> Keys \cup {NULL}]
           /\ c.weight \in [Entries -> Weights \cup {0}]
           /\ c.ref_count \in [Entries -> Nat] /\ c.delete_pending \subseteq Entries
           /\ c.table \subseteq Entries /\ c.lru_list \in Seq(Entries)
           /\ c.cur_size \in Int /\ c.cur_weight \in Int
           /\ \A e \in Entries : c.weight[e] \in Nat
<1>1. /\ c.allocated \subseteq Entries /\ c.key \in [Entries -> Keys \cup {NULL}]
      /\ c.weight \in [Entries -> Weights \cup {0}]
      /\ c.ref_count \in [Entries -> Nat] /\ c.delete_pending \subseteq Entries
      /\ c.table \subseteq Entries /\ c.lru_list \in Seq(Entries)
      /\ c.cur_size \in Int /\ c.cur_weight \in Int
  BY DEF Caches
<1>2. Weights \cup {0} \subseteq Nat
  BY ConstantFacts
<1> QED BY <1>1, <1>2

(* Weights of entries add up to a natural number.                          *)
LEMMA WeightFacts ==
    ASSUME NEW c \in Caches, NEW S \in SUBSET Entries
    PROVE  /\ TotalWeight(c, S) = Total(c.weight, S) /\ Total(c.weight, S) \in Nat
           /\ \A T \in SUBSET S :
                Total(c.weight, S) = Total(c.weight, T) + Total(c.weight, S \ T)
<1>1. TotalWeight(c, S) = Total(c.weight, S)
  BY SumIsTotal DEF TotalWeight
<1>2. IsFiniteSet(S) /\ \A e \in S : c.weight[e] \in Nat
  BY ConstantFacts, CacheType
<1>3. Total(c.weight, S) \in Nat
  BY <1>2, TotalNat
<1>4. ASSUME NEW T \in SUBSET S
      PROVE  Total(c.weight, S) = Total(c.weight, T) + Total(c.weight, S \ T)
  BY <1>2, TotalSplit
<1> QED BY <1>1, <1>3, <1>4

LEMMA FreedFields ==
    ASSUME NEW c \in Caches, NEW S \in SUBSET Entries
    PROVE  LET d == Freed(c, S) IN
           /\ d \in Caches
           /\ d.allocated = c.allocated \ S /\ d.delete_pending = c.delete_pending \ S
           /\ d.table = c.table /\ d.lru_list = c.lru_list
           /\ d.cur_size = c.cur_size /\ d.cur_weight = c.cur_weight
           /\ \A e \in Entries :
                /\ d.key[e] = IF e \in S THEN NULL ELSE c.key[e]
                /\ d.weight[e] = IF e \in S THEN 0 ELSE c.weight[e]
                /\ d.ref_count[e] = IF e \in S THEN 0 ELSE c.ref_count[e]
<1> DEFINE d == Freed(c, S)
           k == [e \in Entries |-> IF e \in S THEN NULL ELSE c.key[e]]
           w == [e \in Entries |-> IF e \in S THEN 0 ELSE c.weight[e]]
           r == [e \in Entries |-> IF e \in S THEN 0 ELSE c.ref_count[e]]
<1>1. /\ k \in [Entries -> Keys \cup {NULL}] /\ w \in [Entries -> Weights \cup {0}]
      /\ r \in [Entries -> Nat]
  BY CacheType
<1>2. d = [c EXCEPT !.allocated = @ \ S, !.delete_pending = @ \ S,
                    !.key = k, !.weight = w, !.ref_count = r]
  BY DEF Freed
<1>3. /\ \A e \in Entries : k[e] = IF e \in S THEN NULL ELSE c.key[e]
      /\ \A e \in Entries : w[e] = IF e \in S THEN 0 ELSE c.weight[e]
      /\ \A e \in Entries : r[e] = IF e \in S THEN 0 ELSE c.ref_count[e]
  OBVIOUS
<1> HIDE DEF k, w, r, d
<1>4. /\ d \in Caches
      /\ d.allocated = c.allocated \ S /\ d.delete_pending = c.delete_pending \ S
      /\ d.table = c.table /\ d.lru_list = c.lru_list
      /\ d.cur_size = c.cur_size /\ d.cur_weight = c.cur_weight
      /\ d.key = k /\ d.weight = w /\ d.ref_count = r
  BY <1>1, <1>2 DEF Caches
<1> QED BY <1>3, <1>4 DEF d

(* Field by field.                                                         *)
RemovedIs(c, S, l, d) ==
    /\ d \in Caches
    /\ d.allocated = c.allocated \ S /\ d.table = c.table \ S
    /\ d.delete_pending = c.delete_pending \ S /\ d.lru_list = l
    /\ d.cur_size = c.cur_size - Cardinality(S)
    /\ d.cur_weight = c.cur_weight - Total(c.weight, S)
    /\ \A e \in Entries :
         /\ d.key[e] = IF e \in S THEN NULL ELSE c.key[e]
         /\ d.weight[e] = IF e \in S THEN 0 ELSE c.weight[e]
         /\ d.ref_count[e] = IF e \in S THEN 0 ELSE c.ref_count[e]

LEMMA RemovedFields ==
    ASSUME NEW c \in Caches, NEW S \in SUBSET Entries, NEW l \in Seq(Entries)
    PROVE  RemovedIs(c, S, l, Removed(c, S, l))
<1>1. Cardinality(S) \in Int /\ Total(c.weight, S) \in Int
  BY ConstantFacts, WeightFacts
<1> DEFINE b == [c EXCEPT !.table = @ \ S, !.lru_list = l,
                          !.cur_size = @ - Cardinality(S),
                          !.cur_weight = @ - Total(c.weight, S)]
<1> DEFINE m == c.cur_size - Cardinality(S)
           v == c.cur_weight - Total(c.weight, S)
<1>20. m \in Int /\ v \in Int
  BY <1>1, CacheType
<1>21. b = [c EXCEPT !.table = @ \ S, !.lru_list = l, !.cur_size = m, !.cur_weight = v]
  OBVIOUS
<1> HIDE DEF b, m, v
<1>2. /\ b \in Caches /\ b.table = c.table \ S /\ b.lru_list = l
      /\ b.cur_size = c.cur_size - Cardinality(S)
      /\ b.cur_weight = c.cur_weight - Total(c.weight, S)
      /\ b.allocated = c.allocated /\ b.delete_pending = c.delete_pending
      /\ b.key = c.key /\ b.weight = c.weight /\ b.ref_count = c.ref_count
  <2>1. /\ b \in Caches /\ b.table = c.table \ S /\ b.lru_list = l
        /\ b.cur_size = m /\ b.cur_weight = v
        /\ b.allocated = c.allocated /\ b.delete_pending = c.delete_pending
        /\ b.key = c.key /\ b.weight = c.weight /\ b.ref_count = c.ref_count
    BY <1>20, <1>21 DEF Caches
  <2> QED BY <2>1 DEF m, v
<1>3. Removed(c, S, l) = Freed(b, S)
  BY DEF Removed, b
<1> DEFINE d == Freed(b, S)
<1>4. /\ d \in Caches
      /\ d.allocated = b.allocated \ S /\ d.delete_pending = b.delete_pending \ S
      /\ d.table = b.table /\ d.lru_list = b.lru_list
      /\ d.cur_size = b.cur_size /\ d.cur_weight = b.cur_weight
      /\ \A e \in Entries :
           /\ d.key[e] = IF e \in S THEN NULL ELSE b.key[e]
           /\ d.weight[e] = IF e \in S THEN 0 ELSE b.weight[e]
           /\ d.ref_count[e] = IF e \in S THEN 0 ELSE b.ref_count[e]
  BY <1>2, FreedFields
<1> HIDE DEF d
<1>5. RemovedIs(c, S, l, d)
  BY <1>2, <1>4 DEF RemovedIs
<1> QED BY <1>3, <1>5 DEF d

(* What nobody uses may be removed.                                        *)
LEMMA RemovedSound ==
    ASSUME NEW c, NEW X, Sound(c, X), NEW S, S \subseteq c.table, X \subseteq S,
           \A e \in S : Unreferenced(c, e),
           NEW l \in Seq(Entries), IsInjective(l),
           \A e : e \in ToSet(l) <=> e \in ToSet(c.lru_list) /\ e \notin S
    PROVE  Sound(Removed(c, S, l), {})
<1> DEFINE d == Removed(c, S, l)
<1>0. c \in Caches /\ S \in SUBSET Entries
  BY CacheType DEF Sound
<1>10. RemovedIs(c, S, l, d)
  BY <1>0, RemovedFields
<1> HIDE DEF d
<1>1. /\ d \in Caches
      /\ d.allocated = c.allocated \ S /\ d.table = c.table \ S
      /\ d.delete_pending = c.delete_pending \ S /\ d.lru_list = l
      /\ d.cur_size = c.cur_size - Cardinality(S)
      /\ d.cur_weight = c.cur_weight - Total(c.weight, S)
      /\ \A e \in Entries :
           /\ d.key[e] = IF e \in S THEN NULL ELSE c.key[e]
           /\ d.weight[e] = IF e \in S THEN 0 ELSE c.weight[e]
           /\ d.ref_count[e] = IF e \in S THEN 0 ELSE c.ref_count[e]
  BY <1>10 DEF RemovedIs
<1>2. /\ c.table \subseteq Entries /\ c.lru_list \in Seq(Entries)
      /\ c.table \subseteq c.allocated /\ c.delete_pending \subseteq c.allocated
      /\ LruExact(c) /\ PendingBut(c, X) /\ OneLivePerKey(c) /\ SumsExact(c)
  BY <1>0, CacheType DEF Sound
<1>3. d.table \subseteq d.allocated /\ d.delete_pending \subseteq d.allocated
  BY <1>1, <1>2
<1>4. LruExact(d)
  BY <1>1, <1>2 DEF LruExact, Unreferenced
<1>5. PendingBut(d, {})
  BY <1>1, <1>2 DEF PendingBut, Unreferenced
<1>6. OneLivePerKey(d)
  BY <1>1, <1>2 DEF OneLivePerKey
<1>7. d.cur_size = Cardinality(d.table)
  <2>1. /\ IsFiniteSet(c.table) /\ c.table \cap S = S
        /\ Cardinality(c.table) \in Nat /\ Cardinality(S) \in Nat
    BY <1>0, <1>2, ConstantFacts
  <2>2. Cardinality(c.table \ S) = Cardinality(c.table) - Cardinality(c.table \cap S)
    BY <2>1, FS_Difference
  <2> QED BY <1>1, <1>2, <2>1, <2>2 DEF SumsExact
<1>8. d.cur_weight = Total(d.weight, d.table)
  <2> DEFINE R == c.table \ S
  <2>1. Total(c.weight, c.table) = Total(c.weight, S) + Total(c.weight, R)
    BY <1>0, <1>2, WeightFacts
  <2>2. IsFiniteSet(R) /\ \A e \in R : c.weight[e] = d.weight[e]
    BY <1>1, <1>2, ConstantFacts
  <2>3. Total(c.weight, S) \in Nat /\ Total(c.weight, R) \in Nat
    BY <1>0, <1>2, WeightFacts
  <2>4. d.table = R
    BY <1>1
  <2> HIDE DEF R
  <2>5. Total(c.weight, R) = Total(d.weight, R)
    BY <2>2, TotalSame
  <2>6. c.cur_weight = Total(c.weight, S) + Total(c.weight, R)
    BY <1>2, <2>1 DEF SumsExact
  <2>7. c.cur_weight - Total(c.weight, S) = Total(c.weight, R)
    BY <2>3, <2>6
  <2> QED BY <1>1, <2>4, <2>5, <2>7
<1>9. Sound(d, {})
  BY <1>1, <1>3, <1>4, <1>5, <1>6, <1>7, <1>8 DEF Sound, SumsExact
<1> QED BY <1>9 DEF d

-----------------------------------------------------------------------------
(* The entries of the list are different: n of them are n.                 *)
LEMMA PrefixCard ==
    ASSUME NEW l \in Seq(Entries), IsInjective(l), NEW n \in 0..Len(l)
    PROVE  Cardinality({l[i] : i \in 1..n}) = n
<1> DEFINE S == {l[i] : i \in 1..n}
           f == [i \in 1..n |-> l[i]]
<1>1. /\ \A i, j \in 1..Len(l) : l[i] = l[j] => i = j
      /\ n \in Nat /\ \A i \in 1..n : i \in 1..Len(l)
  BY SeqDomain
<1>2. f \in Bijection(1..n, S)
  <2>1. f \in [1..n -> S] /\ \A a, b \in 1..n : f[a] = f[b] => a = b
    BY <1>1
  <2>2. f \in Surjection(1..n, S)
    BY <2>1 DEF Surjection
  <2>3. DOMAIN f = 1..n
    OBVIOUS
  <2> HIDE DEF f, S
  <2>4. f \in Injection(1..n, S)
    BY <2>1, <2>3 DEF Injection, IsInjective
  <2> QED BY <2>2, <2>4 DEF Bijection
<1>3. IsFiniteSet(1..n) /\ Cardinality(1..n) = n
  <2>1. /\ IsFiniteSet(1..n)
        /\ Cardinality(1..n) = IF 1 > n THEN 0 ELSE n - 1 + 1
    BY <1>1, FS_Interval
  <2> QED BY <1>1, <2>1
<1> HIDE DEF f, S
<1>4. Cardinality(S) = Cardinality(1..n)
  BY <1>2, <1>3, FS_Bijection DEF ExistsBijection
<1> QED BY <1>3, <1>4 DEF S

(* What is left of a list behind its first n entries.                      *)
LEMMA RestLemma ==
    ASSUME NEW S, NEW l \in Seq(S), IsInjective(l), NEW n \in 0..Len(l)
    PROVE  LET r == SubSeq(l, n + 1, Len(l)) IN
           /\ r \in Seq(S) /\ IsInjective(r) /\ Len(r) = Len(l) - n
           /\ \A e : e \in ToSet(r) <=> e \in ToSet(l) /\ e \notin {l[i] : i \in 1..n}
           /\ \A e, f : Before(l, e, f) /\ e \in ToSet(r) => f \in ToSet(r)
           /\ \A e, f : Before(r, e, f) <=>
                          Before(l, e, f) /\ e \in ToSet(r) /\ f \in ToSet(r)
<1> DEFINE r == SubSeq(l, n + 1, Len(l))
<1>1. /\ r \in Seq(S) /\ Len(r) = Len(l) - n
      /\ \A i \in 1..Len(r) : r[i] = l[n + i]
      /\ n \in Nat /\ Len(l) \in Nat /\ Len(r) \in Nat
  OBVIOUS
<1> HIDE DEF r
<1>2. /\ \A x : x \in ToSet(l) <=> \E i \in 1..Len(l) : l[i] = x
      /\ \A i, j \in 1..Len(l) : l[i] = l[j] => i = j
  BY SeqDomain
<1>3. /\ \A x : x \in ToSet(r) <=> \E i \in 1..Len(r) : r[i] = x
      /\ IsInjective(r) <=> \A i, j \in 1..Len(r) : r[i] = r[j] => i = j
  BY <1>1, SeqDomain
<1>4. \A i : i \in (n + 1)..Len(l) => i - n \in 1..Len(r) /\ r[i - n] = l[i]
  BY <1>1
<1>5. \A x : x \in ToSet(r) <=> \E i \in (n + 1)..Len(l) : l[i] = x
  <2>1. ASSUME NEW i \in 1..Len(r) PROVE n + i \in (n + 1)..Len(l) /\ r[i] = l[n + i]
    BY <1>1
  <2>2. ASSUME NEW i \in (n + 1)..Len(l) PROVE i - n \in 1..Len(r) /\ r[i - n] = l[i]
    BY <1>4
  <2>3. ASSUME NEW x, x \in ToSet(r) PROVE \E i \in (n + 1)..Len(l) : l[i] = x
    BY <1>3, <2>1, <2>3
  <2>4. ASSUME NEW x, NEW i \in (n + 1)..Len(l), l[i] = x PROVE x \in ToSet(r)
    BY <1>3, <2>2, <2>4
  <2> QED BY <2>3, <2>4
<1>6. IsInjective(r)
  <2>1. ASSUME NEW i \in 1..Len(r), NEW j \in 1..Len(r), r[i] = r[j] PROVE i = j
    <3>1. n + i \in 1..Len(l) /\ n + j \in 1..Len(l) /\ l[n + i] = l[n + j]
      BY <1>1, <2>1
    <3>2. n + i = n + j
      BY <1>2, <3>1
    <3> QED BY <1>1, <3>2
  <2> QED BY <1>3, <2>1
<1>7. \A e : e \in ToSet(r) <=> e \in ToSet(l) /\ e \notin {l[i] : i \in 1..n}
  <2>1. ASSUME NEW e, e \in ToSet(r)
        PROVE  e \in ToSet(l) /\ e \notin {l[i] : i \in 1..n}
    BY <1>1, <1>2, <1>5, <2>1
  <2>2. ASSUME NEW e, e \in ToSet(l), e \notin {l[i] : i \in 1..n}
        PROVE  e \in ToSet(r)
    <3>1. PICK i \in 1..Len(l) : l[i] = e
      BY <1>2, <2>2
    <3>2. i \in (n + 1)..Len(l)
      BY <1>1, <2>2, <3>1
    <3> QED BY <1>5, <3>1, <3>2
  <2> QED BY <2>1, <2>2
<1>8. ASSUME NEW e, NEW f, Before(l, e, f), e \in ToSet(r)
      PROVE  f \in ToSet(r) /\ Before(r, e, f)
  <2>1. PICK i, j \in 1..Len(l) : i < j /\ l[i] = e /\ l[j] = f
    BY <1>8, BeforeDef
  <2>2. i \in (n + 1)..Len(l)
    BY <1>1, <1>2, <1>5, <1>8, <2>1
  <2>3. j \in (n + 1)..Len(l)
    BY <1>1, <2>1, <2>2
  <2>4. /\ i - n \in 1..Len(r) /\ j - n \in 1..Len(r) /\ i - n < j - n
        /\ r[i - n] = e /\ r[j - n] = f
    BY <1>1, <1>4, <2>1, <2>2, <2>3
  <2>5. f \in ToSet(r)
    BY <1>3, <2>4
  <2> QED BY <1>1, <2>4, <2>5, BeforeDef
<1>9. ASSUME NEW e, NEW f, Before(r, e, f)
      PROVE  Before(l, e, f) /\ e \in ToSet(r) /\ f \in ToSet(r)
  <2>1. PICK i, j \in 1..Len(r) : i < j /\ r[i] = e /\ r[j] = f
    BY <1>1, <1>9, BeforeDef
  <2>2. /\ n + i \in 1..Len(l) /\ n + j \in 1..Len(l) /\ n + i < n + j
        /\ l[n + i] = e /\ l[n + j] = f
    BY <1>1, <2>1
  <2>3. Before(l, e, f)
    BY <2>2, BeforeDef
  <2> QED BY <1>3, <2>1, <2>3
<1> QED BY <1>1, <1>6, <1>7, <1>8, <1>9 DEF r

-----------------------------------------------------------------------------
(* Cache d is c without entries S, which nobody used.                      *)
Without(c, d, S) ==
    /\ S \subseteq Entries /\ \A e \in S : Unreferenced(c, e)
    /\ d.allocated = c.allocated \ S /\ d.table = c.table \ S
    /\ d.delete_pending = c.delete_pending \ S
    /\ \A e \in Entries \ S : d.key[e] = c.key[e] /\ d.weight[e] = c.weight[e]
    /\ \A e \in Entries : d.ref_count[e] = c.ref_count[e]
    /\ \A e \in S : d.key[e] = NULL
    /\ d.cur_size <= c.cur_size /\ d.cur_weight <= c.cur_weight

(* List m has some of the elements of l, in the same order.                *)
Thinned(l, m) ==
    /\ \A e : e \in ToSet(m) => e \in ToSet(l)
    /\ \A e, f : Before(m, e, f) <=>
                    Before(l, e, f) /\ e \in ToSet(m) /\ f \in ToSet(m)

(* And if it has an element, then also those that come after it.           *)
Ending(l, m) ==
    /\ Thinned(l, m)
    /\ \A e, f : Before(l, e, f) /\ e \in ToSet(m) => f \in ToSet(m)

LEMMA EndingTwice ==
    ASSUME NEW l, NEW m, NEW n, Ending(l, m), Ending(m, n)
    PROVE  Ending(l, n)
BY DEF Ending, Thinned

LEMMA RemovedWithout ==
    ASSUME NEW c \in Caches, NEW S, S \subseteq c.table,
           \A e \in S : Unreferenced(c, e), NEW l \in Seq(Entries)
    PROVE  /\ Without(c, Removed(c, S, l), S) /\ Removed(c, S, l).lru_list = l
           /\ Removed(c, S, l).cur_size = c.cur_size - Cardinality(S)
<1> DEFINE d == Removed(c, S, l)
<1>1. c \in Caches /\ S \in SUBSET Entries /\ l \in Seq(Entries)
  BY CacheType
<1>20. RemovedIs(c, S, l, d)
  BY <1>1, RemovedFields
<1> HIDE DEF d
<1>2. /\ d \in Caches
      /\ d.allocated = c.allocated \ S /\ d.table = c.table \ S
      /\ d.delete_pending = c.delete_pending \ S /\ d.lru_list = l
      /\ d.cur_size = c.cur_size - Cardinality(S)
      /\ d.cur_weight = c.cur_weight - Total(c.weight, S)
      /\ \A e \in Entries :
           /\ d.key[e] = IF e \in S THEN NULL ELSE c.key[e]
           /\ d.weight[e] = IF e \in S THEN 0 ELSE c.weight[e]
           /\ d.ref_count[e] = IF e \in S THEN 0 ELSE c.ref_count[e]
  BY <1>20 DEF RemovedIs
<1>3. d.cur_size <= c.cur_size /\ d.cur_weight <= c.cur_weight
  <2>1. /\ Total(c.weight, S) \in Nat /\ Cardinality(S) \in Nat
        /\ c.cur_weight \in Int /\ c.cur_size \in Int
    BY <1>1, WeightFacts, CacheType, ConstantFacts
  <2> QED BY <1>2, <2>1
<1>4. Without(c, d, S)
  BY <1>1, <1>2, <1>3 DEF Without, Unreferenced
<1> QED BY <1>2, <1>4 DEF d

LEMMA EvictedSound ==
    ASSUME NEW c, Sound(c, {}), NEW n \in 0..Len(c.lru_list)
    PROVE  /\ Sound(Evicted(c, n), {}) /\ Ending(c.lru_list, Evicted(c, n).lru_list)
           /\ {c.lru_list[i] : i \in 1..n} \subseteq c.table
           /\ Without(c, Evicted(c, n), {c.lru_list[i] : i \in 1..n})
           /\ Evicted(c, n).cur_size = c.cur_size - n
           /\ Len(Evicted(c, n).lru_list) = Len(c.lru_list) - n
<1> DEFINE S == {c.lru_list[i] : i \in 1..n}
           l == c.lru_list
           r == SubSeq(l, n + 1, Len(l))
           d == Removed(c, S, r)
<1>1. /\ c \in Caches /\ l \in Seq(Entries) /\ IsInjective(l) /\ c.table \subseteq Entries
      /\ \A e \in Entries : e \in ToSet(l) <=> e \in c.table /\ Unreferenced(c, e)
  BY CacheType DEF Sound, LruExact
<1>2. /\ r \in Seq(Entries) /\ IsInjective(r) /\ Len(r) = Len(l) - n
      /\ \A e : e \in ToSet(r) <=> e \in ToSet(l) /\ e \notin S
      /\ Ending(l, r)
  BY <1>1, RestLemma DEF Ending, Thinned
<1>3. Cardinality(S) = n
  BY <1>1, PrefixCard
<1>4. S \subseteq c.table /\ \A e \in S : Unreferenced(c, e)
  <2>1. \A i \in 1..n : l[i] \in Entries /\ l[i] \in ToSet(l)
    BY <1>1, SeqDomain
  <2> QED BY <1>1, <2>1
<1>5. Evicted(c, n) = d
  <2>1. TotalWeight(c, S) = Total(c.weight, S)
    BY <1>1, <1>4, WeightFacts
  <2> QED BY <1>3, <2>1 DEF Evicted, Removed
<1> HIDE DEF S, r
<1>6. Sound(d, {})
  BY <1>1, <1>2, <1>4, RemovedSound
<1>7. Without(c, d, S) /\ d.lru_list = r /\ d.cur_size = c.cur_size - Cardinality(S)
  BY <1>1, <1>2, <1>4, RemovedWithout
<1> QED BY <1>2, <1>3, <1>4, <1>5, <1>6, <1>7 DEF S

-----------------------------------------------------------------------------
(* Marked for deletion, or gone.                                           *)
LEMMA DeletedInUse ==
    ASSUME NEW c, NEW e, Sound(c, {e}), e \in c.allocated, ~Unreferenced(c, e)
    PROVE  Sound([c EXCEPT !.delete_pending = @ \cup {e}], {})
<1> DEFINE d == [c EXCEPT !.delete_pending = @ \cup {e}]
<1>1. c \in Caches /\ c.allocated \subseteq Entries
  BY CacheType DEF Sound
<1>2. /\ d \in Caches /\ d.delete_pending = c.delete_pending \cup {e}
      /\ d.allocated = c.allocated /\ d.key = c.key /\ d.weight = c.weight
      /\ d.ref_count = c.ref_count /\ d.table = c.table /\ d.lru_list = c.lru_list
      /\ d.cur_size = c.cur_size /\ d.cur_weight = c.cur_weight
  BY <1>1 DEF Caches
<1> HIDE DEF d
<1>3. d.table \subseteq d.allocated /\ d.delete_pending \subseteq d.allocated
  BY <1>2 DEF Sound
<1>4. LruExact(d)
  BY <1>2 DEF Sound, LruExact, Unreferenced
<1>5. PendingBut(d, {})
  BY <1>2 DEF Sound, PendingBut, Unreferenced
<1>6. OneLivePerKey(d) /\ SumsExact(d)
  BY <1>2 DEF Sound, OneLivePerKey, SumsExact
<1>7. Sound(d, {})
  BY <1>2, <1>3, <1>4, <1>5, <1>6 DEF Sound
<1> QED BY <1>7 DEF d

LEMMA FreedSound ==
    ASSUME NEW c, Sound(c, {}), NEW e \in Entries, e \notin c.table, Unreferenced(c, e)
    PROVE  /\ Sound(Freed(c, {e}), {}) /\ Without(c, Freed(c, {e}), {e})
           /\ Freed(c, {e}).lru_list = c.lru_list
<1> DEFINE d == Freed(c, {e})
<1>1. c \in Caches /\ {e} \in SUBSET Entries
  BY DEF Sound
<1>2. /\ d \in Caches
      /\ d.allocated = c.allocated \ {e} /\ d.delete_pending = c.delete_pending \ {e}
      /\ d.table = c.table /\ d.lru_list = c.lru_list
      /\ d.cur_size = c.cur_size /\ d.cur_weight = c.cur_weight
      /\ \A f \in Entries :
           /\ d.key[f] = IF f \in {e} THEN NULL ELSE c.key[f]
           /\ d.weight[f] = IF f \in {e} THEN 0 ELSE c.weight[f]
           /\ d.ref_count[f] = IF f \in {e} THEN 0 ELSE c.ref_count[f]
  BY <1>1, FreedFields
<1> HIDE DEF d
<1>3. /\ c.table \subseteq Entries /\ c.table \subseteq c.allocated
      /\ c.delete_pending \subseteq c.allocated /\ c.cur_size \in Int /\ c.cur_weight \in Int
      /\ LruExact(c) /\ PendingBut(c, {}) /\ OneLivePerKey(c) /\ SumsExact(c)
  BY <1>1, CacheType DEF Sound
<1>4. d.table \subseteq d.allocated /\ d.delete_pending \subseteq d.allocated
  BY <1>2, <1>3
<1>5. LruExact(d)
  BY <1>2, <1>3 DEF LruExact, Unreferenced
<1>6. PendingBut(d, {}) /\ OneLivePerKey(d)
  BY <1>2, <1>3 DEF PendingBut, OneLivePerKey, Unreferenced
<1>7. SumsExact(d)
  <2>1. IsFiniteSet(c.table) /\ \A f \in c.table : c.weight[f] = d.weight[f]
    BY <1>2, <1>3, ConstantFacts
  <2>2. Total(c.weight, c.table) = Total(d.weight, c.table)
    BY <2>1, TotalSame
  <2> QED BY <1>2, <1>3, <2>2 DEF SumsExact
<1>8. Sound(d, {})
  BY <1>2, <1>4, <1>5, <1>6, <1>7 DEF Sound
<1>9. Without(c, d, {e})
  BY <1>2, <1>3 DEF Without, Unreferenced
<1> QED BY <1>2, <1>8, <1>9 DEF d

LEMMA DeletedSound ==
    ASSUME NEW c, NEW e, Sound(c, {e}), e \in c.allocated
    PROVE  /\ Sound(Deleted(c, e), {})
           /\ Unreferenced(c, e) => Without(c, Deleted(c, e), {e})
           /\ Thinned(c.lru_list, Deleted(c, e).lru_list)
           /\ \A f : f \in ToSet(Deleted(c, e).lru_list) <=>
                       f \in ToSet(c.lru_list) /\ f # e
<1>1. /\ c \in Caches /\ e \in Entries /\ c.lru_list \in Seq(Entries)
      /\ c.table \subseteq Entries /\ IsInjective(c.lru_list)
      /\ e \in ToSet(c.lru_list) <=> e \in c.table /\ Unreferenced(c, e)
  BY CacheType DEF Sound, LruExact
<1> DEFINE l == c.lru_list
<1>2. CASE ~Unreferenced(c, e)
  <2> DEFINE d == [c EXCEPT !.delete_pending = @ \cup {e}]
  <2>1. Deleted(c, e) = d
    BY <1>2 DEF Deleted
  <2>2. Sound(d, {})
    BY <1>2, DeletedInUse
  <2>3. d.lru_list = l
    BY <1>1 DEF Caches
  <2>4. \A x, y : Before(l, x, y) => x \in ToSet(l) /\ y \in ToSet(l)
    BY <1>1, BeforeIn
  <2> HIDE DEF d
  <2> QED BY <1>1, <1>2, <2>1, <2>2, <2>3, <2>4 DEF Thinned
<1>3. CASE Unreferenced(c, e) /\ e \in c.table
  <2> DEFINE u == Unlink(l, e)
             d == Removed(c, {e}, u)
  <2>1. /\ u \in Seq(Entries) /\ IsInjective(u)
        /\ \A x : x \in ToSet(u) <=> x \in ToSet(l) /\ x # e
        /\ \A x, y : Before(u, x, y) <=> Before(l, x, y) /\ x # e /\ y # e
    BY <1>1, <1>3, UnlinkLemma, UnlinkOrder
  <2>2. Cardinality({e}) = 1 /\ IsFiniteSet({e})
    BY FS_Singleton
  <2>3. Total(c.weight, {e}) = c.weight[e]
    <3>1. \A x \in {e} : c.weight[x] \in Nat
      BY <1>1, CacheType
    <3>2. Total(c.weight, {e}) = c.weight[e] + Total(c.weight, {e} \ {e})
      BY <2>2, <3>1, TotalRemove
    <3>3. IsFiniteSet({}) /\ {e} \ {e} = {}
      BY FS_EmptySet
    <3>4. Total(c.weight, {}) = 0
      BY <3>3, TotalDef
    <3> QED BY <3>1, <3>2, <3>3, <3>4
  <2>4. Deleted(c, e) = d
    <3> DEFINE b == [c EXCEPT !.table = @ \ {e}, !.lru_list = u,
                              !.cur_size = @ - 1, !.cur_weight = @ - c.weight[e]]
    <3>1. Deleted(c, e) = Freed(b, {e})
      BY <1>3 DEF Deleted
    <3>2. b = [c EXCEPT !.table = @ \ {e}, !.lru_list = u,
                        !.cur_size = @ - Cardinality({e}),
                        !.cur_weight = @ - Total(c.weight, {e})]
      BY <2>2, <2>3
    <3> HIDE DEF b, u
    <3> QED BY <3>1, <3>2 DEF Removed
  <2> HIDE DEF u
  <2>5. /\ {e} \subseteq c.table /\ \A f \in {e} : Unreferenced(c, f)
        /\ \A x : x \in ToSet(u) <=> x \in ToSet(l) /\ x \notin {e}
    BY <1>3, <2>1
  <2>6. Sound(d, {})
    BY <2>1, <2>5, RemovedSound
  <2>7. Without(c, d, {e}) /\ d.lru_list = u
    BY <1>1, <2>1, <2>5, RemovedWithout
  <2>8. Thinned(l, u)
    <3>1. \A x, y : Before(l, x, y) => x \in ToSet(l) /\ y \in ToSet(l)
      BY <1>1, BeforeIn
    <3> QED BY <2>1, <3>1 DEF Thinned
  <2> QED BY <2>1, <2>4, <2>6, <2>7, <2>8
<1>4. CASE Unreferenced(c, e) /\ e \notin c.table
  <2>1. Deleted(c, e) = Freed(c, {e})
    BY <1>4 DEF Deleted
  <2>2. Sound(c, {})
    BY <1>4 DEF Sound, PendingBut
  <2>3. /\ Sound(Freed(c, {e}), {}) /\ Without(c, Freed(c, {e}), {e})
        /\ Freed(c, {e}).lru_list = l
    BY <1>1, <1>4, <2>2, FreedSound
  <2>4. \A x, y : Before(l, x, y) => x \in ToSet(l) /\ y \in ToSet(l)
    BY <1>1, BeforeIn
  <2> QED BY <1>1, <1>4, <2>1, <2>3, <2>4 DEF Thinned
<1> QED BY <1>2, <1>3, <1>4

-----------------------------------------------------------------------------
(* What stays keeps its order, and what is new comes last.                 *)
Ordered(l, m) ==
    /\ \A e, f : Before(l, e, f) /\ e \in ToSet(m) /\ f \in ToSet(m) => Before(m, e, f)
    /\ \A e, f : e \in ToSet(l) /\ e \in ToSet(m) /\ f \in ToSet(m) /\ f \notin ToSet(l)
                   => Before(m, e, f)

LEMMA OrderedFacts ==
    ASSUME NEW l, NEW m
    PROVE  /\ Thinned(l, m) => Ordered(l, m)
           /\ \A n : Ordered(l, m) /\ Thinned(m, n) => Ordered(l, n)
BY DEF Ordered, Thinned

LEMMA CreatedSound ==
    ASSUME NEW c, Sound(c, {}), NEW e \in Entries \ c.allocated, NEW k \in Keys,
           NEW w \in Weights
    PROVE  LET d == Created(c, e, k, w) IN
           /\ Sound(d, {}) /\ d.allocated = c.allocated \cup {e}
           /\ d.table = c.table /\ d.delete_pending = c.delete_pending
           /\ d.ref_count = c.ref_count /\ d.lru_list = c.lru_list
           /\ d.cur_size = c.cur_size /\ d.cur_weight = c.cur_weight
           /\ d.key = [c.key EXCEPT ![e] = k]
<1> DEFINE d == Created(c, e, k, w)
           key == [c.key EXCEPT ![e] = k]
           weight == [c.weight EXCEPT ![e] = w]
<1>1. /\ c \in Caches /\ c.table \subseteq Entries
      /\ c.key \in [Entries -> Keys \cup {NULL}]
      /\ c.weight \in [Entries -> Weights \cup {0}]
  BY CacheType DEF Sound
<1>2. /\ key \in [Entries -> Keys \cup {NULL}] /\ weight \in [Entries -> Weights \cup {0}]
      /\ \A f \in Entries \ {e} : key[f] = c.key[f] /\ weight[f] = c.weight[f]
  BY <1>1
<1>3. d = [c EXCEPT !.allocated = @ \cup {e}, !.key = key, !.weight = weight]
  BY DEF Created
<1> HIDE DEF d, key, weight
<1>4. /\ d \in Caches
      /\ d.allocated = c.allocated \cup {e} /\ d.key = key /\ d.weight = weight
      /\ d.table = c.table /\ d.delete_pending = c.delete_pending
      /\ d.ref_count = c.ref_count /\ d.lru_list = c.lru_list
      /\ d.cur_size = c.cur_size /\ d.cur_weight = c.cur_weight
  BY <1>1, <1>2, <1>3 DEF Caches
<1>5. e \notin c.table /\ e \notin c.delete_pending
  BY DEF Sound
<1>6. SumsExact(d)
  <2>1. IsFiniteSet(c.table) /\ \A f \in c.table : c.weight[f] = d.weight[f]
    BY <1>1, <1>2, <1>4, <1>5, ConstantFacts
  <2>2. Total(c.weight, c.table) = Total(d.weight, c.table)
    BY <2>1, TotalSame
  <2> QED BY <1>4, <2>2 DEF SumsExact, Sound
<1>7. OneLivePerKey(d)
  BY <1>1, <1>2, <1>4, <1>5 DEF OneLivePerKey, Sound
<1>8. LruExact(d) /\ PendingBut(d, {})
  BY <1>4 DEF Sound, LruExact, PendingBut, Unreferenced
<1>9. d.table \subseteq d.allocated /\ d.delete_pending \subseteq d.allocated
  BY <1>4 DEF Sound
<1>10. Sound(d, {})
  BY <1>4, <1>6, <1>7, <1>8, <1>9 DEF Sound
<1> QED BY <1>4, <1>10 DEF d, key

LEMMA TakenSound ==
    ASSUME NEW c, Sound(c, {}), NEW e, e \in c.table, e \notin c.delete_pending
    PROVE  LET d == Taken(c, e) IN
           /\ Sound(d, {}) /\ d.allocated = c.allocated
           /\ d.table = c.table /\ d.delete_pending = c.delete_pending
           /\ d.ref_count = [c.ref_count EXCEPT ![e] = @ + 1]
           /\ d.cur_size = c.cur_size /\ d.cur_weight = c.cur_weight
           /\ d.key = c.key /\ Thinned(c.lru_list, d.lru_list)
<1> DEFINE d == Taken(c, e)
           l == c.lru_list
           r == [c.ref_count EXCEPT ![e] = @ + 1]
           u == IF Unreferenced(c, e) THEN Unlink(l, e) ELSE l
<1>1. /\ c \in Caches /\ c.table \subseteq Entries /\ l \in Seq(Entries)
      /\ c.ref_count \in [Entries -> Nat] /\ IsInjective(l) /\ e \in Entries
      /\ \A f \in Entries : f \in ToSet(l) <=> f \in c.table /\ Unreferenced(c, f)
  BY CacheType DEF Sound, LruExact
<1>2. /\ r \in [Entries -> Nat] /\ r[e] # 0
      /\ \A f \in Entries \ {e} : r[f] = c.ref_count[f]
  BY <1>1
<1>3. /\ u \in Seq(Entries) /\ IsInjective(u) /\ Thinned(l, u)
      /\ \A f : f \in ToSet(u) <=> f \in ToSet(l) /\ f # e
  <2>1. \A x, y : Before(l, x, y) => x \in ToSet(l) /\ y \in ToSet(l)
    BY <1>1, BeforeIn
  <2>2. CASE Unreferenced(c, e)
    <3>1. e \in ToSet(l)
      BY <1>1, <2>2
    <3>2. /\ Unlink(l, e) \in Seq(Entries) /\ IsInjective(Unlink(l, e))
          /\ \A x : x \in ToSet(Unlink(l, e)) <=> x \in ToSet(l) /\ x # e
          /\ \A x, y : Before(Unlink(l, e), x, y) <=> Before(l, x, y) /\ x # e /\ y # e
      BY <1>1, <3>1, UnlinkLemma, UnlinkOrder
    <3> QED BY <2>1, <2>2, <3>2 DEF Thinned
  <2>3. CASE ~Unreferenced(c, e)
    BY <1>1, <2>1, <2>3 DEF Thinned
  <2> QED BY <2>2, <2>3
<1>4. d = [c EXCEPT !.ref_count = r, !.lru_list = u]
  BY DEF Taken
<1> HIDE DEF d, r, u
<1>5. /\ d \in Caches
      /\ d.allocated = c.allocated /\ d.key = c.key /\ d.weight = c.weight
      /\ d.table = c.table /\ d.delete_pending = c.delete_pending
      /\ d.ref_count = r /\ d.lru_list = u
      /\ d.cur_size = c.cur_size /\ d.cur_weight = c.cur_weight
  BY <1>1, <1>2, <1>3, <1>4 DEF Caches
<1>6. LruExact(d)
  BY <1>1, <1>2, <1>3, <1>5 DEF LruExact, Unreferenced
<1>7. PendingBut(d, {})
  BY <1>1, <1>2, <1>5 DEF PendingBut, Unreferenced, Sound
<1>8. OneLivePerKey(d) /\ SumsExact(d)
  BY <1>5 DEF OneLivePerKey, SumsExact, Sound
<1>9. Sound(d, {})
  BY <1>5, <1>6, <1>7, <1>8 DEF Sound
<1> QED BY <1>3, <1>5, <1>9 DEF d, r

LEMMA LinkSound ==
    ASSUME NEW d, Sound(d, {}), NEW e, e \in d.allocated, e \notin d.table,
           e \notin d.delete_pending, Unreferenced(d, e),
           \A f \in d.table \ d.delete_pending : d.key[f] # d.key[e]
    PROVE  LET b == [d EXCEPT !.table = @ \cup {e}, !.ref_count[e] = @ + 1,
                              !.cur_size = @ + 1, !.cur_weight = @ + d.weight[e]]
           IN  /\ Sound(b, {}) /\ b.allocated = d.allocated
               /\ b.table = d.table \cup {e} /\ b.delete_pending = d.delete_pending
               /\ b.ref_count = [d.ref_count EXCEPT ![e] = @ + 1]
               /\ b.key = d.key /\ b.lru_list = d.lru_list
               /\ b.cur_size = d.cur_size + 1 /\ b.cur_weight = d.cur_weight + d.weight[e]
<1> DEFINE b == [d EXCEPT !.table = @ \cup {e}, !.ref_count[e] = @ + 1,
                          !.cur_size = @ + 1, !.cur_weight = @ + d.weight[e]]
           r == [d.ref_count EXCEPT ![e] = @ + 1]
           m == d.cur_size + 1
           v == d.cur_weight + d.weight[e]
<1>1. /\ d \in Caches /\ d.table \subseteq Entries /\ e \in Entries
      /\ d.ref_count \in [Entries -> Nat] /\ d.cur_size \in Int /\ d.cur_weight \in Int
      /\ \A f \in Entries : d.weight[f] \in Nat
  BY CacheType DEF Sound
<1>2. /\ r \in [Entries -> Nat] /\ r[e] # 0 /\ m \in Int /\ v \in Int
      /\ \A f \in Entries \ {e} : r[f] = d.ref_count[f]
  BY <1>1
<1>3. b = [d EXCEPT !.table = @ \cup {e}, !.ref_count = r, !.cur_size = m,
                    !.cur_weight = v]
  OBVIOUS
<1> HIDE DEF b, r
<1>4. /\ b \in Caches
      /\ b.allocated = d.allocated /\ b.key = d.key /\ b.weight = d.weight
      /\ b.table = d.table \cup {e} /\ b.delete_pending = d.delete_pending
      /\ b.ref_count = r /\ b.lru_list = d.lru_list
      /\ b.cur_size = m /\ b.cur_weight = v
  <2> HIDE DEF m, v
  <2> QED BY <1>1, <1>2, <1>3 DEF Caches
<1>5. b.table \subseteq b.allocated /\ b.delete_pending \subseteq b.allocated
  BY <1>4 DEF Sound
<1>6. LruExact(b)
  BY <1>1, <1>2, <1>4 DEF LruExact, Unreferenced, Sound
<1>7. PendingBut(b, {}) /\ OneLivePerKey(b)
  BY <1>1, <1>2, <1>4 DEF PendingBut, OneLivePerKey, Unreferenced, Sound
<1>8. SumsExact(b)
  <2>1. /\ IsFiniteSet(d.table) /\ Cardinality(d.table) \in Nat
        /\ IsFiniteSet(b.table) /\ b.table \in SUBSET Entries
    BY <1>1, <1>4, ConstantFacts
  <2>2. Cardinality(d.table \cup {e}) = Cardinality(d.table) + 1
    BY <2>1, FS_AddElement
  <2>3. Total(d.weight, b.table) = d.weight[e] + Total(d.weight, b.table \ {e})
    BY <1>1, <1>4, <2>1, TotalRemove
  <2>4. b.table \ {e} = d.table
    BY <1>4
  <2>5. Total(d.weight, d.table) \in Nat /\ d.weight[e] \in Nat
    BY <1>1, WeightFacts
  <2>6. d.cur_size = Cardinality(d.table) /\ d.cur_weight = Total(d.weight, d.table)
    BY DEF Sound, SumsExact
  <2> DEFINE T == Total(d.weight, d.table)
             x == d.weight[e]
  <2>8. Total(d.weight, b.table) = x + T /\ d.cur_weight = T /\ x \in Nat /\ T \in Nat
    BY <2>3, <2>4, <2>5, <2>6
  <2> HIDE DEF T, x
  <2>7. d.cur_weight + x = Total(d.weight, b.table)
    BY <2>8
  <2> QED BY <1>4, <2>2, <2>6, <2>7 DEF SumsExact, x
<1>9. Sound(b, {})
  BY <1>4, <1>5, <1>6, <1>7, <1>8 DEF Sound
<1> QED BY <1>4, <1>9 DEF b, r

LEMMA ReleasedSound ==
    ASSUME NEW c, Sound(c, {}), NEW e, e \in c.table, ~Unreferenced(c, e)
    PROVE  LET d == Released(c, e)
               gone == c.ref_count[e] = 1 /\ e \in c.delete_pending
           IN  /\ Sound(d, {}) /\ Ordered(c.lru_list, d.lru_list)
               /\ d.allocated = IF gone THEN c.allocated \ {e} ELSE c.allocated
               /\ d.table = IF gone THEN c.table \ {e} ELSE c.table
               /\ d.delete_pending =
                    IF gone THEN c.delete_pending \ {e} ELSE c.delete_pending
               /\ \A f \in Entries :
                    d.ref_count[f] = IF f = e THEN c.ref_count[e] - 1 ELSE c.ref_count[f]
               /\ \A f \in Entries :
                    d.key[f] = IF gone /\ f = e THEN NULL ELSE c.key[f]
               /\ d.cur_size <= c.cur_size /\ d.cur_weight <= c.cur_weight
<1> DEFINE l == c.lru_list
           r == [c.ref_count EXCEPT ![e] = @ - 1]
           u == IF c.ref_count[e] = 1 THEN Append(l, e) ELSE l
           d == [c EXCEPT !.ref_count[e] = @ - 1,
                          !.lru_list = IF c.ref_count[e] = 1 THEN Append(@, e) ELSE @]
           gone == c.ref_count[e] = 1 /\ e \in c.delete_pending
<1>1. /\ c \in Caches /\ c.table \subseteq Entries /\ l \in Seq(Entries) /\ e \in Entries
      /\ c.ref_count \in [Entries -> Nat] /\ IsInjective(l)
      /\ c.ref_count[e] \in Nat \ {0} /\ e \in c.allocated
      /\ c.cur_size \in Int /\ c.cur_weight \in Int
      /\ \A f \in Entries : f \in ToSet(l) <=> f \in c.table /\ Unreferenced(c, f)
  BY CacheType DEF Sound, LruExact, Unreferenced
<1>2. /\ r \in [Entries -> Nat] /\ r[e] = c.ref_count[e] - 1
      /\ r[e] = 0 <=> c.ref_count[e] = 1
      /\ \A f \in Entries \ {e} : r[f] = c.ref_count[f]
  BY <1>1
<1>3. /\ u \in Seq(Entries) /\ IsInjective(u) /\ Ordered(l, u)
      /\ \A f : f \in ToSet(u) <=> f \in ToSet(l) \/ (c.ref_count[e] = 1 /\ f = e)
  <2>1. e \notin ToSet(l)
    BY <1>1
  <2>2. /\ Append(l, e) \in Seq(Entries) /\ IsInjective(Append(l, e))
        /\ \A x : x \in ToSet(Append(l, e)) <=> x \in ToSet(l) \/ x = e
        /\ \A x, y : Before(Append(l, e), x, y) <=>
                       Before(l, x, y) \/ (x \in ToSet(l) /\ y = e)
    BY <1>1, <2>1, AppendLemma, AppendOrder
  <2>3. CASE c.ref_count[e] = 1
    BY <2>1, <2>2, <2>3 DEF Ordered
  <2>4. CASE c.ref_count[e] # 1
    BY <1>1, <2>4 DEF Ordered
  <2> QED BY <2>3, <2>4
<1>4. d = [c EXCEPT !.ref_count = r, !.lru_list = u]
  OBVIOUS
<1>5. Released(c, e) = IF Unreferenced(d, e) /\ e \in d.delete_pending
                       THEN Deleted(d, e) ELSE d
  BY DEF Released
<1> HIDE DEF d, r, u
<1>6. /\ d \in Caches
      /\ d.allocated = c.allocated /\ d.key = c.key /\ d.weight = c.weight
      /\ d.table = c.table /\ d.delete_pending = c.delete_pending
      /\ d.ref_count = r /\ d.lru_list = u
      /\ d.cur_size = c.cur_size /\ d.cur_weight = c.cur_weight
  BY <1>1, <1>2, <1>3, <1>4 DEF Caches
<1>7. LruExact(d)
  BY <1>1, <1>2, <1>3, <1>6 DEF LruExact, Unreferenced
<1>8. PendingBut(d, {e}) /\ (~gone => PendingBut(d, {}))
  BY <1>1, <1>2, <1>6 DEF PendingBut, Unreferenced, Sound
<1>9. OneLivePerKey(d) /\ SumsExact(d)
  BY <1>6 DEF OneLivePerKey, SumsExact, Sound
<1>10. Sound(d, {e}) /\ (~gone => Sound(d, {}))
  BY <1>6, <1>7, <1>8, <1>9 DEF Sound
<1>11. Unreferenced(d, e) <=> c.ref_count[e] = 1
  BY <1>2, <1>6 DEF Unreferenced
<1>12. CASE gone
  <2> DEFINE b == Deleted(d, e)
  <2>1. Released(c, e) = b
    BY <1>5, <1>6, <1>11, <1>12
  <2>2. Sound(b, {}) /\ Without(d, b, {e}) /\ Thinned(u, b.lru_list)
    BY <1>1, <1>6, <1>10, <1>11, <1>12, DeletedSound
  <2>3. Ordered(l, b.lru_list)
    BY <1>3, <2>2, OrderedFacts
  <2> HIDE DEF b
  <2>4. \A f \in Entries : b.key[f] = IF f = e THEN NULL ELSE c.key[f]
    BY <1>6, <2>2 DEF Without
  <2>5. \A f \in Entries :
          b.ref_count[f] = IF f = e THEN c.ref_count[e] - 1 ELSE c.ref_count[f]
    BY <1>2, <1>6, <2>2 DEF Without
  <2> QED BY <1>6, <1>12, <2>1, <2>2, <2>3, <2>4, <2>5 DEF Without
<1>13. CASE ~gone
  <2>1. Released(c, e) = d
    BY <1>5, <1>6, <1>11, <1>13
  <2>2. d.cur_size <= c.cur_size /\ d.cur_weight <= c.cur_weight
    BY <1>1, <1>6
  <2>3. \A f \in Entries :
          d.ref_count[f] = IF f = e THEN c.ref_count[e] - 1 ELSE c.ref_count[f]
    BY <1>2, <1>6
  <2> QED BY <1>3, <1>6, <1>10, <1>13, <2>1, <2>2, <2>3
<1> QED BY <1>12, <1>13

(* If the entry is not marked, nothing else changes.                       *)
LEMMA ReleasedStays ==
    ASSUME NEW c, Sound(c, {}), NEW e, e \in c.table, e \notin c.delete_pending,
           ~Unreferenced(c, e)
    PROVE  LET d == Released(c, e) IN
           /\ Sound(d, {}) /\ d.allocated = c.allocated /\ d.table = c.table
           /\ d.delete_pending = c.delete_pending /\ d.key = c.key
           /\ d.ref_count = [c.ref_count EXCEPT ![e] = @ - 1]
<1> DEFINE d == Released(c, e)
           gone == c.ref_count[e] = 1 /\ e \in c.delete_pending
<1>1. /\ Sound(d, {}) /\ Ordered(c.lru_list, d.lru_list)
      /\ d.allocated = IF gone THEN c.allocated \ {e} ELSE c.allocated
      /\ d.table = IF gone THEN c.table \ {e} ELSE c.table
      /\ d.delete_pending =
           IF gone THEN c.delete_pending \ {e} ELSE c.delete_pending
      /\ \A f \in Entries :
           d.ref_count[f] = IF f = e THEN c.ref_count[e] - 1 ELSE c.ref_count[f]
      /\ \A f \in Entries :
           d.key[f] = IF gone /\ f = e THEN NULL ELSE c.key[f]
      /\ d.cur_size <= c.cur_size /\ d.cur_weight <= c.cur_weight
  BY ReleasedSound
<1> HIDE DEF d
<1>2. /\ d.key \in [Entries -> Keys \cup {NULL}] /\ d.ref_count \in [Entries -> Nat]
      /\ c.key \in [Entries -> Keys \cup {NULL}] /\ c.ref_count \in [Entries -> Nat]
  BY <1>1, CacheType DEF Sound
<1>3. d.key = c.key
  BY <1>1, <1>2
<1>4. d.ref_count = [c.ref_count EXCEPT ![e] = @ - 1]
  BY <1>1, <1>2
<1> QED BY <1>1, <1>3, <1>4 DEF d

LEMMA LinkedSound ==
    ASSUME NEW c, Sound(c, {}), NEW e, e \in c.allocated, e \notin c.table,
           e \notin c.delete_pending, Unreferenced(c, e)
    PROVE  LET d == Linked(c, e) IN
           /\ Sound(d, {}) /\ e \in d.table
           /\ d.delete_pending \subseteq c.delete_pending \cup c.table
           /\ c.allocated \ c.table \subseteq d.allocated /\ d.allocated \subseteq c.allocated
           /\ d.table \subseteq c.table \cup {e}
           /\ \A f \in c.table : ~Unreferenced(c, f) => f \in d.table
           /\ \A f \in Entries :
                d.ref_count[f] = IF f = e THEN 1 ELSE c.ref_count[f]
           /\ d.cur_size <= c.cur_size + 1 /\ d.cur_weight <= c.cur_weight + c.weight[e]
           /\ Thinned(c.lru_list, d.lru_list)
           /\ \A f \in ToSet(c.lru_list) :
                c.key[f] # c.key[e] => f \in ToSet(d.lru_list)
<1> DEFINE old == Hits(c, c.key[e])
           o == CHOOSE o \in old : TRUE
           d == IF old = {} THEN c ELSE Deleted(c, o)
           b == [d EXCEPT !.table = @ \cup {e}, !.ref_count[e] = @ + 1,
                          !.cur_size = @ + 1, !.cur_weight = @ + d.weight[e]]
<1>1. /\ c \in Caches /\ c.table \subseteq Entries /\ e \in Entries
      /\ c.lru_list \in Seq(Entries) /\ c.table \subseteq c.allocated
      /\ c.cur_size \in Int /\ c.cur_weight \in Int /\ c.weight[e] \in Nat
      /\ c.ref_count[e] = 0
      /\ \A f \in Entries : f \in ToSet(c.lru_list) <=> f \in c.table /\ Unreferenced(c, f)
  BY CacheType DEF Sound, LruExact, Unreferenced
<1>2. /\ \A x, y : Before(c.lru_list, x, y) =>
                     x \in ToSet(c.lru_list) /\ y \in ToSet(c.lru_list)
      /\ \A x : x \in ToSet(c.lru_list) => x \in Entries
  <2>1. c.lru_list \in Seq(Entries)
    BY <1>1
  <2> QED BY <2>1, BeforeIn, SeqDomain
<1>3. /\ Sound(d, {})
      /\ e \in d.allocated /\ e \notin d.table /\ e \notin d.delete_pending
      /\ d.delete_pending \subseteq c.delete_pending \cup c.table
      /\ c.allocated \ c.table \subseteq d.allocated /\ d.allocated \subseteq c.allocated
      /\ d.table \subseteq c.table /\ d.key[e] = c.key[e] /\ d.weight[e] = c.weight[e]
      /\ \A f \in c.table : ~Unreferenced(c, f) => f \in d.table
      /\ \A f \in Entries : d.ref_count[f] = c.ref_count[f]
      /\ \A f \in d.table \ d.delete_pending : d.key[f] # d.key[e]
      /\ d.cur_size <= c.cur_size /\ d.cur_weight <= c.cur_weight
      /\ Thinned(c.lru_list, d.lru_list)
      /\ \A f \in ToSet(c.lru_list) :
           c.key[f] # c.key[e] => f \in ToSet(d.lru_list)
  <2>1. CASE old = {}
    <3>1. d = c
      BY <2>1
    <3>2. \A f \in c.table \ c.delete_pending : c.key[f] # c.key[e]
      BY <2>1 DEF Hits
    <3>3. Thinned(c.lru_list, c.lru_list)
      BY <1>2 DEF Thinned
    <3> HIDE DEF d, old
    <3> QED BY <1>1, <3>1, <3>2, <3>3
  <2>2. CASE old # {}
    <3>1. /\ o \in c.table /\ o \notin c.delete_pending /\ c.key[o] = c.key[e] /\ o # e
          /\ \A f \in c.table \ c.delete_pending : c.key[f] = c.key[e] => f = o
      <4>1. o \in old
        BY <2>2
      <4> HIDE DEF o
      <4> QED BY <4>1 DEF Hits, Sound, OneLivePerKey
    <3>2. d = Deleted(c, o)
      BY <2>2
    <3> HIDE DEF d, o, old
    <3>3. Sound(c, {o}) /\ o \in c.allocated
      BY <1>1, <3>1 DEF Sound, PendingBut
    <3>4. /\ Sound(d, {}) /\ Thinned(c.lru_list, d.lru_list)
          /\ Unreferenced(c, o) => Without(c, d, {o})
          /\ \A f : f \in ToSet(d.lru_list) <=> f \in ToSet(c.lru_list) /\ f # o
      BY <3>2, <3>3, DeletedSound
    <3>5. \A f \in ToSet(c.lru_list) : c.key[f] # c.key[e] => f \in ToSet(d.lru_list)
      BY <3>1, <3>4
    <3>6. CASE Unreferenced(c, o)
      <4>1. Without(c, d, {o})
        BY <3>4, <3>6
      <4>2. \A f \in d.table \ d.delete_pending : d.key[f] # d.key[e]
        BY <1>1, <3>1, <4>1 DEF Without
      <4> QED BY <1>1, <3>1, <3>4, <3>5, <3>6, <4>1, <4>2 DEF Without
    <3>7. CASE ~Unreferenced(c, o)
      <4>1. d = [c EXCEPT !.delete_pending = @ \cup {o}]
        BY <3>2, <3>7 DEF Deleted
      <4>2. /\ d.delete_pending = c.delete_pending \cup {o}
            /\ d.allocated = c.allocated /\ d.key = c.key /\ d.weight = c.weight
            /\ d.ref_count = c.ref_count /\ d.table = c.table
            /\ d.cur_size = c.cur_size /\ d.cur_weight = c.cur_weight
        BY <1>1, <4>1 DEF Caches
      <4>3. d.cur_size <= c.cur_size /\ d.cur_weight <= c.cur_weight
        BY <1>1, <4>2
      <4> QED BY <1>1, <3>1, <3>4, <3>5, <4>2, <4>3
    <3> QED BY <3>6, <3>7
  <2> QED BY <2>1, <2>2
<1>4. Linked(c, e) = b
  <2>1. Linked(c, e) = [d EXCEPT !.table = @ \cup {e}, !.ref_count[e] = @ + 1,
                                 !.cur_size = @ + 1, !.cur_weight = @ + c.weight[e]]
    BY DEF Linked
  <2> HIDE DEF d
  <2> QED BY <1>3, <2>1
<1>5. /\ d.ref_count \in [Entries -> Nat] /\ d.ref_count[e] = 0 /\ Unreferenced(d, e)
      /\ d.cur_size \in Int /\ d.cur_weight \in Int
  <2> HIDE DEF d
  <2>1. d \in Caches
    BY <1>3 DEF Sound
  <2> QED BY <1>1, <1>3, <2>1, CacheType DEF Unreferenced
<1> HIDE DEF d
<1>6. /\ Sound(b, {}) /\ b.allocated = d.allocated
      /\ b.table = d.table \cup {e} /\ b.delete_pending = d.delete_pending
      /\ b.ref_count = [d.ref_count EXCEPT ![e] = @ + 1]
      /\ b.key = d.key /\ b.lru_list = d.lru_list
      /\ b.cur_size = d.cur_size + 1 /\ b.cur_weight = d.cur_weight + d.weight[e]
  BY <1>3, <1>5, LinkSound, ZenonT(30)
<1> HIDE DEF b
<1>7. \A f \in Entries : b.ref_count[f] = IF f = e THEN 1 ELSE c.ref_count[f]
  BY <1>3, <1>5, <1>6
<1>8. b.cur_size <= c.cur_size + 1 /\ b.cur_weight <= c.cur_weight + c.weight[e]
  BY <1>1, <1>3, <1>5, <1>6
<1> QED BY <1>3, <1>4, <1>6, <1>7, <1>8

-----------------------------------------------------------------------------
(* Cache d is what evictions may leave of c.                               *)
Shrunk(c, d) ==
    /\ Sound(d, {}) /\ Ending(c.lru_list, d.lru_list)
    /\ \E S \in SUBSET c.table : Without(c, d, S)

LEMMA ShrunkFacts ==
    ASSUME NEW c, Sound(c, {}), NEW d, Shrunk(c, d)
    PROVE  /\ c \in Caches /\ d \in Caches /\ Sound(d, {})
           /\ c.allocated \ c.table \subseteq d.allocated /\ d.allocated \subseteq c.allocated
           /\ d.table \subseteq c.table /\ d.delete_pending \subseteq c.delete_pending
           /\ \A f \in c.table : ~Unreferenced(c, f) => f \in d.table
           /\ \A f \in Entries : d.ref_count[f] = c.ref_count[f]
           /\ \A f \in Entries : f \in d.table \/ f \notin c.table =>
                /\ d.key[f] = c.key[f] /\ d.weight[f] = c.weight[f]
                /\ f \in c.allocated => f \in d.allocated
           /\ d.cur_size <= c.cur_size /\ d.cur_weight <= c.cur_weight
           /\ Ending(c.lru_list, d.lru_list)
<1>1. PICK S \in SUBSET c.table : Without(c, d, S)
  BY DEF Shrunk
<1>2. c \in Caches /\ d \in Caches /\ Sound(d, {}) /\ Ending(c.lru_list, d.lru_list)
  BY DEF Shrunk, Sound
<1> QED BY <1>1, <1>2 DEF Without

LEMMA ShrunkTwice ==
    ASSUME NEW c, Sound(c, {}), NEW d, Shrunk(c, d), NEW b, Shrunk(d, b)
    PROVE  Shrunk(c, b)
<1>1. PICK S \in SUBSET c.table : Without(c, d, S)
  BY DEF Shrunk
<1>2. PICK T \in SUBSET d.table : Without(d, b, T)
  BY DEF Shrunk
<1>3. /\ c.cur_size \in Int /\ c.cur_weight \in Int /\ d.cur_size \in Int
      /\ d.cur_weight \in Int /\ b.cur_size \in Int /\ b.cur_weight \in Int
  <2>1. c \in Caches /\ d \in Caches /\ b \in Caches
    BY DEF Shrunk, Sound
  <2> QED BY <2>1, CacheType
<1>4. b.cur_size <= c.cur_size /\ b.cur_weight <= c.cur_weight
  <2>1. /\ d.cur_size <= c.cur_size /\ d.cur_weight <= c.cur_weight
        /\ b.cur_size <= d.cur_size /\ b.cur_weight <= d.cur_weight
    BY <1>1, <1>2 DEF Without
  <2> QED BY <1>3, <2>1
<1>5. Without(c, b, S \cup T)
  <2>1. \A e \in S \cup T : e \in Entries /\ Unreferenced(c, e)
    BY <1>1, <1>2 DEF Without, Unreferenced
  <2>2. /\ b.allocated = c.allocated \ (S \cup T) /\ b.table = c.table \ (S \cup T)
        /\ b.delete_pending = c.delete_pending \ (S \cup T)
    BY <1>1, <1>2 DEF Without
  <2>3. \A e \in Entries \ (S \cup T) : b.key[e] = c.key[e] /\ b.weight[e] = c.weight[e]
    BY <1>1, <1>2 DEF Without
  <2>4. \A e \in Entries : b.ref_count[e] = c.ref_count[e]
    BY <1>1, <1>2 DEF Without
  <2>5. \A e \in S \cup T : b.key[e] = NULL
    BY <1>1, <1>2 DEF Without
  <2> QED BY <1>4, <2>1, <2>2, <2>3, <2>4, <2>5 DEF Without
<1>6. S \cup T \in SUBSET c.table
  BY <1>1, <1>2 DEF Without
<1>7. Ending(c.lru_list, b.lru_list) /\ Sound(b, {})
  BY EndingTwice DEF Shrunk
<1> QED BY <1>5, <1>6, <1>7 DEF Shrunk

LEMMA EvictedShrunk ==
    ASSUME NEW c, Sound(c, {}), NEW n \in 0..Len(c.lru_list)
    PROVE  /\ Shrunk(c, Evicted(c, n)) /\ Evicted(c, n).cur_size = c.cur_size - n
           /\ Len(Evicted(c, n).lru_list) = Len(c.lru_list) - n
BY EvictedSound DEF Shrunk

LEMMA LightenedShrunk ==
    ASSUME NEW c, Sound(c, {}), NEW e
    PROVE  Shrunk(c, Lightened(c, e))
<1> DEFINE w == c.weight[e]
           N == Len(c.lru_list)
           T == {n \in 0..N : n = N \/ ~TooHeavy(Evicted(c, n), w)}
           Right(n) == /\ n = N \/ ~TooHeavy(Evicted(c, n), w)
                       /\ \A m \in 0..(n - 1) : TooHeavy(Evicted(c, m), w)
<1>1. N \in Nat
  BY CacheType DEF Sound
<1>2. \E n \in 0..N : Right(n)
  <2>1. T \subseteq Nat /\ N \in T
    BY <1>1
  <2>2. PICK n \in T : \A m \in T : n <= m
    BY <2>1, NatMin
  <2>3. ASSUME NEW m \in 0..(n - 1) PROVE TooHeavy(Evicted(c, m), w)
    <3>1. m \in 0..N /\ ~(n <= m)
      BY <1>1, <2>1, <2>2
    <3> QED BY <2>2, <3>1
  <2> QED BY <2>2, <2>3
<1>3. Evictions(c, w) \in 0..N
  <2>1. Evictions(c, w) = CHOOSE n \in 0..N : Right(n)
    BY DEF Evictions
  <2> HIDE DEF Right, N
  <2> QED BY <1>2, <2>1
<1> QED BY <1>3, EvictedShrunk DEF Lightened

(* An insertion that succeeds.                                             *)
LEMMA InsertedSound ==
    ASSUME NEW c, Sound(c, {}), NEW e, e \in c.allocated, e \notin c.table,
           e \notin c.delete_pending, Unreferenced(c, e),
           c.cur_size <= max_size, ~Fails(c, e)
    PROVE  LET d == Inserted(c, e) IN
           /\ Sound(d, {}) /\ e \in d.table
           /\ d.delete_pending \subseteq c.delete_pending \cup c.table
           /\ c.allocated \ c.table \subseteq d.allocated /\ d.allocated \subseteq c.allocated
           /\ d.table \subseteq c.table \cup {e}
           /\ \A f \in c.table : ~Unreferenced(c, f) => f \in d.table
           /\ \A f \in Entries :
                d.ref_count[f] = IF f = e THEN 1 ELSE c.ref_count[f]
           /\ d.cur_size <= max_size /\ d.cur_weight <= max_weight
           /\ \E m : /\ Ending(c.lru_list, m) /\ Thinned(m, d.lru_list)
                     /\ \A f \in ToSet(m) : f \in c.table /\
                          (c.key[f] # c.key[e] => f \in ToSet(d.lru_list))
<1> DEFINE b == Lightened(c, e)
           a == IF Full(b) THEN Evicted(b, 1) ELSE b
           d == Linked(a, e)
<1>1. Inserted(c, e) = d
  BY DEF Inserted
<1>2. Shrunk(c, b) /\ ~TooHeavy(b, c.weight[e]) /\ ~(Full(b) /\ b.lru_list = <<>>)
  BY LightenedShrunk DEF Fails
<1>3. /\ Sound(b, {}) /\ b \in Caches /\ c \in Caches
      /\ b.cur_size <= c.cur_size /\ e \in Entries /\ c.weight[e] \in Nat
      /\ b.lru_list \in Seq(Entries) /\ b.cur_size \in Int /\ b.cur_weight \in Int
      /\ c.cur_size \in Int /\ max_size \in Nat /\ max_weight \in Nat
  <2>1. c \in Caches /\ e \in Entries
    BY CacheType DEF Sound
  <2> HIDE DEF b
  <2>2. Sound(b, {}) /\ b \in Caches /\ b.cur_size <= c.cur_size
    BY <1>2, ShrunkFacts
  <2> QED BY <2>1, <2>2, CacheType, ConstantFacts
<1> HIDE DEF b
<1>4. /\ Shrunk(c, a) /\ a.cur_size + 1 <= max_size
      /\ a.cur_weight + c.weight[e] <= max_weight
  <2>1. CASE Full(b)
    <3>1. a = Evicted(b, 1)
      BY <2>1
    <3>2. 1 \in 0..Len(b.lru_list)
      BY <1>2, <1>3, <2>1
    <3> HIDE DEF a
    <3>3. Shrunk(b, a) /\ a.cur_size = b.cur_size - 1
      BY <1>3, <3>1, <3>2, EvictedShrunk
    <3>4. Shrunk(c, a)
      BY <1>2, <3>3, ShrunkTwice
    <3>5. a.cur_weight <= b.cur_weight /\ a \in Caches
      BY <1>3, <3>3, ShrunkFacts
    <3>6. a.cur_weight \in Int
      BY <3>5, CacheType
    <3>7. a.cur_weight + c.weight[e] <= max_weight
      BY <1>2, <1>3, <3>5, <3>6 DEF TooHeavy
    <3>8. a.cur_size + 1 <= max_size
      BY <1>3, <3>3
    <3> QED BY <3>4, <3>7, <3>8
  <2>2. CASE ~Full(b)
    BY <1>2, <1>3, <2>2 DEF Full, TooHeavy
  <2> QED BY <2>1, <2>2
<1> HIDE DEF a
<1>5. /\ Sound(a, {}) /\ a \in Caches
      /\ c.allocated \ c.table \subseteq a.allocated /\ a.allocated \subseteq c.allocated
      /\ a.table \subseteq c.table /\ a.delete_pending \subseteq c.delete_pending
      /\ \A f \in c.table : ~Unreferenced(c, f) => f \in a.table
      /\ \A f \in Entries : a.ref_count[f] = c.ref_count[f]
      /\ \A f \in Entries : f \in a.table \/ f \notin c.table =>
           a.key[f] = c.key[f] /\ a.weight[f] = c.weight[f]
      /\ Ending(c.lru_list, a.lru_list)
  BY <1>4, ShrunkFacts
<1>6. /\ e \in a.allocated /\ e \notin a.table /\ e \notin a.delete_pending
      /\ Unreferenced(a, e) /\ a.weight[e] = c.weight[e] /\ a.key[e] = c.key[e]
  BY <1>3, <1>5 DEF Unreferenced
<1>7. /\ Sound(d, {}) /\ e \in d.table
      /\ d.delete_pending \subseteq a.delete_pending \cup a.table
      /\ a.allocated \ a.table \subseteq d.allocated /\ d.allocated \subseteq a.allocated
      /\ d.table \subseteq a.table \cup {e}
      /\ \A f \in a.table : ~Unreferenced(a, f) => f \in d.table
      /\ \A f \in Entries :
           d.ref_count[f] = IF f = e THEN 1 ELSE a.ref_count[f]
      /\ d.cur_size <= a.cur_size + 1 /\ d.cur_weight <= a.cur_weight + a.weight[e]
      /\ Thinned(a.lru_list, d.lru_list)
      /\ \A f \in ToSet(a.lru_list) :
           a.key[f] # a.key[e] => f \in ToSet(d.lru_list)
  BY <1>5, <1>6, LinkedSound
<1> HIDE DEF d
<1>8. d.cur_size <= max_size /\ d.cur_weight <= max_weight
  <2>1. /\ d.cur_size \in Int /\ d.cur_weight \in Int /\ a.cur_size \in Int
        /\ a.cur_weight \in Int
    BY <1>5, <1>7, CacheType DEF Sound
  <2>2. /\ a.weight[e] = c.weight[e] /\ a.cur_size + 1 <= max_size
        /\ a.cur_weight + c.weight[e] <= max_weight
        /\ d.cur_size <= a.cur_size + 1 /\ d.cur_weight <= a.cur_weight + a.weight[e]
        /\ max_size \in Nat /\ max_weight \in Nat /\ c.weight[e] \in Nat
    BY <1>3, <1>4, <1>6, <1>7
  <2> QED BY <2>1, <2>2
<1>9. \A f \in ToSet(a.lru_list) :
        f \in c.table /\ (c.key[f] # c.key[e] => f \in ToSet(d.lru_list))
  <2>0. LruExact(a) /\ a.lru_list \in Seq(Entries)
    BY <1>5, CacheType DEF Sound
  <2>2. \A f \in ToSet(a.lru_list) : f \in Entries
    BY <2>0, SeqDomain
  <2>1. \A f \in ToSet(a.lru_list) : f \in Entries /\ f \in a.table
    BY <2>0, <2>2 DEF LruExact
  <2> QED BY <1>5, <1>6, <1>7, <2>1
<1>10. \A f \in c.table : ~Unreferenced(c, f) => f \in d.table
  <2>1. c.table \subseteq Entries
    BY <1>3, CacheType
  <2> QED BY <1>5, <1>7, <2>1 DEF Unreferenced
<1>11. \A f \in Entries : d.ref_count[f] = IF f = e THEN 1 ELSE c.ref_count[f]
  BY <1>5, <1>7
<1>12. /\ d.delete_pending \subseteq c.delete_pending \cup c.table
       /\ d.table \subseteq c.table \cup {e} /\ d.allocated \subseteq c.allocated
       /\ c.allocated \ c.table \subseteq d.allocated
  BY <1>5, <1>7
<1>13. /\ Ending(c.lru_list, a.lru_list) /\ Thinned(a.lru_list, d.lru_list)
  BY <1>5, <1>7
<1> QED BY <1>1, <1>7, <1>8, <1>9, <1>10, <1>11, <1>12, <1>13

(* An emptied cache keeps what is in use, to be deleted.                   *)
LEMMA EmptiedSound ==
    ASSUME NEW c, Sound(c, {})
    PROVE  LET d == Emptied(c) IN
           /\ Sound(d, {}) /\ Thinned(c.lru_list, d.lru_list)
           /\ d.delete_pending \subseteq c.delete_pending \cup c.table
           /\ d.table \subseteq d.delete_pending
           /\ \A f \in c.allocated : f \in d.allocated <=>
                f \notin c.table \/ ~Unreferenced(c, f)
           /\ d.allocated \subseteq c.allocated
           /\ \A f \in c.table : f \in d.table <=> ~Unreferenced(c, f)
           /\ d.table \subseteq c.table
           /\ \A f \in Entries : d.ref_count[f] = c.ref_count[f]
           /\ \A f \in Entries : d.key[f] =
                IF f \in c.table /\ Unreferenced(c, f) THEN NULL ELSE c.key[f]
           /\ d.cur_size <= c.cur_size /\ d.cur_weight <= c.cur_weight
<1> DEFINE gone == {e \in c.table : Unreferenced(c, e)}
           b == [c EXCEPT !.delete_pending = @ \cup c.table]
           l == Only(c.lru_list, Entries \ gone)
           d == Removed(b, gone, l)
<1>1. /\ c \in Caches /\ c.table \subseteq Entries /\ c.lru_list \in Seq(Entries)
      /\ IsInjective(c.lru_list) /\ gone \in SUBSET Entries
      /\ c.cur_size \in Int /\ c.cur_weight \in Int
      /\ \A f \in Entries : f \in ToSet(c.lru_list) <=> f \in c.table /\ Unreferenced(c, f)
  BY CacheType DEF Sound, LruExact
<1>2. \A x \in ToSet(c.lru_list) : x \in Entries
  BY <1>1, SeqDomain
<1>3. /\ b \in Caches /\ b.delete_pending = c.delete_pending \cup c.table
      /\ b.allocated = c.allocated /\ b.key = c.key /\ b.weight = c.weight
      /\ b.ref_count = c.ref_count /\ b.table = c.table /\ b.lru_list = c.lru_list
      /\ b.cur_size = c.cur_size /\ b.cur_weight = c.cur_weight
  BY <1>1, CacheType DEF Caches
<1>4. Emptied(c) = d
  <2>1. TotalWeight(c, gone) = Total(c.weight, gone)
    BY <1>1, WeightFacts
  <2>2. Emptied(c) = Freed([c EXCEPT !.table = @ \ gone,
                                     !.delete_pending = @ \cup c.table,
                                     !.lru_list = l,
                                     !.cur_size = @ - Cardinality(gone),
                                     !.cur_weight = @ - TotalWeight(c, gone)], gone)
    BY DEF Emptied
  <2> DEFINE T == c.table \ gone
             n == c.cur_size - Cardinality(gone)
             v == c.cur_weight - Total(c.weight, gone)
             P == c.delete_pending \cup c.table
             x == [c EXCEPT !.table = T, !.delete_pending = P, !.lru_list = l,
                            !.cur_size = n, !.cur_weight = v]
             y == [b EXCEPT !.table = T, !.lru_list = l, !.cur_size = n,
                            !.cur_weight = v]
  <2>3. Emptied(c) = Freed(x, gone)
    BY <2>1, <2>2
  <2>4. d = Freed(y, gone)
    <3> HIDE DEF b, gone, l
    <3> QED BY <1>3 DEF Removed
  <2>5. b = [c EXCEPT !.delete_pending = P]
    OBVIOUS
  <2>7. /\ x = [c EXCEPT !.table = T, !.delete_pending = P, !.lru_list = l,
                         !.cur_size = n, !.cur_weight = v]
        /\ y = [b EXCEPT !.table = T, !.lru_list = l, !.cur_size = n,
                         !.cur_weight = v]
    BY Zenon
  <2> HIDE DEF T, n, v, P, b, l, gone, x, y
  <2>8. DOMAIN c = {"allocated", "key", "weight", "ref_count", "delete_pending", "table",
                    "lru_list", "cur_size", "cur_weight"}
    BY <1>1 DEF Caches
  <2>6. x = y
    BY <2>5, <2>7, <2>8
  <2> HIDE DEF x, y, d
  <2> QED BY <2>3, <2>4, <2>6
<1>5. Sound(b, gone)
  <2> HIDE DEF b
  <2>1. LruExact(b) /\ OneLivePerKey(b) /\ SumsExact(b)
    BY <1>3 DEF Sound, LruExact, Unreferenced, OneLivePerKey, SumsExact
  <2>2. PendingBut(b, gone)
    BY <1>3 DEF PendingBut, Unreferenced
  <2>3. b.table \subseteq b.allocated /\ b.delete_pending \subseteq b.allocated
    BY <1>3 DEF Sound
  <2> QED BY <1>3, <2>1, <2>2, <2>3 DEF Sound
<1>6. /\ l \in Seq(Entries) /\ IsInjective(l)
      /\ \A x : x \in ToSet(l) <=> x \in ToSet(c.lru_list) /\ x \in Entries \ gone
      /\ \A x, y : Before(l, x, y) <=>
           Before(c.lru_list, x, y) /\ x \in Entries \ gone /\ y \in Entries \ gone
  BY <1>1, OnlyLemma
<1> HIDE DEF l
<1>7. Thinned(c.lru_list, l)
  <2>1. \A x, y : Before(c.lru_list, x, y) =>
                    x \in ToSet(c.lru_list) /\ y \in ToSet(c.lru_list)
    BY <1>1, BeforeIn
  <2> QED BY <1>6, <2>1 DEF Thinned
<1>8. /\ gone \subseteq b.table /\ \A e \in gone : Unreferenced(b, e)
      /\ \A x : x \in ToSet(l) <=> x \in ToSet(b.lru_list) /\ x \notin gone
  <2>1. \A e \in gone : e \in c.table /\ Unreferenced(c, e)
    OBVIOUS
  <2> HIDE DEF gone, b
  <2> QED BY <1>2, <1>3, <1>6, <2>1 DEF Unreferenced
<1>9. \A f : f \in gone <=> f \in c.table /\ Unreferenced(c, f)
  OBVIOUS
<1> HIDE DEF b, gone, d
<1>10. Sound(d, {})
  <2>1. l \in Seq(Entries) /\ IsInjective(l)
    BY <1>6
  <2>2. gone \subseteq b.table /\ gone \subseteq gone
    BY <1>8
  <2>3. \A e \in gone : Unreferenced(b, e)
    BY <1>8
  <2>4. \A x : x \in ToSet(l) <=> x \in ToSet(b.lru_list) /\ x \notin gone
    BY <1>8
  <2>5. Sound(Removed(b, gone, l), {})
    BY <1>5, <2>1, <2>2, <2>3, <2>4, RemovedSound, Zenon
  <2> QED BY <2>5 DEF d
<1>11. Without(b, d, gone) /\ d.lru_list = l
  BY <1>3, <1>6, <1>8, RemovedWithout, ZenonT(30) DEF d
<1>12. /\ d.delete_pending \subseteq c.delete_pending \cup c.table
       /\ d.table \subseteq d.delete_pending /\ d.allocated \subseteq c.allocated
       /\ d.table \subseteq c.table
       /\ d.cur_size <= c.cur_size /\ d.cur_weight <= c.cur_weight
       /\ \A f \in Entries : d.ref_count[f] = c.ref_count[f]
  BY <1>3, <1>11 DEF Without
<1>13. /\ \A f \in c.allocated : f \in d.allocated <=> f \notin c.table \/ ~Unreferenced(c, f)
       /\ \A f \in c.table : f \in d.table <=> ~Unreferenced(c, f)
  BY <1>3, <1>9, <1>11 DEF Without
<1>14. \A f \in Entries : d.key[f] =
          IF f \in c.table /\ Unreferenced(c, f) THEN NULL ELSE c.key[f]
  BY <1>3, <1>9, <1>11 DEF Without
<1> QED BY <1>4, <1>7, <1>10, <1>11, <1>12, <1>13, <1>14

-----------------------------------------------------------------------------
(* The inductive invariant: the cache is sound and within its limits, and  *)
(* agrees with its users.                                                  *)
IInv ==
    /\ made \in [Users -> Entries \cup {NULL}]
    /\ held \in [Users -> SUBSET Entries]
    /\ Sound(cache, {}) /\ HeldExists
    /\ cache.cur_size <= max_size /\ cache.cur_weight <= max_weight

LEMMA InvFacts ==
    ASSUME IInv
    PROVE  /\ cache \in Caches /\ Sound(cache, {}) /\ cache.table \subseteq Entries
           /\ cache.table \subseteq cache.allocated /\ cache.allocated \subseteq Entries
           /\ cache.delete_pending \subseteq cache.allocated
           /\ cache.cur_size \in Int /\ cache.cur_weight \in Int
           /\ max_size \in Nat /\ max_weight \in Nat
           /\ cache.ref_count \in [Entries -> Nat]
           /\ \A e \in Entries : Unreferenced(cache, e) <=> Holders(e) = {}
           /\ \A e \in Entries : ~Unreferenced(cache, e) => e \in cache.table
           /\ \A u \in Users : \A e \in held[u] :
                e \in cache.table /\ ~Unreferenced(cache, e)
           /\ \A u \in Users : made[u] # NULL =>
                /\ made[u] \in cache.allocated /\ made[u] \in Entries
                /\ made[u] \notin cache.table /\ made[u] \notin cache.delete_pending
                /\ Unreferenced(cache, made[u])
<1>1. /\ cache \in Caches /\ Sound(cache, {}) /\ cache.table \subseteq Entries
      /\ cache.table \subseteq cache.allocated /\ cache.allocated \subseteq Entries
      /\ cache.delete_pending \subseteq cache.allocated
      /\ cache.cur_size \in Int /\ cache.cur_weight \in Int
      /\ max_size \in Nat /\ max_weight \in Nat
      /\ cache.ref_count \in [Entries -> Nat]
  BY CacheType, ConstantFacts DEF IInv, Sound
<1>2. ASSUME NEW e \in Entries PROVE Unreferenced(cache, e) <=> Holders(e) = {}
  <2>1. IsFiniteSet(Holders(e))
    BY ConstantFacts, FS_Subset DEF Holders
  <2>2. Cardinality(Holders(e)) = 0 <=> Holders(e) = {}
    BY <2>1, FS_EmptySet
  <2> QED BY <2>2 DEF Unreferenced, IInv, HeldExists
<1>3. ASSUME NEW u \in Users, NEW e \in held[u]
      PROVE  e \in Entries /\ Holders(e) # {} /\ e \in cache.table
  <2>1. e \in Entries
    BY DEF IInv
  <2>2. Holders(e) # {}
    BY DEF Holders
  <2> QED BY <2>1, <2>2 DEF IInv, HeldExists
<1>4. ASSUME NEW u \in Users, made[u] # NULL
      PROVE  /\ made[u] \in cache.allocated /\ made[u] \in Entries
             /\ made[u] \notin cache.table /\ made[u] \notin cache.delete_pending
             /\ Unreferenced(cache, made[u])
  <2>1. /\ made[u] \in cache.allocated \ (cache.table \cup cache.delete_pending)
        /\ Holders(made[u]) = {}
    BY <1>4 DEF IInv, HeldExists
  <2> QED BY <1>1, <1>2, <2>1
<1>5. \A e \in Entries : ~Unreferenced(cache, e) => e \in cache.table
  BY <1>2 DEF IInv, HeldExists
<1> QED BY <1>1, <1>2, <1>3, <1>4, <1>5

(* A step that changes no reference and takes nothing in use.              *)
LEMMA HeldKept ==
    ASSUME IInv, UNCHANGED held,
           \A u \in Users : made'[u] \in {made[u], NULL},
           \A u \in Users : made'[u] # NULL => made[u] \in cache'.allocated,
           cache'.delete_pending \subseteq cache.delete_pending \cup cache.table,
           cache'.table \subseteq cache.table,
           \A e \in cache.table : ~Unreferenced(cache, e) => e \in cache'.table,
           \A e \in Entries : cache'.ref_count[e] = cache.ref_count[e]
    PROVE  HeldExists'
<1>1. \A e : Holders(e)' = Holders(e)
  BY DEF Holders
<1>2. ASSUME NEW e \in Entries
      PROVE  /\ cache'.ref_count[e] = Cardinality(Holders(e)')
             /\ Holders(e)' # {} => e \in cache'.table
  <2>1. cache.ref_count[e] = Cardinality(Holders(e))
    BY DEF IInv, HeldExists
  <2>2. Holders(e) # {} => e \in cache'.table
    BY InvFacts
  <2> QED BY <1>1, <2>1, <2>2
<1>3. ASSUME NEW u \in Users, made'[u] # NULL
      PROVE  /\ made'[u] \in cache'.allocated \ (cache'.table \cup cache'.delete_pending)
             /\ Holders(made[u])' = {}
             /\ \A v \in Users \ {u} : made'[v] # made'[u]
  <2>1. made'[u] = made[u] /\ made[u] # NULL
    BY <1>3
  <2>2. /\ made[u] \in cache.allocated \ (cache.table \cup cache.delete_pending)
        /\ Holders(made[u]) = {}
        /\ \A v \in Users \ {u} : made[v] # made[u]
    BY <2>1 DEF IInv, HeldExists
  <2>3. \A v \in Users \ {u} : made'[v] # made'[u]
    BY <2>1, <2>2
  <2>4. made[u] \in cache'.allocated
    BY <1>3
  <2> QED BY <1>1, <2>1, <2>2, <2>3, <2>4
<1> QED BY <1>2, <1>3 DEF HeldExists

(* Somebody starts or ceases to hold an entry.                             *)
LEMMA HoldersStep ==
    ASSUME IInv, NEW u \in Users, NEW e \in Entries
    PROVE  /\ e \notin held[u] /\ held' = [held EXCEPT ![u] = @ \cup {e}] =>
                /\ Cardinality(Holders(e)') = cache.ref_count[e] + 1
                /\ \A f : f # e => Holders(f)' = Holders(f)
           /\ e \in held[u] /\ held' = [held EXCEPT ![u] = @ \ {e}] =>
                /\ Cardinality(Holders(e)') = cache.ref_count[e] - 1
                /\ \A f : f # e => Holders(f)' = Holders(f)
<1>1. /\ IsFiniteSet(Holders(e)) /\ Cardinality(Holders(e)) \in Nat
      /\ cache.ref_count[e] = Cardinality(Holders(e))
  BY ConstantFacts, FS_Subset, FS_CardinalityType DEF Holders, IInv, HeldExists
<1>2. ASSUME e \notin held[u], held' = [held EXCEPT ![u] = @ \cup {e}]
      PROVE  /\ Cardinality(Holders(e)') = cache.ref_count[e] + 1
             /\ \A f : f # e => Holders(f)' = Holders(f)
  <2>1. \A v \in Users : held'[v] = IF v = u THEN held[u] \cup {e} ELSE held[v]
    BY <1>2 DEF IInv
  <2>2. Holders(e)' = Holders(e) \cup {u} /\ u \notin Holders(e)
    BY <1>2, <2>1 DEF Holders
  <2>3. Cardinality(Holders(e) \cup {u}) = Cardinality(Holders(e)) + 1
    BY <1>1, <2>2, FS_AddElement
  <2>4. \A f : f # e => Holders(f)' = Holders(f)
    BY <2>1 DEF Holders
  <2> QED BY <1>1, <2>2, <2>3, <2>4
<1>3. ASSUME e \in held[u], held' = [held EXCEPT ![u] = @ \ {e}]
      PROVE  /\ Cardinality(Holders(e)') = cache.ref_count[e] - 1
             /\ \A f : f # e => Holders(f)' = Holders(f)
  <2>1. \A v \in Users : held'[v] = IF v = u THEN held[u] \ {e} ELSE held[v]
    BY <1>3 DEF IInv
  <2>2. Holders(e)' = Holders(e) \ {u} /\ u \in Holders(e)
    BY <1>3, <2>1 DEF Holders
  <2>3. Cardinality(Holders(e) \ {u}) = Cardinality(Holders(e)) - 1
    BY <1>1, <2>2, FS_RemoveElement
  <2>4. \A f : f # e => Holders(f)' = Holders(f)
    BY <2>1 DEF Holders
  <2> QED BY <1>1, <2>2, <2>3, <2>4
<1> QED BY <1>2, <1>3

-----------------------------------------------------------------------------
(* Each operation keeps the invariant, and the order of the list.          *)
Keeps == IInv' /\ Ordered(cache.lru_list, cache'.lru_list)

LEMMA SameKeeps == ASSUME NEW c, Sound(c, {}) PROVE Thinned(c.lru_list, c.lru_list)
<1>1. c.lru_list \in Seq(Entries)
  BY CacheType DEF Sound
<1>2. \A x, y : Before(c.lru_list, x, y) =>
                  x \in ToSet(c.lru_list) /\ y \in ToSet(c.lru_list)
  BY <1>1, BeforeIn
<1> QED BY <1>2 DEF Thinned

LEMMA CreateKeeps ==
    ASSUME IInv, NEW u \in Users, CreateEntry(u)
    PROVE  Keeps
<1>1. PICK e \in Entries \ cache.allocated, k \in Keys, w \in Weights :
        /\ made[u] = NULL /\ cache' = Created(cache, e, k, w)
        /\ made' = [made EXCEPT ![u] = e] /\ UNCHANGED held
  BY DEF CreateEntry
<1>2. /\ Sound(cache', {}) /\ cache'.allocated = cache.allocated \cup {e}
      /\ cache'.table = cache.table /\ cache'.delete_pending = cache.delete_pending
      /\ cache'.ref_count = cache.ref_count /\ cache'.lru_list = cache.lru_list
      /\ cache'.cur_size = cache.cur_size /\ cache'.cur_weight = cache.cur_weight
  <2> DEFINE d == Created(cache, e, k, w)
  <2>1. Sound(cache, {})
    BY DEF IInv
  <2>2. /\ Sound(d, {}) /\ d.allocated = cache.allocated \cup {e}
        /\ d.table = cache.table /\ d.delete_pending = cache.delete_pending
        /\ d.ref_count = cache.ref_count /\ d.lru_list = cache.lru_list
        /\ d.cur_size = cache.cur_size /\ d.cur_weight = cache.cur_weight
        /\ d.key = [cache.key EXCEPT ![e] = k]
    BY <2>1, CreatedSound
  <2> HIDE DEF d
  <2>3. cache' = d
    BY <1>1 DEF d
  <2> QED BY <2>2, <2>3
<1>3. /\ made \in [Users -> Entries \cup {NULL}]
      /\ \A v \in Users : made'[v] = IF v = u THEN e ELSE made[v]
  BY <1>1 DEF IInv
<1>4. HeldExists'
  <2>1. \A f : Holders(f)' = Holders(f)
    BY <1>1 DEF Holders
  <2>2. ASSUME NEW f \in Entries
        PROVE  /\ cache'.ref_count[f] = Cardinality(Holders(f)')
               /\ Holders(f)' # {} => f \in cache'.table
    BY <1>2, <2>1 DEF IInv, HeldExists
  <2>3. /\ e \notin cache.table /\ e \notin cache.delete_pending /\ Holders(e) = {}
        /\ \A v \in Users : made[v] # e
    <3>1. /\ e \notin cache.table /\ e \notin cache.delete_pending /\ e # NULL
          /\ \A v \in Users : made[v] # NULL => made[v] \in cache.allocated
      BY InvFacts, ConstantFacts
    <3>2. Holders(e) = {}
      BY <3>1 DEF IInv, HeldExists
    <3> QED BY <3>1, <3>2
  <2>4. ASSUME NEW v \in Users, made'[v] # NULL
        PROVE  /\ made'[v] \in cache'.allocated \ (cache'.table \cup cache'.delete_pending)
               /\ Holders(made[v])' = {}
               /\ \A x \in Users \ {v} : made'[x] # made'[v]
    <3>1. CASE v = u
      <4>1. made'[v] = e /\ \A x \in Users \ {v} : made'[x] = made[x]
        BY <1>3, <3>1
      <4> QED BY <1>2, <2>1, <2>3, <4>1
    <3>2. CASE v # u
      <4>1. made'[v] = made[v] /\ made[v] # NULL
        BY <1>3, <2>4, <3>2
      <4>2. /\ made[v] \in cache.allocated \ (cache.table \cup cache.delete_pending)
            /\ Holders(made[v]) = {}
            /\ \A x \in Users \ {v} : made[x] # made[v]
        BY <4>1 DEF IInv, HeldExists
      <4>3. \A x \in Users \ {v} : made'[x] # made'[v]
        BY <1>3, <2>3, <4>1, <4>2
      <4> QED BY <1>2, <2>1, <4>1, <4>2, <4>3
    <3> QED BY <3>1, <3>2
  <2> QED BY <2>2, <2>4 DEF HeldExists
<1>5. made' \in [Users -> Entries \cup {NULL}] /\ held' \in [Users -> SUBSET Entries]
  BY <1>1 DEF IInv
<1>6. Ordered(cache.lru_list, cache'.lru_list)
  BY <1>2, SameKeeps, OrderedFacts DEF IInv
<1>7. cache'.cur_size <= max_size /\ cache'.cur_weight <= max_weight
  BY <1>2 DEF IInv
<1> QED BY <1>2, <1>4, <1>5, <1>6, <1>7 DEF IInv, Keeps

(* Entry e is held by u and, if u made it, not new any more.               *)
LEMMA InsertKeeps ==
    ASSUME IInv, NEW u \in Users, InsertEntry(u)
    PROVE  Keeps
<1>0. PICK e : e = made[u]
  OBVIOUS
<1>1. /\ Sound(cache, {}) /\ e \in Entries /\ e # NULL
      /\ e \in cache.allocated /\ e \notin cache.table /\ e \notin cache.delete_pending
      /\ Unreferenced(cache, e) /\ cache.cur_size <= max_size /\ cache.cur_weight <= max_weight
      /\ cache.cur_size \in Int /\ cache.cur_weight \in Int
      /\ max_size \in Nat /\ max_weight \in Nat
      /\ cache.table \subseteq Entries /\ cache.table \subseteq cache.allocated
  BY <1>0, InvFacts DEF InsertEntry, IInv
<1>2. CASE Fails(cache, e)
  <2> DEFINE d == Lightened(cache, e)
  <2>1. cache' = d /\ UNCHANGED <<made, held>>
    BY <1>0, <1>2 DEF InsertEntry, Inserted
  <2>2. Shrunk(cache, d)
    BY <1>1, LightenedShrunk
  <2>3. /\ Sound(d, {}) /\ d \in Caches
        /\ cache.allocated \ cache.table \subseteq d.allocated
        /\ d.table \subseteq cache.table /\ d.delete_pending \subseteq cache.delete_pending
        /\ \A f \in cache.table : ~Unreferenced(cache, f) => f \in d.table
        /\ \A f \in Entries : d.ref_count[f] = cache.ref_count[f]
        /\ d.cur_size <= cache.cur_size /\ d.cur_weight <= cache.cur_weight
        /\ Ending(cache.lru_list, d.lru_list)
    <3> HIDE DEF d
    <3> QED BY <1>1, <2>2, ShrunkFacts
  <2> HIDE DEF d
  <2>4. \A v \in Users : made[v] # NULL => made[v] \in cache.allocated \ cache.table
    BY InvFacts
  <2>5. HeldExists'
    <3>1. /\ \A v \in Users : made'[v] \in {made[v], NULL}
          /\ \A v \in Users : made'[v] # NULL => made[v] \in cache'.allocated
      BY <2>1, <2>3, <2>4
    <3>2. /\ cache'.delete_pending \subseteq cache.delete_pending \cup cache.table
          /\ cache'.table \subseteq cache.table
          /\ \A f \in cache.table : ~Unreferenced(cache, f) => f \in cache'.table
          /\ \A f \in Entries : cache'.ref_count[f] = cache.ref_count[f]
      BY <2>1, <2>3
    <3> QED BY <2>1, <3>1, <3>2, HeldKept
  <2>6. d.cur_size <= max_size /\ d.cur_weight <= max_weight
    <3>1. d.cur_size \in Int /\ d.cur_weight \in Int
      BY <2>3, CacheType
    <3> QED BY <1>1, <2>3, <3>1
  <2>7. Ordered(cache.lru_list, d.lru_list)
    BY <2>3, OrderedFacts DEF Ending
  <2>8. made' \in [Users -> Entries \cup {NULL}] /\ held' \in [Users -> SUBSET Entries]
    BY <2>1 DEF IInv
  <2> QED BY <2>1, <2>3, <2>5, <2>6, <2>7, <2>8 DEF IInv, Keeps
<1>3. CASE ~Fails(cache, e)
  <2> DEFINE d == Inserted(cache, e)
  <2>1. /\ cache' = d /\ held' = [held EXCEPT ![u] = @ \cup {e}]
        /\ made' = [made EXCEPT ![u] = NULL]
    BY <1>0, <1>3 DEF InsertEntry
  <2>2. /\ Sound(d, {}) /\ e \in d.table
        /\ d.delete_pending \subseteq cache.delete_pending \cup cache.table
        /\ cache.allocated \ cache.table \subseteq d.allocated
        /\ d.allocated \subseteq cache.allocated
        /\ d.table \subseteq cache.table \cup {e}
        /\ \A f \in cache.table : ~Unreferenced(cache, f) => f \in d.table
        /\ \A f \in Entries :
             d.ref_count[f] = IF f = e THEN 1 ELSE cache.ref_count[f]
        /\ d.cur_size <= max_size /\ d.cur_weight <= max_weight
        /\ \E m : /\ Ending(cache.lru_list, m) /\ Thinned(m, d.lru_list)
                  /\ \A f \in ToSet(m) : f \in cache.table /\
                       (cache.key[f] # cache.key[e] => f \in ToSet(d.lru_list))
    BY <1>1, <1>3, InsertedSound
  <2> HIDE DEF d
  <2>3. /\ \A v \in Users : made'[v] = IF v = u THEN NULL ELSE made[v]
        /\ \A v \in Users : held'[v] = IF v = u THEN held[u] \cup {e} ELSE held[v]
        /\ made' \in [Users -> Entries \cup {NULL}] /\ held' \in [Users -> SUBSET Entries]
    BY <1>1, <2>1 DEF IInv
  <2>4. Cardinality(Holders(e)') = 1 /\ \A f : f # e => Holders(f)' = Holders(f)
    <3>1. Holders(e) = {} /\ e \notin held[u]
      BY <1>1, InvFacts DEF Holders
    <3>2. /\ Holders(e)' = {u} /\ \A f : f # e => Holders(f)' = Holders(f)
      BY <2>3, <3>1 DEF Holders
    <3> QED BY <3>2, FS_Singleton
  <2>5. ASSUME NEW f \in Entries
        PROVE  /\ cache'.ref_count[f] = Cardinality(Holders(f)')
               /\ Holders(f)' # {} => f \in cache'.table
    <3>1. CASE f = e
      BY <2>1, <2>2, <2>4, <3>1
    <3>2. CASE f # e
      <4>1. /\ cache.ref_count[f] = Cardinality(Holders(f))
            /\ Holders(f) # {} => f \in cache.table /\ ~Unreferenced(cache, f)
        BY InvFacts DEF IInv, HeldExists
      <4> QED BY <2>1, <2>2, <2>4, <3>2, <4>1
    <3> QED BY <3>1, <3>2
  <2>6. ASSUME NEW v \in Users, made'[v] # NULL
        PROVE  /\ made'[v] \in cache'.allocated \ (cache'.table \cup cache'.delete_pending)
               /\ Holders(made[v])' = {}
               /\ \A x \in Users \ {v} : made'[x] # made'[v]
    <3>1. made'[v] = made[v] /\ v # u /\ made[v] # NULL
      BY <2>3, <2>6
    <3>2. /\ made[v] \in cache.allocated \ (cache.table \cup cache.delete_pending)
          /\ Holders(made[v]) = {}
          /\ \A x \in Users \ {v} : made[x] # made[v]
      BY <3>1 DEF IInv, HeldExists
    <3>3. made[v] # e
      BY <1>0, <3>1, <3>2
    <3>4. \A x \in Users \ {v} : made'[x] # made'[v]
      BY <2>3, <3>1, <3>2
    <3>5. Holders(made[v])' = {}
      BY <2>4, <3>1, <3>2, <3>3
    <3> QED BY <2>1, <2>2, <3>1, <3>2, <3>3, <3>4, <3>5
  <2>7. HeldExists'
    BY <2>5, <2>6 DEF HeldExists
  <2>8. Ordered(cache.lru_list, d.lru_list)
    <3>1. PICK m : Ending(cache.lru_list, m) /\ Thinned(m, d.lru_list)
      BY <2>2
    <3> QED BY <3>1, OrderedFacts DEF Ending
  <2> QED BY <2>1, <2>2, <2>3, <2>7, <2>8 DEF IInv, Keeps
<1> QED BY <1>2, <1>3

(* What deletion does to the cache the users see.                          *)
LEMMA DeleteFacts ==
    ASSUME IInv, NEW e \in cache.allocated
    PROVE  LET d == Deleted(cache, e) IN
           /\ Sound(d, {}) /\ Ordered(cache.lru_list, d.lru_list)
           /\ d.table \subseteq cache.table
           /\ d.delete_pending \subseteq
                IF Unreferenced(cache, e) THEN cache.delete_pending
                ELSE cache.delete_pending \cup {e}
           /\ cache.allocated \ {e} \subseteq d.allocated
           /\ \A f \in cache.table : ~Unreferenced(cache, f) => f \in d.table
           /\ \A f \in Entries : d.ref_count[f] = cache.ref_count[f]
           /\ d.cur_size <= max_size /\ d.cur_weight <= max_weight
<1> DEFINE d == Deleted(cache, e)
<1>1. /\ cache \in Caches /\ Sound(cache, {}) /\ cache.table \subseteq Entries
      /\ cache.cur_size \in Int /\ cache.cur_weight \in Int
      /\ max_size \in Nat /\ max_weight \in Nat /\ e \in Entries
      /\ cache.cur_size <= max_size /\ cache.cur_weight <= max_weight
  BY InvFacts DEF IInv
<1>2. Sound(cache, {e})
  BY <1>1 DEF Sound, PendingBut
<1>3. /\ Sound(d, {}) /\ (Unreferenced(cache, e) => Without(cache, d, {e}))
      /\ Thinned(cache.lru_list, d.lru_list)
  BY <1>2, DeletedSound
<1>4. ~Unreferenced(cache, e) => d = [cache EXCEPT !.delete_pending = @ \cup {e}]
  BY DEF Deleted
<1> HIDE DEF d
<1>5. Ordered(cache.lru_list, d.lru_list)
  BY <1>3, OrderedFacts
<1>6. CASE Unreferenced(cache, e)
  <2>1. Without(cache, d, {e})
    BY <1>3, <1>6
  <2>2. d.cur_size \in Int /\ d.cur_weight \in Int
    BY <1>3, CacheType DEF Sound
  <2>3. d.cur_size <= max_size /\ d.cur_weight <= max_weight
    <3>1. d.cur_size <= cache.cur_size /\ d.cur_weight <= cache.cur_weight
      BY <2>1 DEF Without
    <3> QED BY <1>1, <2>2, <3>1
  <2>4. /\ d.table = cache.table \ {e} /\ d.delete_pending = cache.delete_pending \ {e}
        /\ d.allocated = cache.allocated \ {e}
        /\ \A f \in Entries : d.ref_count[f] = cache.ref_count[f]
    BY <2>1 DEF Without
  <2> QED BY <1>3, <1>5, <1>6, <2>3, <2>4 DEF d
<1>7. CASE ~Unreferenced(cache, e)
  <2>1. d = [cache EXCEPT !.delete_pending = @ \cup {e}]
    BY <1>4, <1>7
  <2>2. /\ d.table = cache.table /\ d.delete_pending = cache.delete_pending \cup {e}
        /\ d.allocated = cache.allocated /\ d.ref_count = cache.ref_count
        /\ d.cur_size = cache.cur_size /\ d.cur_weight = cache.cur_weight
    BY <1>1, <2>1 DEF Caches
  <2> QED BY <1>1, <1>3, <1>5, <1>7, <2>2 DEF d
<1> QED BY <1>6, <1>7

(* A deletion that changes no reference.                                   *)
LEMMA DeleteKeeps ==
    ASSUME IInv, NEW e \in cache.allocated, cache' = Deleted(cache, e),
           UNCHANGED held, ~Unreferenced(cache, e) => e \in cache.table,
           \A u \in Users : made'[u] \in {made[u], NULL} \ {e},
           made' \in [Users -> Entries \cup {NULL}]
    PROVE  Keeps
<1> DEFINE d == Deleted(cache, e)
<1>1. /\ Sound(d, {}) /\ Ordered(cache.lru_list, d.lru_list)
      /\ d.table \subseteq cache.table
      /\ d.delete_pending \subseteq
           IF Unreferenced(cache, e) THEN cache.delete_pending
           ELSE cache.delete_pending \cup {e}
      /\ cache.allocated \ {e} \subseteq d.allocated
      /\ \A f \in cache.table : ~Unreferenced(cache, f) => f \in d.table
      /\ \A f \in Entries : d.ref_count[f] = cache.ref_count[f]
      /\ d.cur_size <= max_size /\ d.cur_weight <= max_weight
  BY DeleteFacts
<1> HIDE DEF d
<1>2. cache' = d
  BY DEF d
<1>3. HeldExists'
  <2>1. /\ \A u \in Users : made'[u] \in {made[u], NULL}
        /\ \A u \in Users : made'[u] # NULL => made[u] \in cache'.allocated
    BY <1>1, <1>2, InvFacts
  <2>2. cache'.delete_pending \subseteq cache.delete_pending \cup cache.table
    BY <1>1, <1>2
  <2>3. /\ cache'.table \subseteq cache.table
        /\ \A f \in cache.table : ~Unreferenced(cache, f) => f \in cache'.table
        /\ \A f \in Entries : cache'.ref_count[f] = cache.ref_count[f]
    BY <1>1, <1>2
  <2> QED BY <2>1, <2>2, <2>3, HeldKept
<1>4. held' \in [Users -> SUBSET Entries]
  BY DEF IInv
<1> QED BY <1>1, <1>2, <1>3, <1>4 DEF IInv, Keeps

LEMMA DiscardKeeps ==
    ASSUME IInv, NEW u \in Users, DiscardEntry(u)
    PROVE  Keeps
<1>1. PICK e : e = made[u]
  OBVIOUS
<1>2. /\ e # NULL /\ cache' = Deleted(cache, e) /\ UNCHANGED held
      /\ made' = [made EXCEPT ![u] = NULL]
  BY <1>1 DEF DiscardEntry
<1>3. /\ e \in cache.allocated /\ e \in Entries /\ Unreferenced(cache, e)
      /\ \A v \in Users \ {u} : made[v] # e
  BY <1>1, <1>2, InvFacts DEF IInv, HeldExists
<1>4. /\ made' \in [Users -> Entries \cup {NULL}]
      /\ \A v \in Users : made'[v] = IF v = u THEN NULL ELSE made[v]
  BY <1>2 DEF IInv
<1>5. \A v \in Users : made'[v] \in {made[v], NULL} \ {e}
  BY <1>2, <1>3, <1>4
<1> QED BY <1>2, <1>3, <1>4, <1>5, DeleteKeeps

LEMMA DeleteHeldKeeps ==
    ASSUME IInv, NEW u \in Users, DeleteHeldEntry(u)
    PROVE  Keeps
<1>1. PICK e \in held[u] : cache' = Deleted(cache, e) /\ UNCHANGED <<made, held>>
  BY DEF DeleteHeldEntry
<1>2. e \in cache.table /\ e \in cache.allocated /\ e \in Entries
  BY InvFacts
<1>3. /\ made' \in [Users -> Entries \cup {NULL}]
      /\ \A v \in Users : made'[v] \in {made[v], NULL} \ {e}
  <2>1. \A v \in Users : made[v] # e
    BY <1>2, InvFacts, ConstantFacts
  <2> QED BY <1>1, <2>1, <1>2, ConstantFacts DEF IInv
<1> QED BY <1>1, <1>2, <1>3, DeleteKeeps

LEMMA DeleteLruKeeps ==
    ASSUME IInv, DeleteLruEntry
    PROVE  Keeps
<1>1. PICK e : e = Head(cache.lru_list)
  OBVIOUS
<1>2. /\ cache.lru_list # <<>> /\ cache' = Deleted(cache, e) /\ UNCHANGED <<made, held>>
  BY <1>1 DEF DeleteLruEntry
<1>3. e \in Entries /\ e \in cache.table /\ e \in cache.allocated
  <2>1. /\ cache.lru_list \in Seq(Entries) /\ LruExact(cache)
        /\ cache.table \subseteq cache.allocated
    BY CacheType DEF IInv, Sound
  <2>2. e \in Entries /\ e \in ToSet(cache.lru_list)
    BY <1>1, <1>2, <2>1, TailLemma DEF LruExact
  <2> QED BY <2>1, <2>2 DEF LruExact
<1>4. /\ made' \in [Users -> Entries \cup {NULL}]
      /\ \A v \in Users : made'[v] \in {made[v], NULL} \ {e}
  <2>1. \A v \in Users : made[v] # e
    BY <1>3, InvFacts, ConstantFacts
  <2> QED BY <1>2, <1>3, <2>1, ConstantFacts DEF IInv
<1> QED BY <1>2, <1>3, <1>4, DeleteKeeps

LEMMA EmptyKeeps ==
    ASSUME IInv, EmptyCache
    PROVE  Keeps
<1> DEFINE d == Emptied(cache)
<1>1. /\ cache \in Caches /\ Sound(cache, {}) /\ cache.table \subseteq Entries
      /\ cache.cur_size \in Int /\ cache.cur_weight \in Int
      /\ max_size \in Nat /\ max_weight \in Nat
      /\ cache.cur_size <= max_size /\ cache.cur_weight <= max_weight
  BY InvFacts DEF IInv
<1>2. /\ Sound(d, {}) /\ Thinned(cache.lru_list, d.lru_list)
      /\ d.delete_pending \subseteq cache.delete_pending \cup cache.table
      /\ d.table \subseteq d.delete_pending
      /\ \A f \in cache.allocated : f \in d.allocated <=>
           f \notin cache.table \/ ~Unreferenced(cache, f)
      /\ d.allocated \subseteq cache.allocated
      /\ \A f \in cache.table : f \in d.table <=> ~Unreferenced(cache, f)
      /\ d.table \subseteq cache.table
      /\ \A f \in Entries : d.ref_count[f] = cache.ref_count[f]
      /\ \A f \in Entries : d.key[f] =
           IF f \in cache.table /\ Unreferenced(cache, f) THEN NULL ELSE cache.key[f]
      /\ d.cur_size <= cache.cur_size /\ d.cur_weight <= cache.cur_weight
  BY <1>1, EmptiedSound
<1> HIDE DEF d
<1>3. cache' = d /\ UNCHANGED <<made, held>>
  BY DEF EmptyCache, d
<1>4. HeldExists'
  <2>1. /\ \A u \in Users : made'[u] \in {made[u], NULL}
        /\ \A u \in Users : made'[u] # NULL => made[u] \in cache'.allocated
    BY <1>2, <1>3, InvFacts
  <2>2. /\ cache'.delete_pending \subseteq cache.delete_pending \cup cache.table
        /\ cache'.table \subseteq cache.table
        /\ \A f \in cache.table : ~Unreferenced(cache, f) => f \in cache'.table
        /\ \A f \in Entries : cache'.ref_count[f] = cache.ref_count[f]
    BY <1>2, <1>3
  <2> QED BY <1>3, <2>1, <2>2, HeldKept
<1>5. d.cur_size <= max_size /\ d.cur_weight <= max_weight
  <2>1. d.cur_size \in Int /\ d.cur_weight \in Int
    BY <1>2, CacheType DEF Sound
  <2> QED BY <1>1, <1>2, <2>1
<1>6. Ordered(cache.lru_list, d.lru_list)
  BY <1>2, OrderedFacts
<1>7. made' \in [Users -> Entries \cup {NULL}] /\ held' \in [Users -> SUBSET Entries]
  BY <1>3 DEF IInv
<1> QED BY <1>2, <1>3, <1>4, <1>5, <1>6, <1>7 DEF IInv, Keeps

LEMMA LookupKeeps ==
    ASSUME IInv, NEW u \in Users, NEW k \in Keys, LookupEntry(u, k)
    PROVE  Keeps
<1>1. PICK e \in Hits(cache, k) \ held[u] :
        /\ cache' = Taken(cache, e)
        /\ held' = [held EXCEPT ![u] = @ \cup {e}]
        /\ UNCHANGED made
  BY DEF LookupEntry
<1>2. /\ e \in cache.table /\ e \notin cache.delete_pending /\ e \notin held[u]
      /\ e \in Entries
  BY InvFacts DEF Hits
<1> DEFINE d == Taken(cache, e)
<1>3. /\ Sound(d, {}) /\ d.allocated = cache.allocated
      /\ d.table = cache.table /\ d.delete_pending = cache.delete_pending
      /\ d.ref_count = [cache.ref_count EXCEPT ![e] = @ + 1]
      /\ d.cur_size = cache.cur_size /\ d.cur_weight = cache.cur_weight
      /\ d.key = cache.key /\ Thinned(cache.lru_list, d.lru_list)
  <2>1. Sound(cache, {})
    BY DEF IInv
  <2> QED BY <1>2, <2>1, TakenSound
<1> HIDE DEF d
<1>4. cache' = d
  BY <1>1 DEF d
<1>5. /\ Cardinality(Holders(e)') = cache.ref_count[e] + 1
      /\ \A f : f # e => Holders(f)' = Holders(f)
  BY <1>1, <1>2, HoldersStep
<1>6. \A f \in Entries : /\ cache'.ref_count[f] = Cardinality(Holders(f)')
                         /\ Holders(f)' # {} => f \in cache'.table
  <2>1. cache.ref_count \in [Entries -> Nat]
    BY InvFacts
  <2>2. \A f \in Entries : /\ cache.ref_count[f] = Cardinality(Holders(f))
                           /\ Holders(f) # {} => f \in cache.table
    BY DEF IInv, HeldExists
  <2> QED BY <1>2, <1>3, <1>4, <1>5, <2>1, <2>2
<1>7. ASSUME NEW v \in Users, made'[v] # NULL
      PROVE  /\ made'[v] \in cache'.allocated \ (cache'.table \cup cache'.delete_pending)
             /\ Holders(made[v])' = {}
             /\ \A x \in Users \ {v} : made'[x] # made'[v]
  <2>1. /\ made[v] \in cache.allocated \ (cache.table \cup cache.delete_pending)
        /\ Holders(made[v]) = {}
        /\ \A x \in Users \ {v} : made[x] # made[v]
    BY <1>1, <1>7 DEF IInv, HeldExists
  <2>2. made[v] # e
    BY <1>2, <2>1
  <2> QED BY <1>1, <1>3, <1>4, <1>5, <2>1, <2>2
<1>8. HeldExists'
  BY <1>6, <1>7 DEF HeldExists
<1>9. made' \in [Users -> Entries \cup {NULL}] /\ held' \in [Users -> SUBSET Entries]
  BY <1>1, <1>2 DEF IInv
<1>10. /\ Ordered(cache.lru_list, d.lru_list)
       /\ d.cur_size <= max_size /\ d.cur_weight <= max_weight
  BY <1>3, OrderedFacts DEF IInv
<1> QED BY <1>3, <1>4, <1>8, <1>9, <1>10 DEF IInv, Keeps

LEMMA ReleaseKeeps ==
    ASSUME IInv, NEW u \in Users, ReleaseEntry(u)
    PROVE  Keeps
<1>1. PICK e \in held[u] :
        /\ cache' = Released(cache, e)
        /\ held' = [held EXCEPT ![u] = @ \ {e}]
        /\ UNCHANGED made
  BY DEF ReleaseEntry
<1>2. e \in cache.table /\ ~Unreferenced(cache, e) /\ e \in Entries
  BY InvFacts
<1> DEFINE d == Released(cache, e)
           gone == cache.ref_count[e] = 1 /\ e \in cache.delete_pending
<1>3. /\ Sound(d, {}) /\ Ordered(cache.lru_list, d.lru_list)
      /\ d.allocated = IF gone THEN cache.allocated \ {e} ELSE cache.allocated
      /\ d.table = IF gone THEN cache.table \ {e} ELSE cache.table
      /\ d.delete_pending =
           IF gone THEN cache.delete_pending \ {e} ELSE cache.delete_pending
      /\ \A f \in Entries :
           d.ref_count[f] = IF f = e THEN cache.ref_count[e] - 1 ELSE cache.ref_count[f]
      /\ \A f \in Entries :
           d.key[f] = IF gone /\ f = e THEN NULL ELSE cache.key[f]
      /\ d.cur_size <= cache.cur_size /\ d.cur_weight <= cache.cur_weight
  <2>1. Sound(cache, {})
    BY DEF IInv
  <2> QED BY <1>2, <2>1, ReleasedSound
<1> HIDE DEF d
<1>4. cache' = d
  BY <1>1 DEF d
<1>5. /\ Cardinality(Holders(e)') = cache.ref_count[e] - 1
      /\ \A f : f # e => Holders(f)' = Holders(f)
  BY <1>1, <1>2, HoldersStep
<1>6. \A f \in Entries : /\ cache'.ref_count[f] = Cardinality(Holders(f)')
                         /\ Holders(f)' # {} => f \in cache'.table
  <2>1. cache.ref_count \in [Entries -> Nat]
    BY InvFacts
  <2>2. \A f \in Entries : /\ cache.ref_count[f] = Cardinality(Holders(f))
                           /\ Holders(f) # {} => f \in cache.table
    BY DEF IInv, HeldExists
  <2>3. gone => Holders(e)' = {}
    <3>1. IsFiniteSet(Holders(e)')
      BY ConstantFacts, FS_Subset DEF Holders
    <3>2. Cardinality(Holders(e)') = 0 => Holders(e)' = {}
      BY <3>1, FS_EmptySet
    <3> QED BY <1>5, <3>2
  <2> HIDE DEF gone
  <2>4. ASSUME NEW f \in Entries, f = e
        PROVE  /\ cache'.ref_count[f] = Cardinality(Holders(f)')
               /\ Holders(f)' # {} => f \in cache'.table
    BY <1>2, <1>3, <1>4, <1>5, <2>3, <2>4
  <2>5. ASSUME NEW f \in Entries, f # e
        PROVE  /\ cache'.ref_count[f] = Cardinality(Holders(f)')
               /\ Holders(f)' # {} => f \in cache'.table
    BY <1>3, <1>4, <1>5, <2>2, <2>5
  <2> QED BY <2>4, <2>5
<1>7. ASSUME NEW v \in Users, made'[v] # NULL
      PROVE  /\ made'[v] \in cache'.allocated \ (cache'.table \cup cache'.delete_pending)
             /\ Holders(made[v])' = {}
             /\ \A x \in Users \ {v} : made'[x] # made'[v]
  <2>1. /\ made[v] \in cache.allocated \ (cache.table \cup cache.delete_pending)
        /\ Holders(made[v]) = {}
        /\ \A x \in Users \ {v} : made[x] # made[v]
    BY <1>1, <1>7 DEF IInv, HeldExists
  <2>2. made[v] # e
    BY <1>2, <2>1
  <2> HIDE DEF gone
  <2> QED BY <1>1, <1>3, <1>4, <1>5, <2>1, <2>2
<1>8. HeldExists'
  BY <1>6, <1>7 DEF HeldExists
<1>9. made' \in [Users -> Entries \cup {NULL}] /\ held' \in [Users -> SUBSET Entries]
  BY <1>1, <1>2 DEF IInv
<1>10. d.cur_size <= max_size /\ d.cur_weight <= max_weight
  <2>1. /\ cache.cur_size \in Int /\ cache.cur_weight \in Int
        /\ max_size \in Nat /\ max_weight \in Nat
        /\ cache.cur_size <= max_size /\ cache.cur_weight <= max_weight
    BY InvFacts DEF IInv
  <2>2. d.cur_size \in Int /\ d.cur_weight \in Int
    BY <1>3, CacheType DEF Sound
  <2>3. d.cur_size <= cache.cur_size /\ d.cur_weight <= cache.cur_weight
    BY <1>3
  <2> QED BY <2>1, <2>2, <2>3
<1> QED BY <1>3, <1>4, <1>8, <1>9, <1>10 DEF IInv, Keeps

-----------------------------------------------------------------------------
LEMMA NewSound ==
    /\ Sound(NewCache, {}) /\ NewCache.allocated = {} /\ NewCache.table = {}
    /\ NewCache.delete_pending = {}
    /\ NewCache.cur_size = 0 /\ NewCache.cur_weight = 0
<1> DEFINE c == NewCache
<1>1. c \in Caches
  BY DEF NewCache, Caches
<1>2. /\ c.allocated = {} /\ c.delete_pending = {} /\ c.table = {} /\ c.lru_list = <<>>
      /\ c.ref_count = [e \in Entries |-> 0] /\ c.cur_size = 0 /\ c.cur_weight = 0
  BY DEF NewCache
<1> HIDE DEF c
<1>3. LruExact(c)
  <2>1. <<>> \in Seq(Entries) /\ Len(<<>>) = 0
    OBVIOUS
  <2> QED BY <1>2, <2>1, EmptyLemma DEF LruExact
<1>4. SumsExact(c)
  <2>1. IsFiniteSet({}) /\ Cardinality({}) = 0
    BY FS_EmptySet
  <2>2. Total(c.weight, {}) = 0
    BY <2>1, TotalDef
  <2> QED BY <1>2, <2>1, <2>2 DEF SumsExact
<1>5. PendingBut(c, {}) /\ OneLivePerKey(c)
  BY <1>2 DEF PendingBut, OneLivePerKey
<1>6. Sound(c, {})
  BY <1>1, <1>2, <1>3, <1>4, <1>5 DEF Sound
<1> QED BY <1>2, <1>6 DEF c

LEMMA InitInv == Init => IInv
<1> SUFFICES ASSUME Init PROVE IInv
  OBVIOUS
<1>1. /\ cache = NewCache /\ made = [u \in Users |-> NULL]
      /\ held = [u \in Users |-> {}]
  BY DEF Init
<1>2. HeldExists
  <2>1. \A e : Holders(e) = {}
    BY <1>1 DEF Holders
  <2>2. cache.ref_count = [e \in Entries |-> 0]
    BY <1>1 DEF NewCache
  <2>3. Cardinality({}) = 0
    BY FS_EmptySet
  <2> QED BY <1>1, <2>1, <2>2, <2>3, NewSound DEF HeldExists
<1> QED BY <1>1, <1>2, NewSound, ConstantFacts DEF IInv

LEMMA NextKeeps == IInv /\ Next => Keeps
BY CreateKeeps, InsertKeeps, DiscardKeeps, LookupKeeps, ReleaseKeeps,
   DeleteHeldKeeps, DeleteLruKeeps, EmptyKeeps DEF Next

(* The invariant holds whatever the users do.                              *)
THEOREM InductiveInvariant == Spec => []IInv
<1>1. IInv /\ [Next]_vars => IInv'
  <2>1. CASE Next
    BY <2>1, NextKeeps DEF Keeps
  <2>2. ASSUME IInv, UNCHANGED vars PROVE IInv'
    BY <2>2 DEF IInv, HeldExists, Holders, vars
  <2> QED BY <2>1, <2>2
<1> QED BY <1>1, InitInv, PTL DEF Spec

(* The cache agrees with its users after any sequence of calls             *)
(* (lrucache.c:192-309).                                                   *)
THEOREM CacheAgrees == Spec => []CacheCorrect
<1>1. IInv => CacheCorrect
  BY DEF IInv, CacheCorrect, CacheConsistent, Sound, PendingBut, PendingInUse
<1> QED BY <1>1, InductiveInvariant, PTL

(* Size and weight are what is in the table, within their limits           *)
(* (lrucache.c:266-285).                                                   *)
THEOREM CacheLimited == Spec => []CacheWithinLimits
<1>1. ASSUME IInv PROVE CacheWithinLimits
  <2>1. TotalWeight(cache, cache.table) = Total(cache.weight, cache.table)
    BY <1>1, InvFacts, WeightFacts
  <2> QED BY <1>1, <2>1 DEF IInv, CacheWithinLimits, WithinLimits, Sound, SumsExact
<1> QED BY <1>1, InductiveInvariant, PTL

(* An insertion evicts what was used before whatever it evicts.            *)
LEMMA InsertEvicts ==
    ASSUME IInv, NEW u \in Users, InsertEntry(u), NEW e, NEW f,
           Before(cache.lru_list, e, f), f \notin ToSet(cache'.lru_list),
           cache.key[made[u]] # cache.key[f]
    PROVE  e \notin ToSet(cache'.lru_list)
<1> DEFINE x == made[u]
<1>1. /\ Sound(cache, {}) /\ x \in cache.allocated /\ x \notin cache.table
      /\ x \notin cache.delete_pending /\ Unreferenced(cache, x)
      /\ cache.cur_size <= max_size
  BY InvFacts DEF InsertEntry, IInv
<1>2. CASE Fails(cache, x)
  <2>1. cache' = Lightened(cache, x)
    BY <1>2 DEF InsertEntry, Inserted
  <2>2. Ending(cache.lru_list, cache'.lru_list)
    BY <1>1, <2>1, LightenedShrunk DEF Shrunk
  <2> QED BY <2>2 DEF Ending
<1>3. CASE ~Fails(cache, x)
  <2> DEFINE d == Inserted(cache, x)
  <2>1. cache' = d
    BY <1>3 DEF InsertEntry
  <2>2. /\ Sound(d, {}) /\ x \in d.table
        /\ d.delete_pending \subseteq cache.delete_pending \cup cache.table
        /\ cache.allocated \ cache.table \subseteq d.allocated
        /\ d.allocated \subseteq cache.allocated
        /\ d.table \subseteq cache.table \cup {x}
        /\ \A y \in cache.table : ~Unreferenced(cache, y) => y \in d.table
        /\ \A y \in Entries :
             d.ref_count[y] = IF y = x THEN 1 ELSE cache.ref_count[y]
        /\ d.cur_size <= max_size /\ d.cur_weight <= max_weight
        /\ \E m : /\ Ending(cache.lru_list, m) /\ Thinned(m, d.lru_list)
                  /\ \A y \in ToSet(m) : y \in cache.table /\
                       (cache.key[y] # cache.key[x] => y \in ToSet(d.lru_list))
    BY <1>1, <1>3, InsertedSound
  <2> HIDE DEF d
  <2>3. PICK m : /\ Ending(cache.lru_list, m) /\ Thinned(m, d.lru_list)
                 /\ \A y \in ToSet(m) : y \in cache.table /\
                      (cache.key[y] # cache.key[x] => y \in ToSet(d.lru_list))
    BY <2>2
  <2>4. f \notin ToSet(m)
    BY <2>1, <2>3
  <2>5. e \notin ToSet(m)
    BY <2>3, <2>4 DEF Ending
  <2> QED BY <2>1, <2>3, <2>5 DEF Thinned
<1> QED BY <1>2, <1>3

(* Entries are evicted in the order of their last use                      *)
(* (lrucache.c:249-250, 266-285).                                          *)
THEOREM EvictedInOrder == Spec => EvictionInOrder
<1> DEFINE
      old == cache.lru_list
      new == cache'.lru_list
      Evicting == \E u \in Users : made[u] # NULL /\ InsertEntry(u)
      Replaced(f) == \E u \in Users : made[u] # NULL /\ cache.key[made[u]] = cache.key[f]
      InOrder ==
          /\ \A e, f \in ToSet(old) : Before(old, e, f) =>
               /\ {e, f} \subseteq ToSet(new) => Before(new, e, f)
               /\ Evicting /\ f \notin ToSet(new) /\ ~Replaced(f) => e \notin ToSet(new)
          /\ \A e \in ToSet(old), f \in ToSet(new) \ ToSet(old) :
               e \in ToSet(new) => Before(new, e, f)
<1>1. ASSUME IInv, Next PROVE InOrder
  <2>1. Ordered(old, new)
    BY <1>1, NextKeeps DEF Keeps
  <2>2. ASSUME NEW e, NEW f, Before(old, e, f), Evicting, f \notin ToSet(new),
               ~Replaced(f)
        PROVE  e \notin ToSet(new)
    <3>1. PICK u \in Users : made[u] # NULL /\ InsertEntry(u)
      BY <2>2
    <3>2. cache.key[made[u]] # cache.key[f]
      BY <2>2, <3>1
    <3> QED BY <1>1, <2>2, <3>1, <3>2, InsertEvicts
  <2> HIDE DEF Evicting, Replaced
  <2> QED BY <2>1, <2>2 DEF Ordered
<1>2. IInv /\ [Next]_vars => [InOrder]_vars
  BY <1>1
<1> QED BY <1>2, InductiveInvariant, PTL DEF Spec, EvictionInOrder

-----------------------------------------------------------------------------
(* The refinement of SharedCache.  What a key may find, and what is the    *)
(* same of the entries that stay.                                          *)
Live(c) == c.table \ c.delete_pending

Kept(c, d) ==
    /\ d.allocated \subseteq c.allocated
    /\ \A f \in c.table : f \in d.allocated => f \in d.table
    /\ \A f \in Entries :
         d.key[f] = IF f \in c.allocated /\ f \notin d.allocated THEN NULL ELSE c.key[f]

LEMMA DeletedLive ==
    ASSUME NEW c, NEW e, Sound(c, {e}), e \in c.allocated
    PROVE  Kept(c, Deleted(c, e)) /\ Live(Deleted(c, e)) = Live(c) \ {e}
<1> DEFINE d == Deleted(c, e)
<1>1. c \in Caches /\ e \in Entries
  BY CacheType DEF Sound
<1>2. /\ Unreferenced(c, e) => Without(c, d, {e})
      /\ ~Unreferenced(c, e) => d = [c EXCEPT !.delete_pending = @ \cup {e}]
  BY DeletedSound DEF Deleted
<1> HIDE DEF d
<1>3. CASE Unreferenced(c, e)
  <2>1. Without(c, d, {e})
    BY <1>2, <1>3
  <2>2. Kept(c, d)
    BY <1>1, <2>1 DEF Without, Kept
  <2>3. Live(d) = Live(c) \ {e}
    BY <2>1 DEF Without, Live
  <2> QED BY <2>2, <2>3 DEF d
<1>4. CASE ~Unreferenced(c, e)
  <2>1. /\ d.delete_pending = c.delete_pending \cup {e} /\ d.table = c.table
        /\ d.key = c.key /\ d.allocated = c.allocated
    BY <1>1, <1>2, <1>4 DEF Caches
  <2>2. Kept(c, d) /\ Live(d) = Live(c) \ {e}
    BY <2>1 DEF Kept, Live
  <2> QED BY <2>2 DEF d
<1> QED BY <1>3, <1>4

LEMMA ShrunkLive ==
    ASSUME NEW c, Sound(c, {}), NEW d, Shrunk(c, d)
    PROVE  /\ Kept(c, d) /\ Live(d) \subseteq Live(c)
           /\ \A f \in Live(c) : f \in Live(d) \/ Unreferenced(c, f)
<1>1. PICK S \in SUBSET c.table : Without(c, d, S)
  BY DEF Shrunk
<1>2. c.table \subseteq c.allocated
  BY DEF Sound
<1> QED BY <1>1, <1>2 DEF Without, Kept, Live

LEMMA LinkedLive ==
    ASSUME NEW c, Sound(c, {}), NEW e, e \in c.allocated, e \notin c.table,
           e \notin c.delete_pending, Unreferenced(c, e)
    PROVE  /\ Kept(c, Linked(c, e)) /\ e \in Live(Linked(c, e))
           /\ Live(Linked(c, e)) \subseteq Live(c) \cup {e}
           /\ \A f \in Live(c) : f \in Live(Linked(c, e)) \/ c.key[f] = c.key[e]
<1> DEFINE old == Hits(c, c.key[e])
           o == CHOOSE o \in old : TRUE
           d == IF old = {} THEN c ELSE Deleted(c, o)
           b == [d EXCEPT !.table = @ \cup {e}, !.ref_count[e] = @ + 1,
                          !.cur_size = @ + 1, !.cur_weight = @ + c.weight[e]]
<1>1. Linked(c, e) = b
  BY DEF Linked
<1>2. /\ d \in Caches /\ Kept(c, d) /\ Live(d) \subseteq Live(c)
      /\ \A f \in Live(c) : f \in Live(d) \/ c.key[f] = c.key[e]
      /\ e \notin d.delete_pending
  <2>1. CASE old = {}
    <3>1. d = c
      BY <2>1
    <3> HIDE DEF d
    <3> QED BY <3>1 DEF Kept, Sound
  <2>2. CASE old # {}
    <3>1. o \in c.table /\ o \notin c.delete_pending /\ c.key[o] = c.key[e] /\ o # e
      <4>1. o \in old
        BY <2>2
      <4> HIDE DEF o
      <4> QED BY <4>1 DEF Hits
    <3>2. d = Deleted(c, o)
      BY <2>2
    <3> HIDE DEF d, o, old
    <3>3. Sound(c, {o}) /\ o \in c.allocated
      BY <3>1 DEF Sound, PendingBut
    <3>4. Kept(c, d) /\ Live(d) = Live(c) \ {o}
      BY <3>2, <3>3, DeletedLive
    <3>5. Sound(d, {})
      BY <3>2, <3>3, DeletedSound
    <3>6. e \notin d.delete_pending
      <4>1. CASE Unreferenced(c, o)
        BY <3>2, <3>3, <4>1, DeletedSound DEF Without
      <4>2. CASE ~Unreferenced(c, o)
        <5>1. d = [c EXCEPT !.delete_pending = @ \cup {o}]
          BY <3>2, <4>2 DEF Deleted
        <5>2. d.delete_pending = c.delete_pending \cup {o}
          BY <5>1 DEF Sound, Caches
        <5> QED BY <3>1, <5>2
      <4> QED BY <4>1, <4>2
    <3> QED BY <3>1, <3>4, <3>5, <3>6 DEF Sound
  <2> QED BY <2>1, <2>2
<1> HIDE DEF d
<1>3. /\ b.table = d.table \cup {e} /\ b.delete_pending = d.delete_pending
      /\ b.key = d.key /\ b.allocated = d.allocated
  BY <1>2 DEF Caches
<1> HIDE DEF b
<1>4. Kept(c, b) /\ Live(b) = Live(d) \cup {e}
  BY <1>2, <1>3 DEF Kept, Live
<1> QED BY <1>1, <1>2, <1>4

LEMMA InsertedLive ==
    ASSUME NEW c, Sound(c, {}), NEW e, e \in c.allocated, e \notin c.table,
           e \notin c.delete_pending, Unreferenced(c, e), ~Fails(c, e)
    PROVE  /\ Kept(c, Inserted(c, e)) /\ e \in Live(Inserted(c, e))
           /\ Live(Inserted(c, e)) \subseteq Live(c) \cup {e}
           /\ \A f \in Live(c) : \/ f \in Live(Inserted(c, e)) \/ Unreferenced(c, f)
                                 \/ c.key[f] = c.key[e]
<1> DEFINE b == Lightened(c, e)
           a == IF Full(b) THEN Evicted(b, 1) ELSE b
           d == Linked(a, e)
<1>1. Inserted(c, e) = d
  BY DEF Inserted
<1>2. Shrunk(c, b) /\ ~(Full(b) /\ b.lru_list = <<>>)
  BY LightenedShrunk DEF Fails
<1> HIDE DEF b
<1>3. Shrunk(c, a)
  <2>1. Sound(b, {}) /\ b.lru_list \in Seq(Entries)
    BY <1>2, CacheType DEF Shrunk, Sound
  <2>2. CASE Full(b)
    <3>1. 1 \in 0..Len(b.lru_list)
      BY <1>2, <2>1, <2>2
    <3>2. Shrunk(b, Evicted(b, 1))
      BY <2>1, <3>1, EvictedShrunk
    <3> QED BY <1>2, <2>2, <3>2, ShrunkTwice
  <2>3. CASE ~Full(b)
    BY <1>2, <2>3
  <2> QED BY <2>2, <2>3
<1> HIDE DEF a
<1>4. /\ Sound(a, {}) /\ a.allocated \subseteq c.allocated
      /\ c.allocated \ c.table \subseteq a.allocated
      /\ a.table \subseteq c.table /\ a.delete_pending \subseteq c.delete_pending
      /\ \A f \in Entries : a.ref_count[f] = c.ref_count[f]
  BY <1>3, ShrunkFacts
<1>5. /\ Kept(c, a) /\ Live(a) \subseteq Live(c)
      /\ \A f \in Live(c) : f \in Live(a) \/ Unreferenced(c, f)
  BY <1>3, ShrunkLive
<1>6. /\ c.allocated \subseteq Entries /\ c.table \subseteq Entries
      /\ c.table \subseteq c.allocated /\ a.table \subseteq a.allocated
  BY <1>4, CacheType DEF Sound
<1>7. /\ e \in a.allocated /\ e \notin a.table /\ e \notin a.delete_pending
      /\ Unreferenced(a, e)
  BY <1>4, <1>6 DEF Unreferenced
<1>8. /\ Kept(a, d) /\ e \in Live(d) /\ Live(d) \subseteq Live(a) \cup {e}
      /\ \A f \in Live(a) : f \in Live(d) \/ a.key[f] = a.key[e]
  BY <1>4, <1>7, LinkedLive
<1> HIDE DEF d
<1>10. Kept(c, d)
  BY <1>4, <1>5, <1>6, <1>8 DEF Kept
<1>11. \A f \in Live(a) : a.key[f] = c.key[f]
  BY <1>4, <1>5, <1>6 DEF Kept, Live
<1>12. a.key[e] = c.key[e]
  BY <1>5, <1>6, <1>7 DEF Kept
<1> QED BY <1>1, <1>5, <1>8, <1>10, <1>11, <1>12

-----------------------------------------------------------------------------
(* What a key stands for.                                                  *)
ContentOf(c, k) == IF Hits(c, k) = {} THEN NULL ELSE CHOOSE e \in Hits(c, k) : TRUE

LEMMA ContentFacts ==
    ASSUME NEW c, Sound(c, {}), NEW k
    PROVE  /\ \A e \in Live(c) : c.key[e] = k => ContentOf(c, k) = e
           /\ ContentOf(c, k) # NULL =>
                ContentOf(c, k) \in Live(c) /\ c.key[ContentOf(c, k)] = k
           /\ NULL \notin Live(c) /\ Live(c) \subseteq Entries
           /\ ContentOf(c, k) \in Entries \cup {NULL}
<1>1. Live(c) \subseteq Entries /\ NULL \notin Live(c)
  BY CacheType, ConstantFacts DEF Sound, Live
<1>2. \A e : e \in Hits(c, k) <=> e \in Live(c) /\ c.key[e] = k
  BY DEF Hits, Live
<1>3. \A e, f \in Live(c) : c.key[e] = c.key[f] => e = f
  BY DEF Sound, OneLivePerKey, Live
<1>4. Hits(c, k) # {} => ContentOf(c, k) \in Hits(c, k)
  BY DEF ContentOf
<1>5. Hits(c, k) = {} => ContentOf(c, k) = NULL
  BY DEF ContentOf
<1> QED BY <1>1, <1>2, <1>3, <1>4, <1>5

(* Nothing new stands for a key: what stood for it does still, or nothing. *)
LEMMA ContentStep ==
    ASSUME NEW c, Sound(c, {}), NEW d, Sound(d, {}), NEW k,
           \A f \in Live(d) : d.key[f] = k => f \in Live(c) /\ c.key[f] = k,
           \A f \in Live(c) : f \in Live(d) => d.key[f] = c.key[f]
    PROVE  ContentOf(d, k) = IF ContentOf(c, k) \in Live(d) THEN ContentOf(c, k) ELSE NULL
<1>1. /\ \A e \in Live(c) : c.key[e] = k => ContentOf(c, k) = e
      /\ ContentOf(c, k) # NULL =>
           ContentOf(c, k) \in Live(c) /\ c.key[ContentOf(c, k)] = k
      /\ NULL \notin Live(c)
  BY ContentFacts
<1>2. /\ \A e \in Live(d) : d.key[e] = k => ContentOf(d, k) = e
      /\ ContentOf(d, k) # NULL =>
           ContentOf(d, k) \in Live(d) /\ d.key[ContentOf(d, k)] = k
      /\ NULL \notin Live(d)
  BY ContentFacts
<1> QED BY <1>1, <1>2

(* The usual case.                                                         *)
LEMMA ContentKept ==
    ASSUME NEW c, Sound(c, {}), NEW d, Sound(d, {}), Kept(c, d),
           Live(d) \subseteq Live(c)
    PROVE  \A k : ContentOf(d, k) =
                    IF ContentOf(c, k) \in Live(d) THEN ContentOf(c, k) ELSE NULL
<1>1. /\ Live(d) \subseteq Entries /\ \A f \in Live(d) : f \in d.allocated
  BY CacheType DEF Sound, Live
<1>2. \A f \in Live(d) : d.key[f] = c.key[f]
  BY <1>1 DEF Kept
<1> QED BY <1>2, ContentStep

-----------------------------------------------------------------------------
(* No entry is lost: it has its key as long as it exists, and stands in    *)
(* the table unless its maker has not put it there yet.                    *)
NoneLost ==
    /\ \A e \in Entries :
         cache.key[e] \in IF e \in cache.allocated THEN Keys ELSE {NULL}
    /\ \A e \in cache.allocated \ cache.table : \E u \in Users : made[u] = e

(* What every step does to the keys.                                       *)
Steady ==
    /\ NoneLost'
    /\ \A e \in cache.allocated :
         cache'.key[e] = IF e \in cache'.allocated THEN cache.key[e] ELSE NULL

LEMMA KeptSteady ==
    ASSUME IInv, NoneLost, Kept(cache, cache'),
           \A u \in Users : made[u] \in cache'.allocated /\ made[u] \notin cache'.table
                              => made'[u] = made[u]
    PROVE  Steady
<1>1. cache.allocated \subseteq Entries
  BY InvFacts
<1>2. \A e \in cache.allocated :
        cache'.key[e] = IF e \in cache'.allocated THEN cache.key[e] ELSE NULL
  BY <1>1 DEF Kept
<1>3. \A e \in Entries :
        cache'.key[e] \in IF e \in cache'.allocated THEN Keys ELSE {NULL}
  BY DEF Kept, NoneLost
<1>4. \A e \in cache'.allocated \ cache'.table : \E u \in Users : made'[u] = e
  BY DEF Kept, NoneLost
<1> QED BY <1>2, <1>3, <1>4 DEF Steady, NoneLost

LEMMA SameContent ==
    ASSUME \A k \in Keys : ContentOf(cache', k) = ContentOf(cache, k)
    PROVE  [k \in Keys |-> Stands(k)]' = [k \in Keys |-> Stands(k)]
BY DEF Stands, ContentOf

LEMMA ContentSame ==
    ASSUME NEW c, Sound(c, {}), NEW d, Sound(d, {}), Kept(c, d), Live(d) = Live(c)
    PROVE  \A k : ContentOf(d, k) = ContentOf(c, k)
<1>1. \A k : ContentOf(d, k) =
               IF ContentOf(c, k) \in Live(d) THEN ContentOf(c, k) ELSE NULL
  BY ContentKept
<1>2. \A k : ContentOf(c, k) # NULL => ContentOf(c, k) \in Live(c)
  BY ContentFacts
<1> QED BY <1>1, <1>2

LEMMA CreateMaps ==
    ASSUME IInv, NoneLost, NEW u \in Users, CreateEntry(u)
    PROVE  Steady /\ SC!Make(u)
<1>1. PICK e \in Entries \ cache.allocated, k \in Keys, w \in Weights :
        /\ made[u] = NULL /\ cache' = Created(cache, e, k, w)
        /\ made' = [made EXCEPT ![u] = e] /\ UNCHANGED held
  BY DEF CreateEntry
<1>2. /\ cache'.allocated = cache.allocated \cup {e}
      /\ cache'.table = cache.table /\ cache'.delete_pending = cache.delete_pending
      /\ cache'.key = [cache.key EXCEPT ![e] = k]
  <2> DEFINE d == Created(cache, e, k, w)
  <2>1. Sound(cache, {})
    BY DEF IInv
  <2>2. /\ Sound(d, {}) /\ d.allocated = cache.allocated \cup {e}
        /\ d.table = cache.table /\ d.delete_pending = cache.delete_pending
        /\ d.ref_count = cache.ref_count /\ d.lru_list = cache.lru_list
        /\ d.cur_size = cache.cur_size /\ d.cur_weight = cache.cur_weight
        /\ d.key = [cache.key EXCEPT ![e] = k]
    BY <2>1, CreatedSound
  <2> HIDE DEF d
  <2>3. cache' = d
    BY <1>1 DEF d
  <2> QED BY <2>2, <2>3
<1>3. /\ cache.key \in [Entries -> Keys \cup {NULL}] /\ cache.table \subseteq cache.allocated
      /\ cache.allocated \subseteq Entries /\ made \in [Users -> Entries \cup {NULL}]
  BY InvFacts, CacheType DEF IInv
<1>4. cache'.key[e] = k /\ \A f \in Entries \ {e} : cache'.key[f] = cache.key[f]
  BY <1>2, <1>3
<1>5. Steady
  <2>1. \A f \in Entries :
          cache'.key[f] \in IF f \in cache'.allocated THEN Keys ELSE {NULL}
    BY <1>2, <1>4 DEF NoneLost
  <2>2. \A f \in cache'.allocated \ cache'.table : \E v \in Users : made'[v] = f
    <3>1. ASSUME NEW f \in cache'.allocated \ cache'.table
          PROVE  \E v \in Users : made'[v] = f
      <4>1. CASE f = e
        BY <1>1, <1>3, <4>1
      <4>2. CASE f # e
        <5>1. PICK v \in Users : made[v] = f
          BY <1>2, <3>1, <4>2 DEF NoneLost
        <5>2. v # u
          BY <1>1, <1>2, <1>3, <3>1, <4>2, <5>1, ConstantFacts
        <5> QED BY <1>1, <1>3, <5>1, <5>2
      <4> QED BY <4>1, <4>2
    <3> QED BY <3>1
  <2>3. \A f \in cache.allocated :
          cache'.key[f] = IF f \in cache'.allocated THEN cache.key[f] ELSE NULL
    BY <1>2, <1>3, <1>4
  <2> QED BY <2>1, <2>2, <2>3 DEF Steady, NoneLost
<1>6. \A l \in Keys : ContentOf(cache', l) = ContentOf(cache, l)
  <2>1. ASSUME NEW l \in Keys PROVE ContentOf(cache', l) = ContentOf(cache, l)
    <3>1. Hits(cache', l) = Hits(cache, l)
      BY <1>2, <1>3, <1>4 DEF Hits
    <3> QED BY <3>1 DEF ContentOf
  <2> QED BY <2>1
<1>7. [l \in Keys |-> Stands(l)]' = [l \in Keys |-> Stands(l)]
  BY <1>6, SameContent
<1> QED BY <1>1, <1>4, <1>5, <1>7 DEF SC!Make

LEMMA LookupMaps ==
    ASSUME IInv, NoneLost, NEW u \in Users, NEW k \in Keys, LookupEntry(u, k)
    PROVE  Steady /\ SC!Get(u, k)
<1>1. PICK e \in Hits(cache, k) \ held[u] :
        /\ cache' = Taken(cache, e)
        /\ held' = [held EXCEPT ![u] = @ \cup {e}]
        /\ UNCHANGED made
  BY DEF LookupEntry
<1>2. /\ e \in cache.table /\ e \notin cache.delete_pending /\ cache.key[e] = k
      /\ Sound(cache, {}) /\ e \in Entries /\ e # NULL
  BY InvFacts, ConstantFacts DEF Hits
<1> DEFINE d == Taken(cache, e)
<1>3. /\ Sound(d, {}) /\ d.allocated = cache.allocated
      /\ d.table = cache.table /\ d.delete_pending = cache.delete_pending
      /\ d.ref_count = [cache.ref_count EXCEPT ![e] = @ + 1]
      /\ d.cur_size = cache.cur_size /\ d.cur_weight = cache.cur_weight
      /\ d.key = cache.key /\ Thinned(cache.lru_list, d.lru_list)
  BY <1>2, TakenSound
<1> HIDE DEF d
<1>4. cache' = d
  BY <1>1 DEF d
<1>5. Kept(cache, d) /\ Live(d) = Live(cache)
  BY <1>3 DEF Kept, Live
<1>6. Steady
  BY <1>1, <1>4, <1>5, KeptSteady
<1>7. \A l \in Keys : ContentOf(cache', l) = ContentOf(cache, l)
  BY <1>2, <1>3, <1>4, <1>5, ContentSame
<1>8. [l \in Keys |-> Stands(l)]' = [l \in Keys |-> Stands(l)]
  BY <1>7, SameContent
<1>9. ContentOf(cache, k) = e
  BY <1>2, ContentFacts DEF Live
<1>10. [l \in Keys |-> Stands(l)][k] = e
  BY <1>9 DEF Stands, ContentOf
<1> QED BY <1>1, <1>2, <1>6, <1>8, <1>10 DEF SC!Get

LEMMA ReleaseMaps ==
    ASSUME IInv, NoneLost, NEW u \in Users, ReleaseEntry(u)
    PROVE  Steady /\ SC!Drop(u)
<1>1. PICK e \in held[u] :
        /\ cache' = Released(cache, e)
        /\ held' = [held EXCEPT ![u] = @ \ {e}]
        /\ UNCHANGED made
  BY DEF ReleaseEntry
<1>2. /\ e \in cache.table /\ ~Unreferenced(cache, e) /\ e \in Entries
      /\ Sound(cache, {}) /\ e \in cache.allocated
  BY InvFacts
<1> DEFINE d == Released(cache, e)
           gone == cache.ref_count[e] = 1 /\ e \in cache.delete_pending
<1>3. /\ Sound(d, {}) /\ Ordered(cache.lru_list, d.lru_list)
      /\ d.allocated = IF gone THEN cache.allocated \ {e} ELSE cache.allocated
      /\ d.table = IF gone THEN cache.table \ {e} ELSE cache.table
      /\ d.delete_pending =
           IF gone THEN cache.delete_pending \ {e} ELSE cache.delete_pending
      /\ \A f \in Entries :
           d.ref_count[f] = IF f = e THEN cache.ref_count[e] - 1 ELSE cache.ref_count[f]
      /\ \A f \in Entries :
           d.key[f] = IF gone /\ f = e THEN NULL ELSE cache.key[f]
      /\ d.cur_size <= cache.cur_size /\ d.cur_weight <= cache.cur_weight
  BY <1>2, ReleasedSound
<1> HIDE DEF d
<1>4. cache' = d
  BY <1>1 DEF d
<1>5. Kept(cache, d) /\ Live(d) = Live(cache)
  BY <1>2, <1>3 DEF Kept, Live
<1>6. Steady
  BY <1>1, <1>4, <1>5, KeptSteady
<1>7. \A l \in Keys : ContentOf(cache', l) = ContentOf(cache, l)
  BY <1>2, <1>3, <1>4, <1>5, ContentSame
<1>8. [l \in Keys |-> Stands(l)]' = [l \in Keys |-> Stands(l)]
  BY <1>7, SameContent
<1> QED BY <1>1, <1>6, <1>8 DEF SC!Drop

(* Deletion makes keys stand for nothing.                                  *)
LEMMA DeleteMaps ==
    ASSUME IInv, NoneLost, NEW e \in cache.allocated, cache' = Deleted(cache, e),
           \A u \in Users : made[u] # e => made'[u] = made[u],
           ~Unreferenced(cache, e) => e \in cache.table
    PROVE  /\ Steady
           /\ \A k \in Keys : ContentOf(cache', k) =
                IF ContentOf(cache, k) = e THEN NULL ELSE ContentOf(cache, k)
<1>1. Sound(cache, {e}) /\ Sound(cache, {}) /\ e \in Entries
  BY InvFacts DEF Sound, PendingBut
<1> DEFINE d == Deleted(cache, e)
<1>2. Kept(cache, d) /\ Live(d) = Live(cache) \ {e} /\ Sound(d, {})
  BY <1>1, DeletedLive, DeletedSound
<1>3. e \in d.allocated => e \in cache.table
  BY <1>1, DeletedSound DEF Without
<1> HIDE DEF d
<1>4. cache' = d
  BY DEF d
<1>5. \A u \in Users : made[u] \in cache'.allocated /\ made[u] \notin cache'.table
                         => made'[u] = made[u]
  BY <1>2, <1>3, <1>4 DEF Kept
<1>6. Steady
  BY <1>2, <1>4, <1>5, KeptSteady
<1>7. \A k \in Keys : ContentOf(d, k) =
         IF ContentOf(cache, k) \in Live(d) THEN ContentOf(cache, k) ELSE NULL
  BY <1>1, <1>2, ContentKept
<1>8. \A k \in Keys : ContentOf(cache, k) # NULL => ContentOf(cache, k) \in Live(cache)
  BY <1>1, ContentFacts
<1>9. NULL # e
  BY <1>1, ConstantFacts
<1> QED BY <1>2, <1>4, <1>6, <1>7, <1>8, <1>9

LEMMA DiscardMaps ==
    ASSUME IInv, NoneLost, NEW u \in Users, DiscardEntry(u)
    PROVE  Steady /\ SC!Discard(u)
<1>1. PICK e : e = made[u]
  OBVIOUS
<1>2. /\ e # NULL /\ cache' = Deleted(cache, e) /\ UNCHANGED held
      /\ made' = [made EXCEPT ![u] = NULL]
  BY <1>1 DEF DiscardEntry
<1>3. /\ e \in cache.allocated /\ e \in Entries /\ Unreferenced(cache, e)
      /\ e \notin cache.table /\ Sound(cache, {})
      /\ made \in [Users -> Entries \cup {NULL}]
  BY <1>1, <1>2, InvFacts DEF IInv
<1>4. \A v \in Users : made[v] # e => made'[v] = made[v]
  BY <1>1, <1>2, <1>3
<1>5. /\ Steady
      /\ \A k \in Keys : ContentOf(cache', k) =
           IF ContentOf(cache, k) = e THEN NULL ELSE ContentOf(cache, k)
  BY <1>2, <1>3, <1>4, DeleteMaps
<1>6. \A k \in Keys : ContentOf(cache, k) # e
  BY <1>2, <1>3, ContentFacts DEF Live
<1>7. [l \in Keys |-> Stands(l)]' = [l \in Keys |-> Stands(l)]
  BY <1>5, <1>6, SameContent
<1> QED BY <1>2, <1>5, <1>7 DEF SC!Discard

LEMMA ForgetMaps ==
    ASSUME NEW K \in SUBSET Keys, UNCHANGED <<made, held>>,
           \A k \in Keys : ContentOf(cache', k) =
             IF k \in K THEN NULL ELSE ContentOf(cache, k)
    PROVE  SC!Forget(K)
<1>1. [k \in Keys |-> Stands(k)]' = [k \in Keys |-> ContentOf(cache', k)]
  BY DEF Stands, ContentOf
<1>2. [k \in Keys |-> Stands(k)] = [k \in Keys |-> ContentOf(cache, k)]
  BY DEF Stands, ContentOf
<1>3. [k \in Keys |-> ContentOf(cache', k)] =
      [k \in Keys |-> IF k \in K THEN NULL ELSE [l \in Keys |-> ContentOf(cache, l)][k]]
  OBVIOUS
<1> QED BY <1>1, <1>2, <1>3 DEF SC!Forget

LEMMA DeleteHeldMaps ==
    ASSUME IInv, NoneLost, NEW u \in Users, DeleteHeldEntry(u)
    PROVE  Steady /\ \E K \in SUBSET Keys : SC!Forget(K)
<1>1. PICK e \in held[u] : cache' = Deleted(cache, e) /\ UNCHANGED <<made, held>>
  BY DEF DeleteHeldEntry
<1>2. e \in cache.table /\ e \in cache.allocated /\ e \in Entries
  BY InvFacts
<1>3. /\ Steady
      /\ \A k \in Keys : ContentOf(cache', k) =
           IF ContentOf(cache, k) = e THEN NULL ELSE ContentOf(cache, k)
  BY <1>1, <1>2, DeleteMaps
<1> DEFINE K == {k \in Keys : ContentOf(cache, k) = e}
<1>4. SC!Forget(K)
  BY <1>1, <1>3, ForgetMaps
<1> QED BY <1>3, <1>4

LEMMA DeleteLruMaps ==
    ASSUME IInv, NoneLost, DeleteLruEntry
    PROVE  Steady /\ \E K \in SUBSET Keys : SC!Forget(K)
<1>1. PICK e : e = Head(cache.lru_list)
  OBVIOUS
<1>2. /\ cache.lru_list # <<>> /\ cache' = Deleted(cache, e) /\ UNCHANGED <<made, held>>
  BY <1>1 DEF DeleteLruEntry
<1>3. e \in Entries /\ e \in cache.table /\ e \in cache.allocated
  <2>1. /\ cache.lru_list \in Seq(Entries) /\ LruExact(cache)
        /\ cache.table \subseteq cache.allocated
    BY CacheType DEF IInv, Sound
  <2>2. e \in Entries /\ e \in ToSet(cache.lru_list)
    BY <1>1, <1>2, <2>1, TailLemma DEF LruExact
  <2> QED BY <2>1, <2>2 DEF LruExact
<1>4. /\ Steady
      /\ \A k \in Keys : ContentOf(cache', k) =
           IF ContentOf(cache, k) = e THEN NULL ELSE ContentOf(cache, k)
  BY <1>2, <1>3, DeleteMaps
<1> DEFINE K == {k \in Keys : ContentOf(cache, k) = e}
<1>5. SC!Forget(K)
  BY <1>2, <1>4, ForgetMaps
<1> QED BY <1>4, <1>5

LEMMA EmptyMaps ==
    ASSUME IInv, NoneLost, EmptyCache
    PROVE  Steady /\ \E K \in SUBSET Keys : SC!Forget(K)
<1> DEFINE d == Emptied(cache)
<1>1. /\ Sound(cache, {}) /\ cache.table \subseteq cache.allocated
      /\ cache.table \subseteq Entries
  BY InvFacts
<1>2. /\ Sound(d, {}) /\ Thinned(cache.lru_list, d.lru_list)
      /\ d.delete_pending \subseteq cache.delete_pending \cup cache.table
      /\ d.table \subseteq d.delete_pending
      /\ \A f \in cache.allocated : f \in d.allocated <=>
           f \notin cache.table \/ ~Unreferenced(cache, f)
      /\ d.allocated \subseteq cache.allocated
      /\ \A f \in cache.table : f \in d.table <=> ~Unreferenced(cache, f)
      /\ d.table \subseteq cache.table
      /\ \A f \in Entries : d.ref_count[f] = cache.ref_count[f]
      /\ \A f \in Entries : d.key[f] =
           IF f \in cache.table /\ Unreferenced(cache, f) THEN NULL ELSE cache.key[f]
      /\ d.cur_size <= cache.cur_size /\ d.cur_weight <= cache.cur_weight
  BY <1>1, EmptiedSound
<1> HIDE DEF d
<1>3. cache' = d /\ UNCHANGED <<made, held>>
  BY DEF EmptyCache, d
<1>4. Kept(cache, d) /\ Live(d) = {}
  BY <1>1, <1>2 DEF Kept, Live
<1>5. Steady
  BY <1>3, <1>4, KeptSteady
<1>6. \A k \in Keys : ContentOf(cache', k) = NULL
  BY <1>2, <1>3, <1>4, ContentFacts
<1>7. SC!Forget(Keys)
  BY <1>3, <1>6, ForgetMaps
<1> QED BY <1>5, <1>7

(* What an insertion leaves of what others put there.                      *)
RoomMade(K) ==
    \A k \in K : \/ ContentOf(cache', k) = ContentOf(cache, k)
                 \/ /\ ContentOf(cache', k) = NULL
                    /\ ContentOf(cache, k) \in Entries
                    /\ Unreferenced(cache, ContentOf(cache, k))

LEMMA RoomMaps ==
    ASSUME IInv, NEW K \in SUBSET Keys, RoomMade(K)
    PROVE  SC!MakesRoom(K)
<1> DEFINE Content == [k \in Keys |-> Stands(k)]
           Next_ == [k \in Keys |-> Stands(k)]'
<1>1. \A k \in K : Content[k] = ContentOf(cache, k) /\ Next_[k] = ContentOf(cache', k)
  BY DEF Stands, ContentOf
<1>2. ASSUME NEW e \in Entries, Unreferenced(cache, e) PROVE ~SC!Held(e)
  BY <1>2, InvFacts DEF Holders, SC!Held
<1>3. \A k \in K : Next_[k] = Content[k] \/ (Next_[k] = NULL /\ ~SC!Held(Content[k]))
  <2> HIDE DEF Next_, Content
  <2> QED BY <1>1, <1>2 DEF RoomMade
<1> QED BY <1>3 DEF SC!MakesRoom

LEMMA InsertMaps ==
    ASSUME IInv, NoneLost, NEW u \in Users, InsertEntry(u)
    PROVE  Steady /\ (SC!Put(u) \/ SC!Shrink)
<1>0. PICK e : e = made[u]
  OBVIOUS
<1>1. /\ Sound(cache, {}) /\ e \in Entries /\ e # NULL
      /\ e \in cache.allocated /\ e \notin cache.table /\ e \notin cache.delete_pending
      /\ Unreferenced(cache, e) /\ cache.cur_size <= max_size
      /\ made \in [Users -> Entries \cup {NULL}] /\ held \in [Users -> SUBSET Entries]
      /\ cache.key[e] \in Keys
  BY <1>0, InvFacts DEF InsertEntry, IInv, NoneLost
<1>2. \A k : /\ ContentOf(cache, k) # NULL =>
                  /\ ContentOf(cache, k) \in Live(cache)
                  /\ cache.key[ContentOf(cache, k)] = k
             /\ ContentOf(cache, k) \in Entries \cup {NULL}
             /\ NULL \notin Live(cache)
  BY <1>1, ContentFacts
<1>3. CASE Fails(cache, e)
  <2> DEFINE d == Lightened(cache, e)
  <2>1. cache' = d /\ UNCHANGED <<made, held>>
    BY <1>0, <1>3 DEF InsertEntry, Inserted
  <2>2. Shrunk(cache, d)
    BY <1>1, LightenedShrunk
  <2> HIDE DEF d
  <2>3. /\ Kept(cache, d) /\ Live(d) \subseteq Live(cache) /\ Sound(d, {})
        /\ \A f \in Live(cache) : f \in Live(d) \/ Unreferenced(cache, f)
    BY <1>1, <2>2, ShrunkLive DEF Shrunk
  <2>4. Steady
    BY <2>1, <2>3, KeptSteady
  <2>5. \A k : ContentOf(d, k) =
                 IF ContentOf(cache, k) \in Live(d) THEN ContentOf(cache, k) ELSE NULL
    BY <1>1, <2>3, ContentKept
  <2>6. RoomMade(Keys)
    BY <1>2, <2>1, <2>3, <2>5 DEF RoomMade
  <2>7. SC!MakesRoom(Keys)
    BY <2>6, RoomMaps
  <2> QED BY <2>1, <2>4, <2>7 DEF SC!Shrink
<1>4. CASE ~Fails(cache, e)
  <2> DEFINE d == Inserted(cache, e)
  <2>1. /\ cache' = d /\ held' = [held EXCEPT ![u] = @ \cup {e}]
        /\ made' = [made EXCEPT ![u] = NULL]
    BY <1>0, <1>4 DEF InsertEntry
  <2>2. /\ Kept(cache, d) /\ e \in Live(d) /\ Live(d) \subseteq Live(cache) \cup {e}
        /\ \A f \in Live(cache) : \/ f \in Live(d) \/ Unreferenced(cache, f)
                                  \/ cache.key[f] = cache.key[e]
    BY <1>1, <1>4, InsertedLive
  <2> HIDE DEF d
  <2>3. Sound(d, {})
    <3>1. Keeps
      BY InsertKeeps
    <3> QED BY <2>1, <3>1 DEF Keeps, IInv
  <2>4. Steady
    <3>1. \A v \in Users : made[v] \in cache'.allocated /\ made[v] \notin cache'.table
                             => made'[v] = made[v]
      <4>1. \A v \in Users : made[v] # e => v # u
        BY <1>0
      <4>2. e \in d.table
        BY <2>2 DEF Live
      <4> QED BY <1>1, <2>1, <4>1, <4>2
    <3> QED BY <2>1, <2>2, <3>1, KeptSteady
  <2>5. \A f \in Live(d) : f \in Entries /\ d.key[f] = cache.key[f]
    <3>1. d.table \subseteq d.allocated /\ d.table \subseteq Entries
      BY <2>3, CacheType DEF Sound
    <3> QED BY <2>2, <3>1 DEF Kept, Live
  <2>6. RoomMade(Keys \ {cache.key[e]})
    <3>1. ASSUME NEW k \in Keys \ {cache.key[e]}
          PROVE  \/ ContentOf(d, k) = ContentOf(cache, k)
                 \/ /\ ContentOf(d, k) = NULL /\ ContentOf(cache, k) \in Entries
                    /\ Unreferenced(cache, ContentOf(cache, k))
      <4>1. /\ \A f \in Live(d) : d.key[f] = k => f \in Live(cache) /\ cache.key[f] = k
            /\ \A f \in Live(cache) : f \in Live(d) => d.key[f] = cache.key[f]
        BY <2>2, <2>5, <3>1
      <4>2. ContentOf(d, k) =
              IF ContentOf(cache, k) \in Live(d) THEN ContentOf(cache, k) ELSE NULL
        BY <1>1, <2>3, <4>1, ContentStep
      <4>3. CASE ContentOf(cache, k) = NULL
        BY <4>2, <4>3
      <4>4. CASE ContentOf(cache, k) # NULL
        BY <1>2, <2>2, <3>1, <4>2, <4>4
      <4> QED BY <4>3, <4>4
    <3> QED BY <2>1, <3>1 DEF RoomMade
  <2>7. SC!MakesRoom(Keys \ {cache.key[e]})
    BY <2>6, RoomMaps
  <2>8. ContentOf(cache', cache.key[e]) = e
    BY <2>1, <2>2, <2>3, <2>5, ContentFacts
  <2>9. [k \in Keys |-> Stands(k)]'[cache.key[e]] = e
    <3>1. [k \in Keys |-> Stands(k)]' = [k \in Keys |-> ContentOf(cache', k)]
      BY DEF Stands, ContentOf
    <3> QED BY <1>1, <2>8, <3>1
  <2>10. SC!Put(u)
    BY <1>0, <1>1, <2>1, <2>7, <2>9 DEF SC!Put
  <2> QED BY <2>4, <2>10
<1> QED BY <1>3, <1>4

-----------------------------------------------------------------------------
(* Nothing exists but what stands for a key, is held or is new.            *)
LEMMA AliveUsed ==
    ASSUME IInv, NoneLost
    PROVE  cache.allocated = SC!Used
<1> DEFINE Content == [k \in Keys |-> Stands(k)]
<1>1. \A k \in Keys : Content[k] = ContentOf(cache, k)
  BY DEF Stands, ContentOf
<1>2. SC!Used = ({Content[k] : k \in Keys} \cup {made[u] : u \in Users}
                   \cup UNION {held[u] : u \in Users}) \ {NULL}
  BY DEF SC!Used
<1> HIDE DEF Content
<1>3. /\ Sound(cache, {}) /\ cache.table \subseteq cache.allocated
      /\ cache.allocated \subseteq Entries /\ NULL \notin Entries
  BY InvFacts, ConstantFacts
<1>4. ASSUME NEW e \in cache.allocated PROVE e \in SC!Used
  <2>1. CASE e \notin cache.table
    <3>1. PICK u \in Users : made[u] = e
      BY <2>1 DEF NoneLost
    <3> QED BY <1>2, <1>3, <3>1
  <2>2. CASE e \in Live(cache)
    <3>1. cache.key[e] \in Keys
      BY <1>3 DEF NoneLost
    <3>2. ContentOf(cache, cache.key[e]) = e
      BY <1>3, <2>2, ContentFacts
    <3> QED BY <1>1, <1>2, <1>3, <3>1, <3>2
  <2>3. CASE e \in cache.table /\ e \in cache.delete_pending
    <3>1. ~Unreferenced(cache, e)
      BY <1>3, <2>3 DEF Sound, PendingBut
    <3>2. PICK u \in Users : e \in held[u]
      BY <1>3, <3>1, InvFacts DEF Holders
    <3> QED BY <1>2, <1>3, <3>2
  <2> QED BY <2>1, <2>2, <2>3 DEF Live
<1>5. ASSUME NEW e \in SC!Used PROVE e \in cache.allocated
  <2>1. e # NULL
    BY <1>2
  <2>2. CASE \E k \in Keys : e = Content[k]
    BY <1>1, <1>3, <2>1, <2>2, ContentFacts DEF Live
  <2>3. CASE \E u \in Users : e = made[u]
    BY <2>1, <2>3, InvFacts
  <2>4. CASE \E u \in Users : e \in held[u]
    BY <1>3, <2>4, InvFacts
  <2> QED BY <1>2, <2>2, <2>3, <2>4
<1> QED BY <1>4, <1>5

AllUsed == cache.allocated = SC!Used

LEMMA AliveNext == IInv' /\ NoneLost' => AllUsed'
<1>1. IInv /\ NoneLost => AllUsed
  BY AliveUsed DEF AllUsed
<1> QED BY <1>1, PTL

LEMMA StepMaps ==
    ASSUME IInv, NoneLost, Next, IInv'
    PROVE  Steady /\ SC!Next
<1>1. /\ Steady
      /\ \/ \E u \in Users :
              \/ SC!Make(u) \/ SC!Put(u) \/ SC!Discard(u) \/ SC!Drop(u)
              \/ \E k \in Keys : SC!Get(u, k)
         \/ SC!Shrink
         \/ \E K \in SUBSET Keys : SC!Forget(K)
  <2>1. ASSUME NEW u \in Users, CreateEntry(u) PROVE Steady /\ SC!Make(u)
    BY <2>1, CreateMaps
  <2>2. ASSUME NEW u \in Users, InsertEntry(u) PROVE Steady /\ (SC!Put(u) \/ SC!Shrink)
    BY <2>2, InsertMaps
  <2>3. ASSUME NEW u \in Users, DiscardEntry(u) PROVE Steady /\ SC!Discard(u)
    BY <2>3, DiscardMaps
  <2>4. ASSUME NEW u \in Users, NEW k \in Keys, LookupEntry(u, k)
        PROVE  Steady /\ SC!Get(u, k)
    BY <2>4, LookupMaps
  <2>5. ASSUME NEW u \in Users, ReleaseEntry(u) PROVE Steady /\ SC!Drop(u)
    BY <2>5, ReleaseMaps
  <2>6. ASSUME NEW u \in Users, DeleteHeldEntry(u)
        PROVE  Steady /\ \E K \in SUBSET Keys : SC!Forget(K)
    BY <2>6, DeleteHeldMaps
  <2>7. ASSUME DeleteLruEntry \/ EmptyCache
        PROVE  Steady /\ \E K \in SUBSET Keys : SC!Forget(K)
    BY <2>7, DeleteLruMaps, EmptyMaps
  <2> QED BY <2>1, <2>2, <2>3, <2>4, <2>5, <2>6, <2>7 DEF Next
<1>2. NoneLost'
  BY <1>1 DEF Steady
<1>3. cache'.allocated = SC!Used'
  BY <1>2, AliveNext DEF AllUsed
<1>4. [k \in Keys |-> Stands(k)]' \in [Keys -> Entries \cup {NULL}]
  <2>1. [k \in Keys |-> Stands(k)]' = [k \in Keys |-> ContentOf(cache', k)]
    BY DEF Stands, ContentOf
  <2>2. \A k \in Keys : ContentOf(cache', k) \in Entries \cup {NULL}
    BY ContentFacts DEF IInv
  <2> QED BY <2>1, <2>2
<1>5. DOMAIN cache'.key = Entries
  <2>1. cache' \in Caches
    BY DEF IInv, Sound
  <2> QED BY <2>1, CacheType
<1>6. /\ \A e \in cache.allocated :
           cache'.key[e] = IF e \in cache'.allocated THEN cache.key[e] ELSE NULL
      /\ \A e \in Entries \ cache'.allocated : cache'.key[e] = NULL
  BY <1>1, <1>2 DEF Steady, NoneLost
<1> QED BY <1>1, <1>3, <1>4, <1>5, <1>6 DEF SC!Next

(* The users see a cache that destroys nothing in use, whatever it does to *)
(* make room (lrucache.c:192-309).                                         *)
THEOREM SharedCacheImplemented == Spec => ImplementsSharedCache
<1>1. Init => NoneLost /\ SC!Init
  <2> SUFFICES ASSUME Init PROVE NoneLost /\ SC!Init
    OBVIOUS
  <2>1. /\ cache.table = {} /\ cache.allocated = {} /\ cache.key = [e \in Entries |-> NULL]
        /\ made = [u \in Users |-> NULL] /\ held = [u \in Users |-> {}]
    BY DEF Init, NewCache
  <2>2. \A k : ContentOf(cache, k) = NULL
    BY <2>1 DEF ContentOf, Hits
  <2>3. [k \in Keys |-> Stands(k)] = [k \in Keys |-> NULL]
    BY <2>2 DEF Stands, ContentOf
  <2> QED BY <2>1, <2>3 DEF NoneLost, SC!Init
<1>2. IInv /\ NoneLost /\ [Next]_vars /\ IInv' => NoneLost' /\ [SC!Next]_(SC!vars)
  <2>1. ASSUME IInv, NoneLost, Next, IInv' PROVE NoneLost' /\ SC!Next
    BY <2>1, StepMaps DEF Steady
  <2>2. ASSUME NoneLost, UNCHANGED vars PROVE NoneLost' /\ UNCHANGED SC!vars
    BY <2>2 DEF NoneLost, vars, SC!vars, Stands
  <2> QED BY <2>1, <2>2
<1> QED BY <1>1, <1>2, InductiveInvariant, PTL DEF Spec, ImplementsSharedCache, SC!Spec

-----------------------------------------------------------------------------
(* DNSCache: what it takes of the above.                                   *)
LEMMA SoundFacts ==
    ASSUME NEW c, Sound(c, {})
    PROVE  /\ c \in Caches /\ c.table \subseteq c.allocated /\ c.allocated \subseteq Entries
           /\ c.delete_pending \subseteq c.allocated
           /\ c.ref_count \in [Entries -> Nat] /\ c.key \in [Entries -> Keys \cup {NULL}]
           /\ c.cur_size = Cardinality(c.table) /\ IsFiniteSet(c.table)
           /\ LruExact(c) /\ PendingInUse(c) /\ OneLivePerKey(c)
<1>1. /\ c \in Caches /\ c.table \subseteq c.allocated
      /\ c.delete_pending \subseteq c.allocated
      /\ LruExact(c) /\ PendingBut(c, {}) /\ OneLivePerKey(c) /\ SumsExact(c)
  BY DEF Sound
<1>2. PendingInUse(c)
  BY <1>1 DEF PendingBut, PendingInUse
<1>3. c.table \subseteq Entries /\ c.allocated \subseteq Entries
      /\ c.ref_count \in [Entries -> Nat] /\ c.key \in [Entries -> Keys \cup {NULL}]
  BY <1>1, CacheType
<1> QED BY <1>1, <1>2, <1>3, ConstantFacts DEF SumsExact

LEMMA DeletedUnused ==
    ASSUME NEW c, Sound(c, {}), NEW e, e \in c.allocated, Unreferenced(c, e)
    PROVE  LET d == Deleted(c, e) IN
           /\ Sound(d, {}) /\ d.allocated = c.allocated \ {e} /\ d.table = c.table \ {e}
           /\ d.delete_pending = c.delete_pending \ {e}
           /\ \A f \in Entries : d.ref_count[f] = c.ref_count[f]
           /\ \A f \in Entries \ {e} : d.key[f] = c.key[f]
<1>1. Sound(c, {e})
  BY DEF Sound, PendingBut
<1>2. Sound(Deleted(c, e), {}) /\ Without(c, Deleted(c, e), {e})
  BY <1>1, DeletedSound
<1> QED BY <1>2 DEF Without

(* An insertion that fails has thrown out entries that nobody uses.        *)
LEMMA FailedSound ==
    ASSUME NEW c, Sound(c, {}), NEW e, Fails(c, e)
    PROVE  LET d == Inserted(c, e) IN
           /\ Sound(d, {}) /\ d.allocated \subseteq c.allocated /\ d.table \subseteq c.table
           /\ c.allocated \ c.table \subseteq d.allocated
           /\ \A f \in c.table : f \in d.allocated => f \in d.table
           /\ d.delete_pending \subseteq c.delete_pending
           /\ \A f \in Entries : d.ref_count[f] = c.ref_count[f]
           /\ \A f \in d.allocated : d.key[f] = c.key[f]
           /\ d.cur_size <= c.cur_size
<1> DEFINE d == Lightened(c, e)
<1>1. Inserted(c, e) = d
  BY DEF Inserted
<1>2. Shrunk(c, d)
  BY LightenedShrunk
<1> HIDE DEF d
<1>3. /\ Sound(d, {})
      /\ \E S \in SUBSET c.table : Without(c, d, S)
  BY <1>2 DEF Shrunk
<1>4. d.allocated \subseteq Entries
  BY <1>3, SoundFacts
<1> QED BY <1>1, <1>3, <1>4 DEF Without

LEMMA InsertedFacts ==
    ASSUME NEW c, Sound(c, {}), NEW e, e \in c.allocated, e \notin c.table,
           e \notin c.delete_pending, Unreferenced(c, e),
           c.cur_size <= max_size, ~Fails(c, e)
    PROVE  LET d == Inserted(c, e) IN
           /\ Sound(d, {}) /\ e \in d.table /\ d.table \subseteq c.table \cup {e}
           /\ d.allocated \subseteq c.allocated
           /\ \A f \in c.table : f \in d.allocated => f \in d.table
           /\ d.delete_pending \subseteq c.delete_pending \cup c.table
           /\ \A f \in Entries : d.ref_count[f] = IF f = e THEN 1 ELSE c.ref_count[f]
           /\ \A f \in d.allocated : d.key[f] = c.key[f]
           /\ d.cur_size <= max_size
<1> DEFINE d == Inserted(c, e)
<1>1. /\ Sound(d, {}) /\ e \in d.table
      /\ d.delete_pending \subseteq c.delete_pending \cup c.table
      /\ d.allocated \subseteq c.allocated /\ d.table \subseteq c.table \cup {e}
      /\ \A f \in Entries : d.ref_count[f] = IF f = e THEN 1 ELSE c.ref_count[f]
      /\ d.cur_size <= max_size
  BY InsertedSound
<1>2. Kept(c, d)
  BY InsertedLive
<1> HIDE DEF d
<1>3. d.allocated \subseteq Entries
  BY <1>1, SoundFacts
<1> QED BY <1>1, <1>2, <1>3 DEF d, Kept

-----------------------------------------------------------------------------
(* Between two steps of the threads nobody uses an entry and none is left  *)
(* out of the table.                                                       *)
Rested(c) ==
    /\ Sound(c, {}) /\ c.allocated = c.table /\ c.delete_pending = {}
    /\ \A e \in Entries : Unreferenced(c, e)
    /\ c.cur_size <= max_size

LEMMA RestedFacts ==
    ASSUME NEW c, Rested(c)
    PROVE  /\ \A e \in Entries : c.ref_count[e] = 0
           /\ \A e \in c.table : e \notin c.delete_pending /\ e \in Entries
           /\ IsFiniteSet(c.table) /\ c.cur_size = Cardinality(c.table)
           /\ \A k : \A e, f \in Hits(c, k) : e = f
<1>1. Sound(c, {}) /\ c.delete_pending = {} /\ \A e \in Entries : Unreferenced(c, e)
  BY DEF Rested
<1>2. /\ c.table \subseteq Entries /\ OneLivePerKey(c)
      /\ IsFiniteSet(c.table) /\ c.cur_size = Cardinality(c.table)
  BY <1>1, SoundFacts
<1>3. \A e \in Entries : c.ref_count[e] = 0
  BY <1>1 DEF Unreferenced
<1> QED BY <1>1, <1>2, <1>3 DEF Hits, OneLivePerKey

(* The entry that was found is on the list again.                          *)
LEMMA HitRests ==
    ASSUME NEW c, Rested(c), NEW e \in c.table
    PROVE  LET d == Released(Taken(c, e), e) IN
           Rested(d) /\ d.table = c.table /\ d.key = c.key
<1> DEFINE b == Taken(c, e)
           d == Released(b, e)
<1>1. /\ Sound(c, {}) /\ c.allocated = c.table /\ c.delete_pending = {} /\ c.cur_size <= max_size
      /\ e \in Entries /\ c.ref_count[e] = 0 /\ c.ref_count \in [Entries -> Nat]
      /\ c.table \subseteq Entries /\ \A f \in Entries : c.ref_count[f] = 0
  BY RestedFacts, SoundFacts DEF Rested
<1>2. /\ Sound(b, {}) /\ b.allocated = c.allocated /\ b.table = c.table
      /\ b.delete_pending = c.delete_pending /\ b.key = c.key
      /\ b.ref_count = [c.ref_count EXCEPT ![e] = @ + 1]
  BY <1>1, TakenSound
<1> HIDE DEF b
<1>3. ~Unreferenced(b, e)
  BY <1>1, <1>2 DEF Unreferenced
<1>4. /\ Sound(d, {}) /\ d.allocated = b.allocated /\ d.table = b.table
      /\ d.delete_pending = b.delete_pending /\ d.key = b.key
      /\ d.ref_count = [b.ref_count EXCEPT ![e] = @ - 1]
  BY <1>1, <1>2, <1>3, ReleasedStays
<1> HIDE DEF d
<1>5. \A f \in Entries : Unreferenced(d, f)
  BY <1>1, <1>2, <1>4 DEF Unreferenced
<1>6. d.cur_size = c.cur_size
  BY <1>1, <1>2, <1>4, SoundFacts
<1>7. Rested(d)
  BY <1>1, <1>2, <1>4, <1>5, <1>6 DEF Rested
<1> QED BY <1>2, <1>4, <1>7 DEF d, b

(* The entry that has expired is gone.                                     *)
LEMMA DeletedRests ==
    ASSUME NEW c, Rested(c), NEW e \in c.table
    PROVE  LET d == Deleted(c, e) IN
           /\ Rested(d) /\ d.table = c.table \ {e}
           /\ \A f \in d.table : d.key[f] = c.key[f]
<1> DEFINE d == Deleted(c, e)
<1>1. /\ Sound(c, {}) /\ c.allocated = c.table /\ c.delete_pending = {} /\ c.cur_size <= max_size
      /\ e \in c.allocated /\ Unreferenced(c, e) /\ c.cur_size = Cardinality(c.table)
      /\ IsFiniteSet(c.table) /\ c.table \subseteq Entries
      /\ \A f \in Entries : c.ref_count[f] = 0
  BY RestedFacts, SoundFacts DEF Rested
<1>2. /\ Sound(d, {}) /\ d.allocated = c.allocated \ {e} /\ d.table = c.table \ {e}
      /\ d.delete_pending = c.delete_pending \ {e}
      /\ \A f \in Entries : d.ref_count[f] = c.ref_count[f]
      /\ \A f \in Entries \ {e} : d.key[f] = c.key[f]
  BY <1>1, DeletedUnused
<1> HIDE DEF d
<1>3. /\ \A f \in Entries : Unreferenced(d, f)
      /\ \A f \in d.table : d.key[f] = c.key[f]
  BY <1>1, <1>2 DEF Unreferenced
<1>4. d.cur_size <= max_size
  <2>1. d.cur_size = Cardinality(d.table)
    BY <1>2, SoundFacts
  <2>2. /\ Cardinality(d.table) <= Cardinality(c.table)
        /\ Cardinality(d.table) \in Nat /\ Cardinality(c.table) \in Nat
    BY <1>1, <1>2, FS_Subset, FS_CardinalityType
  <2>3. max_size \in Nat
    BY CacheAssumption DEF CacheAssumption
  <2> QED BY <1>1, <2>1, <2>2, <2>3
<1>5. Rested(d)
  BY <1>1, <1>2, <1>3, <1>4 DEF Rested
<1> QED BY <1>2, <1>3, <1>5 DEF d

(* An entry that is inserted replaces others, and stays or is gone.        *)
LEMMA InsertRests ==
    ASSUME NEW c, Rested(c), NEW e \in Entries \ c.allocated, NEW k \in Keys,
           NEW w \in Weights
    PROVE  LET b == Created(c, e, k, w)
               d == IF Fails(b, e) THEN Deleted(Inserted(b, e), e)
                    ELSE Released(Inserted(b, e), e)
           IN  /\ Rested(d) /\ d.table \subseteq c.table \cup {e}
               /\ \A f \in d.table : d.key[f] = IF f = e THEN k ELSE c.key[f]
<1> DEFINE b == Created(c, e, k, w)
           m == Inserted(b, e)
<1>1. /\ Sound(c, {}) /\ c.allocated = c.table /\ c.delete_pending = {} /\ c.cur_size <= max_size
      /\ c.table \subseteq Entries /\ c.key \in [Entries -> Keys \cup {NULL}]
      /\ c.ref_count \in [Entries -> Nat]
      /\ \A f \in Entries : c.ref_count[f] = 0
  BY RestedFacts, SoundFacts DEF Rested
<1>2. /\ Sound(b, {}) /\ b.allocated = c.allocated \cup {e} /\ b.table = c.table
      /\ b.delete_pending = c.delete_pending /\ b.ref_count = c.ref_count
      /\ b.cur_size = c.cur_size /\ b.key = [c.key EXCEPT ![e] = k]
  BY <1>1, CreatedSound
<1> HIDE DEF b
<1>3. \A f \in Entries : b.ref_count[f] = 0 /\ Unreferenced(b, f)
  BY <1>1, <1>2 DEF Unreferenced
<1>4. e \in b.allocated /\ e \notin b.table /\ e \notin b.delete_pending
  BY <1>1, <1>2
<1>5. CASE Fails(b, e)
  <2> DEFINE d == Deleted(m, e)
  <2>1. /\ Sound(m, {}) /\ m.allocated \subseteq b.allocated /\ m.table \subseteq b.table
        /\ b.allocated \ b.table \subseteq m.allocated
        /\ \A f \in b.table : f \in m.allocated => f \in m.table
        /\ m.delete_pending \subseteq b.delete_pending
        /\ \A f \in Entries : m.ref_count[f] = b.ref_count[f]
        /\ \A f \in m.allocated : m.key[f] = b.key[f]
        /\ m.cur_size <= b.cur_size
    BY <1>2, <1>5, FailedSound
  <2> HIDE DEF m
  <2>2. /\ e \in m.allocated /\ Unreferenced(m, e) /\ e \notin m.table
        /\ m.allocated \subseteq Entries
    BY <1>3, <1>4, <2>1, SoundFacts DEF Unreferenced
  <2>3. /\ Sound(d, {}) /\ d.allocated = m.allocated \ {e} /\ d.table = m.table \ {e}
        /\ d.delete_pending = m.delete_pending \ {e}
        /\ \A f \in Entries : d.ref_count[f] = m.ref_count[f]
        /\ \A f \in Entries \ {e} : d.key[f] = m.key[f]
    BY <2>1, <2>2, DeletedUnused
  <2> HIDE DEF d
  <2>4. d.table = m.table /\ d.allocated = d.table /\ d.delete_pending = {}
    <3>1. m.allocated \subseteq b.table \cup {e} /\ m.delete_pending = {}
      BY <1>1, <1>2, <2>1
    <3>2. m.allocated \ {e} \subseteq m.table
      BY <3>1, <2>1
    <3>3. m.table \subseteq m.allocated \ {e}
      BY <2>1, <2>2, SoundFacts
    <3> QED BY <3>1, <3>2, <3>3, <2>2, <2>3
  <2>5. \A f \in Entries : Unreferenced(d, f)
    BY <1>3, <2>1, <2>3 DEF Unreferenced
  <2>6. d.cur_size <= max_size
    <3>1. d.cur_size = m.cur_size
      BY <2>1, <2>3, <2>4, SoundFacts
    <3>2. d.cur_size \in Int /\ c.cur_size \in Int /\ max_size \in Int
      BY <1>1, <2>3, SoundFacts, FS_CardinalityType, CacheAssumption DEF CacheAssumption
    <3> QED BY <1>1, <1>2, <2>1, <3>1, <3>2
  <2>7. \A f \in d.table : f \in c.table /\ f # e /\ d.key[f] = c.key[f]
    BY <1>1, <1>2, <2>1, <2>2, <2>3, <2>4
  <2>8. Rested(d)
    BY <2>3, <2>4, <2>5, <2>6 DEF Rested
  <2> QED BY <1>5, <2>7, <2>8 DEF d, m, b
<1>6. CASE ~Fails(b, e)
  <2> DEFINE d == Released(m, e)
  <2>1. /\ Sound(m, {}) /\ e \in m.table /\ m.table \subseteq b.table \cup {e}
        /\ m.allocated \subseteq b.allocated
        /\ \A f \in b.table : f \in m.allocated => f \in m.table
        /\ m.delete_pending \subseteq b.delete_pending \cup b.table
        /\ \A f \in Entries : m.ref_count[f] = IF f = e THEN 1 ELSE b.ref_count[f]
        /\ \A f \in m.allocated : m.key[f] = b.key[f]
        /\ m.cur_size <= max_size
    BY <1>1, <1>2, <1>3, <1>4, <1>6, InsertedFacts
  <2> HIDE DEF m
  <2>2. /\ m.table \subseteq m.allocated /\ m.delete_pending \subseteq m.allocated
        /\ m.allocated \subseteq Entries /\ PendingInUse(m)
        /\ m.ref_count \in [Entries -> Nat] /\ m.key \in [Entries -> Keys \cup {NULL}]
    BY <2>1, SoundFacts
  <2>3. m.delete_pending = {} /\ m.allocated = m.table
    <3>1. m.allocated = m.table
      <4>1. m.allocated \subseteq b.table \cup {e}
        BY <1>1, <1>2, <2>1
      <4>2. m.allocated \subseteq m.table
        BY <4>1, <2>1
      <4> QED BY <4>2, <2>2
    <3>2. \A f \in m.delete_pending : f # e /\ m.ref_count[f] = 0 /\ f \in m.table
      BY <1>1, <1>2, <1>3, <2>1, <2>2, <3>1
    <3> QED BY <2>2, <3>1, <3>2 DEF PendingInUse, Unreferenced
  <2>4. ~Unreferenced(m, e)
    BY <2>1 DEF Unreferenced
  <2>5. /\ Sound(d, {}) /\ d.allocated = m.allocated /\ d.table = m.table
        /\ d.delete_pending = m.delete_pending /\ d.key = m.key
        /\ d.ref_count = [m.ref_count EXCEPT ![e] = @ - 1]
    BY <2>1, <2>3, <2>4, ReleasedStays
  <2> HIDE DEF d
  <2>6. \A f \in Entries : Unreferenced(d, f)
    BY <1>3, <2>1, <2>2, <2>5 DEF Unreferenced
  <2>7. d.cur_size = m.cur_size
    BY <2>1, <2>5, SoundFacts
  <2>8. Rested(d)
    BY <2>1, <2>3, <2>5, <2>6, <2>7 DEF Rested
  <2>9. /\ d.table \subseteq c.table \cup {e}
        /\ \A f \in d.table : d.key[f] = IF f = e THEN k ELSE c.key[f]
    BY <1>1, <1>2, <2>1, <2>2, <2>5
  <2> QED BY <1>6, <2>8, <2>9 DEF d, m, b
<1> QED BY <1>5, <1>6

-----------------------------------------------------------------------------
(* A thread has a socket while it looks something up, and an id only then. *)
ThreadsExact ==
    \A t \in Threads :
        /\ Idle(t) <=> port[t] = NULL
        /\ Idle(t) => id[t] = NULL

(* What is on its way with the id of a thread is about its host.           *)
RepliesOfTheirHost ==
    \A m \in net, t \in Threads : m.id = id[t] => m.host = host[t]

EntriesOfTheirHost ==
    \A e \in cache.table : data[e] \in Records /\ data[e].host = cache.key[e]

ReturnedCorrect ==
    returned # NULL => /\ returned.data.host = returned.asked
                       /\ \/ returned.data.came = now
                          \/ now <= returned.data.came + returned.data.ttl

DNSInv ==
    /\ DNSTypeOK /\ Rested(cache)
    /\ ThreadsExact /\ RepliesOfTheirHost /\ EntriesOfTheirHost /\ ReturnedCorrect

LEMMA DatagramFacts ==
    ASSUME NEW m \in Datagrams
    PROVE  /\ m.port \in Ports /\ m.id \in Ids /\ m.host \in Keys /\ m.id # NULL
           /\ m.kind = "addresses" => m.ttl \in TTLs
BY DNSAssumption DEF Datagrams, DNSAssumption

(* Whatever is still on its way was on its way before, as the same or as   *)
(* the reply, and a thread has its id and host as before or no id.         *)
NetKept ==
    /\ \A m \in net' : \E q \in net : m.id = q.id /\ m.host = q.host
    /\ \A t \in Threads : (id'[t] = id[t] /\ host'[t] = host[t]) \/ id'[t] = NULL

LEMMA RepliesKept ==
    ASSUME DNSInv, NetKept PROVE RepliesOfTheirHost'
<1> SUFFICES ASSUME NEW m \in net', NEW t \in Threads, m.id = id'[t]
             PROVE  m.host = host'[t]
  BY DEF RepliesOfTheirHost
<1>1. PICK q \in net : m.id = q.id /\ m.host = q.host
  BY DEF NetKept
<1>2. q.id # NULL
  BY DatagramFacts DEF DNSInv, DNSTypeOK
<1>3. id'[t] = id[t] /\ host'[t] = host[t]
  BY <1>1, <1>2 DEF NetKept
<1> QED BY <1>1, <1>3 DEF DNSInv, RepliesOfTheirHost

LEMMA CacheKept ==
    ASSUME DNSInv, UNCHANGED <<cache, data>>
    PROVE  /\ cache' \in Caches /\ data' \in [Entries -> Records \cup {NULL}]
           /\ Rested(cache') /\ EntriesOfTheirHost'
BY DEF DNSInv, DNSTypeOK, EntriesOfTheirHost

(* The thread returns.                                                     *)
LEMMA ReturnKeeps ==
    ASSUME DNSInv, NEW t \in Threads, Return(t)
    PROVE  /\ host' \in [Threads -> Keys \cup {NULL}] /\ port' \in [Threads -> Ports \cup {NULL}]
           /\ id' \in [Threads -> Ids \cup {NULL}] /\ query' \in [Threads -> 1..Queries]
           /\ ThreadsExact'
           /\ \A s \in Threads : (id'[s] = id[s] /\ host'[s] = host[s]) \/ id'[s] = NULL
<1>1. /\ host \in [Threads -> Keys \cup {NULL}] /\ port \in [Threads -> Ports \cup {NULL}]
      /\ id \in [Threads -> Ids \cup {NULL}] /\ query \in [Threads -> 1..Queries]
      /\ ThreadsExact
  BY DEF DNSInv, DNSTypeOK
<1>2. 1 \in 1..Queries
  BY DNSAssumption DEF DNSAssumption
<1>3. /\ host' = [host EXCEPT ![t] = NULL] /\ port' = [port EXCEPT ![t] = NULL]
      /\ id' = [id EXCEPT ![t] = NULL] /\ query' = [query EXCEPT ![t] = 1]
  BY DEF Return
<1>4. /\ host' \in [Threads -> Keys \cup {NULL}] /\ port' \in [Threads -> Ports \cup {NULL}]
      /\ id' \in [Threads -> Ids \cup {NULL}] /\ query' \in [Threads -> 1..Queries]
  BY <1>1, <1>2, <1>3
<1>5. ThreadsExact'
  BY <1>1, <1>3 DEF ThreadsExact, Idle
<1>6. \A s \in Threads : (id'[s] = id[s] /\ host'[s] = host[s]) \/ id'[s] = NULL
  BY <1>1, <1>3
<1> QED BY <1>4, <1>5, <1>6

LEMMA TryNextKeeps ==
    ASSUME DNSInv, NEW t \in Threads, TryNext(t)
    PROVE  /\ UNCHANGED <<cache, data>> /\ returned' = NULL
           /\ host' \in [Threads -> Keys \cup {NULL}] /\ port' \in [Threads -> Ports \cup {NULL}]
           /\ id' \in [Threads -> Ids \cup {NULL}] /\ query' \in [Threads -> 1..Queries]
           /\ ThreadsExact'
           /\ \A s \in Threads : (id'[s] = id[s] /\ host'[s] = host[s]) \/ id'[s] = NULL
<1>1. CASE query[t] = Queries /\ Fail(t)
  BY <1>1, ReturnKeeps DEF Fail
<1>2. CASE /\ query[t] < Queries
           /\ query' = [query EXCEPT ![t] = @ + 1]
           /\ id' = [id EXCEPT ![t] = NULL]
           /\ returned' = NULL
           /\ UNCHANGED <<cache, data, host, port>>
  <2>1. /\ host \in [Threads -> Keys \cup {NULL}] /\ port \in [Threads -> Ports \cup {NULL}]
        /\ id \in [Threads -> Ids \cup {NULL}] /\ query \in [Threads -> 1..Queries]
        /\ ThreadsExact
    BY DEF DNSInv, DNSTypeOK
  <2>2. query[t] + 1 \in 1..Queries
    BY <1>2, <2>1, DNSAssumption DEF DNSAssumption
  <2>3. id' \in [Threads -> Ids \cup {NULL}] /\ query' \in [Threads -> 1..Queries]
    BY <1>2, <2>1, <2>2
  <2>4. ThreadsExact'
    BY <1>2, <2>1 DEF ThreadsExact, Idle
  <2>5. \A s \in Threads : (id'[s] = id[s] /\ host'[s] = host[s]) \/ id'[s] = NULL
    BY <1>2, <2>1
  <2> QED BY <1>2, <2>1, <2>3, <2>4, <2>5
<1> QED BY <1>1, <1>2 DEF TryNext

(* Nothing is returned.                                                    *)
LEMMA NothingReturned ==
    ASSUME returned' = NULL
    PROVE  ReturnedCorrect' /\ returned' \in [asked : Keys, data : Records] \cup {NULL}
BY DEF ReturnedCorrect

(* The data of the entries that are left are kept.                         *)
LEMMA DataKept ==
    ASSUME NEW d \in [Entries -> Records \cup {NULL}], KeepData(d), Rested(cache'),
           \A e \in cache'.table : d[e] \in Records /\ d[e].host = cache'.key[e]
    PROVE  data' \in [Entries -> Records \cup {NULL}] /\ EntriesOfTheirHost'
<1>1. cache'.table \subseteq Entries /\ cache'.allocated = cache'.table
  BY RestedFacts DEF Rested
<1>2. data' = [e \in Entries |-> IF e \in cache'.allocated THEN d[e] ELSE NULL]
  BY DEF KeepData
<1>3. data' \in [Entries -> Records \cup {NULL}]
  BY <1>2
<1>4. \A e \in cache'.table : data'[e] = d[e]
  BY <1>1, <1>2
<1> QED BY <1>3, <1>4 DEF EntriesOfTheirHost

LEMMA HitFacts ==
    ASSUME DNSInv, NEW h, NEW e \in Hits(cache, h)
    PROVE  /\ e \in cache.table /\ e \in Entries /\ cache.key[e] = h
           /\ data[e] \in Records /\ data[e].host = h
<1>1. e \in cache.table /\ cache.key[e] = h
  BY DEF Hits
<1>2. e \in Entries
  BY <1>1, RestedFacts DEF DNSInv
<1> QED BY <1>1, <1>2 DEF DNSInv, EntriesOfTheirHost

LEMMA ServeKeeps ==
    ASSUME DNSInv, NEW t \in Threads, NEW h \in Keys, ServeFromCache(t, h) PROVE DNSInv'
<1>1. PICK e \in Hits(cache, h) :
        /\ Valid(e) /\ cache' = CacheAfterHit(e)
        /\ returned' = [asked |-> h, data |-> data[e]]
        /\ UNCHANGED <<data, now, net, host, port, id, query>>
  BY DEF ServeFromCache
<1>2. /\ e \in cache.table /\ data[e] \in Records /\ data[e].host = h
  BY <1>1, HitFacts
<1>3. Rested(cache') /\ cache'.table = cache.table /\ cache'.key = cache.key
  BY <1>1, <1>2, HitRests DEF DNSInv, CacheAfterHit
<1>4. cache' \in Caches
  BY <1>3, SoundFacts DEF Rested
<1>5. EntriesOfTheirHost'
  BY <1>1, <1>3 DEF DNSInv, EntriesOfTheirHost
<1>6. ReturnedCorrect' /\ returned' \in [asked : Keys, data : Records] \cup {NULL}
  BY <1>1, <1>2 DEF ReturnedCorrect, Valid
<1>7. DNSTypeOK'
  BY <1>1, <1>4, <1>6 DEF DNSInv, DNSTypeOK
<1>8. ThreadsExact' /\ RepliesOfTheirHost'
  BY <1>1 DEF DNSInv, ThreadsExact, Idle, RepliesOfTheirHost
<1> QED BY <1>3, <1>5, <1>6, <1>7, <1>8 DEF DNSInv

LEMMA StartKeeps ==
    ASSUME DNSInv, NEW t \in Threads, NEW h \in Keys, StartLookup(t, h) PROVE DNSInv'
<1>1. /\ Idle(t) /\ returned' = NULL /\ KeepData(data) /\ UNCHANGED <<now, net, id, query>>
  BY DEF StartLookup
<1>2. /\ Rested(cache') /\ cache'.table \subseteq cache.table
      /\ \A f \in cache'.table : cache'.key[f] = cache.key[f]
  <2>1. CASE Hits(cache, h) = {}
    BY <2>1 DEF StartLookup, DNSInv
  <2>2. CASE Hits(cache, h) # {}
    <3> DEFINE e == CHOOSE e \in Hits(cache, h) : TRUE
               b == Released(Taken(cache, e), e)
    <3>1. e \in Hits(cache, h)
      BY <2>2
    <3>2. e \in cache.table
      BY <3>1, HitFacts
    <3>3. cache' = Deleted(b, e)
      BY <2>2 DEF StartLookup, CacheAfterExpiry
    <3> HIDE DEF e
    <3>4. Rested(b) /\ b.table = cache.table /\ b.key = cache.key
      BY <3>2, HitRests DEF DNSInv
    <3> HIDE DEF b
    <3>5. /\ Rested(cache') /\ cache'.table = b.table \ {e}
          /\ \A f \in cache'.table : cache'.key[f] = b.key[f]
      BY <3>2, <3>3, <3>4, DeletedRests
    <3> QED BY <3>4, <3>5
  <2> QED BY <2>1, <2>2
<1>3. cache' \in Caches
  BY <1>2, SoundFacts DEF Rested
<1>4. data' \in [Entries -> Records \cup {NULL}] /\ EntriesOfTheirHost'
  <2>1. \A e \in cache'.table : data[e] \in Records /\ data[e].host = cache'.key[e]
    BY <1>2 DEF DNSInv, EntriesOfTheirHost
  <2> QED BY <1>1, <1>2, <2>1, DataKept DEF DNSInv, DNSTypeOK
<1>5. /\ host' \in [Threads -> Keys \cup {NULL}] /\ port' \in [Threads -> Ports \cup {NULL}]
      /\ ThreadsExact'
      /\ \A s \in Threads : s # t => host'[s] = host[s]
  <2>1. /\ host \in [Threads -> Keys \cup {NULL}] /\ port \in [Threads -> Ports \cup {NULL}]
        /\ ThreadsExact /\ id' = id /\ id[t] = NULL
    BY <1>1 DEF DNSInv, DNSTypeOK, ThreadsExact
  <2>2. CASE UNCHANGED <<port, host>>
    BY <2>1, <2>2 DEF ThreadsExact, Idle
  <2>3. ASSUME NEW p \in Ports, port' = [port EXCEPT ![t] = p], host' = [host EXCEPT ![t] = h]
        PROVE  /\ host' \in [Threads -> Keys \cup {NULL}]
               /\ port' \in [Threads -> Ports \cup {NULL}] /\ ThreadsExact'
               /\ \A s \in Threads : s # t => host'[s] = host[s]
    <3>1. p # NULL /\ h # NULL
      BY DNSAssumption, CacheAssumption DEF DNSAssumption, CacheAssumption
    <3>2. ThreadsExact'
      BY <2>1, <2>3, <3>1 DEF ThreadsExact, Idle
    <3> QED BY <2>1, <2>3, <3>2
  <2> QED BY <2>2, <2>3 DEF StartLookup
<1>6. RepliesOfTheirHost'
  <2>1. id[t] = NULL
    BY <1>1 DEF DNSInv, ThreadsExact
  <2>2. NetKept
    BY <1>1, <1>5, <2>1 DEF NetKept
  <2> QED BY <2>2, RepliesKept
<1>7. DNSTypeOK' /\ ReturnedCorrect'
  BY <1>1, <1>3, <1>4, <1>5, NothingReturned DEF DNSInv, DNSTypeOK
<1> QED BY <1>2, <1>4, <1>5, <1>6, <1>7 DEF DNSInv

LEMMA SendKeeps ==
    ASSUME DNSInv, NEW t \in Threads, SendQuery(t) PROVE DNSInv'
<1>1. PICK i \in Ids :
        /\ Asking(t)
        /\ \A m \in net : m.id # i
        /\ \A s \in Threads : id[s] # i
        /\ id' = [id EXCEPT ![t] = i]
        /\ net' = net \cup {[kind |-> "query", port |-> port[t], id |-> i, host |-> host[t]]}
        /\ returned' = NULL
        /\ UNCHANGED <<cache, data, now, host, port, query>>
  BY DEF SendQuery
<1> DEFINE q == [kind |-> "query", port |-> port[t], id |-> i, host |-> host[t]]
<1>2. /\ host \in [Threads -> Keys \cup {NULL}] /\ port \in [Threads -> Ports \cup {NULL}]
      /\ id \in [Threads -> Ids \cup {NULL}] /\ ThreadsExact /\ net \subseteq Datagrams
      /\ i # NULL
  BY DNSAssumption DEF DNSInv, DNSTypeOK, DNSAssumption
<1>3. host[t] \in Keys /\ port[t] \in Ports
  BY <1>1, <1>2 DEF Asking, ThreadsExact, Idle
<1>4. net' \subseteq Datagrams
  <2>1. q \in Datagrams
    BY <1>3 DEF Datagrams
  <2> QED BY <1>1, <1>2, <2>1
<1>5. id' \in [Threads -> Ids \cup {NULL}] /\ ThreadsExact'
  BY <1>1, <1>2 DEF Asking, ThreadsExact, Idle
<1>6. RepliesOfTheirHost'
  <2> SUFFICES ASSUME NEW m \in net', NEW s \in Threads, m.id = id'[s]
               PROVE  m.host = host'[s]
    BY DEF RepliesOfTheirHost
  <2>1. CASE m \in net
    <3>1. s # t
      BY <1>1, <1>2, <2>1
    <3> QED BY <1>1, <1>2, <2>1, <3>1 DEF DNSInv, RepliesOfTheirHost
  <2>2. CASE m = q
    <3>1. s = t
      BY <1>1, <1>2, <2>2
    <3> QED BY <1>1, <2>2, <3>1
  <2> QED BY <1>1, <2>1, <2>2
<1>7. DNSTypeOK' /\ ReturnedCorrect'
  BY <1>1, <1>4, <1>5, CacheKept, NothingReturned DEF DNSInv, DNSTypeOK
<1> QED BY <1>1, <1>5, <1>6, <1>7, CacheKept DEF DNSInv

(* What was tried last has failed, and datagrams are gone or not.          *)
LEMMA NextTryKeeps ==
    ASSUME DNSInv, NEW t \in Threads, TryNext(t), net' \subseteq net, now' = now
    PROVE  DNSInv'
<1>1. /\ UNCHANGED <<cache, data>> /\ returned' = NULL
      /\ host' \in [Threads -> Keys \cup {NULL}] /\ port' \in [Threads -> Ports \cup {NULL}]
      /\ id' \in [Threads -> Ids \cup {NULL}] /\ query' \in [Threads -> 1..Queries]
      /\ ThreadsExact'
      /\ \A s \in Threads : (id'[s] = id[s] /\ host'[s] = host[s]) \/ id'[s] = NULL
  BY TryNextKeeps
<1>2. RepliesOfTheirHost'
  BY <1>1, RepliesKept DEF NetKept
<1>3. DNSTypeOK' /\ ReturnedCorrect'
  BY <1>1, CacheKept, NothingReturned DEF DNSInv, DNSTypeOK
<1> QED BY <1>1, <1>2, <1>3, CacheKept DEF DNSInv

LEMMA InterruptKeeps ==
    ASSUME DNSInv, NEW t \in Threads, Interrupt(t) PROVE DNSInv'
<1>1. Return(t) /\ returned' = NULL /\ UNCHANGED <<cache, data, now, net>>
  BY DEF Interrupt, Fail
<1>2. /\ host' \in [Threads -> Keys \cup {NULL}] /\ port' \in [Threads -> Ports \cup {NULL}]
      /\ id' \in [Threads -> Ids \cup {NULL}] /\ query' \in [Threads -> 1..Queries]
      /\ ThreadsExact'
      /\ \A s \in Threads : (id'[s] = id[s] /\ host'[s] = host[s]) \/ id'[s] = NULL
  BY <1>1, ReturnKeeps
<1>3. RepliesOfTheirHost'
  BY <1>1, <1>2, RepliesKept DEF NetKept
<1>4. DNSTypeOK' /\ ReturnedCorrect'
  BY <1>1, <1>2, CacheKept, NothingReturned DEF DNSInv, DNSTypeOK
<1> QED BY <1>1, <1>2, <1>3, <1>4, CacheKept DEF DNSInv

(* A reply that is about the host of the thread it is for.                 *)
LEMMA AddressesKeep ==
    ASSUME DNSInv, NEW t \in Threads, ReceiveAddresses(t) PROVE DNSInv'
<1>1. PICK m \in net :
        /\ Waiting(t) /\ IsReply(t, m) /\ m.kind = "addresses"
        /\ returned' = [asked |-> host[t],
                        data |-> [host |-> m.host, came |-> now, ttl |-> m.ttl]]
        /\ InsertAnswer(host[t], [host |-> m.host, came |-> now, ttl |-> m.ttl])
        /\ net' = net \ {m}
        /\ Return(t)
        /\ UNCHANGED now
  BY DEF ReceiveAddresses
<1> DEFINE r == [host |-> m.host, came |-> now, ttl |-> m.ttl]
<1>2. /\ host' \in [Threads -> Keys \cup {NULL}] /\ port' \in [Threads -> Ports \cup {NULL}]
      /\ id' \in [Threads -> Ids \cup {NULL}] /\ query' \in [Threads -> 1..Queries]
      /\ ThreadsExact'
      /\ \A s \in Threads : (id'[s] = id[s] /\ host'[s] = host[s]) \/ id'[s] = NULL
  BY <1>1, ReturnKeeps
<1>3. RepliesOfTheirHost'
  BY <1>1, <1>2, RepliesKept DEF NetKept
<1>4. m.host = host[t] /\ m.host \in Keys
  <2>1. m.host \in Keys
    BY DatagramFacts DEF DNSInv, DNSTypeOK
  <2> QED BY <1>1, <2>1 DEF IsReply, DNSInv, RepliesOfTheirHost
<1>5. r \in Records /\ r.host = host[t] /\ r.came = now
  <2>1. m.ttl \in TTLs /\ now \in Times
    BY <1>1, DatagramFacts DEF DNSInv, DNSTypeOK
  <2> QED BY <1>4, <2>1 DEF Records
<1>6. ReturnedCorrect' /\ returned' \in [asked : Keys, data : Records] \cup {NULL}
  BY <1>1, <1>4, <1>5 DEF ReturnedCorrect
<1>7. /\ Rested(cache') /\ cache' \in Caches
      /\ data' \in [Entries -> Records \cup {NULL}] /\ EntriesOfTheirHost'
  <2> HIDE DEF r
  <2>1. CASE UNCHANGED <<cache, data>>
    BY <2>1, CacheKept
  <2>2. ASSUME NEW w \in Weights, Entries # cache.allocated,
               LET e == CHOOSE e \in Entries : e \notin cache.allocated
                   c == Created(cache, e, host[t], w) IN
               /\ cache' = IF Fails(c, e) THEN Deleted(Inserted(c, e), e)
                           ELSE Released(Inserted(c, e), e)
               /\ KeepData([data EXCEPT ![e] = r])
        PROVE  /\ Rested(cache') /\ cache' \in Caches
               /\ data' \in [Entries -> Records \cup {NULL}] /\ EntriesOfTheirHost'
    <3> DEFINE e == CHOOSE e \in Entries : e \notin cache.allocated
               c == Created(cache, e, host[t], w)
               d == [data EXCEPT ![e] = r]
    <3>1. Rested(cache) /\ data \in [Entries -> Records \cup {NULL}] /\ EntriesOfTheirHost
      BY DEF DNSInv, DNSTypeOK
    <3>2. cache.allocated \subseteq Entries
      BY <3>1, SoundFacts DEF Rested
    <3>3. e \in Entries \ cache.allocated
      BY <2>2, <3>2
    <3>4. /\ cache' = IF Fails(c, e) THEN Deleted(Inserted(c, e), e)
                      ELSE Released(Inserted(c, e), e)
          /\ KeepData(d)
      BY <2>2
    <3> HIDE DEF e
    <3>5. /\ Rested(cache') /\ cache'.table \subseteq cache.table \cup {e}
          /\ \A f \in cache'.table :
               cache'.key[f] = IF f = e THEN host[t] ELSE cache.key[f]
      BY <1>4, <3>1, <3>3, <3>4, InsertRests
    <3>6. d \in [Entries -> Records \cup {NULL}]
      BY <1>5, <3>1
    <3>7. \A f \in cache'.table : d[f] \in Records /\ d[f].host = cache'.key[f]
      <4> SUFFICES ASSUME NEW f \in cache'.table
                   PROVE  d[f] \in Records /\ d[f].host = cache'.key[f]
        OBVIOUS
      <4>1. CASE f = e
        BY <1>5, <3>1, <3>3, <3>5, <4>1
      <4>2. CASE f # e
        <5>1. f \in cache.table /\ f \in Entries
          BY <3>1, <3>5, <4>2, RestedFacts
        <5>2. d[f] = data[f]
          BY <3>1, <4>2, <5>1
        <5> QED BY <3>1, <3>5, <4>2, <5>1, <5>2 DEF EntriesOfTheirHost
      <4> QED BY <4>1, <4>2
    <3> HIDE DEF d
    <3>8. data' \in [Entries -> Records \cup {NULL}] /\ EntriesOfTheirHost'
      BY <3>4, <3>5, <3>6, <3>7, DataKept
    <3> QED BY <3>5, <3>8, SoundFacts DEF Rested
  <2> QED BY <1>1, <2>1, <2>2 DEF InsertAnswer, r
<1>8. DNSTypeOK'
  BY <1>1, <1>2, <1>6, <1>7 DEF DNSInv, DNSTypeOK
<1> QED BY <1>2, <1>3, <1>6, <1>7, <1>8 DEF DNSInv

(* The net.                                                                *)
LEMMA NetKeeps ==
    ASSUME DNSInv, net' \subseteq Datagrams,
           \A m \in net' : \E q \in net : m.id = q.id /\ m.host = q.host,
           now' \in Times, returned' = NULL,
           UNCHANGED <<cache, data, host, port, id, query>>
    PROVE  DNSInv'
<1>1. RepliesOfTheirHost'
  BY RepliesKept DEF NetKept
<1>2. DNSTypeOK' /\ ReturnedCorrect'
  BY CacheKept, NothingReturned DEF DNSInv, DNSTypeOK
<1>3. ThreadsExact'
  BY DEF DNSInv, ThreadsExact, Idle
<1> QED BY <1>1, <1>2, <1>3, CacheKept DEF DNSInv

LEMMA DNSInitInv == DNSInit => DNSInv
<1> SUFFICES ASSUME DNSInit PROVE DNSInv
  OBVIOUS
<1>1. /\ cache = NewCache /\ data = [e \in Entries |-> NULL] /\ now = 0 /\ net = {}
      /\ host = [t \in Threads |-> NULL] /\ port = [t \in Threads |-> NULL]
      /\ id = [t \in Threads |-> NULL] /\ query = [t \in Threads |-> 1]
      /\ returned = NULL
  BY DEF DNSInit
<1>2. Rested(cache) /\ cache \in Caches
  <2>1. \A e \in Entries : Unreferenced(NewCache, e)
    BY DEF NewCache, Unreferenced
  <2>2. max_size \in Nat
    BY CacheAssumption DEF CacheAssumption
  <2> QED BY <1>1, <2>1, <2>2, NewSound, SoundFacts DEF Rested
<1>3. EntriesOfTheirHost /\ RepliesOfTheirHost /\ ThreadsExact /\ ReturnedCorrect
  BY <1>1, NewSound DEF EntriesOfTheirHost, RepliesOfTheirHost, ThreadsExact, Idle,
                        ReturnedCorrect
<1>4. DNSTypeOK
  <2>1. 0 \in Times /\ 1 \in 1..Queries
    BY DNSAssumption DEF DNSAssumption, Times
  <2> QED BY <1>1, <1>2, <2>1 DEF DNSTypeOK
<1> QED BY <1>2, <1>3, <1>4 DEF DNSInv

LEMMA ProgressKeeps ==
    ASSUME DNSInv, NEW t \in Threads, Progress(t) PROVE DNSInv'
<1>1. CASE SendFails(t)
  BY <1>1, NextTryKeeps DEF SendFails
<1>2. CASE ReceiveFailure(t)
  <2>1. TryNext(t) /\ net' \subseteq net /\ now' = now
    BY <1>2 DEF ReceiveFailure
  <2> QED BY <2>1, NextTryKeeps
<1>3. CASE ReceiveStray(t)
  <2>1. /\ net' \subseteq net /\ returned' = NULL
        /\ UNCHANGED <<cache, data, now, host, port, id, query>>
    BY <1>3 DEF ReceiveStray
  <2>2. net' \subseteq Datagrams /\ now' \in Times
    BY <2>1 DEF DNSInv, DNSTypeOK
  <2> QED BY <2>1, <2>2, NetKeeps
<1>4. CASE TimeOut(t)
  BY <1>4, NextTryKeeps DEF TimeOut
<1> QED BY <1>1, <1>2, <1>3, <1>4, SendKeeps, AddressesKeep DEF Progress

LEMMA ReplyKeeps ==
    ASSUME DNSInv, Reply PROVE DNSInv'
<1>1. PICK m \in net :
        /\ m.kind = "query"
        /\ \/ net' = (net \ {m}) \cup {[m EXCEPT !.kind = "failure"]}
           \/ \E ttl \in TTLs :
                net' = (net \ {m}) \cup
                       {[kind |-> "addresses", port |-> m.port, id |-> m.id,
                         host |-> m.host, ttl |-> ttl]}
        /\ returned' = NULL
        /\ UNCHANGED <<cache, data, now, host, port, id, query>>
  BY DEF Reply
<1>2. net \subseteq Datagrams /\ m \in Datagrams /\ now' \in Times
  BY <1>1 DEF DNSInv, DNSTypeOK
<1>3. m \in [kind : {"query", "failure"}, port : Ports, id : Ids, host : Keys]
  BY <1>1, <1>2 DEF Datagrams
<1>4. \E q \in Datagrams : /\ net' = (net \ {m}) \cup {q}
                           /\ q.id = m.id /\ q.host = m.host
  <2>1. CASE net' = (net \ {m}) \cup {[m EXCEPT !.kind = "failure"]}
    <3> DEFINE q == [m EXCEPT !.kind = "failure"]
    <3>1. q \in Datagrams /\ q.id = m.id /\ q.host = m.host
      BY <1>3 DEF Datagrams
    <3> QED BY <2>1, <3>1
  <2>2. ASSUME NEW ttl \in TTLs,
               net' = (net \ {m}) \cup
                      {[kind |-> "addresses", port |-> m.port, id |-> m.id,
                        host |-> m.host, ttl |-> ttl]}
        PROVE  \E q \in Datagrams : /\ net' = (net \ {m}) \cup {q}
                                    /\ q.id = m.id /\ q.host = m.host
    <3> DEFINE q == [kind |-> "addresses", port |-> m.port, id |-> m.id,
                     host |-> m.host, ttl |-> ttl]
    <3>1. q \in Datagrams /\ q.id = m.id /\ q.host = m.host
      BY <1>3 DEF Datagrams
    <3> QED BY <2>2, <3>1
  <2> QED BY <1>1, <2>1, <2>2
<1>5. /\ net' \subseteq Datagrams
      /\ \A p \in net' : \E q \in net : p.id = q.id /\ p.host = q.host
  BY <1>2, <1>4
<1> QED BY <1>1, <1>2, <1>5, NetKeeps

LEMMA DNSNextKeeps == DNSInv /\ [DNSNext]_dnsVars => DNSInv'
<1> SUFFICES ASSUME DNSInv, [DNSNext]_dnsVars PROVE DNSInv'
  OBVIOUS
<1>1. CASE \E t \in Threads : \/ \E h \in Keys : ServeFromCache(t, h) \/ StartLookup(t, h)
                              \/ Progress(t) \/ Interrupt(t)
  BY <1>1, ServeKeeps, StartKeeps, ProgressKeeps, InterruptKeeps
<1>2. CASE Reply
  BY <1>2, ReplyKeeps
<1>3. net \subseteq Datagrams /\ now \in Times
  BY DEF DNSInv, DNSTypeOK
<1>4. CASE Lose
  <2>1. /\ net' \subseteq net /\ returned' = NULL
        /\ UNCHANGED <<cache, data, now, host, port, id, query>>
    BY <1>4 DEF Lose
  <2> QED BY <1>3, <2>1, NetKeeps
<1>5. CASE Tick
  <2>1. /\ now' \in Times /\ returned' = NULL
        /\ UNCHANGED <<cache, data, net, host, port, id, query>>
    BY <1>3, <1>5, DNSAssumption DEF Tick, Times, DNSAssumption
  <2> QED BY <1>3, <2>1, NetKeeps
<1>6. CASE UNCHANGED dnsVars
  BY <1>6 DEF dnsVars, DNSInv, DNSTypeOK, ThreadsExact, Idle, RepliesOfTheirHost,
              EntriesOfTheirHost, ReturnedCorrect
<1> QED BY <1>1, <1>2, <1>4, <1>5, <1>6 DEF DNSNext

(* The invariant holds whatever the threads, the servers and the net do.   *)
THEOREM DNSInductiveInvariant == DNSSpec => []DNSInv
BY DNSInitInv, DNSNextKeeps, PTL DEF DNSSpec

(* What a lookup returns and what the cache has is of the host that was    *)
(* asked for, and what is returned is still good, whatever replies come    *)
(* late or to another thread (dnsres.c:157-162, dnscache.c:60-122).        *)
THEOREM AnswersAreCorrect == DNSSpec => []AnswersCorrect
<1>1. DNSInv => AnswersCorrect
  BY DEF DNSInv, AnswersCorrect, AnswersOfTheirHost, EntriesOfTheirHost, NoStaleAnswer,
         ReturnedCorrect
<1> QED BY <1>1, DNSInductiveInvariant, PTL

(* Every entry that a lookup took is given back before the thread waits,   *)
(* so that all of them can make room (dnscache.c:60-87, 112-122).          *)
THEOREM AllCanMakeRoom == DNSSpec => []NothingPinned
<1>1. ASSUME DNSInv PROVE NothingPinned
  <2>1. Rested(cache)
    BY <1>1 DEF DNSInv
  <2>2. /\ CacheConsistent(cache) /\ cache.table \subseteq Entries
    BY <2>1, SoundFacts DEF Rested, CacheConsistent
  <2> QED BY <2>1, <2>2 DEF Rested, NothingPinned
<1> QED BY <1>1, DNSInductiveInvariant, PTL

=============================================================================
