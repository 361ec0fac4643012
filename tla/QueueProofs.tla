---------------------------- MODULE QueueProofs ----------------------------
(***************************************************************************)
(* What the queue operations do to the set of queued elements and to their *)
(* order, that they keep each element queued at most once, and what sums   *)
(* over finite sets are.                                                   *)
(***************************************************************************)
EXTENDS Queues, SequenceTheorems, FiniteSetTheorems, WellFoundedInduction, TLAPS

(* The library's ToSet and IsInjective in terms of indices.                *)
LEMMA SeqDomain ==
  ASSUME NEW S, NEW s \in Seq(S)
  PROVE  /\ \A x : x \in ToSet(s) <=> \E i \in 1..Len(s) : s[i] = x
         /\ IsInjective(s) <=> \A i, j \in 1..Len(s) : s[i] = s[j] => i = j
<1>1. DOMAIN s = 1..Len(s)
  OBVIOUS
<1>2. QED
  BY <1>1 DEF ToSet, IsInjective

(* Unlink closes the gap.                                                  *)
LEMMA UnlinkAt ==
  ASSUME NEW S, NEW s \in Seq(S), NEW t \in ToSet(s), IsInjective(s)
  PROVE  /\ Unlink(s, t) \in Seq(S) /\ Len(Unlink(s, t)) = Len(s) - 1
         /\ \A p \in 1..Len(s) : s[p] = t =>
              \A i \in 1..(Len(s) - 1) :
                 Unlink(s, t)[i] = IF i < p THEN s[i] ELSE s[i + 1]
<1> DEFINE p == CHOOSE i \in 1..Len(s) : s[i] = t
           a == SubSeq(s, 1, p - 1)
           b == SubSeq(s, p + 1, Len(s))
           u == Unlink(s, t)
<1>0. /\ \A x : x \in ToSet(s) <=> \E i \in 1..Len(s) : s[i] = x
      /\ \A i, j \in 1..Len(s) : s[i] = s[j] => i = j
  BY SeqDomain
<1>1. p \in 1..Len(s) /\ s[p] = t
  BY <1>0
<1>2. u = a \o b
  BY DEF Unlink, RemoveAt
<1> HIDE DEF p, u
<1>3. a \in Seq(S) /\ Len(a) = p - 1 /\ \A i \in 1..(p - 1) : a[i] = s[i]
  BY <1>1
<1>4. /\ b \in Seq(S) /\ Len(b) = Len(s) - p
      /\ \A i \in 1..(Len(s) - p) : b[i] = s[p + i]
  BY <1>1
<1> HIDE DEF a, b
<1>5. /\ u \in Seq(S) /\ Len(u) = Len(a) + Len(b)
      /\ \A i \in 1..(Len(a) + Len(b)) :
            u[i] = IF i <= Len(a) THEN a[i] ELSE b[i - Len(a)]
  BY <1>2, <1>3, <1>4, ConcatProperties
<1>6. Len(u) = Len(s) - 1
  BY <1>1, <1>3, <1>4, <1>5
<1>7. \A i \in 1..(Len(s) - 1) : u[i] = IF i < p THEN s[i] ELSE s[i + 1]
  <2>1. ASSUME NEW i \in 1..(Len(s) - 1), i < p
        PROVE  u[i] = s[i]
    <3>1. /\ i \in 1..(p - 1) /\ i <= Len(a)
          /\ i \in 1..(Len(a) + Len(b))
      BY <2>1, <1>1, <1>3, <1>4
    <3>2. u[i] = a[i] /\ a[i] = s[i]
      BY <3>1, <1>3, <1>5
    <3>3. QED
      BY <3>2
  <2>2. ASSUME NEW i \in 1..(Len(s) - 1), ~ (i < p)
        PROVE  u[i] = s[i + 1]
    <3>1. /\ i - Len(a) \in 1..(Len(s) - p) /\ ~ (i <= Len(a))
          /\ p + (i - Len(a)) = i + 1 /\ i \in 1..(Len(a) + Len(b))
      BY <2>2, <1>1, <1>3, <1>4
    <3>2. u[i] = b[i - Len(a)] /\ b[i - Len(a)] = s[p + (i - Len(a))]
      BY <3>1, <1>4, <1>5
    <3>3. QED
      BY <3>1, <3>2
  <2>3. QED
    BY <2>1, <2>2
<1>8. \A k \in 1..Len(s) : s[k] = t => k = p
  BY <1>0, <1>1
<1>9. u \in Seq(S)
  BY <1>5
<1>10. QED
  BY <1>6, <1>7, <1>8, <1>9, Zenon DEF u

(* Unlink takes one element out and keeps the others.                      *)
LEMMA UnlinkLemma ==
  ASSUME NEW S, NEW s \in Seq(S), NEW t \in ToSet(s), IsInjective(s)
  PROVE  /\ Unlink(s, t) \in Seq(S)
         /\ IsInjective(Unlink(s, t))
         /\ \A x : x \in ToSet(Unlink(s, t)) <=> x \in ToSet(s) /\ x # t
         /\ Len(Unlink(s, t)) = Len(s) - 1
         /\ \A k \in 1..Len(s) : s[k] = t =>
              \A j \in k..(Len(s) - 1) : Unlink(s, t)[j] = s[j + 1]
<1> DEFINE u == Unlink(s, t)
<1>0. /\ \A x : x \in ToSet(s) <=> \E i \in 1..Len(s) : s[i] = x
      /\ \A i, j \in 1..Len(s) : s[i] = s[j] => i = j
  BY SeqDomain
<1>1. PICK p \in 1..Len(s) : s[p] = t
  BY <1>0
<1>2. u \in Seq(S) /\ Len(u) = Len(s) - 1
  BY UnlinkAt
<1>3. Len(u) = Len(s) - 1
  BY <1>2
<1>4. \A i \in 1..(Len(s) - 1) : u[i] = IF i < p THEN s[i] ELSE s[i + 1]
  BY <1>1, UnlinkAt
<1> HIDE DEF u
<1>5. \A i, j \in 1..Len(u) : u[i] = u[j] => i = j
  BY <1>0, <1>1, <1>3, <1>4
<1>6. \A x : (\E i \in 1..Len(u) : u[i] = x)
               <=> (\E i \in 1..Len(s) : s[i] = x) /\ x # t
  <2>1. ASSUME NEW x, NEW i \in 1..Len(u), u[i] = x
        PROVE  (\E j \in 1..Len(s) : s[j] = x) /\ x # t
    BY <2>1, <1>0, <1>1, <1>3, <1>4
  <2>2. ASSUME NEW x, NEW j \in 1..Len(s), s[j] = x, x # t
        PROVE  \E i \in 1..Len(u) : u[i] = x
    <3>1. CASE j < p
      BY <2>2, <3>1, <1>1, <1>3, <1>4
    <3>2. CASE j > p
      <4>1. u[j - 1] = x /\ j - 1 \in 1..Len(u)
        BY <2>2, <3>2, <1>1, <1>3, <1>4
      <4>2. QED
        BY <4>1
    <3>3. QED
      BY <3>1, <3>2, <2>2, <1>1
  <2>3. QED
    BY <2>1, <2>2
<1>7. u \in Seq(S)
  BY <1>2
<1>8. /\ IsInjective(u)
       /\ \A x : x \in ToSet(u) <=> \E i \in 1..Len(u) : u[i] = x
  <2>1. /\ \A x : x \in ToSet(u) <=> \E i \in 1..Len(u) : u[i] = x
        /\ IsInjective(u) <=> \A i, j \in 1..Len(u) : u[i] = u[j] => i = j
    BY <1>7, SeqDomain
  <2>2. QED
    BY <1>5, <2>1
<1>9. \A k \in 1..Len(s) : s[k] = t =>
          \A j \in k..(Len(s) - 1) : u[j] = s[j + 1]
  BY <1>0, <1>1, <1>4
<1>10. QED
  BY <1>0, <1>3, <1>6, <1>7, <1>8, <1>9, Zenon DEF u

(* Append adds one element.                                                *)
LEMMA AppendLemma ==
  ASSUME NEW S, NEW s \in Seq(S), NEW t \in S
  PROVE  /\ Append(s, t) \in Seq(S)
         /\ IsInjective(s) /\ t \notin ToSet(s) => IsInjective(Append(s, t))
         /\ \A x : x \in ToSet(Append(s, t)) <=> x \in ToSet(s) \/ x = t
         /\ Append(s, t) # <<>>
<1> DEFINE u == Append(s, t)
<1>1. /\ u \in Seq(S) /\ Len(u) = Len(s) + 1
      /\ \A i \in 1..Len(u) : u[i] = IF i = Len(u) THEN t ELSE s[i]
  OBVIOUS
<1> HIDE DEF u
<1>2. u # <<>>
  BY <1>1
<1>3. \A x : (\E i \in 1..Len(u) : u[i] = x)
               <=> (\E i \in 1..Len(s) : s[i] = x) \/ x = t
  BY <1>1
<1>4. (/\ \A i, j \in 1..Len(s) : s[i] = s[j] => i = j
       /\ ~ \E i \in 1..Len(s) : s[i] = t)
        => \A i, j \in 1..Len(u) : u[i] = u[j] => i = j
  BY <1>1
<1>5. /\ \A x : x \in ToSet(s) <=> \E i \in 1..Len(s) : s[i] = x
      /\ IsInjective(s) => \A i, j \in 1..Len(s) : s[i] = s[j] => i = j
  BY SeqDomain
<1>6. \A x : x \in ToSet(u) <=> \E i \in 1..Len(u) : u[i] = x
  BY <1>1, SeqDomain
<1>7. ASSUME IsInjective(s), t \notin ToSet(s)
      PROVE  IsInjective(u)
  BY <1>1, <1>4, <1>5, <1>7, SeqDomain
<1>8. QED
  BY <1>1, <1>2, <1>3, <1>5, <1>6, <1>7, Zenon DEF u

(* Tail takes the head off.                                                *)
LEMMA TailLemma ==
  ASSUME NEW S, NEW s \in Seq(S), s # <<>>, IsInjective(s)
  PROVE  /\ Head(s) \in S /\ Tail(s) \in Seq(S)
         /\ IsInjective(Tail(s))
         /\ \A x : x \in ToSet(Tail(s)) <=> x \in ToSet(s) /\ x # Head(s)
         /\ Head(s) \in ToSet(s)
<1> DEFINE u == Tail(s)
           h == Head(s)
<1>1. /\ u \in Seq(S) /\ Len(u) = Len(s) - 1 /\ Len(s) \in Nat \ {0}
      /\ h = s[1] /\ h \in S
      /\ \A i \in 1..Len(u) : u[i] = s[i + 1]
  OBVIOUS
<1> HIDE DEF u, h
<1>2. /\ \A x : x \in ToSet(s) <=> \E i \in 1..Len(s) : s[i] = x
      /\ \A i, j \in 1..Len(s) : s[i] = s[j] => i = j
  BY SeqDomain
<1>3. \A i, j \in 1..Len(u) : u[i] = u[j] => i = j
  BY <1>1, <1>2
<1>4. \A x : (\E i \in 1..Len(u) : u[i] = x)
               <=> (\E i \in 1..Len(s) : s[i] = x) /\ x # h
  <2>1. ASSUME NEW x, NEW i \in 1..Len(u), u[i] = x
        PROVE  (\E j \in 1..Len(s) : s[j] = x) /\ x # h
    BY <2>1, <1>1, <1>2
  <2>2. ASSUME NEW x, NEW j \in 1..Len(s), s[j] = x, x # h
        PROVE  \E i \in 1..Len(u) : u[i] = x
    <3>1. u[j - 1] = x /\ j - 1 \in 1..Len(u)
      BY <2>2, <1>1
    <3>2. QED
      BY <3>1
  <2>3. QED
    BY <2>1, <2>2
<1>5. IsInjective(u)
  BY <1>1, <1>3, SeqDomain
<1>6. \A x : x \in ToSet(u) <=> \E i \in 1..Len(u) : u[i] = x
  BY <1>1, SeqDomain
<1>7. h \in ToSet(s)
  <2>1. 1 \in 1..Len(s) /\ s[1] = h
    BY <1>1
  <2>2. QED
    BY <2>1, <1>2
<1>8. QED
  BY <1>1, <1>2, <1>4, <1>5, <1>6, <1>7, Zenon DEF u, h

(* The empty queue.                                                        *)
LEMMA EmptyLemma ==
  ASSUME NEW S, NEW s \in Seq(S), Len(s) = 0
  PROVE  IsInjective(s) /\ \A x : x \notin ToSet(s)
<1>1. \A i : i \notin 1..Len(s)
  OBVIOUS
<1>2. /\ \A x : x \in ToSet(s) <=> \E i \in 1..Len(s) : s[i] = x
      /\ IsInjective(s) <=> \A i, j \in 1..Len(s) : s[i] = s[j] => i = j
  BY SeqDomain
<1>3. QED
  BY <1>1, <1>2

-----------------------------------------------------------------------------
LTNat == {p \in Nat \X Nat : p[1] < p[2]}

(* A nonempty set of natural numbers has a least element.                  *)
LEMMA NatMin ==
  ASSUME NEW T, T \subseteq Nat, T # {}
  PROVE  \E x \in T : \A y \in T : x <= y
<1>1. OpToRel(<, Nat) = LTNat
  BY Zenon DEF OpToRel, LTNat
<1>2. IsWellFoundedOn(LTNat, Nat)
  BY <1>1, NatLessThanWellFounded, Zenon
<1>3. \E x \in T : \A y \in T : ~ (<<y, x>> \in LTNat)
  BY <1>2, WFMin, Zenon
<1>4. ASSUME NEW x \in T, NEW y \in T, ~ (<<y, x>> \in LTNat)
      PROVE  x <= y
  BY <1>4 DEF LTNat
<1>5. QED
  BY <1>3, <1>4

-----------------------------------------------------------------------------
(* The order of a queue.                                                   *)

LEMMA BeforeDef ==
  ASSUME NEW S, NEW s \in Seq(S)
  PROVE  \A x, y : Before(s, x, y) <=>
                     \E i, j \in 1..Len(s) : i < j /\ s[i] = x /\ s[j] = y
<1>1. DOMAIN s = 1..Len(s)
  OBVIOUS
<1> QED BY <1>1, Zenon DEF Before

LEMMA BeforeIn ==
  ASSUME NEW S, NEW s \in Seq(S)
  PROVE  \A x, y : Before(s, x, y) => x \in ToSet(s) /\ y \in ToSet(s)
BY BeforeDef, SeqDomain

(* A queue is determined by its elements and their order.                  *)
LEMMA SameOrder ==
  ASSUME NEW S, NEW r \in Seq(S), NEW q \in Seq(S), IsInjective(r), IsInjective(q),
         \A x : x \in ToSet(r) <=> x \in ToSet(q),
         \A x, y : Before(r, x, y) => Before(q, x, y)
  PROVE  r = q
<1>1. /\ \A x : (\E i \in 1..Len(r) : r[i] = x) <=> (\E i \in 1..Len(q) : q[i] = x)
      /\ \A i, j \in 1..Len(r) : r[i] = r[j] => i = j
      /\ \A i, j \in 1..Len(q) : q[i] = q[j] => i = j
  <2>1. /\ \A x : x \in ToSet(r) <=> \E i \in 1..Len(r) : r[i] = x
        /\ \A i, j \in 1..Len(r) : r[i] = r[j] => i = j
    BY SeqDomain
  <2>2. /\ \A x : x \in ToSet(q) <=> \E i \in 1..Len(q) : q[i] = x
        /\ \A i, j \in 1..Len(q) : q[i] = q[j] => i = j
    BY SeqDomain
  <2> QED BY <2>1, <2>2
<1>2. \A i, j \in 1..Len(r) : i < j =>
          \E k, l \in 1..Len(q) : k < l /\ q[k] = r[i] /\ q[l] = r[j]
  <2> TAKE i, j \in 1..Len(r)
  <2> HAVE i < j
  <2>1. Before(r, r[i], r[j])
    BY BeforeDef
  <2>2. Before(q, r[i], r[j])
    BY <2>1
  <2> QED BY <2>2, BeforeDef
<1>3. \A i \in 1..Len(r) : i \in 1..Len(q) /\ q[i] = r[i]
  <2> DEFINE Bad == {i \in 1..Len(r) : ~ (i \in 1..Len(q) /\ q[i] = r[i])}
  <2> SUFFICES ASSUME Bad # {} PROVE FALSE
    OBVIOUS
  <2>1. Bad \subseteq Nat
    OBVIOUS
  <2> HIDE DEF Bad
  <2>2. PICK n \in Bad : \A m \in Bad : n <= m
    BY <2>1, NatMin
  <2>3. /\ n \in 1..Len(r) /\ ~ (n \in 1..Len(q) /\ q[n] = r[n])
        /\ \A m \in 1..Len(r) : m < n => m \in 1..Len(q) /\ q[m] = r[m]
    BY <2>1, <2>2 DEF Bad
  <2>4. PICK j \in 1..Len(q) : q[j] = r[n]
    BY <1>1, <2>3
  <2>5. j > n
    <3>1. j # n
      BY <2>3, <2>4
    <3>2. ASSUME j < n PROVE FALSE
      <4>1. j \in 1..Len(r) /\ q[j] = r[j]
        BY <2>3, <3>2
      <4> QED BY <1>1, <2>3, <2>4, <3>2, <4>1
    <3> QED BY <3>1, <3>2, <2>3
  <2>6. n \in 1..Len(q)
    BY <2>3, <2>5
  <2>7. PICK k \in 1..Len(r) : r[k] = q[n]
    BY <1>1, <2>6
  <2>8. k > n
    <3>1. k # n
      BY <2>3, <2>6, <2>7
    <3>2. ASSUME k < n PROVE FALSE
      <4>1. k \in 1..Len(q) /\ q[k] = r[k]
        BY <2>3, <3>2
      <4> QED BY <1>1, <2>6, <2>7, <3>2, <4>1
    <3> QED BY <3>1, <3>2, <2>3
  <2>9. PICK a, b \in 1..Len(q) : a < b /\ q[a] = r[n] /\ q[b] = r[k]
    BY <1>2, <2>3, <2>8
  <2>10. a = j /\ b = n
    BY <1>1, <2>4, <2>6, <2>7, <2>9
  <2> QED BY <2>5, <2>9, <2>10
<1>4. Len(q) = Len(r)
  <2>1. Len(r) <= Len(q)
    <3>1. CASE Len(r) = 0
      BY <3>1
    <3>2. CASE Len(r) # 0
      <4>1. Len(r) \in 1..Len(r)
        BY <3>2
      <4> QED BY <1>3, <4>1
    <3> QED BY <3>1, <3>2
  <2>2. ASSUME Len(r) < Len(q) PROVE FALSE
    <3>1. Len(q) \in 1..Len(q)
      BY <2>2
    <3>2. PICK k \in 1..Len(r) : r[k] = q[Len(q)]
      BY <1>1, <3>1
    <3>3. k \in 1..Len(q) /\ q[k] = q[Len(q)]
      BY <1>3, <3>2
    <3> QED BY <1>1, <2>2, <3>1, <3>2, <3>3
  <2> QED BY <2>1, <2>2
<1> QED BY <1>3, <1>4, SeqEqual

(* Taking an element out keeps the order of the others.                    *)
LEMMA UnlinkOrder ==
  ASSUME NEW S, NEW s \in Seq(S), NEW t \in ToSet(s), IsInjective(s)
  PROVE  \A x, y : Before(Unlink(s, t), x, y) <=> Before(s, x, y) /\ x # t /\ y # t
<1> DEFINE u == Unlink(s, t)
<1>0. /\ \A x : x \in ToSet(s) <=> \E i \in 1..Len(s) : s[i] = x
      /\ \A i, j \in 1..Len(s) : s[i] = s[j] => i = j
  BY SeqDomain
<1>1. PICK p \in 1..Len(s) : s[p] = t
  BY <1>0
<1>2. u \in Seq(S) /\ Len(u) = Len(s) - 1
  BY UnlinkLemma
<1>3. \A i \in 1..Len(u) : u[i] = IF i < p THEN s[i] ELSE s[i + 1]
  BY <1>1, <1>2, UnlinkAt
<1> HIDE DEF u
<1>4. ASSUME NEW x, NEW y, Before(u, x, y)
      PROVE  Before(s, x, y) /\ x # t /\ y # t
  <2>1. PICK i, j \in 1..Len(u) : i < j /\ u[i] = x /\ u[j] = y
    BY <1>2, <1>4, BeforeDef
  <2>2. PICK k, l \in 1..Len(s) : k < l /\ s[k] = x /\ s[l] = y /\ k # p /\ l # p
    <3> DEFINE k == IF i < p THEN i ELSE i + 1
               l == IF j < p THEN j ELSE j + 1
    <3>1. k \in 1..Len(s) /\ l \in 1..Len(s) /\ k < l /\ k # p /\ l # p
      BY <1>1, <1>2, <2>1
    <3>2. s[k] = x /\ s[l] = y
      BY <1>3, <2>1
    <3> QED BY <3>1, <3>2
  <2>3. Before(s, x, y)
    BY <2>2, BeforeDef
  <2> QED BY <1>0, <1>1, <2>2, <2>3
<1>5. ASSUME NEW x, NEW y, Before(s, x, y), x # t, y # t
      PROVE  Before(u, x, y)
  <2>1. PICK k, l \in 1..Len(s) : k < l /\ s[k] = x /\ s[l] = y
    BY <1>5, BeforeDef
  <2> DEFINE i == IF k < p THEN k ELSE k - 1
             j == IF l < p THEN l ELSE l - 1
  <2>2. k # p /\ l # p
    BY <1>1, <1>5, <2>1
  <2>3. i \in 1..Len(u) /\ j \in 1..Len(u) /\ i < j
    BY <1>1, <1>2, <2>1, <2>2
  <2>4. u[i] = s[k] /\ u[j] = s[l]
    <3>1. ASSUME k < p PROVE u[i] = s[k]
      BY <1>3, <2>3, <3>1
    <3>2. ASSUME ~ (k < p) PROVE u[i] = s[k]
      BY <1>1, <1>3, <2>1, <2>2, <2>3, <3>2
    <3>3. ASSUME l < p PROVE u[j] = s[l]
      BY <1>3, <2>3, <3>3
    <3>4. ASSUME ~ (l < p) PROVE u[j] = s[l]
      BY <1>1, <1>3, <2>1, <2>2, <2>3, <3>4
    <3> QED BY <3>1, <3>2, <3>3, <3>4
  <2> HIDE DEF i, j
  <2> QED BY <1>2, <2>1, <2>3, <2>4, BeforeDef
<1> QED BY <1>4, <1>5 DEF u

LEMMA AppendOrder ==
  ASSUME NEW S, NEW s \in Seq(S), NEW t \in S
  PROVE  \A x, y : Before(Append(s, t), x, y) <=>
                     Before(s, x, y) \/ (x \in ToSet(s) /\ y = t)
<1> DEFINE u == Append(s, t)
<1>0. \A x : x \in ToSet(s) <=> \E i \in 1..Len(s) : s[i] = x
  BY SeqDomain
<1>1. /\ u \in Seq(S) /\ Len(u) = Len(s) + 1
      /\ \A i \in 1..Len(s) : u[i] = s[i]
      /\ u[Len(s) + 1] = t
  OBVIOUS
<1> HIDE DEF u
<1>2. ASSUME NEW x, NEW y, Before(u, x, y)
      PROVE  Before(s, x, y) \/ (x \in ToSet(s) /\ y = t)
  <2>1. PICK i, j \in 1..Len(u) : i < j /\ u[i] = x /\ u[j] = y
    BY <1>1, <1>2, BeforeDef
  <2>2. i \in 1..Len(s) /\ s[i] = x
    BY <1>1, <2>1
  <2>3. CASE j = Len(u)
    BY <1>0, <1>1, <2>1, <2>2, <2>3
  <2>4. CASE j # Len(u)
    <3>1. j \in 1..Len(s) /\ s[j] = y
      BY <1>1, <2>1, <2>4
    <3> QED BY <2>1, <2>2, <3>1, BeforeDef
  <2> QED BY <2>3, <2>4
<1>3. ASSUME NEW x, NEW y, Before(s, x, y)
      PROVE  Before(u, x, y)
  <2>1. PICK i, j \in 1..Len(s) : i < j /\ s[i] = x /\ s[j] = y
    BY <1>3, BeforeDef
  <2>2. i \in 1..Len(u) /\ j \in 1..Len(u) /\ u[i] = x /\ u[j] = y
    BY <1>1, <2>1
  <2> QED BY <1>1, <2>1, <2>2, BeforeDef
<1>4. ASSUME NEW x, x \in ToSet(s)
      PROVE  Before(u, x, t)
  <2>1. PICK i \in 1..Len(s) : s[i] = x
    BY <1>0, <1>4
  <2>2. /\ i \in 1..Len(u) /\ Len(s) + 1 \in 1..Len(u) /\ i < Len(s) + 1
        /\ u[i] = x /\ u[Len(s) + 1] = t
    BY <1>1, <2>1
  <2> QED BY <1>1, <2>2, BeforeDef
<1> QED BY <1>2, <1>3, <1>4 DEF u

(* The elements of T that are on a queue without repeats.                  *)
LEMMA OnlyLemma ==
  ASSUME NEW S, NEW s \in Seq(S), IsInjective(s), NEW T
  PROVE  /\ Only(s, T) \in Seq(S)
         /\ IsInjective(Only(s, T))
         /\ \A x : x \in ToSet(Only(s, T)) <=> x \in ToSet(s) /\ x \in T
         /\ \A x, y : Before(Only(s, T), x, y) <=> Before(s, x, y) /\ x \in T /\ y \in T
<1> DEFINE Step(f, i) == IF i = 0 THEN <<>>
                         ELSE IF s[i] \in T THEN Append(f[i - 1], s[i]) ELSE f[i - 1]
           Def(f, n) == f = [i \in 0..n |-> Step(f, i)]
           N == Len(s)
<1>1. N \in Nat /\ \A i \in 1..N : s[i] \in S
  OBVIOUS
<1>2. \A n \in 0..N : \E f : Def(f, n)
  <2> DEFINE Bad == {n \in 0..N : ~ \E f : Def(f, n)}
  <2> SUFFICES ASSUME Bad # {} PROVE FALSE
    OBVIOUS
  <2>1. Bad \subseteq Nat
    BY <1>1
  <2> HIDE DEF Bad
  <2>2. PICK n \in Bad : \A m \in Bad : n <= m
    BY <2>1, NatMin
  <2>3. n \in 0..N /\ ~ \E f : Def(f, n)
    BY <2>2 DEF Bad
  <2>4. CASE n = 0
    <3> DEFINE f == [i \in 0..0 |-> <<>>]
    <3>1. Def(f, 0)
      OBVIOUS
    <3> QED BY <2>3, <2>4, <3>1
  <2>5. CASE n # 0
    <3>1. n - 1 \in 0..N /\ n - 1 \notin Bad
      BY <1>1, <2>1, <2>2, <2>3, <2>5
    <3>2. PICK f : Def(f, n - 1)
      BY <3>1 DEF Bad
    <3>20. \A i \in 0..(n - 1) : f[i] = Step(f, i)
      BY <3>2
    <3> DEFINE g == [i \in 0..n |-> IF i = n THEN Step(f, n) ELSE f[i]]
    <3>3. \A i \in 0..n : g[i] = Step(g, i)
      <4> TAKE i \in 0..n
      <4>1. CASE i = 0
        <5>1. 0 \in 0..(n - 1) /\ 0 # n /\ 0 \in 0..n
          BY <2>3, <2>5
        <5>2. g[0] = f[0] /\ f[0] = <<>>
          BY <5>1, <3>20
        <5> QED BY <4>1, <5>2
      <4>2. CASE i # 0
        <5>1. i - 1 \in 0..(n - 1) /\ i - 1 \in 0..n /\ i - 1 # n
          BY <2>3, <4>2
        <5>2. g[i - 1] = f[i - 1]
          BY <5>1
        <5>3. g[i] = Step(f, i)
          <6>1. CASE i = n
            BY <6>1
          <6>2. CASE i # n
            <7>1. i \in 0..(n - 1)
              BY <2>3, <6>2
            <7> QED BY <7>1, <6>2, <3>20
          <6> QED BY <6>1, <6>2
        <5> QED BY <5>2, <5>3
      <4> QED BY <4>1, <4>2
    <3>4. g = [i \in 0..n |-> g[i]]
      OBVIOUS
    <3> HIDE DEF g
    <3>5. Def(g, n)
      BY <3>3, <3>4
    <3> QED BY <2>3, <3>5
  <2> QED BY <2>4, <2>5
<1> DEFINE left == CHOOSE f : Def(f, N)
<1>3. Only(s, T) = left[N]
  BY DEF Only
<1>4. Def(left, N)
  <2> HIDE DEF Def, N
  <2>1. \E f : Def(f, N)
    <3>1. N \in 0..N
      BY <1>1
    <3> QED BY <1>2, <3>1
  <2> QED BY <2>1
<1>5. \A i \in 0..N : left[i] = Step(left, i)
  <2> HIDE DEF left
  <2> QED BY <1>4
<1> HIDE DEF left
<1>6. /\ \A x : x \in ToSet(s) <=> \E i \in 1..N : s[i] = x
      /\ \A i, j \in 1..N : s[i] = s[j] => i = j
  BY SeqDomain
<1> DEFINE Good(i) ==
             /\ left[i] \in Seq(S) /\ IsInjective(left[i])
             /\ \A x : x \in ToSet(left[i]) <=> x \in T /\ \E k \in 1..i : s[k] = x
             /\ \A x, y : Before(left[i], x, y) <=>
                  x \in T /\ y \in T /\ \E k, l \in 1..i : k < l /\ s[k] = x /\ s[l] = y
<1>7. Good(0)
  <2>1. left[0] = <<>>
    BY <1>1, <1>5
  <2>2. <<>> \in Seq(S) /\ Len(<<>>) = 0
    OBVIOUS
  <2>3. IsInjective(<<>>) /\ \A x : x \notin ToSet(<<>>)
    BY <2>2, EmptyLemma
  <2>4. \A x, y : ~ Before(<<>>, x, y)
    <3> DEFINE e == <<>>
    <3>1. e \in Seq(S) /\ \A k : k \notin 1..Len(e)
      BY <2>2
    <3> HIDE DEF e
    <3>2. \A x, y : ~ Before(e, x, y)
      BY <3>1, BeforeDef
    <3> QED BY <3>2 DEF e
  <2> QED BY <2>1, <2>2, <2>3, <2>4
<1>8. ASSUME NEW i \in 1..N, Good(i - 1) PROVE Good(i)
  <2>1. left[i] = IF s[i] \in T THEN Append(left[i - 1], s[i]) ELSE left[i - 1]
    BY <1>1, <1>5
  <2>2. s[i] \in S /\ i \in Nat /\ i - 1 \in Nat
    BY <1>1
  <2>3. \A k : k \in 1..i <=> k \in 1..(i - 1) \/ k = i
    BY <2>2
  <2>4. \A k \in 1..(i - 1) : s[k] # s[i] /\ k < i
    BY <1>1, <1>6
  <2>5. CASE s[i] \notin T
    BY <1>8, <2>1, <2>3, <2>5
  <2>6. CASE s[i] \in T
    <3> DEFINE a == left[i - 1]
    <3>1. /\ a \in Seq(S) /\ IsInjective(a)
          /\ \A x : x \in ToSet(a) <=> x \in T /\ \E k \in 1..(i - 1) : s[k] = x
          /\ \A x, y : Before(a, x, y) <=>
               x \in T /\ y \in T /\ \E k, l \in 1..(i - 1) : k < l /\ s[k] = x /\ s[l] = y
      BY <1>8
    <3> HIDE DEF a
    <3>2. left[i] = Append(a, s[i]) /\ s[i] \notin ToSet(a)
      BY <2>1, <2>4, <2>6, <3>1 DEF a
    <3>3. /\ Append(a, s[i]) \in Seq(S) /\ IsInjective(Append(a, s[i]))
          /\ \A x : x \in ToSet(Append(a, s[i])) <=> x \in ToSet(a) \/ x = s[i]
      BY <2>2, <3>1, <3>2, AppendLemma
    <3>4. \A x, y : Before(Append(a, s[i]), x, y) <=>
                      Before(a, x, y) \/ (x \in ToSet(a) /\ y = s[i])
      BY <2>2, <3>1, AppendOrder
    <3>5. \A x : x \in ToSet(left[i]) <=> x \in T /\ \E k \in 1..i : s[k] = x
      BY <2>3, <2>6, <3>1, <3>2, <3>3
    <3>6. \A x, y : Before(left[i], x, y) <=>
               x \in T /\ y \in T /\ \E k, l \in 1..i : k < l /\ s[k] = x /\ s[l] = y
      <4> TAKE x, y
      <4>1. ASSUME Before(left[i], x, y)
            PROVE  x \in T /\ y \in T /\ \E k, l \in 1..i : k < l /\ s[k] = x /\ s[l] = y
        <5>1. CASE Before(a, x, y)
          BY <2>3, <3>1, <5>1
        <5>2. CASE x \in ToSet(a) /\ y = s[i]
          BY <2>2, <2>3, <2>4, <2>6, <3>1, <5>2
        <5> QED BY <3>2, <3>4, <4>1, <5>1, <5>2
      <4>2. ASSUME x \in T, y \in T, NEW k \in 1..i, NEW l \in 1..i, k < l, s[k] = x, s[l] = y
            PROVE  Before(left[i], x, y)
        <5>1. k \in 1..(i - 1)
          BY <4>2, <2>2
        <5>2. CASE l = i
          BY <3>1, <3>2, <3>4, <4>2, <5>1, <5>2
        <5>3. CASE l # i
          <6>1. l \in 1..(i - 1)
            BY <5>3, <2>2
          <6> QED BY <3>1, <3>2, <3>4, <4>2, <5>1, <6>1
        <5> QED BY <5>2, <5>3
      <4> QED BY <4>1, <4>2
    <3> QED BY <3>2, <3>3, <3>5, <3>6
  <2> QED BY <2>5, <2>6
<1>9. Good(N)
  <2> DEFINE Bad == {i \in 0..N : ~ Good(i)}
  <2> HIDE DEF Good
  <2> SUFFICES ASSUME Bad # {} PROVE FALSE
    BY <1>1
  <2>1. Bad \subseteq Nat
    BY <1>1
  <2> HIDE DEF Bad
  <2>2. PICK n \in Bad : \A m \in Bad : n <= m
    BY <2>1, NatMin
  <2>3. n \in 0..N /\ ~ Good(n)
    BY <2>2 DEF Bad
  <2>4. n # 0
    BY <1>7, <2>3
  <2>5. n - 1 \in 0..N /\ n - 1 \notin Bad /\ n \in 1..N
    BY <1>1, <2>1, <2>2, <2>3, <2>4
  <2>6. Good(n - 1)
    BY <2>5 DEF Bad
  <2> QED BY <1>8, <2>3, <2>5, <2>6
<1>10. \A x, y : Before(s, x, y) <=> \E k, l \in 1..N : k < l /\ s[k] = x /\ s[l] = y
  BY BeforeDef
<1> DEFINE o == left[N]
<1>11. /\ o \in Seq(S) /\ IsInjective(o)
       /\ \A x : x \in ToSet(o) <=> x \in ToSet(s) /\ x \in T
       /\ \A x, y : Before(o, x, y) <=> Before(s, x, y) /\ x \in T /\ y \in T
  BY <1>6, <1>9, <1>10
<1> QED BY <1>3, <1>11

(* What is left depends on the elements only.                              *)
LEMMA OnlySame ==
  ASSUME NEW S, NEW s \in Seq(S), IsInjective(s), NEW T, NEW U,
         \A x \in ToSet(s) : x \in T <=> x \in U
  PROVE  Only(s, T) = Only(s, U)
<1> DEFINE r == Only(s, T)
           q == Only(s, U)
<1>1. /\ r \in Seq(S) /\ IsInjective(r)
      /\ \A x : x \in ToSet(r) <=> x \in ToSet(s) /\ x \in T
      /\ \A x, y : Before(r, x, y) <=> Before(s, x, y) /\ x \in T /\ y \in T
  BY OnlyLemma
<1>2. /\ q \in Seq(S) /\ IsInjective(q)
      /\ \A x : x \in ToSet(q) <=> x \in ToSet(s) /\ x \in U
      /\ \A x, y : Before(q, x, y) <=> Before(s, x, y) /\ x \in U /\ y \in U
  BY OnlyLemma
<1>3. \A x, y : Before(s, x, y) => x \in ToSet(s) /\ y \in ToSet(s)
  BY BeforeIn
<1> HIDE DEF r, q
<1>4. /\ \A x : x \in ToSet(r) <=> x \in ToSet(q)
      /\ \A x, y : Before(r, x, y) => Before(q, x, y)
  BY <1>1, <1>2, <1>3
<1>5. r = q
  BY <1>1, <1>2, <1>4, SameOrder
<1> QED BY <1>5 DEF r, q

(* An element that is added behind the others, or taken out.               *)
LEMMA OnlyAppend ==
  ASSUME NEW S, NEW s \in Seq(S), IsInjective(s), NEW T, NEW t \in S, t \in T,
         t \notin ToSet(s)
  PROVE  Only(Append(s, t), T) = Append(Only(s, T), t)
<1> DEFINE a == Append(s, t)
           o == Only(s, T)
           r == Only(a, T)
           q == Append(o, t)
<1>1. /\ o \in Seq(S) /\ IsInjective(o)
      /\ \A x : x \in ToSet(o) <=> x \in ToSet(s) /\ x \in T
      /\ \A x, y : Before(o, x, y) <=> Before(s, x, y) /\ x \in T /\ y \in T
  BY OnlyLemma
<1>2. /\ a \in Seq(S) /\ IsInjective(a)
      /\ \A x : x \in ToSet(a) <=> x \in ToSet(s) \/ x = t
  BY AppendLemma
<1>3. \A x, y : Before(a, x, y) <=> Before(s, x, y) \/ (x \in ToSet(s) /\ y = t)
  BY AppendOrder
<1> HIDE DEF a, o
<1>4. /\ r \in Seq(S) /\ IsInjective(r)
      /\ \A x : x \in ToSet(r) <=> x \in ToSet(a) /\ x \in T
      /\ \A x, y : Before(r, x, y) <=> Before(a, x, y) /\ x \in T /\ y \in T
  BY <1>2, OnlyLemma
<1>5. t \notin ToSet(o)
  BY <1>1
<1>6. /\ q \in Seq(S) /\ IsInjective(q)
      /\ \A x : x \in ToSet(q) <=> x \in ToSet(o) \/ x = t
  BY <1>1, <1>5, AppendLemma
<1>7. \A x, y : Before(q, x, y) <=> Before(o, x, y) \/ (x \in ToSet(o) /\ y = t)
  BY <1>1, AppendOrder
<1> HIDE DEF r, q
<1>8. /\ \A x : x \in ToSet(r) <=> x \in ToSet(q)
      /\ \A x, y : Before(r, x, y) => Before(q, x, y)
  BY <1>1, <1>2, <1>3, <1>4, <1>6, <1>7
<1>9. r = q
  BY <1>4, <1>6, <1>8, SameOrder
<1> QED BY <1>9 DEF r, q, a, o

LEMMA OnlyUnlink ==
  ASSUME NEW S, NEW s \in Seq(S), IsInjective(s), NEW T, NEW t \in ToSet(s), t \notin T
  PROVE  Only(Unlink(s, t), T) = Only(s, T)
<1> DEFINE a == Unlink(s, t)
           r == Only(a, T)
           q == Only(s, T)
<1>1. /\ a \in Seq(S) /\ IsInjective(a)
      /\ \A x : x \in ToSet(a) <=> x \in ToSet(s) /\ x # t
  BY UnlinkLemma
<1>2. \A x, y : Before(a, x, y) <=> Before(s, x, y) /\ x # t /\ y # t
  BY UnlinkOrder
<1> HIDE DEF a
<1>3. /\ r \in Seq(S) /\ IsInjective(r)
      /\ \A x : x \in ToSet(r) <=> x \in ToSet(a) /\ x \in T
      /\ \A x, y : Before(r, x, y) <=> Before(a, x, y) /\ x \in T /\ y \in T
  BY <1>1, OnlyLemma
<1>4. /\ q \in Seq(S) /\ IsInjective(q)
      /\ \A x : x \in ToSet(q) <=> x \in ToSet(s) /\ x \in T
      /\ \A x, y : Before(q, x, y) <=> Before(s, x, y) /\ x \in T /\ y \in T
  BY OnlyLemma
<1> HIDE DEF r, q
<1>5. /\ \A x : x \in ToSet(r) <=> x \in ToSet(q)
      /\ \A x, y : Before(r, x, y) => Before(q, x, y)
  BY <1>1, <1>2, <1>3, <1>4
<1>6. r = q
  BY <1>3, <1>4, <1>5, SameOrder
<1> QED BY <1>6 DEF r, q, a

(* One element less to be left.                                            *)
LEMMA OnlyLess ==
  ASSUME NEW S, NEW s \in Seq(S), IsInjective(s), NEW T, NEW U, NEW t \in ToSet(s),
         t \in T, \A x \in ToSet(s) : x \in U <=> x \in T /\ x # t
  PROVE  Only(s, U) = Unlink(Only(s, T), t)
<1> DEFINE o == Only(s, T)
           r == Only(s, U)
           q == Unlink(o, t)
<1>1. /\ o \in Seq(S) /\ IsInjective(o)
      /\ \A x : x \in ToSet(o) <=> x \in ToSet(s) /\ x \in T
      /\ \A x, y : Before(o, x, y) <=> Before(s, x, y) /\ x \in T /\ y \in T
  BY OnlyLemma
<1>2. /\ r \in Seq(S) /\ IsInjective(r)
      /\ \A x : x \in ToSet(r) <=> x \in ToSet(s) /\ x \in U
      /\ \A x, y : Before(r, x, y) <=> Before(s, x, y) /\ x \in U /\ y \in U
  BY OnlyLemma
<1> HIDE DEF o
<1>3. t \in ToSet(o)
  BY <1>1
<1>4. /\ q \in Seq(S) /\ IsInjective(q)
      /\ \A x : x \in ToSet(q) <=> x \in ToSet(o) /\ x # t
  BY <1>1, <1>3, UnlinkLemma
<1>5. \A x, y : Before(q, x, y) <=> Before(o, x, y) /\ x # t /\ y # t
  BY <1>1, <1>3, UnlinkOrder
<1>6. \A x, y : Before(s, x, y) => x \in ToSet(s) /\ y \in ToSet(s)
  BY BeforeIn
<1> HIDE DEF r, q
<1>7. /\ \A x : x \in ToSet(r) <=> x \in ToSet(q)
      /\ \A x, y : Before(r, x, y) => Before(q, x, y)
  BY <1>1, <1>2, <1>4, <1>5, <1>6
<1>8. r = q
  BY <1>2, <1>4, <1>7, SameOrder
<1> QED BY <1>8 DEF r, q, o

(* Taking out the head leaves the tail.                                    *)
LEMMA UnlinkHead ==
  ASSUME NEW S, NEW s \in Seq(S), IsInjective(s), s # <<>>
  PROVE  Unlink(s, Head(s)) = Tail(s)
<1> DEFINE h == Head(s)
           u == Unlink(s, h)
           v == Tail(s)
<1>1. h \in ToSet(s) /\ h = s[1] /\ 1 \in 1..Len(s)
  BY SeqDomain
<1>2. /\ u \in Seq(S) /\ Len(u) = Len(s) - 1
      /\ \A p \in 1..Len(s) : s[p] = h =>
           \A i \in 1..(Len(s) - 1) : u[i] = IF i < p THEN s[i] ELSE s[i + 1]
  BY <1>1, UnlinkAt
<1>3. /\ v \in Seq(S) /\ Len(v) = Len(s) - 1
      /\ \A i \in 1..(Len(s) - 1) : v[i] = s[i + 1]
  BY <1>1
<1> HIDE DEF h, u, v
<1>4. \A i \in 1..(Len(s) - 1) : u[i] = s[i + 1]
  BY <1>1, <1>2
<1>5. u = v
  BY <1>2, <1>3, <1>4
<1> QED BY <1>5 DEF h, u, v

-----------------------------------------------------------------------------
(* The recursion of the community modules' MapThenSumSet, for weights      *)
(* given by a function.                                                    *)
Some(s) == CHOOSE x \in s : TRUE
SumDef(w, S, f) ==
  f = [s \in SUBSET S |-> IF s = {} THEN 0 ELSE w[Some(s)] + f[s \ {Some(s)}]]
Total(w, S) == (CHOOSE f : SumDef(w, S, f))[S]

LEMMA SumIsTotal ==
  ASSUME NEW w, NEW S
  PROVE  MapThenSumSet(LAMBDA e : w[e], S) = Total(w, S)
BY DEF MapThenSumSet, MapThenFoldSet, Total, SumDef, Some

LEMMA SomeIn == ASSUME NEW S, S # {} PROVE Some(S) \in S
BY DEF Some

(* One element less.                                                       *)
LEMMA OneLess ==
  ASSUME NEW S, IsFiniteSet(S), NEW x \in S
  PROVE  /\ IsFiniteSet(S \ {x}) /\ Cardinality(S) \in Nat
         /\ Cardinality(S \ {x}) \in Nat
         /\ Cardinality(S \ {x}) < Cardinality(S)
<1>1. /\ IsFiniteSet(S \ {x}) /\ Cardinality(S \ {x}) = Cardinality(S) - 1
      /\ Cardinality(S) \in Nat /\ Cardinality(S \ {x}) \in Nat
  BY FS_RemoveElement, FS_CardinalityType
<1> QED BY <1>1

(* A nonempty finite set of natural numbers has a greatest element.        *)
LEMMA NatMax ==
  ASSUME NEW S, IsFiniteSet(S), S \subseteq Nat, S # {}
  PROVE  \E m \in S : \A x \in S : x <= m
<1> DEFINE Bad == {n \in Nat : \E T \in SUBSET S :
                      /\ Cardinality(T) = n /\ T # {}
                      /\ ~ \E m \in T : \A x \in T : x <= m}
<1> SUFFICES ASSUME ~ \E m \in S : \A x \in S : x <= m PROVE FALSE
  OBVIOUS
<1>1. Cardinality(S) \in Bad
  BY FS_CardinalityType
<1> HIDE DEF Bad
<1>2. Bad \subseteq Nat
  BY DEF Bad
<1>3. PICK n \in Bad : \A m \in Bad : n <= m
  BY <1>1, <1>2, NatMin
<1>4. PICK T \in SUBSET S : /\ Cardinality(T) = n /\ T # {}
                            /\ ~ \E m \in T : \A x \in T : x <= m
  BY <1>3 DEF Bad
<1>5. PICK y \in T : TRUE
  BY <1>4
<1> DEFINE R == T \ {y}
<1>6. /\ IsFiniteSet(T) /\ IsFiniteSet(R) /\ Cardinality(T) \in Nat
      /\ Cardinality(R) \in Nat /\ Cardinality(R) < Cardinality(T)
  BY <1>5, FS_Subset, OneLess
<1>7. R # {}
  <2>1. R = {} => \A x \in T : x <= y
    BY <1>5
  <2> QED BY <1>4, <2>1
<1>8. PICK m \in R : \A x \in R : x <= m
  <2>1. CASE \E m \in R : \A x \in R : x <= m
    BY <2>1
  <2>2. CASE ~ \E m \in R : \A x \in R : x <= m
    <3>1. Cardinality(R) \in Bad
      BY <1>6, <1>7, <2>2 DEF Bad
    <3> QED BY <1>2, <1>3, <1>4, <1>6, <3>1
  <2> QED BY <2>1, <2>2
<1>9. y <= m \/ m <= y
  BY <1>5, <1>8
<1>10. y \in Nat /\ m \in Nat /\ \A x \in R : x \in Nat
  BY <1>5, <1>8
<1> QED BY <1>4, <1>5, <1>8, <1>9, <1>10

(* The recursion determines the sum of a set, whatever set it ran over.    *)
LEMMA SumAgree ==
  ASSUME NEW S, IsFiniteSet(S), NEW w, NEW v, NEW A, NEW B, NEW f, NEW g,
         SumDef(w, A, f), SumDef(v, B, g), S \subseteq A, S \subseteq B,
         \A x \in S : w[x] = v[x]
  PROVE  f[S] = g[S]
<1> DEFINE Bad == {n \in Nat : \E T \in SUBSET S : Cardinality(T) = n /\ f[T] # g[T]}
<1> SUFFICES ASSUME f[S] # g[S] PROVE FALSE
  OBVIOUS
<1>1. Cardinality(S) \in Bad
  BY FS_CardinalityType
<1> HIDE DEF Bad
<1>2. Bad \subseteq Nat
  BY DEF Bad
<1>3. PICK n \in Bad : \A m \in Bad : n <= m
  BY <1>1, <1>2, NatMin
<1>4. PICK T \in SUBSET S : Cardinality(T) = n /\ f[T] # g[T]
  BY <1>3 DEF Bad
<1>5. IsFiniteSet(T)
  BY <1>4, FS_Subset
<1>6. f[T] = IF T = {} THEN 0 ELSE w[Some(T)] + f[T \ {Some(T)}]
  BY <1>4 DEF SumDef
<1>7. g[T] = IF T = {} THEN 0 ELSE v[Some(T)] + g[T \ {Some(T)}]
  BY <1>4 DEF SumDef
<1>8. T # {}
  BY <1>4, <1>6, <1>7
<1>9. Some(T) \in T
  BY <1>8, SomeIn
<1>10. /\ Cardinality(T \ {Some(T)}) \in Nat
       /\ Cardinality(T \ {Some(T)}) < n
       /\ T \ {Some(T)} \in SUBSET S
  BY <1>4, <1>5, <1>9, OneLess
<1>11. f[T \ {Some(T)}] = g[T \ {Some(T)}]
  <2>1. n \in Nat
    BY <1>2, <1>3
  <2>2. Cardinality(T \ {Some(T)}) \notin Bad
    BY <1>3, <1>10, <2>1
  <2> QED BY <2>2, <1>10 DEF Bad
<1>12. w[Some(T)] = v[Some(T)]
  BY <1>4, <1>9
<1> QED BY <1>4, <1>6, <1>7, <1>8, <1>11, <1>12

LEMMA SumExists ==
  ASSUME NEW S, IsFiniteSet(S), NEW w
  PROVE  \E f : SumDef(w, S, f)
<1> DEFINE Bad == {n \in Nat : \E T \in SUBSET S :
                      Cardinality(T) = n /\ ~ \E f : SumDef(w, T, f)}
<1> SUFFICES ASSUME ~ \E f : SumDef(w, S, f) PROVE FALSE
  OBVIOUS
<1>1. Cardinality(S) \in Bad
  BY FS_CardinalityType
<1> HIDE DEF Bad
<1>2. Bad \subseteq Nat
  BY DEF Bad
<1>3. PICK n \in Bad : \A m \in Bad : n <= m
  BY <1>1, <1>2, NatMin
<1>4. PICK T \in SUBSET S : Cardinality(T) = n /\ ~ \E f : SumDef(w, T, f)
  BY <1>3 DEF Bad
<1>5. IsFiniteSet(T)
  BY <1>4, FS_Subset
<1> DEFINE Of(U) == CHOOSE f : SumDef(w, U, f)
           h == [s \in SUBSET T |-> IF s = {} THEN 0
                   ELSE w[Some(s)] + Of(s \ {Some(s)})[s \ {Some(s)}]]
<1>6. ASSUME NEW U \in SUBSET T, U # T
      PROVE  SumDef(w, U, Of(U))
  <2>1. PICK x \in T : x \notin U
    BY <1>6
  <2>2. /\ IsFiniteSet(T \ {x}) /\ Cardinality(T \ {x}) < n
        /\ Cardinality(T \ {x}) \in Nat
    BY <1>4, <1>5, <2>1, OneLess
  <2>3. /\ U \subseteq T \ {x} /\ U \in SUBSET S
    BY <1>4, <2>1
  <2>4. Cardinality(U) \in Nat /\ Cardinality(U) <= Cardinality(T \ {x})
    BY <2>2, <2>3, FS_Subset, FS_CardinalityType
  <2>5. n \in Nat
    BY <1>2, <1>3
  <2>6. Cardinality(U) \notin Bad
    BY <1>3, <2>2, <2>4, <2>5
  <2>7. \E f : SumDef(w, U, f)
    BY <2>3, <2>4, <2>6 DEF Bad
  <2> QED BY <2>7
<1> HIDE DEF Of
<1>7. ASSUME NEW s \in SUBSET T, s # {}
      PROVE  h[s \ {Some(s)}] = Of(s \ {Some(s)})[s \ {Some(s)}]
  <2> DEFINE u == s \ {Some(s)}
  <2>1. u \in SUBSET T /\ u # T
    BY <1>7, SomeIn
  <2>2. SumDef(w, u, Of(u))
    BY <1>6, <2>1
  <2>3. h[u] = IF u = {} THEN 0 ELSE w[Some(u)] + Of(u \ {Some(u)})[u \ {Some(u)}]
    BY <2>1
  <2>4. Of(u)[u] = IF u = {} THEN 0 ELSE w[Some(u)] + Of(u)[u \ {Some(u)}]
    BY <2>2 DEF SumDef
  <2>5. u # {} => Of(u)[u \ {Some(u)}] = Of(u \ {Some(u)})[u \ {Some(u)}]
    <3> DEFINE v == u \ {Some(u)}
    <3> SUFFICES ASSUME u # {} PROVE Of(u)[v] = Of(v)[v]
      OBVIOUS
    <3>1. v \in SUBSET T /\ v # T /\ v \subseteq u
      BY <2>1, SomeIn
    <3>2. SumDef(w, v, Of(v))
      BY <1>6, <3>1
    <3>3. IsFiniteSet(v)
      BY <3>1, <1>5, FS_Subset
    <3> HIDE DEF u, v
    <3> QED BY <2>2, <3>1, <3>2, <3>3, SumAgree
  <2> QED BY <2>3, <2>4, <2>5
<1>8. h = [s \in SUBSET T |-> IF s = {} THEN 0 ELSE w[Some(s)] + h[s \ {Some(s)}]]
  <2>1. \A s \in SUBSET T : h[s] = IF s = {} THEN 0 ELSE w[Some(s)] + h[s \ {Some(s)}]
    BY <1>7
  <2> HIDE DEF h
  <2>2. h = [s \in SUBSET T |-> h[s]]
    BY DEF h
  <2> QED BY <2>1, <2>2
<1> HIDE DEF h
<1>9. SumDef(w, T, h)
  BY <1>8 DEF SumDef
<1> QED BY <1>4, <1>9

(* What the recursion says about the sum.                                  *)
LEMMA TotalDef ==
  ASSUME NEW S, IsFiniteSet(S), NEW w
  PROVE  Total(w, S) = IF S = {} THEN 0
                       ELSE w[Some(S)] + Total(w, S \ {Some(S)})
<1> DEFINE Of(U) == CHOOSE f : SumDef(w, U, f)
           R == S \ {Some(S)}
<1>1. IsFiniteSet(R)
  BY FS_Subset
<1>2. SumDef(w, S, Of(S)) /\ SumDef(w, R, Of(R))
  BY <1>1, SumExists
<1>3. Total(w, S) = Of(S)[S] /\ Total(w, R) = Of(R)[R]
  BY DEF Total
<1> HIDE DEF Of
<1>4. Of(S)[S] = IF S = {} THEN 0 ELSE w[Some(S)] + Of(S)[R]
  BY <1>2 DEF SumDef
<1>5. Of(S)[R] = Of(R)[R]
  <2>1. R \subseteq S
    OBVIOUS
  <2> HIDE DEF R
  <2> QED BY <1>1, <1>2, <2>1, SumAgree
<1> QED BY <1>3, <1>4, <1>5

LEMMA TotalSame ==
  ASSUME NEW S, IsFiniteSet(S), NEW w, NEW v, \A x \in S : w[x] = v[x]
  PROVE  Total(w, S) = Total(v, S)
<1> DEFINE f == CHOOSE f : SumDef(w, S, f)
           g == CHOOSE g : SumDef(v, S, g)
<1>1. SumDef(w, S, f) /\ SumDef(v, S, g)
  BY SumExists
<1>2. Total(w, S) = f[S] /\ Total(v, S) = g[S]
  BY DEF Total
<1> HIDE DEF f, g
<1>3. f[S] = g[S]
  BY <1>1, SumAgree
<1> QED BY <1>2, <1>3

LEMMA TotalNat ==
  ASSUME NEW S, IsFiniteSet(S), NEW w, \A x \in S : w[x] \in Nat
  PROVE  Total(w, S) \in Nat
<1> DEFINE Bad == {n \in Nat : \E T \in SUBSET S :
                      Cardinality(T) = n /\ Total(w, T) \notin Nat}
<1> SUFFICES ASSUME Total(w, S) \notin Nat PROVE FALSE
  OBVIOUS
<1>1. Cardinality(S) \in Bad
  BY FS_CardinalityType
<1> HIDE DEF Bad
<1>2. Bad \subseteq Nat
  BY DEF Bad
<1>3. PICK n \in Bad : \A m \in Bad : n <= m
  BY <1>1, <1>2, NatMin
<1>4. PICK T \in SUBSET S : Cardinality(T) = n /\ Total(w, T) \notin Nat
  BY <1>3 DEF Bad
<1>5. IsFiniteSet(T)
  BY <1>4, FS_Subset
<1>6. Total(w, T) = IF T = {} THEN 0 ELSE w[Some(T)] + Total(w, T \ {Some(T)})
  BY <1>5, TotalDef
<1>7. T # {}
  BY <1>4, <1>6
<1>8. Some(T) \in T
  BY <1>7, SomeIn
<1>9. /\ Cardinality(T \ {Some(T)}) \in Nat /\ Cardinality(T \ {Some(T)}) < n
      /\ T \ {Some(T)} \in SUBSET S
  BY <1>4, <1>5, <1>8, OneLess
<1>10. Total(w, T \ {Some(T)}) \in Nat
  <2>1. Cardinality(T \ {Some(T)}) \notin Bad
    BY <1>2, <1>3, <1>9
  <2> QED BY <2>1, <1>9 DEF Bad
<1>11. w[Some(T)] \in Nat
  BY <1>4, <1>8
<1> QED BY <1>4, <1>6, <1>7, <1>10, <1>11

(* The order of summation does not matter.                                 *)
LEMMA TotalRemove ==
  ASSUME NEW S, IsFiniteSet(S), NEW w, \A x \in S : w[x] \in Nat, NEW x \in S
  PROVE  Total(w, S) = w[x] + Total(w, S \ {x})
<1> DEFINE Bad == {n \in Nat : \E T \in SUBSET S : \E y \in T :
                      Cardinality(T) = n /\ Total(w, T) # w[y] + Total(w, T \ {y})}
<1> SUFFICES ASSUME Total(w, S) # w[x] + Total(w, S \ {x}) PROVE FALSE
  OBVIOUS
<1>1. Cardinality(S) \in Bad
  BY FS_CardinalityType
<1> HIDE DEF Bad
<1>2. Bad \subseteq Nat
  BY DEF Bad
<1>3. PICK n \in Bad : \A m \in Bad : n <= m
  BY <1>1, <1>2, NatMin
<1>4. PICK T \in SUBSET S : \E y \in T :
          Cardinality(T) = n /\ Total(w, T) # w[y] + Total(w, T \ {y})
  BY <1>3 DEF Bad
<1>40. PICK y \in T : Cardinality(T) = n /\ Total(w, T) # w[y] + Total(w, T \ {y})
  BY <1>4
<1> DEFINE p == Some(T)
<1>5. IsFiniteSet(T) /\ p \in T
  BY <1>4, <1>40, FS_Subset, SomeIn
<1>6. Total(w, T) = w[p] + Total(w, T \ {p})
  BY <1>4, <1>40, <1>5, TotalDef
<1> HIDE DEF p
<1>7. p # y
  BY <1>4, <1>40, <1>6
<1>8. ASSUME NEW U, U \subseteq T, U # T, NEW z \in U
      PROVE  Total(w, U) = w[z] + Total(w, U \ {z})
  <2>1. PICK u \in T : u \notin U
    BY <1>8
  <2>2. /\ IsFiniteSet(T \ {u}) /\ Cardinality(T \ {u}) < n
        /\ Cardinality(T \ {u}) \in Nat
    BY <1>4, <1>40, <1>5, <2>1, OneLess
  <2>3. U \subseteq T \ {u} /\ U \in SUBSET S
    BY <1>8, <1>4, <1>40, <2>1
  <2>4. Cardinality(U) \in Nat /\ Cardinality(U) <= Cardinality(T \ {u})
    BY <2>2, <2>3, FS_Subset, FS_CardinalityType
  <2>5. Cardinality(U) \notin Bad
    BY <1>2, <1>3, <2>2, <2>4
  <2> QED BY <1>8, <2>3, <2>4, <2>5 DEF Bad
<1>9. Total(w, T \ {p}) = w[y] + Total(w, (T \ {p}) \ {y})
  BY <1>5, <1>7, <1>8
<1>10. Total(w, T \ {y}) = w[p] + Total(w, (T \ {y}) \ {p})
  BY <1>5, <1>7, <1>8
<1>11. (T \ {y}) \ {p} = (T \ {p}) \ {y}
  OBVIOUS
<1>12. w[p] \in Nat /\ w[y] \in Nat /\ Total(w, (T \ {p}) \ {y}) \in Nat
  <2>1. IsFiniteSet((T \ {p}) \ {y})
    BY <1>5, FS_Subset
  <2> QED BY <1>4, <1>40, <1>5, <2>1, TotalNat
<1> DEFINE r == Total(w, (T \ {p}) \ {y})
<1>13. Total(w, T \ {y}) = w[p] + r /\ Total(w, T \ {p}) = w[y] + r
  BY <1>9, <1>10, <1>11
<1>14. Total(w, T) = w[p] + (w[y] + r) /\ w[p] \in Nat /\ w[y] \in Nat /\ r \in Nat
  BY <1>6, <1>12, <1>13
<1> HIDE DEF r
<1>15. Total(w, T) = w[y] + (w[p] + r)
  BY <1>14
<1> QED BY <1>40, <1>13, <1>15

(* The sum over a set is that over a part and over the rest.               *)
LEMMA TotalSplit ==
  ASSUME NEW S, IsFiniteSet(S), NEW w, \A x \in S : w[x] \in Nat,
         NEW T, T \subseteq S
  PROVE  /\ Total(w, T) \in Nat /\ Total(w, S \ T) \in Nat
         /\ Total(w, S) = Total(w, T) + Total(w, S \ T)
<1>0. \A U \in SUBSET S : IsFiniteSet(U) /\ Total(w, U) \in Nat
  BY FS_Subset, TotalNat
<1> DEFINE Bad == {n \in Nat : \E U \in SUBSET S :
                      Cardinality(U) = n /\ Total(w, S) # Total(w, U) + Total(w, S \ U)}
<1> SUFFICES ASSUME Total(w, S) # Total(w, T) + Total(w, S \ T) PROVE FALSE
  BY <1>0
<1>1. Cardinality(T) \in Bad
  BY <1>0, FS_CardinalityType
<1> HIDE DEF Bad
<1>2. Bad \subseteq Nat
  BY DEF Bad
<1>3. PICK n \in Bad : \A m \in Bad : n <= m
  BY <1>1, <1>2, NatMin
<1>4. PICK U \in SUBSET S :
          Cardinality(U) = n /\ Total(w, S) # Total(w, U) + Total(w, S \ U)
  BY <1>3 DEF Bad
<1>5. U # {}
  <2>1. Total(w, {}) = 0
    BY TotalDef, FS_EmptySet
  <2> SUFFICES ASSUME U = {} PROVE FALSE
    OBVIOUS
  <2>2. S \ U = S /\ Total(w, S) \in Nat
    BY <1>0
  <2> QED BY <1>4, <2>1, <2>2
<1>6. PICK x \in U : TRUE
  BY <1>5
<1> DEFINE V == U \ {x}
<1>7. Total(w, S) = Total(w, V) + Total(w, S \ V)
  <2>1. Cardinality(V) \in Nat /\ Cardinality(V) < n
    BY <1>0, <1>4, <1>6, OneLess
  <2>2. Cardinality(V) \notin Bad
    BY <1>2, <1>3, <2>1
  <2> QED BY <1>4, <2>1, <2>2 DEF Bad
<1>8. Total(w, U) = w[x] + Total(w, V)
  <2>1. \A y \in U : w[y] \in Nat
    BY <1>4
  <2> QED BY <1>0, <1>4, <1>6, <2>1, TotalRemove
<1>9. Total(w, S \ V) = w[x] + Total(w, S \ U)
  <2>1. /\ \A y \in S \ V : w[y] \in Nat
        /\ x \in S \ V /\ IsFiniteSet(S \ V) /\ (S \ V) \ {x} = S \ U
    BY <1>0, <1>4, <1>6
  <2> HIDE DEF V
  <2>2. Total(w, S \ V) = w[x] + Total(w, (S \ V) \ {x})
    BY <2>1, TotalRemove
  <2> QED BY <2>1, <2>2
<1>10. w[x] \in Nat /\ Total(w, V) \in Nat /\ Total(w, S \ U) \in Nat
  BY <1>0, <1>4, <1>6
<1> QED BY <1>4, <1>7, <1>8, <1>9, <1>10

(* A sum of natural numbers is zero if they are.                           *)
LEMMA TotalZero ==
  ASSUME NEW S, IsFiniteSet(S), NEW w, \A x \in S : w[x] = 0
  PROVE  Total(w, S) = 0
<1> DEFINE Bad == {n \in Nat : \E T \in SUBSET S : Cardinality(T) = n /\ Total(w, T) # 0}
<1> SUFFICES ASSUME Total(w, S) # 0 PROVE FALSE
  OBVIOUS
<1>1. Cardinality(S) \in Bad
  BY FS_CardinalityType
<1> HIDE DEF Bad
<1>2. Bad \subseteq Nat
  BY DEF Bad
<1>3. PICK n \in Bad : \A m \in Bad : n <= m
  BY <1>1, <1>2, NatMin
<1>4. PICK T \in SUBSET S : Cardinality(T) = n /\ Total(w, T) # 0
  BY <1>3 DEF Bad
<1>5. IsFiniteSet(T)
  BY <1>4, FS_Subset
<1>6. T # {}
  BY <1>4, <1>5, TotalDef
<1>7. PICK x \in T : TRUE
  BY <1>6
<1>8. Total(w, T) = w[x] + Total(w, T \ {x})
  <2>1. \A y \in T : w[y] \in Nat
    BY <1>4
  <2> QED BY <1>5, <1>7, <2>1, TotalRemove
<1>9. Cardinality(T \ {x}) \in Nat /\ Cardinality(T \ {x}) < n
  BY <1>4, <1>5, <1>7, OneLess
<1>10. Cardinality(T \ {x}) \notin Bad
  BY <1>2, <1>3, <1>9
<1>11. Total(w, T \ {x}) = 0
  BY <1>4, <1>9, <1>10 DEF Bad
<1> QED BY <1>4, <1>7, <1>8, <1>11

-----------------------------------------------------------------------------
(* The greatest element of a finite set of integers.                       *)
LEMMA MaxIs ==
  ASSUME NEW S, NEW m \in S, S \subseteq Int, \A x \in S : x <= m
  PROVE  Max(S) = m
<1>1. \A x \in S : m >= x
  OBVIOUS
<1>2. \E x \in S : \A y \in S : x >= y
  BY <1>1
<1>3. Max(S) \in S /\ \A y \in S : Max(S) >= y
  BY <1>2 DEF Max
<1>4. Max(S) >= m /\ m >= Max(S) /\ Max(S) \in Int /\ m \in Int
  BY <1>1, <1>3
<1> QED BY <1>4

(* The greatest element of a set of indices is one of them.                *)
LEMMA MaxIn ==
  ASSUME NEW n \in Nat, NEW s \in SUBSET (1..n), s # {}
  PROVE  /\ Max(s) \in s /\ Max(s) \in 1..n /\ s \ {Max(s)} \in SUBSET (1..n)
<1>1. s \subseteq Nat /\ s \subseteq Int /\ IsFiniteSet(1..n)
  BY FS_Interval
<1>2. IsFiniteSet(s)
  BY <1>1, FS_Subset
<1>3. PICK m \in s : \A x \in s : x <= m
  BY <1>1, <1>2, NatMax
<1>4. Max(s) = m
  BY <1>1, <1>3, MaxIs
<1> QED BY <1>3, <1>4

LEMMA MinIs ==
  ASSUME NEW S, S \subseteq Nat, S # {}
  PROVE  Min(S) \in S /\ \A x \in S : Min(S) <= x
<1>1. \E x \in S : \A y \in S : x <= y
  BY NatMin
<1> QED BY <1>1 DEF Min

(* A fold from the left goes through the stages that a loop goes through:  *)
(* there is a function of the sets of indices as FoldLeft defines it, for  *)
(* steps g that stay in D.                                                 *)
FoldDef(f, g, b, n) ==
  f = [s \in SUBSET (1..n) |->
         IF s = {} THEN b ELSE g[<<f[s \ {Max(s)}], Max(s)>>]]

LEMMA FoldExists ==
  ASSUME NEW n \in Nat, NEW D, NEW b \in D, NEW g,
         \A d \in D : \A i \in 1..n : g[<<d, i>>] \in D
  PROVE  \E f \in [SUBSET (1..n) -> D] : FoldDef(f, g, b, n)
<1> DEFINE Bad == {m \in 0..n : ~ \E f \in [SUBSET (1..m) -> D] : FoldDef(f, g, b, m)}
<1> SUFFICES ASSUME ~ \E f \in [SUBSET (1..n) -> D] : FoldDef(f, g, b, n) PROVE FALSE
  OBVIOUS
<1>0. n \in Bad
  <2>1. n \in 0..n
    OBVIOUS
  <2> HIDE DEF FoldDef
  <2> QED BY <2>1
<1> HIDE DEF Bad
<1>1. PICK m \in Bad : \A k \in Bad : m <= k
  <2>1. Bad \subseteq Nat
    BY DEF Bad
  <2> QED BY <1>0, <2>1, NatMin
<1>2. m \in 0..n /\ ~ \E f \in [SUBSET (1..m) -> D] : FoldDef(f, g, b, m)
  BY <1>1 DEF Bad
<1>3. CASE m = 0
  <2> DEFINE f == [s \in SUBSET (1..0) |-> b]
  <2>1. \A s \in SUBSET (1..0) : s = {}
    OBVIOUS
  <2>2. f = [s \in SUBSET (1..0) |->
               IF s = {} THEN b ELSE g[<<f[s \ {Max(s)}], Max(s)>>]]
    BY <2>1
  <2>3. f \in [SUBSET (1..0) -> D]
    OBVIOUS
  <2> HIDE DEF f
  <2> QED BY <1>2, <1>3, <2>2, <2>3 DEF FoldDef
<1>4. CASE m # 0
  <2>1. m \in 1..n /\ m - 1 \in 0..n /\ m - 1 \notin Bad
    BY <1>1, <1>2, <1>4
  <2>2. PICK f \in [SUBSET (1..(m - 1)) -> D] : FoldDef(f, g, b, m - 1)
    BY <2>1 DEF Bad
  <2> DEFINE h == [s \in SUBSET (1..m) |->
                     IF m \in s THEN g[<<f[s \ {m}], m>>] ELSE f[s]]
  <2>3. \A s \in SUBSET (1..m) : m \in s => s \ {m} \in SUBSET (1..(m - 1)) /\ Max(s) = m
    <3> TAKE s \in SUBSET (1..m)
    <3>1. s \subseteq Int /\ \A x \in s : x <= m
      BY <2>1
    <3>2. m \in s => Max(s) = m
      BY <3>1, MaxIs
    <3>3. \A x \in s \ {m} : x \in 1..(m - 1)
      BY <2>1
    <3> QED BY <3>2, <3>3
  <2>4. \A s \in SUBSET (1..m) : m \notin s => s \in SUBSET (1..(m - 1))
    <3> TAKE s \in SUBSET (1..m)
    <3>1. m \notin s => \A x \in s : x \in 1..(m - 1)
      BY <2>1
    <3> QED BY <3>1
  <2>5. h \in [SUBSET (1..m) -> D]
    <3>1. \A s \in SUBSET (1..m) : h[s] \in D
      <4> TAKE s \in SUBSET (1..m)
      <4>1. CASE m \in s
        <5>1. f[s \ {m}] \in D
          BY <2>2, <2>3, <4>1
        <5> QED BY <2>1, <4>1, <5>1
      <4>2. CASE m \notin s
        BY <2>2, <2>4, <4>2
      <4> QED BY <4>1, <4>2
    <3> QED BY <3>1
  <2>6. \A s \in SUBSET (1..m) :
           h[s] = IF s = {} THEN b ELSE g[<<h[s \ {Max(s)}], Max(s)>>]
    <3> TAKE s \in SUBSET (1..m)
    <3>1. CASE m \in s
      <4>1. Max(s) = m /\ s # {} /\ s \ {m} \in SUBSET (1..m) /\ m \notin s \ {m}
        BY <2>3, <3>1
      <4>2. h[s \ {m}] = f[s \ {m}]
        BY <4>1
      <4> QED BY <3>1, <4>1, <4>2
    <3>2. CASE m \notin s
      <4>1. s \in SUBSET (1..(m - 1)) /\ h[s] = f[s]
        BY <2>4, <3>2
      <4>2. f[s] = IF s = {} THEN b ELSE g[<<f[s \ {Max(s)}], Max(s)>>]
        BY <2>2, <4>1 DEF FoldDef
      <4>3. s \ {Max(s)} \in SUBSET (1..m) /\ m \notin s \ {Max(s)}
        BY <3>2
      <4>4. h[s \ {Max(s)}] = f[s \ {Max(s)}]
        BY <4>3
      <4> QED BY <4>1, <4>2, <4>4
    <3> QED BY <3>1, <3>2
  <2>7. h = [s \in SUBSET (1..m) |-> h[s]]
    OBVIOUS
  <2> HIDE DEF h
  <2>8. h = [s \in SUBSET (1..m) |->
              IF s = {} THEN b ELSE g[<<h[s \ {Max(s)}], Max(s)>>]]
    BY <2>6, <2>7
  <2> QED BY <1>2, <2>5, <2>8 DEF FoldDef
<1> QED BY <1>3, <1>4

(* The stages of a fold that is so defined.                                *)
LEMMA StagesAre ==
  ASSUME NEW n \in Nat, NEW i \in 1..n
  PROVE  /\ 1..i # {} /\ Max(1..i) = i /\ (1..i) \ {i} = 1..(i - 1)
         /\ 1..i \in SUBSET (1..n) /\ 1..(i - 1) \in SUBSET (1..n)
<1>1. i \in 1..i /\ 1..i \subseteq Int /\ \A x \in 1..i : x <= i
  OBVIOUS
<1>2. Max(1..i) = i
  BY <1>1, MaxIs
<1> QED BY <1>1, <1>2

(* A loop invariant: what holds at first and is kept by every round holds  *)
(* at the end.                                                             *)
LEMMA LoopInvariant ==
  ASSUME NEW n \in Nat, NEW Good, 0 \in Good, \A i \in 1..n : i - 1 \in Good => i \in Good
  PROVE  \A i \in 0..n : i \in Good
<1> DEFINE Bad == {i \in 0..n : i \notin Good}
<1> SUFFICES ASSUME Bad # {} PROVE FALSE
  OBVIOUS
<1>1. Bad \subseteq Nat
  OBVIOUS
<1> HIDE DEF Bad
<1>2. PICK m \in Bad : \A k \in Bad : m <= k
  BY <1>1, NatMin
<1>3. m \in 0..n /\ m \notin Good /\ m # 0
  BY <1>2 DEF Bad
<1>4. m \in 1..n /\ m - 1 \in 0..n /\ m - 1 \notin Bad
  BY <1>2, <1>3, <1>1
<1>5. m - 1 \in Good
  BY <1>4 DEF Bad
<1> QED BY <1>3, <1>4, <1>5

(* The sequences of s one after the other: f[i] is what the first i give,  *)
(* and FlattenSeq the last of f.                                           *)
FlattenDef(s, f, n) ==
  f = [i \in 1..n |-> IF i = 1 THEN s[i] ELSE f[i - 1] \o s[i]]

LEMMA FlattenExists ==
  ASSUME NEW S, NEW s \in Seq(Seq(S)), NEW n \in 0..Len(s)
  PROVE  \E f \in [1..n -> Seq(S)] : FlattenDef(s, f, n)
<1> DEFINE Good == {m \in 0..n : \E f \in [1..m -> Seq(S)] : FlattenDef(s, f, m)}
<1>1. n \in Nat /\ Len(s) \in Nat /\ \A i \in 1..n : s[i] \in Seq(S)
  OBVIOUS
<1>2. 0 \in Good
  <2> DEFINE f == [i \in 1..0 |-> <<>>]
  <2>1. 1..0 = {}
    OBVIOUS
  <2>2. f \in [1..0 -> Seq(S)]
    BY <2>1
  <2>3. f = [i \in 1..0 |-> IF i = 1 THEN s[i] ELSE f[i - 1] \o s[i]]
    BY <2>1
  <2> HIDE DEF f
  <2>4. 0 \in 0..n
    BY <1>1
  <2> QED BY <2>2, <2>3, <2>4 DEF FlattenDef
<1>3. ASSUME NEW m \in 1..n, m - 1 \in Good PROVE m \in Good
  <2>1. PICK f \in [1..(m - 1) -> Seq(S)] : FlattenDef(s, f, m - 1)
    BY <1>3
  <2> DEFINE h == [i \in 1..m |-> IF i = m THEN (IF m = 1 THEN s[m] ELSE f[m - 1] \o s[m])
                                  ELSE f[i]]
  <2>2. \A i \in 1..(m - 1) : f[i] = IF i = 1 THEN s[i] ELSE f[i - 1] \o s[i]
    BY <2>1 DEF FlattenDef
  <2>3. m # 1 => f[m - 1] \in Seq(S)
    BY <1>1
  <2>4. h \in [1..m -> Seq(S)]
    <3>1. \A i \in 1..m : h[i] \in Seq(S)
      <4> TAKE i \in 1..m
      <4>1. CASE i # m
        <5>1. i \in 1..(m - 1)
          BY <1>1, <4>1
        <5> QED BY <4>1, <5>1
      <4>2. CASE i = m
        <5>1. s[m] \in Seq(S)
          BY <1>1
        <5>2. m # 1 => f[m - 1] \o s[m] \in Seq(S)
          BY <2>3, <5>1
        <5> QED BY <4>2, <5>1, <5>2
      <4> QED BY <4>1, <4>2
    <3> QED BY <3>1
  <2>5. \A i \in 1..m : h[i] = IF i = 1 THEN s[i] ELSE h[i - 1] \o s[i]
    <3> TAKE i \in 1..m
    <3>1. CASE i = m
      <4>1. m # 1 => m - 1 \in 1..m /\ h[m - 1] = f[m - 1]
        BY <1>1
      <4> QED BY <3>1, <4>1
    <3>2. CASE i # m
      <4>1. i \in 1..(m - 1) /\ (i # 1 => i - 1 \in 1..m /\ i - 1 # m)
        BY <1>1, <3>2
      <4>2. h[i] = f[i] /\ (i # 1 => h[i - 1] = f[i - 1])
        BY <3>2, <4>1
      <4> QED BY <2>2, <4>1, <4>2
    <3> QED BY <3>1, <3>2
  <2>6. h = [i \in 1..m |-> h[i]]
    OBVIOUS
  <2> HIDE DEF h
  <2>7. FlattenDef(s, h, m)
    BY <2>5, <2>6 DEF FlattenDef
  <2>8. m \in 0..n
    BY <1>1
  <2> QED BY <2>4, <2>7, <2>8
<1> HIDE DEF Good
<1>4. n \in Good
  <2>1. \A i \in 0..n : i \in Good
    BY <1>1, <1>2, <1>3, LoopInvariant
  <2> QED BY <1>1, <2>1
<1> QED BY <1>4 DEF Good

LEMMA Within ==
  ASSUME NEW a \in Nat, NEW l \in Nat, NEW e \in Nat, a + l <= e, NEW j \in 1..l
  PROVE  a + j \in 1..e
OBVIOUS

LEMMA ConcatIs ==
  ASSUME NEW S, NEW a \in Seq(S), NEW b \in Seq(S)
  PROVE  /\ a \o b \in Seq(S) /\ Len(a \o b) = Len(a) + Len(b)
         /\ \A k \in 1..Len(a) : (a \o b)[k] = a[k]
         /\ \A j \in 1..Len(b) : (a \o b)[Len(a) + j] = b[j]
OBVIOUS

(* Where each of the sequences begins and ends.                            *)
Ends(s, end) ==
  /\ end \in [0..Len(s) -> Nat] /\ end[0] = 0
  /\ \A i \in 1..Len(s) : end[i] = end[i - 1] + Len(s[i])

LEMMA FlattenIs ==
  ASSUME NEW S, NEW s \in Seq(Seq(S)), NEW end, Ends(s, end)
  PROVE  /\ FlattenSeq(s) \in Seq(S) /\ Len(FlattenSeq(s)) = end[Len(s)]
         /\ \A i \in 1..Len(s) : end[i] <= end[Len(s)]
         /\ \A i \in 1..Len(s) : \A j \in 1..Len(s[i]) :
              FlattenSeq(s)[end[i - 1] + j] = s[i][j]
<1> DEFINE n == Len(s)
           f == CHOOSE f : FlattenDef(s, f, n)
<1>1. n \in Nat /\ n \in 0..n /\ \A i \in 1..n : s[i] \in Seq(S) /\ Len(s[i]) \in Nat
  OBVIOUS
<1>2. f \in [1..n -> Seq(S)] /\ FlattenDef(s, f, n)
  <2>1. PICK h \in [1..n -> Seq(S)] : FlattenDef(s, h, n)
    BY <1>1, FlattenExists
  <2>2. FlattenDef(s, f, n)
    BY <2>1
  <2>3. \A i \in 1..n : f[i] = IF i = 1 THEN s[i] ELSE f[i - 1] \o s[i]
    BY <2>2 DEF FlattenDef
  <2>4. \A i \in 1..n : h[i] = IF i = 1 THEN s[i] ELSE h[i - 1] \o s[i]
    BY <2>1 DEF FlattenDef
  <2>5. DOMAIN f = 1..n /\ f = [i \in 1..n |-> f[i]]
    <3> HIDE DEF f
    <3> QED BY <2>2 DEF FlattenDef
  <2> DEFINE Same == {i \in 0..n : i = 0 \/ f[i] = h[i]}
  <2>6. 0 \in Same
    BY <1>1
  <2>7. ASSUME NEW i \in 1..n, i - 1 \in Same PROVE i \in Same
    <3>1. i \in 0..n /\ (i # 1 => f[i - 1] = h[i - 1])
      BY <1>1, <2>7
    <3> QED BY <2>3, <2>4, <3>1
  <2> HIDE DEF Same, f
  <2>8. \A i \in 0..n : i \in Same
    BY <1>1, <2>6, <2>7, LoopInvariant
  <2>9. \A i \in 1..n : f[i] = h[i]
    BY <1>1, <2>8 DEF Same
  <2> QED BY <2>1, <2>2, <2>5, <2>9
<1>3. FlattenSeq(s) = IF n = 0 THEN s ELSE f[n]
  BY DEF FlattenSeq, FlattenDef
<1> HIDE DEF f
<1>4. \A i \in 1..n : f[i] = IF i = 1 THEN s[i] ELSE f[i - 1] \o s[i]
  BY <1>2 DEF FlattenDef
<1> DEFINE Good == {m \in 0..n : m = 0 \/
             (/\ Len(f[m]) = end[m]
              /\ \A i \in 1..m : end[i] <= end[m]
              /\ \A i \in 1..m : \A j \in 1..Len(s[i]) : f[m][end[i - 1] + j] = s[i][j])}
<1>5. 0 \in Good
  BY <1>1
<1>11. \A i \in 1..n : /\ i \in Nat /\ i - 1 \in 0..n /\ i \in 0..n
                        /\ end[i] \in Nat /\ end[i - 1] \in Nat
                        /\ end[i] = end[i - 1] + Len(s[i])
  <2> TAKE i \in 1..n
  <2>1. i \in Nat /\ i - 1 \in 0..n /\ i \in 0..n
    BY <1>1
  <2> QED BY <2>1 DEF Ends
<1>12. end[0] = 0
  BY DEF Ends
<1> HIDE DEF Good
<1>6. ASSUME NEW m \in 1..n, m - 1 \in Good PROVE m \in Good
  <2>1. /\ m \in 0..n /\ s[m] \in Seq(S) /\ Len(s[m]) \in Nat
        /\ end[m] = end[m - 1] + Len(s[m]) /\ end[m - 1] \in Nat /\ end[m] \in Nat
    <3>1. m \in 0..n
      BY <1>1
    <3> QED BY <1>1, <1>11, <3>1
  <2>2. CASE m = 1
    <3>1. f[m] = s[1] /\ end[0] = 0 /\ end[1] = Len(s[1])
      <4>1. f[m] = s[m]
        BY <1>4, <2>2
      <4> QED BY <1>12, <2>1, <2>2, <4>1
    <3>2. \A i \in 1..m : i = 1 /\ i - 1 = 0
      BY <2>2
    <3>3. \A j \in 1..Len(s[1]) : end[0] + j = j
      BY <2>1, <2>2, <3>1
    <3>4. Len(f[m]) = end[m] /\ \A i \in 1..m : end[i] <= end[m]
      BY <2>1, <2>2, <3>1, <3>2
    <3>5. \A i \in 1..m : \A j \in 1..Len(s[i]) : f[m][end[i - 1] + j] = s[i][j]
      BY <3>1, <3>2, <3>3
    <3> QED BY <2>1, <3>4, <3>5 DEF Good
  <2>3. CASE m # 1
    <3>1. m - 1 \in 1..n /\ f[m - 1] \in Seq(S) /\ f[m] = f[m - 1] \o s[m] /\ m - 1 # 0
      <4>1. m - 1 \in 1..n /\ m - 1 # 0
        BY <1>1, <2>3
      <4>2. f[m] = IF m = 1 THEN s[m] ELSE f[m - 1] \o s[m]
        BY <1>4
      <4> QED BY <1>2, <2>3, <4>1, <4>2
    <3>2. /\ Len(f[m - 1]) = end[m - 1]
          /\ \A i \in 1..(m - 1) : end[i] <= end[m - 1]
          /\ \A i \in 1..(m - 1) : \A j \in 1..Len(s[i]) : f[m - 1][end[i - 1] + j] = s[i][j]
      BY <1>6, <3>1 DEF Good
    <3>0. /\ Len(f[m]) = Len(f[m - 1]) + Len(s[m])
          /\ \A k \in 1..Len(f[m - 1]) : f[m][k] = f[m - 1][k]
          /\ \A j \in 1..Len(s[m]) : f[m][Len(f[m - 1]) + j] = s[m][j]
      <4> DEFINE a == f[m - 1]
                 b == s[m]
      <4>1. a \in Seq(S) /\ b \in Seq(S) /\ f[m] = a \o b
        BY <2>1, <3>1
      <4> HIDE DEF a, b
      <4>2. /\ Len(a \o b) = Len(a) + Len(b)
            /\ \A k \in 1..Len(a) : (a \o b)[k] = a[k]
            /\ \A j \in 1..Len(b) : (a \o b)[Len(a) + j] = b[j]
        BY <4>1, ConcatIs
      <4>3. /\ Len(f[m]) = Len(a) + Len(b)
            /\ \A k \in 1..Len(a) : f[m][k] = a[k]
            /\ \A j \in 1..Len(b) : f[m][Len(a) + j] = b[j]
        BY <4>1, <4>2, Zenon
      <4> QED BY <4>3 DEF a, b
    <3>3. Len(f[m]) = end[m]
      BY <2>1, <3>0, <3>2
    <3>4. \A i \in 1..m : i \in 1..n /\ (i \in 1..(m - 1) \/ i = m)
      BY <1>1
    <3>6. \A i \in 1..m : end[i] <= end[m]
      <4> TAKE i \in 1..m
      <4>1. end[i] \in Nat
        BY <1>11, <3>4
      <4>2. i = m \/ end[i] <= end[m - 1]
        BY <3>2, <3>4
      <4> QED BY <2>1, <4>1, <4>2
    <3>7. ASSUME NEW i \in 1..m, NEW j \in 1..Len(s[i])
          PROVE  f[m][end[i - 1] + j] = s[i][j]
      <4>1. Len(s[i]) \in Nat /\ j \in Nat /\ end[i - 1] \in Nat /\ end[i] \in Nat
        BY <1>1, <1>11, <3>4
      <4>2. CASE i = m
        BY <3>0, <3>2, <4>2
      <4>3. CASE i \in 1..(m - 1)
        <5>1. end[i] = end[i - 1] + Len(s[i]) /\ end[i] <= end[m - 1]
          BY <1>11, <3>2, <3>4, <4>3
        <5>2. end[i - 1] + j \in 1..Len(f[m - 1])
          <6>1. end[i - 1] + j \in 1..end[m - 1]
            <7>1. end[i - 1] + Len(s[i]) <= end[m - 1]
              BY <5>1, Zenon
            <7> QED BY <2>1, <4>1, <7>1, Within
          <6>2. Len(f[m - 1]) = end[m - 1]
            BY <3>2
          <6> QED BY <6>1, <6>2, Zenon
        <5> QED BY <3>0, <3>2, <4>3, <5>2
      <4> QED BY <3>4, <4>2, <4>3
    <3> QED BY <2>1, <3>3, <3>6, <3>7 DEF Good
  <2> QED BY <2>2, <2>3
<1>7. \A i \in 0..n : i \in Good
  BY <1>1, <1>5, <1>6, LoopInvariant
<1>8. n \in Good
  BY <1>1, <1>7
<1>9. CASE n = 0
  <2>1. FlattenSeq(s) = s /\ s \in Seq(S) /\ Len(s) = 0 /\ \A i : i \notin 1..n
    BY <1>3, <1>9
  <2> QED BY <1>9, <1>12, <2>1
<1>10. CASE n # 0
  <2>1. n \in 1..n
    BY <1>1, <1>10
  <2>2. FlattenSeq(s) = f[n] /\ f[n] \in Seq(S)
    BY <1>2, <1>3, <1>10, <2>1
  <2> QED BY <1>8, <1>10, <2>2 DEF Good
<1> QED BY <1>9, <1>10

=============================================================================
