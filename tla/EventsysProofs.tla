--------------------------- MODULE EventsysProofs ---------------------------
(***************************************************************************)
(* Theorems about STEventsys, for any threads, descriptors and poll sets:  *)
(* the tables of each event system say at all times what the queued pollqs *)
(* ask for, the kernel is always asked for what they wait for, and each    *)
(* event system tells the threads what EventSystem says.                   *)
(***************************************************************************)
EXTENDS STEventsys, QueueProofs

(* The entries up to i that ask for event x, and whether one does.         *)
TimesTo(p, i, x) ==
  Cardinality({j \in 1..i : p[j].fd = x[1] /\ x[2] \in p[j].events})
One(pd, x) == IF pd.fd = x[1] /\ x[2] \in pd.events THEN 1 ELSE 0

LEMMA TimesRound ==
  ASSUME NEW p \in Seq(Entries), NEW x
  PROVE  /\ TimesTo(p, 0, x) = 0 /\ TimesTo(p, Len(p), x) = Times(p, x)
         /\ \A i \in 0..Len(p) : TimesTo(p, i, x) \in Nat
         /\ \A i \in 1..Len(p) : TimesTo(p, i, x) = TimesTo(p, i - 1, x) + One(p[i], x)
         /\ \A i \in 0..Len(p) : TimesTo(p, i, x) <= Times(p, x)
<1> DEFINE A(i) == {j \in 1..i : p[j].fd = x[1] /\ x[2] \in p[j].events}
<1>1. \A i \in Nat : IsFiniteSet(A(i)) /\ Cardinality(A(i)) \in Nat
  <2> TAKE i \in Nat
  <2>1. IsFiniteSet(1..i) /\ A(i) \in SUBSET (1..i)
    BY FS_Interval
  <2> HIDE DEF A
  <2> QED BY <2>1, FS_Subset, FS_CardinalityType
<1>2. TimesTo(p, 0, x) = 0
  <2>1. A(0) = {}
    OBVIOUS
  <2> QED BY <2>1, FS_EmptySet DEF TimesTo
<1>3. TimesTo(p, Len(p), x) = Times(p, x)
  <2>1. DOMAIN p = 1..Len(p)
    OBVIOUS
  <2> QED BY <2>1 DEF TimesTo, Times
<1>4. \A i \in 1..Len(p) : TimesTo(p, i, x) = TimesTo(p, i - 1, x) + One(p[i], x)
  <2> TAKE i \in 1..Len(p)
  <2>1. i - 1 \in Nat /\ i \notin A(i - 1)
    OBVIOUS
  <2>2. A(i) = IF One(p[i], x) = 1 THEN A(i - 1) \cup {i} ELSE A(i - 1)
    BY DEF One
  <2>3. IsFiniteSet(A(i - 1)) /\ Cardinality(A(i - 1)) \in Nat
    BY <1>1, <2>1
  <2>4. One(p[i], x) \in {0, 1}
    BY DEF One
  <2>5. TimesTo(p, i, x) = Cardinality(A(i)) /\ TimesTo(p, i - 1, x) = Cardinality(A(i - 1))
    BY DEF TimesTo
  <2> HIDE DEF A
  <2>6. CASE One(p[i], x) = 1
    <3>1. Cardinality(A(i - 1) \cup {i}) = Cardinality(A(i - 1)) + 1
      BY <2>1, <2>3, FS_AddElement
    <3> QED BY <2>2, <2>5, <2>6, <3>1
  <2>7. CASE One(p[i], x) = 0
    BY <2>2, <2>3, <2>5, <2>7
  <2> QED BY <2>4, <2>6, <2>7
<1>5. \A i \in 0..Len(p) : TimesTo(p, i, x) \in Nat
  <2> TAKE i \in 0..Len(p)
  <2>1. i \in Nat /\ TimesTo(p, i, x) = Cardinality(A(i))
    BY DEF TimesTo
  <2> HIDE DEF A
  <2> QED BY <1>1, <2>1
<1>6. \A i \in 0..Len(p) : TimesTo(p, i, x) <= Times(p, x)
  <2> TAKE i \in 0..Len(p)
  <2>1. A(i) \in SUBSET A(Len(p)) /\ Len(p) \in Nat
    OBVIOUS
  <2>2. TimesTo(p, i, x) = Cardinality(A(i)) /\ TimesTo(p, Len(p), x) = Cardinality(A(Len(p)))
    BY DEF TimesTo
  <2> HIDE DEF A
  <2>3. Cardinality(A(i)) <= Cardinality(A(Len(p)))
    BY <1>1, <2>1, FS_Subset
  <2> QED BY <1>3, <2>2, <2>3
<1> QED BY <1>2, <1>3, <1>4, <1>5, <1>6

LEMMA TimesOfPrefix ==
  ASSUME NEW p \in Seq(Entries), NEW k \in 0..Len(p)
  PROVE  LET q == SubSeq(p, 1, k) IN
         /\ q \in Seq(Entries) /\ Len(q) = k
         /\ \A i \in 1..k : q[i] = p[i]
         /\ \A i \in 0..k : \A x : TimesTo(q, i, x) = TimesTo(p, i, x)
<1> DEFINE q == SubSeq(p, 1, k)
<1>1. q \in Seq(Entries) /\ Len(q) = k /\ \A i \in 1..k : q[i] = p[i]
  OBVIOUS
<1> HIDE DEF q
<1>2. ASSUME NEW i \in 0..k, NEW x PROVE TimesTo(q, i, x) = TimesTo(p, i, x)
  <2>1. \A j \in 1..i : q[j] = p[j]
    BY <1>1
  <2>2. {j \in 1..i : q[j].fd = x[1] /\ x[2] \in q[j].events} =
        {j \in 1..i : p[j].fd = x[1] /\ x[2] \in p[j].events}
    BY <2>1
  <2> QED BY <2>2 DEF TimesTo
<1> QED BY <1>1, <1>2 DEF q

LEMMA TimesPairs ==
  ASSUME NEW p \in Seq(Entries), NEW x \in Fds \X Events
  PROVE  /\ Times(p, x) \in Nat /\ (Times(p, x) = 0 <=> x \notin Pairs(p))
         /\ (x \in Pairs(p) <=>
               \E i \in 1..Len(p) : p[i].fd = x[1] /\ x[2] \in p[i].events)
<1> DEFINE A == {i \in DOMAIN p : p[i].fd = x[1] /\ x[2] \in p[i].events}
<1>1. DOMAIN p = 1..Len(p) /\ x = <<x[1], x[2]>>
  OBVIOUS
<1>2. IsFiniteSet(A) /\ Cardinality(A) \in Nat
  <2>1. IsFiniteSet(1..Len(p)) /\ A \in SUBSET (1..Len(p))
    BY <1>1, FS_Interval
  <2> HIDE DEF A
  <2> QED BY <2>1, FS_Subset, FS_CardinalityType
<1>3. x \in Pairs(p) <=> A # {}
  <2>1. x \in Pairs(p) <=> \E i \in DOMAIN p : x \in {p[i].fd} \X p[i].events
    BY DEF Pairs
  <2>2. ASSUME NEW i PROVE x \in {p[i].fd} \X p[i].events <=> p[i].fd = x[1] /\ x[2] \in p[i].events
    BY <1>1
  <2> QED BY <2>1, <2>2
<1>4. Times(p, x) = Cardinality(A)
  BY DEF Times
<1>5. Cardinality(A) = 0 <=> A = {}
  <2> HIDE DEF A
  <2> QED BY <1>2, FS_EmptySet
<1>6. A # {} <=> \E i \in 1..Len(p) : p[i].fd = x[1] /\ x[2] \in p[i].events
  BY <1>1
<1> HIDE DEF A
<1> QED BY <1>2, <1>3, <1>4, <1>5, <1>6

-----------------------------------------------------------------------------
(* The threads that wait, each with its set of descriptors.                *)
Waits == [Threads -> Seq(Entries)]

With(f, t, p) == [f EXCEPT ![t] = p]
Joined(q, t) == Append(q, t)

LEMMA ThreadsFinite == IsFiniteSet(Threads)
BY EventsysAssumption DEF EventsysAssumption, Poll!PollAssumption, Poll!IsFiniteSet, IsFiniteSet

LEMMA AskedIsTotal ==
  ASSUME NEW f \in Waits, NEW x
  PROVE  /\ TimesAsked(f, x) = Total([t \in Threads |-> Times(f[t], x)], Threads)
         /\ \A t \in Threads : Times(f[t], x) \in Nat
<1>1. DOMAIN f = Threads
  BY DEF Waits
<1>2. TimesAsked(f, x) = MapThenSumSet(LAMBDA t : [u \in Threads |-> Times(f[u], x)][t], Threads)
  BY <1>1 DEF TimesAsked
<1>3. \A t \in Threads : Times(f[t], x) \in Nat
  <2> TAKE t \in Threads
  <2>1. f[t] \in Seq(Entries)
    BY DEF Waits
  <2>2. Len(f[t]) \in 0..Len(f[t])
    BY <2>1
  <2> QED BY <2>1, <2>2, TimesRound
<1> QED BY <1>2, <1>3, SumIsTotal

(* One thread begins or ceases to wait.                                    *)
LEMMA AskedUpdate ==
  ASSUME NEW f \in Waits, NEW t \in Threads, NEW p \in Seq(Entries), NEW x
  PROVE  LET g == With(f, t, p) IN
         /\ g \in Waits
         /\ TimesAsked(f, x) \in Nat /\ TimesAsked(g, x) \in Nat
         /\ Times(f[t], x) \in Nat /\ Times(p, x) \in Nat
         /\ Times(f[t], x) <= TimesAsked(f, x)
         /\ TimesAsked(g, x) = (TimesAsked(f, x) - Times(f[t], x)) + Times(p, x)
<1> DEFINE g == With(f, t, p)
           w == [u \in Threads |-> Times(f[u], x)]
           v == [u \in Threads |-> Times(g[u], x)]
<1>1. g \in Waits
  BY DEF Waits, With
<1>2. g[t] = p /\ \A u \in Threads \ {t} : g[u] = f[u]
  BY DEF Waits, With
<1> HIDE DEF g
<1>3. TimesAsked(f, x) = Total(w, Threads) /\ TimesAsked(g, x) = Total(v, Threads)
  BY <1>1, AskedIsTotal
<1>4. \A u \in Threads : w[u] \in Nat /\ v[u] \in Nat
  BY <1>1, AskedIsTotal
<1>5. \A u \in Threads \ {t} : w[u] = v[u]
  BY <1>2
<1>6. w[t] = Times(f[t], x) /\ v[t] = Times(p, x)
  BY <1>2
<1> HIDE DEF w, v
<1>7. /\ Total(w, Threads) \in Nat /\ Total(v, Threads) \in Nat
      /\ w[t] <= Total(w, Threads)
      /\ Total(v, Threads) = (Total(w, Threads) - w[t]) + v[t]
  <2> DEFINE R == Threads \ {t}
  <2>1. IsFiniteSet(R) /\ \A u \in R : w[u] \in Nat
    BY <1>4, ThreadsFinite, FS_Subset
  <2>2. Total(w, R) \in Nat
    BY <2>1, TotalNat
  <2>3. Total(w, R) = Total(v, R)
    BY <2>1, <1>5, TotalSame
  <2>4. Total(w, Threads) = w[t] + Total(w, R)
    BY <1>4, ThreadsFinite, TotalRemove
  <2>5. Total(v, Threads) = v[t] + Total(v, R)
    BY <1>4, ThreadsFinite, TotalRemove
  <2>6. w[t] \in Nat /\ v[t] \in Nat
    BY <1>4
  <2> HIDE DEF R
  <2> QED BY <2>2, <2>3, <2>4, <2>5, <2>6
<1> QED BY <1>1, <1>3, <1>4, <1>6, <1>7 DEF g

LEMMA TimesOfNone == \A x : Times(<<>>, x) = 0
<1> TAKE x
<1>1. <<>> \in Seq(Entries) /\ Len(<<>>) = 0
  OBVIOUS
<1> QED BY <1>1, TimesRound

LEMMA AskedDown ==
  ASSUME NEW f \in Waits, NEW t \in Threads, NEW x
  PROVE  /\ With(f, t, <<>>) \in Waits
         /\ TimesAsked(f, x) \in Nat /\ TimesAsked(With(f, t, <<>>), x) \in Nat
         /\ Times(f[t], x) \in Nat
         /\ TimesAsked(With(f, t, <<>>), x) = TimesAsked(f, x) - Times(f[t], x)
<1> DEFINE p == <<>>
<1>1. p \in Seq(Entries)
  OBVIOUS
<1>3. Times(p, x) = 0
  BY TimesOfNone
<1> HIDE DEF p
<1>2. LET g == With(f, t, p) IN
      /\ g \in Waits
      /\ TimesAsked(f, x) \in Nat /\ TimesAsked(g, x) \in Nat /\ Times(f[t], x) \in Nat
      /\ TimesAsked(g, x) = (TimesAsked(f, x) - Times(f[t], x)) + Times(p, x)
  BY <1>1, AskedUpdate
<1> QED BY <1>2, <1>3 DEF p

(* An event is asked for if and only if a thread asks for it.              *)
LEMMA AskedNone ==
  ASSUME NEW f \in Waits, NEW x \in Fds \X Events
  PROVE  /\ TimesAsked(f, x) \in Nat
         /\ TimesAsked(f, x) = 0 <=> \A t \in Threads : x \notin Pairs(f[t])
<1> DEFINE w == [u \in Threads |-> Times(f[u], x)]
<1>1. TimesAsked(f, x) = Total(w, Threads) /\ \A u \in Threads : w[u] \in Nat
  BY AskedIsTotal
<1>2. TimesAsked(f, x) \in Nat
  BY <1>1, ThreadsFinite, TotalNat
<1>3. \A t \in Threads : w[t] = 0 <=> x \notin Pairs(f[t])
  <2> TAKE t \in Threads
  <2>1. f[t] \in Seq(Entries)
    BY DEF Waits
  <2> QED BY <2>1, TimesPairs
<1> HIDE DEF w
<1>4. ASSUME \A t \in Threads : w[t] = 0 PROVE Total(w, Threads) = 0
  BY <1>4, ThreadsFinite, TotalZero
<1>5. ASSUME Total(w, Threads) = 0, NEW t \in Threads PROVE w[t] = 0
  <2> DEFINE R == Threads \ {t}
  <2>1. IsFiniteSet(R) /\ \A u \in R : w[u] \in Nat
    BY <1>1, ThreadsFinite, FS_Subset
  <2>2. Total(w, R) \in Nat
    BY <2>1, TotalNat
  <2>3. Total(w, Threads) = w[t] + Total(w, R)
    BY <1>1, ThreadsFinite, TotalRemove
  <2> QED BY <1>1, <1>5, <2>2, <2>3
<1> QED BY <1>1, <1>2, <1>3, <1>4, <1>5

-----------------------------------------------------------------------------
(* The I/O queue q holds the threads that wait, each once.                 *)
Queued(P, q, f) ==
  /\ q \in Seq(Threads) /\ IsInjective(q)
  /\ f \in [Threads -> P \cup {<<>>}]
  /\ \A t \in Threads : t \in ToSet(q) <=> f[t] # <<>>

(* The pollqs that the loop of dispatch has left on the queue are not      *)
(* concerned by what has happened, and outside the loop nothing has.       *)
LoopDone ==
  /\ loop = "none" => happened = {}
  /\ loop = "return" => \A t \in Threads : ~Concerned(pds[t], happened)
  /\ \A i \in 1..Len(ioq) : i < scan => ~Concerned(pds[ioq[i]], happened)

Covers(m, p) == \A d \in Descriptors(p) : d <= m

(* The counts and bits are what the queued pollqs ask for, and no          *)
(* descriptor of theirs is above maxfd, but for those that dispatch has    *)
(* not come to when it computes maxfd anew.                                *)
SelectInv ==
  /\ Queued(PollSets["select"], ioq, pds)
  /\ cnt \in [Fds \X Events -> Nat]
  /\ \A x \in Fds \X Events : cnt[x] = TimesAsked(pds, x)
  /\ fdset = UNION {Pairs(pds[t]) : t \in Threads}
  /\ maxfd \in Fds \cup {-1} /\ open \subseteq Fds /\ happened \subseteq AllEvents
  /\ selected \subseteq Fds \X Events /\ scan \in Nat \ {0}
  /\ loop \in {"none", "notify", "badfd", "return"}
  /\ loop \in {"none", "return"} => \A t \in Threads : Covers(maxfd, pds[t])
  /\ \A i \in 1..Len(ioq) : i < scan => Covers(maxfd, pds[ioq[i]])
  /\ loop = "notify" =>
       /\ happened \subseteq Fds \X Events /\ selected \subseteq happened
       /\ \A t \in Threads : Pairs(pds[t]) \cap happened \subseteq selected
  /\ loop = "badfd" => happened = (Fds \ open) \X {"NVAL"}
  /\ LoopDone

SumOver(w, S) == MapThenSumSet(LAMBDA t : w[t], S)

Lens(f) == [t \in Threads |-> Len(f[t])]

(* How many descriptors the pollqs from position i up to j have.           *)
Ahead(q, f, i, j) == SumOver(Lens(f), {q[k] : k \in i..j})

(* From position k on, array a holds what of h concerns the pollqs from    *)
(* position s on, one after the other, and nothing more.                   *)
Laid(q, f, a, h, s, k) ==
  /\ \A i \in s..Len(q) : \A j \in 1..Len(f[q[i]]) :
       a[k + Ahead(q, f, s, i - 1) + j] = Hits(f[q[i]][j], h)
  /\ Len(a) = k + Ahead(q, f, s, Len(q))

(* The number of descriptors is that of the queued pollqs, and the rest of *)
(* the array is theirs.                                                    *)
PollInv ==
  /\ Queued(PollSets["poll"], ioq, pds)
  /\ fdcnt = SumOver(Lens(pds), Threads)
  /\ size \in Nat \ {0} /\ open \subseteq Fds /\ happened \subseteq AllEvents
  /\ pollfds \in Seq(SUBSET (Events \cup Unasked)) /\ Len(pollfds) <= size
  /\ loop \in {"none", "notify", "return"} /\ scan \in Nat \ {0} /\ at \in Nat
  /\ loop = "notify" => Laid(ioq, pds, pollfds, happened, scan, at)
  /\ LoopDone

Wanted(c, fd) == {e \in Events : c[<<fd, e>>] # 0}
Regs == [cnt : [Fds \X Events -> Int], interest : [Fds -> SUBSET Events],
         n : Int, size : Nat \ {0}]

(* The interest list is as the counts c say, but for what is left to the   *)
(* end of dispatch.                                                        *)
Registry(e, r) ==
  /\ \A fd \in Fds : IF r[fd] = {} THEN fd \notin Refused => e.interest[fd] = Wanted(e.cnt, fd)
                     ELSE Wanted(e.cnt, fd) \subseteq e.interest[fd]
  /\ \A fd \in Refused : e.interest[fd] = {}
  /\ e.n = Cardinality({fd \in Fds : e.interest[fd] # {}}) /\ e.n <= e.size

(* The counts are what the queued pollqs ask for, the interest list says   *)
(* the same but for the descriptors with results, which are set right at   *)
(* the end of dispatch, and nobody waits for what epoll refuses.           *)
EpollInv ==
  /\ Queued(PollSets["epoll"], ioq, pds)
  /\ ep \in Regs
  /\ \A x \in Fds \X Events : ep.cnt[x] = TimesAsked(pds, x)
  /\ \A t \in Threads : Descriptors(pds[t]) \subseteq open \ Refused
  /\ open \subseteq Fds /\ forks \in 0..(2 * MaxForks) /\ stale \in BOOLEAN
  /\ revents \in [Fds -> SUBSET (Events \cup {"ERR", "HUP"})]
  /\ happened = UNION {{fd} \X revents[fd] : fd \in Fds}
  /\ evtlist = {fd \in Fds : revents[fd] # {}}
  /\ loop \in {"none", "notify", "return"} /\ scan \in Nat \ {0}
  /\ loop # "none" => ~stale
  /\ ~stale => Registry(ep, revents)
  /\ LoopDone

Filters == Fds \X {"IN", "OUT"}

(* Each filter waited for is among k, or has fired, or has failed.         *)
Secured(f, k, r) ==
  \A t \in Threads : \A x \in Pairs(f[t]) :
    x \in k \/ r[x[1]] \cap ({x[2]} \cup Unasked) # {}

(* The counts are what the queued pollqs ask for; what is collected for    *)
(* deletion is asked for by nobody; and each filter waited for is in the   *)
(* kernel, collected, or has just fired.                                   *)
KqueueInv ==
  /\ Queued(PollSets["kqueue"], ioq, pds)
  /\ cnt \in [Filters -> Nat]
  /\ \A x \in Filters : cnt[x] = TimesAsked(pds, x)
  /\ \A t \in Threads : Descriptors(pds[t]) \subseteq open /\ Pairs(pds[t]) \subseteq Filters
  /\ kq \subseteq Filters /\ addlist \subseteq Filters /\ dellist \subseteq Filters
  /\ addcnt \in 0..MaxAdds /\ size \in Nat \ {0} /\ addcnt <= size
  /\ open \subseteq Fds /\ forks \in 0..MaxForks /\ stale \in BOOLEAN
  /\ happened \subseteq AllEvents
  /\ revents = [fd \in Fds |-> {e \in Events \cup Unasked : <<fd, e>> \in happened}]
  /\ loop \in {"none", "notify", "return"} /\ scan \in Nat \ {0}
  /\ loop # "none" => ~stale /\ addlist = {}
  /\ loop = "none" => dellist = {}
  /\ \A x \in dellist : cnt[x] = 0
  /\ ~stale => Secured(pds, kq \cup addlist, revents)
  /\ LoopDone

(* The invariant of the event system that was chosen.                      *)
IInv ==
  \/ eventsys = "select" /\ SelectInv
  \/ eventsys = "poll" /\ PollInv
  \/ eventsys = "epoll" /\ EpollInv
  \/ eventsys = "kqueue" /\ KqueueInv

LEMMA QueuedTyped ==
  ASSUME NEW P, P \subseteq Seq(Entries) \ {<<>>}, NEW q, NEW f, Queued(P, q, f)
  PROVE  \A t \in Threads : f[t] \in P \cup {<<>>} /\ f[t] \in Seq(Entries)
<1>1. f \in [Threads -> P \cup {<<>>}]
  BY DEF Queued
<1>2. <<>> \in Seq(Entries)
  OBVIOUS
<1> QED BY <1>1, <1>2

LEMMA QueuedWaits ==
  ASSUME NEW P, P \subseteq Seq(Entries) \ {<<>>}, NEW q, NEW f, Queued(P, q, f)
  PROVE  q \in Seq(Threads) /\ IsInjective(q) /\ f \in Waits
<1>1. q \in Seq(Threads) /\ IsInjective(q) /\ f \in [Threads -> P \cup {<<>>}]
  BY DEF Queued
<1>2. \A t \in Threads : f[t] \in Seq(Entries)
  BY QueuedTyped
<1> QED BY <1>1, <1>2 DEF Waits

LEMMA QueuedThreads ==
  ASSUME NEW P, NEW q, NEW f, Queued(P, q, f)
  PROVE  \A i \in 1..Len(q) : q[i] \in Threads /\ f[q[i]] # <<>>
<1>1. q \in Seq(Threads) /\ \A t \in Threads : t \in ToSet(q) <=> f[t] # <<>>
  BY DEF Queued
<1>2. \A i \in 1..Len(q) : q[i] \in Threads /\ q[i] \in ToSet(q)
  BY <1>1, SeqDomain
<1> QED BY <1>1, <1>2

LEMMA QueuedPlace ==
  ASSUME NEW P, NEW q, NEW f, Queued(P, q, f)
  PROVE  \A t \in Threads : f[t] # <<>> => \E i \in 1..Len(q) : q[i] = t
<1>1. q \in Seq(Threads) /\ \A t \in Threads : t \in ToSet(q) <=> f[t] # <<>>
  BY DEF Queued
<1>2. \A x : x \in ToSet(q) <=> \E i \in 1..Len(q) : q[i] = x
  BY <1>1, SeqDomain
<1> QED BY <1>1, <1>2

LEMMA QueuedAdd ==
  ASSUME NEW P, NEW q, NEW f, Queued(P, q, f), NEW t \in Threads, f[t] = <<>>,
         NEW p \in P, p # <<>>
  PROVE  /\ Queued(P, Joined(q, t), With(f, t, p)) /\ With(f, t, p)[t] = p
         /\ \A u \in Threads : u # t => With(f, t, p)[u] = f[u]
         /\ Len(Joined(q, t)) = Len(q) + 1
         /\ \A i \in 1..Len(q) : Joined(q, t)[i] = q[i] /\ With(f, t, p)[q[i]] = f[q[i]]
<1> DEFINE r == Joined(q, t)
           g == With(f, t, p)
<1>0. r = Append(q, t) /\ g = [f EXCEPT ![t] = p]
  BY DEF Joined, With
<1> HIDE DEF r, g
<1>1. /\ q \in Seq(Threads) /\ IsInjective(q) /\ f \in [Threads -> P \cup {<<>>}]
      /\ \A u \in Threads : u \in ToSet(q) <=> f[u] # <<>>
  BY DEF Queued
<1>2. g \in [Threads -> P \cup {<<>>}] /\ g[t] = p /\ \A u \in Threads : u # t => g[u] = f[u]
  BY <1>0, <1>1
<1>3. t \notin ToSet(q)
  BY <1>1
<1>4. r \in Seq(Threads) /\ IsInjective(r) /\ \A x : x \in ToSet(r) <=> x \in ToSet(q) \/ x = t
  BY <1>0, <1>1, <1>3, AppendLemma
<1>5. Len(r) = Len(q) + 1 /\ \A i \in 1..Len(q) : r[i] = q[i]
  BY <1>0, <1>1
<1>6. \A u \in Threads : u \in ToSet(r) <=> g[u] # <<>>
  BY <1>1, <1>2, <1>4
<1>7. \A i \in 1..Len(q) : q[i] # t /\ q[i] \in Threads
  BY <1>1, <1>3, SeqDomain
<1>8. Queued(P, r, g)
  BY <1>2, <1>4, <1>6 DEF Queued
<1> QED BY <1>2, <1>5, <1>7, <1>8 DEF r, g

LEMMA QueuedDel ==
  ASSUME NEW P, NEW q, NEW f, Queued(P, q, f), NEW t \in Threads, f[t] # <<>>
  PROVE  LET r == Unlink(q, t)
             g == With(f, t, <<>>)
         IN
         /\ Queued(P, r, g) /\ g[t] = <<>>
         /\ \A u \in Threads : u # t => g[u] = f[u]
         /\ Len(r) = Len(q) - 1
         /\ \A k \in 1..Len(q) : q[k] = t =>
              \A i \in 1..Len(r) : /\ r[i] = IF i < k THEN q[i] ELSE q[i + 1]
                                   /\ g[r[i]] = f[r[i]]
<1> DEFINE r == Unlink(q, t)
           g == With(f, t, <<>>)
<1>0. g = [f EXCEPT ![t] = <<>>]
  BY DEF With
<1> HIDE DEF g
<1>1. /\ q \in Seq(Threads) /\ IsInjective(q) /\ f \in [Threads -> P \cup {<<>>}]
      /\ \A u \in Threads : u \in ToSet(q) <=> f[u] # <<>>
  BY DEF Queued
<1>2. /\ g \in [Threads -> P \cup {<<>>}] /\ g[t] = <<>>
      /\ \A u \in Threads : u # t => g[u] = f[u]
  BY <1>0, <1>1
<1>3. t \in ToSet(q)
  BY <1>1
<1>4. /\ r \in Seq(Threads) /\ IsInjective(r)
      /\ \A x : x \in ToSet(r) <=> x \in ToSet(q) /\ x # t
      /\ Len(r) = Len(q) - 1
  BY <1>1, <1>3, UnlinkLemma
<1>5. \A k \in 1..Len(q) : q[k] = t =>
        \A i \in 1..(Len(q) - 1) : r[i] = IF i < k THEN q[i] ELSE q[i + 1]
  BY <1>1, <1>3, UnlinkAt
<1> HIDE DEF r
<1>6. \A u \in Threads : u \in ToSet(r) <=> g[u] # <<>>
  BY <1>1, <1>2, <1>4
<1>7. \A i \in 1..Len(r) : r[i] # t /\ r[i] \in Threads
  BY <1>4, SeqDomain
<1>8. Queued(P, r, g)
  BY <1>2, <1>4, <1>6 DEF Queued
<1> QED BY <1>2, <1>4, <1>5, <1>7, <1>8 DEF r, g

LEMMA QueuedNone ==
  ASSUME NEW P
  PROVE  /\ Queued(P, <<>>, [t \in Threads |-> <<>>])
         /\ \A x : TimesAsked([t \in Threads |-> <<>>], x) = 0
<1> DEFINE f == [t \in Threads |-> <<>>]
<1>1. <<>> \in Seq(Threads) /\ Len(<<>>) = 0 /\ IsInjective(<<>>) /\ \A x : x \notin ToSet(<<>>)
  <2>1. <<>> \in Seq(Threads) /\ Len(<<>>) = 0
    OBVIOUS
  <2> QED BY <2>1, EmptyLemma
<1>2. f \in [Threads -> P \cup {<<>>}] /\ \A t \in Threads : f[t] = <<>>
  OBVIOUS
<1>3. Queued(P, <<>>, f)
  BY <1>1, <1>2 DEF Queued
<1>4. ASSUME NEW x PROVE TimesAsked(f, x) = 0
  <2>1. f \in Waits
    BY DEF Waits
  <2> DEFINE w == [t \in Threads |-> Times(f[t], x)]
  <2>2. TimesAsked(f, x) = Total(w, Threads)
    BY <2>1, AskedIsTotal
  <2>3. \A t \in Threads : w[t] = 0
    BY <1>2, TimesOfNone
  <2> HIDE DEF w
  <2> QED BY <2>2, <2>3, ThreadsFinite, TotalZero
<1> QED BY <1>3, <1>4

(* What an empty pollq asks for, and whom it concerns.                     *)
LEMMA NothingAsked ==
  /\ Descriptors(<<>>) = {} /\ Pairs(<<>>) = {} /\ Len(<<>>) = 0
  /\ \A h : ~Concerned(<<>>, h)
<1>1. DOMAIN <<>> = {}
  OBVIOUS
<1> QED BY <1>1 DEF Descriptors, Pairs, Concerned

LEMMA PollSetFacts ==
  ASSUME NEW p \in Seq(Entries)
  PROVE  /\ DOMAIN p = 1..Len(p) /\ Len(p) \in Nat
         /\ \A i \in 1..Len(p) : p[i] \in Entries /\ p[i].fd \in Fds /\ p[i].events \subseteq Events
                                 /\ p[i].events # {}
         /\ Descriptors(p) \subseteq Fds /\ Pairs(p) \subseteq Fds \X Events
         /\ \A d : d \in Descriptors(p) <=> \E i \in 1..Len(p) : p[i].fd = d
         /\ \A x : x \in Pairs(p) => x[1] \in Descriptors(p)
<1>1. DOMAIN p = 1..Len(p) /\ Len(p) \in Nat
  OBVIOUS
<1>2. \A i \in 1..Len(p) : p[i] \in Entries
  OBVIOUS
<1>3. \A i \in 1..Len(p) : p[i].fd \in Fds /\ p[i].events \subseteq Events /\ p[i].events # {}
  BY <1>2 DEF Entries
<1>4. \A d : d \in Descriptors(p) <=> \E i \in 1..Len(p) : p[i].fd = d
  BY <1>1 DEF Descriptors
<1>5. ASSUME NEW x \in Pairs(p) PROVE x \in Fds \X Events /\ x[1] \in Descriptors(p)
  <2>1. PICK i \in 1..Len(p) : x \in {p[i].fd} \X p[i].events
    BY <1>1 DEF Pairs
  <2>2. x[1] = p[i].fd /\ x[2] \in p[i].events /\ x = <<x[1], x[2]>>
    BY <2>1
  <2> QED BY <1>3, <1>4, <2>2
<1>6. Descriptors(p) \subseteq Fds
  BY <1>3, <1>4
<1>7. Pairs(p) \subseteq Fds \X Events
  BY <1>5
<1> QED BY <1>1, <1>2, <1>3, <1>4, <1>5, <1>6, <1>7

-----------------------------------------------------------------------------
(* The loop of dispatch, whichever event system it is of.                  *)

LEMMA NoConcern == \A p : ~Concerned(p, {})
BY DEF Concerned, Hits

LEMMA NothingHappens == ASSUME happened' = {} PROVE LoopDone'
BY NoConcern DEF LoopDone

LEMMA NotifyLoop ==
  ASSUME NEW P, P \subseteq Seq(Entries) \ {<<>>}, Queued(P, ioq, pds), LoopDone,
         scan \in Nat \ {0}, scan <= Len(ioq), loop # "none", loop # "return",
         ioq' = Unlink(ioq, ioq[scan]), pds' = With(pds, ioq[scan], <<>>),
         UNCHANGED <<loop, scan, happened>>
  PROVE  LoopDone'
<1> DEFINE t == ioq[scan]
<1>1. scan \in 1..Len(ioq) /\ t \in Threads /\ pds[t] # <<>>
  <2>1. Len(ioq) \in Nat
    BY DEF Queued
  <2>2. \A i \in 1..Len(ioq) : ioq[i] \in Threads /\ pds[ioq[i]] # <<>>
    BY QueuedThreads
  <2> QED BY <2>1, <2>2
<1>2. /\ Len(ioq') = Len(ioq) - 1
      /\ \A i \in 1..Len(ioq') : /\ ioq'[i] = IF i < scan THEN ioq[i] ELSE ioq[i + 1]
                                 /\ pds'[ioq'[i]] = pds[ioq'[i]]
  BY <1>1, QueuedDel
<1>3. Len(ioq) \in Nat
  BY DEF Queued
<1>4. \A i \in 1..Len(ioq') : i < scan => i \in 1..Len(ioq) /\ pds'[ioq'[i]] = pds[ioq[i]]
  BY <1>2, <1>3
<1> QED BY <1>4 DEF LoopDone

LEMMA PassLoop ==
  ASSUME LoopDone, scan \in Nat \ {0}, scan <= Len(ioq), loop # "none", loop # "return",
         ~Concerned(pds[ioq[scan]], happened), scan' = scan + 1,
         UNCHANGED <<ioq, pds, loop, happened>>
  PROVE  LoopDone'
<1>1. \A i \in 1..Len(ioq') : i < scan' => i < scan \/ i = scan
  OBVIOUS
<1> QED BY <1>1 DEF LoopDone

LEMMA BeginLoop ==
  ASSUME scan' = 1, loop' # "none",
         loop' = "return" => \A t \in Threads : ~Concerned(pds'[t], happened')
  PROVE  LoopDone'
<1>1. \A i \in 1..Len(ioq') : ~(i < scan')
  OBVIOUS
<1> QED BY <1>1 DEF LoopDone

(* When the loop has ended, nobody on the queue is concerned any more.     *)
LEMMA AllPassed ==
  ASSUME NEW P, P \subseteq Seq(Entries) \ {<<>>}, Queued(P, ioq, pds), LoopDone,
         scan \in Nat, scan > Len(ioq) \/ loop = "return"
  PROVE  \A t \in Threads : ~Concerned(pds[t], happened)
<1> SUFFICES ASSUME loop # "return", NEW t \in Threads
             PROVE  ~Concerned(pds[t], happened)
  BY DEF LoopDone
<1>1. CASE pds[t] = <<>>
  BY <1>1, NothingAsked
<1>2. CASE pds[t] # <<>>
  <2>1. PICK i \in 1..Len(ioq) : ioq[i] = t
    BY <1>2, QueuedPlace
  <2>2. Len(ioq) \in Nat
    BY DEF Queued
  <2> QED BY <2>1, <2>2 DEF LoopDone
<1> QED BY <1>1, <1>2

(* Whom the events tell, if they are events that are asked for.            *)
LEMMA ConcernedPairs ==
  ASSUME NEW p \in Seq(Entries), NEW h, h \subseteq Fds \X Events
  PROVE  Concerned(p, h) <=> Pairs(p) \cap h # {}
<1>1. DOMAIN p = 1..Len(p) /\ \A i \in 1..Len(p) : p[i].fd \in Fds /\ p[i].events \subseteq Events
  BY PollSetFacts
<1>2. Events \cap Unasked = {}
  BY DEF Events, Unasked
<1>3. \A i \in 1..Len(p) : Hits(p[i], h) = {e \in p[i].events : <<p[i].fd, e>> \in h}
  <2> TAKE i \in 1..Len(p)
  <2>1. \A e \in Unasked : <<p[i].fd, e>> \notin h
    BY <1>2
  <2> QED BY <2>1 DEF Hits
<1>4. ASSUME Concerned(p, h) PROVE Pairs(p) \cap h # {}
  <2>0. PICK i \in 1..Len(p) : Hits(p[i], h) # {}
    BY <1>1, <1>4 DEF Concerned
  <2>1. PICK e \in p[i].events : <<p[i].fd, e>> \in h
    BY <2>0, <1>3
  <2>2. <<p[i].fd, e>> \in Fds \X Events
    BY <1>1, <2>1
  <2>3. <<p[i].fd, e>> \in Pairs(p)
    BY <2>2, <2>1, TimesPairs
  <2> QED BY <2>1, <2>3
<1>5. ASSUME Pairs(p) \cap h # {} PROVE Concerned(p, h)
  <2>1. PICK x \in Pairs(p) : x \in h
    BY <1>5
  <2>2. x \in Fds \X Events
    BY <2>1
  <2>3. PICK i \in 1..Len(p) : p[i].fd = x[1] /\ x[2] \in p[i].events
    BY <2>1, <2>2, TimesPairs
  <2>4. x[2] \in Hits(p[i], h)
    BY <1>3, <2>1, <2>2, <2>3
  <2> QED BY <1>1, <2>4 DEF Concerned
<1> QED BY <1>4, <1>5

(* A pair of the events of one entry.                                      *)
LEMMA PairIn ==
  ASSUME NEW p \in Seq(Entries), NEW i \in 1..Len(p), NEW e \in p[i].events
  PROVE  <<p[i].fd, e>> \in Pairs(p) /\ <<p[i].fd, e>> \in Fds \X Events
<1>1. <<p[i].fd, e>> \in Fds \X Events
  BY PollSetFacts
<1> QED BY <1>1, TimesPairs

-----------------------------------------------------------------------------
(* The select event system.                                                *)

LEMMA SelectSame ==
  /\ Select!Events = Events /\ Select!AllEvents = AllEvents
  /\ \A p : Select!Pairs(p) = Pairs(p) /\ Select!Descriptors(p) = Descriptors(p)
  /\ \A p, x : Select!Times(p, x) = Times(p, x)
  /\ \A f, x : Select!TimesAsked(f, x) = TimesAsked(f, x)
  /\ \A s, t : Select!Unlink(s, t) = Unlink(s, t)
  /\ \A S : Select!Max(S) = Max(S)
<1>1. Select!Events = Events /\ Select!AllEvents = AllEvents
  BY DEF Select!Events, Events, Select!AllEvents, AllEvents, Select!Unasked, Unasked
<1>2. \A p : Select!Pairs(p) = Pairs(p) /\ Select!Descriptors(p) = Descriptors(p)
  BY DEF Select!Pairs, Pairs, Select!Descriptors, Descriptors
<1>3. \A p, x : Select!Times(p, x) = Times(p, x)
  BY DEF Select!Times, Times, Select!Cardinality, Cardinality
<1>4. \A f, x : Select!TimesAsked(f, x) = TimesAsked(f, x)
  BY DEF Select!TimesAsked, TimesAsked, Select!Times, Times, Select!Cardinality, Cardinality,
         Select!MapThenSumSet, MapThenSumSet, Select!MapThenFoldSet, MapThenFoldSet
<1>5. \A s, t : Select!Unlink(s, t) = Unlink(s, t)
  BY DEF Select!Unlink, Unlink, Select!RemoveAt, RemoveAt
<1>6. \A S : Select!Max(S) = Max(S)
  BY DEF Select!Max, Max
<1> QED BY <1>1, <1>2, <1>3, <1>4, <1>5, <1>6

LEMMA SelectConstants ==
  /\ PollSets["select"] \subseteq Seq(Entries) \ {<<>>} /\ Fds \subseteq Nat
  /\ Select!Asked \subseteq Fds \X Events
<1>1. PollSets["select"] \subseteq Seq(Entries) \ {<<>>} /\ Fds \subseteq Nat
  BY EventsysAssumption
     DEF EventsysAssumption, Select!SelectAssumption, Select!Entries, Entries, Select!Events, Events
<1>2. Select!Asked = UNION {Pairs(p) : p \in PollSets["select"]}
  BY SelectSame DEF Select!Asked
<1>3. \A p \in PollSets["select"] : Pairs(p) \subseteq Fds \X Events
  BY <1>1, PollSetFacts
<1> QED BY <1>1, <1>2, <1>3

LEMMA LaterIs ==
  ASSUME NEW m \in Fds \cup {-1}, NEW p \in Seq(Entries), Fds \subseteq Nat
  PROVE  /\ Select!Later(m, p) \in Fds \cup {-1} /\ m <= Select!Later(m, p)
         /\ \A d \in Descriptors(p) : d <= Select!Later(m, p)
<1> DEFINE D == Descriptors(p)
<1>1. Select!Later(m, p) = Max({m} \cup D)
  BY SelectSame DEF Select!Later
<1>2. D \subseteq Fds /\ D \subseteq Nat /\ DOMAIN p = 1..Len(p) /\ Len(p) \in Nat
  BY PollSetFacts
<1>3. IsFiniteSet(D)
  <2> DEFINE g == [i \in 1..Len(p) |-> p[i].fd]
  <2>1. D = {p[i].fd : i \in 1..Len(p)}
    BY <1>2 DEF Descriptors
  <2>2. g \in Surjection(1..Len(p), D)
    BY <2>1 DEF Surjection
  <2>3. IsFiniteSet(1..Len(p))
    BY <1>2, FS_Interval
  <2> HIDE DEF g, D
  <2> QED BY <2>2, <2>3, FS_Surjection
<1> HIDE DEF D
<1>4. \E k \in {m} \cup D : \A x \in {m} \cup D : x <= k
  <2>1. CASE D = {}
    BY <2>1
  <2>2. CASE D # {}
    <3>1. PICK k \in D : \A x \in D : x <= k
      BY <1>2, <1>3, <2>2, NatMax
    <3>2. CASE m <= k
      BY <3>1, <3>2
    <3>3. CASE ~(m <= k)
      <4>1. \A x \in {m} \cup D : x <= m
        BY <1>2, <3>1, <3>3
      <4> QED BY <4>1
    <3> QED BY <3>2, <3>3
  <2> QED BY <2>1, <2>2
<1>5. PICK k \in {m} \cup D : \A x \in {m} \cup D : x <= k
  BY <1>4
<1>6. {m} \cup D \subseteq Int
  BY <1>2
<1>7. Max({m} \cup D) = k
  BY <1>5, <1>6, MaxIs
<1> QED BY <1>1, <1>2, <1>5, <1>7 DEF D

LEMMA CoversMore ==
  ASSUME Fds \subseteq Nat, NEW m \in Fds \cup {-1}, NEW n \in Fds \cup {-1}, m <= n,
         NEW p \in Seq(Entries), Covers(m, p)
  PROVE  Covers(n, p)
<1>1. m \in Int /\ n \in Int
  OBVIOUS
<1>2. \A d \in Descriptors(p) : d \in Int
  <2>1. Descriptors(p) \subseteq Fds
    BY PollSetFacts
  <2>2. Nat \subseteq Int
    OBVIOUS
  <2> QED BY <2>1, <2>2, Zenon
<1> QED BY <1>1, <1>2 DEF Covers

LEMMA SelectFacts ==
  ASSUME SelectInv
  PROVE  /\ ioq \in Seq(Threads) /\ Len(ioq) \in Nat /\ pds \in Waits
         /\ \A t \in Threads : pds[t] \in Seq(Entries) /\ Pairs(pds[t]) \subseteq Fds \X Events
                               /\ Descriptors(pds[t]) \subseteq Fds
         /\ \A i \in 1..Len(ioq) : ioq[i] \in Threads /\ pds[ioq[i]] # <<>>
         /\ \A t \in Threads : pds[t] # <<>> => \E i \in 1..Len(ioq) : ioq[i] = t
<1>1. Queued(PollSets["select"], ioq, pds)
  BY DEF SelectInv
<1>2. /\ ioq \in Seq(Threads) /\ pds \in Waits
      /\ \A t \in Threads : pds[t] \in Seq(Entries)
      /\ \A i \in 1..Len(ioq) : ioq[i] \in Threads /\ pds[ioq[i]] # <<>>
      /\ \A t \in Threads : pds[t] # <<>> => \E i \in 1..Len(ioq) : ioq[i] = t
  <2>1. PollSets["select"] \subseteq Seq(Entries) \ {<<>>}
    BY SelectConstants
  <2>2. ioq \in Seq(Threads) /\ pds \in Waits
    BY <1>1, <2>1, QueuedWaits
  <2>3. \A t \in Threads : pds[t] \in Seq(Entries)
    BY <1>1, <2>1, QueuedTyped
  <2>4. \A i \in 1..Len(ioq) : ioq[i] \in Threads /\ pds[ioq[i]] # <<>>
    BY <1>1, <2>1, QueuedThreads
  <2>5. \A t \in Threads : pds[t] # <<>> => \E i \in 1..Len(ioq) : ioq[i] = t
    BY <1>1, <2>1, QueuedPlace
  <2> QED BY <2>2, <2>3, <2>4, <2>5
<1>3. \A t \in Threads : Pairs(pds[t]) \subseteq Fds \X Events /\ Descriptors(pds[t]) \subseteq Fds
  BY <1>2, PollSetFacts
<1> QED BY <1>2, <1>3

LEMMA SelectInit == Select!Init => SelectInv
<1> SUFFICES ASSUME Select!Init PROVE SelectInv
  OBVIOUS
<1>1. /\ ioq = <<>> /\ pds = [t \in Threads |-> <<>>] /\ cnt = [x \in Fds \X Events |-> 0]
      /\ fdset = {} /\ maxfd = -1 /\ open = Fds /\ happened = {} /\ selected = {}
      /\ loop = "none" /\ scan = 1
  BY SelectSame DEF Select!Init
<1>2. Queued(PollSets["select"], ioq, pds) /\ \A x : TimesAsked(pds, x) = 0
  BY <1>1, QueuedNone
<1>3. \A t \in Threads : Pairs(pds[t]) = {} /\ Covers(maxfd, pds[t])
  BY <1>1, NothingAsked DEF Covers
<1>4. Len(ioq) = 0
  BY <1>1
<1>5. LoopDone
  BY <1>1, <1>4, NoConcern DEF LoopDone
<1>6. cnt \in [Fds \X Events -> Nat] /\ \A x \in Fds \X Events : cnt[x] = TimesAsked(pds, x)
  <2>1. cnt = [x \in Fds \X Events |-> 0] /\ \A x : TimesAsked(pds, x) = 0
    BY <1>1, <1>2
  <2> QED BY <2>1
<1>7. fdset = UNION {Pairs(pds[t]) : t \in Threads}
  BY <1>1, <1>3
<1> QED BY <1>1, <1>2, <1>3, <1>4, <1>5, <1>6, <1>7 DEF SelectInv

LEMMA SelectAdd ==
  ASSUME SelectInv, NEW t \in Threads, NEW p \in PollSets["select"], Select!pollset_add(t, p)
  PROVE  SelectInv'
<1>1. /\ loop = "none" /\ pds[t] = <<>>
      /\ fdset' = fdset \cup Pairs(p)
      /\ cnt' = [x \in Fds \X Events |-> cnt[x] + Times(p, x)]
      /\ maxfd' = Select!Later(maxfd, p)
      /\ ioq' = Joined(ioq, t) /\ pds' = With(pds, t, p)
      /\ UNCHANGED <<open, happened, selected, loop, scan>>
  BY SelectSame DEF Select!pollset_add, Select!loopVars, With, Joined
<1>2. p \in Seq(Entries) /\ p # <<>>
  BY SelectConstants
<1>3. /\ Queued(PollSets["select"], ioq, pds) /\ maxfd \in Fds \cup {-1} /\ LoopDone
      /\ \A u \in Threads : Covers(maxfd, pds[u])
      /\ \A x \in Fds \X Events : cnt[x] = TimesAsked(pds, x)
      /\ fdset = UNION {Pairs(pds[u]) : u \in Threads}
  BY <1>1 DEF SelectInv
<1>4. /\ Queued(PollSets["select"], ioq', pds') /\ pds'[t] = p
      /\ \A u \in Threads : u # t => pds'[u] = pds[u]
      /\ Len(ioq') = Len(ioq) + 1
  BY <1>1, <1>2, <1>3, QueuedAdd
<1>5. ASSUME NEW x \in Fds \X Events
      PROVE  cnt'[x] \in Nat /\ cnt'[x] = TimesAsked(pds', x)
  <2>1. /\ TimesAsked(pds', x) = (TimesAsked(pds, x) - Times(pds[t], x)) + Times(p, x)
        /\ TimesAsked(pds', x) \in Nat /\ TimesAsked(pds, x) \in Nat /\ Times(p, x) \in Nat
    BY <1>1, <1>2, SelectFacts, AskedUpdate
  <2>2. Times(pds[t], x) = 0
    BY <1>1, TimesOfNone
  <2> QED BY <1>1, <1>3, <2>1, <2>2
<1>6. cnt' \in [Fds \X Events -> Nat]
  BY <1>1, <1>5
<1>7. fdset' = UNION {Pairs(pds'[u]) : u \in Threads}
  <2>1. Pairs(pds[t]) = {}
    BY <1>1, NothingAsked
  <2>2. \A u \in Threads : Pairs(pds'[u]) = IF u = t THEN Pairs(p) ELSE Pairs(pds[u])
    BY <1>4
  <2> QED BY <1>1, <1>3, <2>1, <2>2
<1>8. /\ maxfd' \in Fds \cup {-1} /\ maxfd <= maxfd'
      /\ \A d \in Descriptors(p) : d <= maxfd'
  BY <1>1, <1>2, <1>3, SelectConstants, LaterIs
<1>9. \A u \in Threads : Covers(maxfd', pds'[u])
  <2> TAKE u \in Threads
  <2>1. CASE u = t
    BY <1>4, <1>8, <2>1 DEF Covers
  <2>2. CASE u # t
    <3>1. Covers(maxfd, pds[u]) /\ pds[u] \in Seq(Entries)
      BY <1>3, SelectFacts
    <3>2. Covers(maxfd', pds[u])
      BY <1>3, <1>8, <3>1, SelectConstants, CoversMore
    <3> QED BY <1>4, <2>2, <3>2
  <2> QED BY <2>1, <2>2
<1>10. LoopDone'
  BY <1>1, <1>3, NothingHappens DEF LoopDone
<1>11. \A i \in 1..Len(ioq') : ioq'[i] \in Threads
  BY <1>4 DEF Queued
<1> QED BY <1>1, <1>3, <1>4, <1>5, <1>6, <1>7, <1>8, <1>9, <1>10, <1>11 DEF SelectInv

(* A pollq leaves the queue.                                               *)
LEMMA SelectUncount ==
  ASSUME SelectInv, NEW t \in Threads, pds[t] # <<>>, Select!Dequeue(t), Select!Uncount(pds[t])
  PROVE  /\ ioq' = Unlink(ioq, t) /\ pds' = With(pds, t, <<>>)
         /\ Queued(PollSets["select"], ioq, pds)'
         /\ (cnt \in [Fds \X Events -> Nat])'
         /\ (\A x \in Fds \X Events : cnt[x] = TimesAsked(pds, x))'
         /\ (fdset = UNION {Pairs(pds[u]) : u \in Threads})'
         /\ \A u \in Threads : pds'[u] = <<>> \/ pds'[u] = pds[u]
         /\ Len(ioq') = Len(ioq) - 1
         /\ \A k \in 1..Len(ioq) : ioq[k] = t =>
              \A i \in 1..Len(ioq') : /\ ioq'[i] = IF i < k THEN ioq[i] ELSE ioq[i + 1]
                                      /\ pds'[ioq'[i]] = pds[ioq'[i]]
<1>1. /\ ioq' = Unlink(ioq, t) /\ pds' = With(pds, t, <<>>)
      /\ cnt' = [x \in Fds \X Events |-> cnt[x] - Times(pds[t], x)]
      /\ fdset' = fdset \ {x \in Pairs(pds[t]) : cnt[x] > 0 /\ cnt'[x] <= 0}
  BY SelectSame DEF Select!Dequeue, Select!Uncount, With
<1>2. /\ Queued(PollSets["select"], ioq, pds)
      /\ \A x \in Fds \X Events : cnt[x] = TimesAsked(pds, x)
      /\ fdset = UNION {Pairs(pds[u]) : u \in Threads}
  BY DEF SelectInv
<1>3. /\ Queued(PollSets["select"], ioq', pds') /\ pds'[t] = <<>>
      /\ \A u \in Threads : u # t => pds'[u] = pds[u]
      /\ Len(ioq') = Len(ioq) - 1
      /\ \A k \in 1..Len(ioq) : ioq[k] = t =>
           \A i \in 1..Len(ioq') : /\ ioq'[i] = IF i < k THEN ioq[i] ELSE ioq[i + 1]
                                   /\ pds'[ioq'[i]] = pds[ioq'[i]]
  BY <1>1, <1>2, QueuedDel
<1>4. pds' \in Waits /\ pds \in Waits
  BY <1>2, <1>3, SelectConstants, QueuedWaits
<1>5. ASSUME NEW x \in Fds \X Events
      PROVE  cnt'[x] \in Nat /\ cnt'[x] = TimesAsked(pds', x)
  <2>1. /\ TimesAsked(pds', x) = TimesAsked(pds, x) - Times(pds[t], x)
        /\ TimesAsked(pds', x) \in Nat
    BY <1>1, <1>4, AskedDown
  <2>3. cnt'[x] = TimesAsked(pds, x) - Times(pds[t], x)
    BY <1>1, <1>2
  <2> QED BY <2>1, <2>3
<1>6. cnt' \in [Fds \X Events -> Nat]
  BY <1>1, <1>5
<1>7. \A x \in Fds \X Events :
        /\ cnt[x] \in Nat /\ (cnt[x] = 0 <=> \A u \in Threads : x \notin Pairs(pds[u]))
        /\ cnt'[x] = 0 <=> \A u \in Threads : x \notin Pairs(pds'[u])
  BY <1>2, <1>4, <1>5, AskedNone
<1>8. fdset' = UNION {Pairs(pds'[u]) : u \in Threads}
  <2>1. Pairs(pds'[t]) = {}
    BY <1>3, NothingAsked
  <2>2. \A u \in Threads : Pairs(pds[u]) \subseteq Fds \X Events
    BY SelectFacts
  <2>3. ASSUME NEW x \in fdset' PROVE \E u \in Threads : x \in Pairs(pds'[u])
    <3>1. PICK u \in Threads : x \in Pairs(pds[u])
      BY <1>1, <1>2, <2>3
    <3>2. x \in Fds \X Events /\ x \in fdset
      BY <1>1, <2>2, <2>3, <3>1
    <3>3. CASE u # t
      BY <1>3, <3>1, <3>3
    <3>4. CASE u = t
      <4>1. cnt[x] > 0
        BY <1>7, <3>1, <3>2
      <4>2. ~(cnt'[x] <= 0)
        BY <1>1, <2>3, <3>1, <3>4, <4>1
      <4> QED BY <1>5, <1>7, <3>2, <4>2
    <3> QED BY <3>3, <3>4
  <2>4. ASSUME NEW u \in Threads, NEW x \in Pairs(pds'[u]) PROVE x \in fdset'
    <3>1. u # t /\ x \in Pairs(pds[u])
      BY <1>3, <2>1, <2>4
    <3>2. x \in fdset /\ x \in Fds \X Events
      BY <1>2, <2>2, <3>1
    <3>3. cnt'[x] # 0
      BY <1>7, <2>4, <3>2
    <3>4. ~(cnt'[x] <= 0)
      BY <1>5, <3>2, <3>3
    <3> QED BY <1>1, <3>2, <3>4
  <2> QED BY <2>3, <2>4
<1> QED BY <1>1, <1>3, <1>5, <1>6, <1>8

LEMMA SelectDel ==
  ASSUME SelectInv, NEW t \in Threads, Select!pollset_del(t)
  PROVE  SelectInv'
<1>1. /\ loop = "none" /\ pds[t] # <<>> /\ Select!Dequeue(t) /\ Select!Uncount(pds[t])
      /\ UNCHANGED <<maxfd, open, happened, selected, loop, scan>>
  BY DEF Select!pollset_del, Select!loopVars
<1>2. LoopDone'
  BY <1>1, NothingHappens DEF LoopDone, SelectInv
<1>3. \A u \in Threads : pds'[u] = <<>> \/ pds'[u] = pds[u]
  BY <1>1, SelectUncount
<1>4. \A u \in Threads : Covers(maxfd', pds'[u])
  BY <1>1, <1>3, NothingAsked DEF SelectInv, Covers
<1>5. /\ Queued(PollSets["select"], ioq, pds)'
      /\ (cnt \in [Fds \X Events -> Nat])'
      /\ (\A x \in Fds \X Events : cnt[x] = TimesAsked(pds, x))'
      /\ (fdset = UNION {Pairs(pds[u]) : u \in Threads})'
  BY <1>1, SelectUncount
<1>6. \A i \in 1..Len(ioq') : ioq'[i] \in Threads
  BY <1>5 DEF Queued
<1> QED BY <1>1, <1>2, <1>4, <1>5, <1>6 DEF SelectInv

(* All of what is waited for is looked at.                                 *)
LEMMA AllSeen ==
  ASSUME SelectInv, loop = "none"
  PROVE  Select!Seen = fdset /\ fdset = UNION {Pairs(pds[t]) : t \in Threads}
<1>1. fdset = UNION {Pairs(pds[t]) : t \in Threads} /\ \A t \in Threads : Covers(maxfd, pds[t])
  BY DEF SelectInv
<1>2. \A t \in Threads : \A x \in Pairs(pds[t]) : x[1] <= maxfd
  BY <1>1, SelectFacts, PollSetFacts DEF Covers
<1> QED BY <1>1, <1>2 DEF Select!Seen

LEMMA SelectDispatch ==
  ASSUME SelectInv, NEW events \in SUBSET {x \in Select!Asked : x[1] \in open},
         Select!dispatch_select(events)
  PROVE  SelectInv'
<1>1. /\ loop = "none" /\ happened' = events /\ selected' = events \cap Select!Seen
      /\ loop' = (IF selected' = {} THEN "return" ELSE "notify")
      /\ maxfd' = (IF selected' = {} THEN maxfd ELSE -1)
      /\ scan' = 1
      /\ UNCHANGED <<ioq, pds, cnt, fdset, open>>
  BY DEF Select!dispatch_select, Select!setVars
<1>2. events \subseteq Fds \X Events /\ events \subseteq AllEvents
  BY SelectConstants DEF AllEvents
<1>3. selected' = events \cap UNION {Pairs(pds[t]) : t \in Threads}
  BY <1>1, AllSeen
<1>4. \A t \in Threads : Pairs(pds[t]) \cap events \subseteq selected'
  BY <1>3
<1>5. selected' = {} => \A t \in Threads : ~Concerned(pds[t], events)
  <2>1. \A t \in Threads : Concerned(pds[t], events) <=> Pairs(pds[t]) \cap events # {}
    BY <1>2, SelectFacts, ConcernedPairs
  <2> QED BY <1>4, <2>1
<1>6. LoopDone'
  <2>1. loop' # "none" /\ (loop' = "return" => selected' = {})
    BY <1>1
  <2>2. loop' = "return" => \A t \in Threads : ~Concerned(pds'[t], happened')
    BY <1>1, <1>5, <2>1
  <2> QED BY <1>1, <2>1, <2>2, BeginLoop
<1>7. /\ Queued(PollSets["select"], ioq, pds)
      /\ cnt \in [Fds \X Events -> Nat]
      /\ \A x \in Fds \X Events : cnt[x] = TimesAsked(pds, x)
      /\ fdset = UNION {Pairs(pds[u]) : u \in Threads}
      /\ maxfd \in Fds \cup {-1} /\ open \subseteq Fds
      /\ \A t \in Threads : Covers(maxfd, pds[t])
  BY <1>1 DEF SelectInv
<1>8. loop' \in {"none", "return"} => \A t \in Threads : Covers(maxfd', pds'[t])
  BY <1>1, <1>7 DEF Covers
<1>9. \A i \in 1..Len(ioq') : ~(i < scan')
  BY <1>1
<1> QED BY <1>1, <1>2, <1>3, <1>4, <1>6, <1>7, <1>8, <1>9 DEF SelectInv

LEMMA SelectBadfd == SelectInv /\ Select!dispatch_badfd => SelectInv'
<1> SUFFICES ASSUME SelectInv, Select!dispatch_badfd PROVE SelectInv'
  OBVIOUS
<1>1. /\ loop = "none" /\ happened' = (Fds \ open) \X {"NVAL"} /\ selected' = {}
      /\ loop' = "badfd" /\ maxfd' = -1 /\ scan' = 1
      /\ UNCHANGED <<ioq, pds, cnt, fdset, open>>
  BY DEF Select!dispatch_badfd, Select!setVars
<1>2. happened' \subseteq AllEvents
  BY <1>1 DEF AllEvents, Unasked
<1>3. LoopDone'
  BY <1>1, BeginLoop
<1>4. \A i \in 1..Len(ioq') : ~(i < scan')
  BY <1>1
<1>5. Queued(PollSets["select"], ioq, pds)'
  BY <1>1 DEF SelectInv
<1> QED BY <1>1, <1>2, <1>3, <1>4, <1>5 DEF SelectInv

(* The loop tells each thread its share of what has happened.              *)
LEMMA SelectRevents ==
  ASSUME SelectInv, loop \in {"notify", "badfd"}, NEW t \in Threads
  PROVE  /\ Select!LoopRevents(pds[t]) = Revents(pds[t], happened)
         /\ Select!Notified(pds[t]) <=> Concerned(pds[t], happened)
<1> DEFINE p == pds[t]
<1>1. p \in Seq(Entries) /\ DOMAIN p = 1..Len(p)
  BY SelectFacts
<1>2. \A i \in 1..Len(p) : p[i].fd \in Fds /\ p[i].events \subseteq Events
  BY <1>1, PollSetFacts
<1>3. Events \cap Unasked = {} /\ "NVAL" \in Unasked
  BY DEF Events, Unasked
<1>4. ASSUME NEW i \in 1..Len(p)
      PROVE  Select!LoopRevents(p)[i] = Hits(p[i], happened)
  <2>0. Select!LoopRevents(p)[i] =
          IF loop = "badfd" THEN {e \in {"NVAL"} : p[i].fd \notin open}
          ELSE {e \in p[i].events : <<p[i].fd, e>> \in selected}
    BY <1>1 DEF Select!LoopRevents
  <2>1. CASE loop = "badfd"
    <3>1. happened = (Fds \ open) \X {"NVAL"}
      BY <2>1 DEF SelectInv
    <3>2. \A e : <<p[i].fd, e>> \in happened <=> p[i].fd \notin open /\ e = "NVAL"
      BY <1>2, <3>1
    <3> QED BY <1>2, <1>3, <2>0, <2>1, <3>2 DEF Hits
  <2>2. CASE loop = "notify"
    <3>1. /\ happened \subseteq Fds \X Events /\ selected \subseteq happened
          /\ Pairs(p) \cap happened \subseteq selected
      BY <2>2 DEF SelectInv
    <3>2. \A e \in p[i].events : <<p[i].fd, e>> \in Pairs(p)
      BY <1>1, PairIn
    <3>3. \A e \in p[i].events : <<p[i].fd, e>> \in selected <=> <<p[i].fd, e>> \in happened
      BY <3>1, <3>2
    <3>4. \A e \in Unasked : <<p[i].fd, e>> \notin happened
      BY <1>3, <3>1
    <3>5. Hits(p[i], happened) = {e \in p[i].events : <<p[i].fd, e>> \in happened}
      BY <3>4 DEF Hits
    <3> QED BY <2>0, <2>2, <3>3, <3>5
  <2> QED BY <2>1, <2>2
<1>5. Select!LoopRevents(p) = Revents(p, happened)
  <2>1. Select!LoopRevents(p) = [i \in 1..Len(p) |-> Select!LoopRevents(p)[i]]
    BY <1>1 DEF Select!LoopRevents
  <2> QED BY <1>1, <1>4, <2>1 DEF Revents
<1>6. Select!Notified(p) <=> \E i \in 1..Len(p) : Select!LoopRevents(p)[i] # {}
  BY <1>1 DEF Select!Notified
<1>7. Concerned(p, happened) <=> \E i \in 1..Len(p) : Hits(p[i], happened) # {}
  BY <1>1 DEF Concerned
<1> QED BY <1>4, <1>5, <1>6, <1>7

LEMMA SelectNotify == SelectInv /\ Select!dispatch_notify => SelectInv'
<1> SUFFICES ASSUME SelectInv, Select!dispatch_notify PROVE SelectInv'
  OBVIOUS
<1> DEFINE t == ioq[scan]
<1>1. /\ loop \in {"notify", "badfd"} /\ scan <= Len(ioq)
      /\ Select!Dequeue(t) /\ Select!Uncount(pds[t])
      /\ UNCHANGED <<maxfd, open, happened, selected, loop, scan>>
  BY DEF Select!dispatch_notify, Select!InLoop, Select!loopVars
<1>2. scan \in 1..Len(ioq) /\ t \in Threads /\ pds[t] # <<>> /\ scan \in Nat \ {0}
  BY <1>1, SelectFacts DEF SelectInv
<1> HIDE DEF t
<1>3. /\ ioq' = Unlink(ioq, t) /\ pds' = With(pds, t, <<>>)
      /\ Queued(PollSets["select"], ioq, pds)'
      /\ (cnt \in [Fds \X Events -> Nat])'
      /\ (\A x \in Fds \X Events : cnt[x] = TimesAsked(pds, x))'
      /\ (fdset = UNION {Pairs(pds[u]) : u \in Threads})'
      /\ \A u \in Threads : pds'[u] = <<>> \/ pds'[u] = pds[u]
      /\ Len(ioq') = Len(ioq) - 1
      /\ \A k \in 1..Len(ioq) : ioq[k] = t =>
           \A i \in 1..Len(ioq') : /\ ioq'[i] = IF i < k THEN ioq[i] ELSE ioq[i + 1]
                                   /\ pds'[ioq'[i]] = pds[ioq'[i]]
  BY <1>1, <1>2, SelectUncount
<1>4. LoopDone'
  <2>1. Queued(PollSets["select"], ioq, pds) /\ LoopDone
    BY DEF SelectInv
  <2>2. PollSets["select"] \subseteq Seq(Entries) \ {<<>>}
    BY SelectConstants
  <2>3. /\ ioq' = Unlink(ioq, ioq[scan]) /\ pds' = With(pds, ioq[scan], <<>>)
        /\ scan \in Nat \ {0} /\ scan <= Len(ioq) /\ loop # "none" /\ loop # "return"
    BY <1>1, <1>2, <1>3 DEF t
  <2> QED BY <1>1, <2>1, <2>2, <2>3, NotifyLoop
<1>5. \A i \in 1..Len(ioq') : i < scan' => Covers(maxfd', pds'[ioq'[i]])
  <2> SUFFICES ASSUME NEW i \in 1..Len(ioq'), i < scan PROVE Covers(maxfd', pds'[ioq'[i]])
    BY <1>1
  <2>1. ioq'[i] = ioq[i] /\ pds'[ioq'[i]] = pds[ioq'[i]] /\ i \in 1..Len(ioq)
    BY <1>2, <1>3, SelectFacts DEF t
  <2>2. Covers(maxfd, pds[ioq[i]])
    BY <2>1 DEF SelectInv
  <2> QED BY <1>1, <2>1, <2>2 DEF Covers
<1>6. loop = "notify" => \A u \in Threads : Pairs(pds'[u]) \cap happened \subseteq selected
  BY <1>3, NothingAsked DEF SelectInv
<1> QED BY <1>1, <1>2, <1>3, <1>4, <1>5, <1>6 DEF SelectInv

LEMMA SelectPass == SelectInv /\ Select!dispatch_pass => SelectInv'
<1> SUFFICES ASSUME SelectInv, Select!dispatch_pass PROVE SelectInv'
  OBVIOUS
<1> DEFINE t == ioq[scan]
<1>1. /\ loop \in {"notify", "badfd"} /\ scan <= Len(ioq)
      /\ ~Select!Notified(pds[t])
      /\ maxfd' = Select!Later(maxfd, pds[t]) /\ scan' = scan + 1
      /\ UNCHANGED <<ioq, pds, cnt, fdset, open, happened, selected, loop>>
  BY DEF Select!dispatch_pass, Select!InLoop, Select!setVars
<1>2. scan \in 1..Len(ioq) /\ t \in Threads /\ scan \in Nat \ {0} /\ pds[t] \in Seq(Entries)
  BY <1>1, SelectFacts DEF SelectInv
<1> HIDE DEF t
<1>3. ~Concerned(pds[t], happened)
  BY <1>1, <1>2, SelectRevents
<1>4. LoopDone'
  <2>1. LoopDone /\ loop # "none" /\ loop # "return"
    BY <1>1 DEF SelectInv
  <2> QED BY <1>1, <1>2, <1>3, <2>1, PassLoop DEF t
<1>5. maxfd \in Fds \cup {-1}
  BY DEF SelectInv
<1>6. /\ maxfd' \in Fds \cup {-1} /\ maxfd <= maxfd'
      /\ \A d \in Descriptors(pds[t]) : d <= maxfd'
  BY <1>1, <1>2, <1>5, SelectConstants, LaterIs
<1>7. \A i \in 1..Len(ioq') : i < scan' => Covers(maxfd', pds'[ioq'[i]])
  <2> SUFFICES ASSUME NEW i \in 1..Len(ioq), i < scan + 1 PROVE Covers(maxfd', pds[ioq[i]])
    BY <1>1
  <2>0. i < scan \/ i = scan
    BY <1>2
  <2>1. CASE i = scan
    BY <1>1, <1>6, <2>1 DEF Covers, t
  <2>2. CASE i < scan
    <3>1. Covers(maxfd, pds[ioq[i]]) /\ pds[ioq[i]] \in Seq(Entries)
      BY <2>2, SelectFacts DEF SelectInv
    <3> QED BY <1>5, <1>6, <3>1, SelectConstants, CoversMore
  <2> QED BY <2>0, <2>1, <2>2
<1>8. Queued(PollSets["select"], ioq, pds)'
  BY <1>1 DEF SelectInv
<1> QED BY <1>1, <1>2, <1>4, <1>6, <1>7, <1>8 DEF SelectInv

LEMMA SelectReturn == SelectInv /\ Select!dispatch_return => SelectInv'
<1> SUFFICES ASSUME SelectInv, Select!dispatch_return PROVE SelectInv'
  OBVIOUS
<1>1. /\ loop = "return" \/ (loop \in {"notify", "badfd"} /\ scan > Len(ioq))
      /\ happened' = {} /\ selected' = {} /\ loop' = "none" /\ scan' = 1
      /\ UNCHANGED <<ioq, pds, cnt, fdset, maxfd, open>>
  BY DEF Select!dispatch_return, Select!setVars
<1>2. LoopDone'
  BY <1>1, NothingHappens
<1>3. \A t \in Threads : Covers(maxfd', pds'[t])
  <2> SUFFICES ASSUME NEW t \in Threads PROVE Covers(maxfd, pds[t])
    BY <1>1 DEF Covers
  <2>1. CASE loop = "return"
    BY <2>1 DEF SelectInv
  <2>2. CASE pds[t] = <<>>
    BY <2>2, NothingAsked DEF Covers
  <2>3. CASE loop # "return" /\ pds[t] # <<>>
    <3>1. PICK i \in 1..Len(ioq) : ioq[i] = t
      BY <2>3, SelectFacts
    <3>2. i < scan
      BY <1>1, <2>3, SelectFacts DEF SelectInv
    <3> QED BY <3>1, <3>2 DEF SelectInv
  <2> QED BY <2>1, <2>2, <2>3
<1>4. \A i \in 1..Len(ioq') : ~(i < scan')
  BY <1>1
<1>5. Queued(PollSets["select"], ioq, pds)'
  BY <1>1 DEF SelectInv
<1> QED BY <1>1, <1>2, <1>3, <1>4, <1>5 DEF SelectInv, AllEvents

LEMMA SelectOpenClose ==
  ASSUME SelectInv, NEW fd \in Fds,
         Select!fd_close(fd) \/ Select!raw_close(fd) \/ Select!fd_open(fd)
  PROVE  SelectInv'
<1>1. /\ loop = "none" /\ open' \subseteq Fds
      /\ UNCHANGED <<ioq, pds, cnt, fdset, maxfd, happened, selected, loop, scan>>
  BY DEF Select!fd_close, Select!raw_close, Select!fd_open, Select!setVars, Select!loopVars, SelectInv
<1>2. LoopDone'
  BY <1>1, NothingHappens DEF LoopDone, SelectInv
<1>3. Queued(PollSets["select"], ioq, pds)'
  BY <1>1 DEF SelectInv
<1> QED BY <1>1, <1>2, <1>3 DEF SelectInv, Covers

LEMMA SelectNext == SelectInv /\ Select!Next => SelectInv'
BY SelectAdd, SelectDel, SelectDispatch, SelectBadfd, SelectNotify, SelectPass, SelectReturn,
   SelectOpenClose
   DEF Select!Next

-----------------------------------------------------------------------------
(* The poll event system.                                                  *)

LEMMA PollSame ==
  /\ Poll!Events = Events /\ Poll!AllEvents = AllEvents /\ Poll!Unasked = Unasked
  /\ \A p : Poll!Pairs(p) = Pairs(p)
  /\ \A pd, h : Poll!Hits(pd, h) = Hits(pd, h)
  /\ \A s, t : Poll!Unlink(s, t) = Unlink(s, t)
  /\ \A s : Poll!FlattenSeq(s) = FlattenSeq(s)
<1>1. Poll!Events = Events /\ Poll!AllEvents = AllEvents /\ Poll!Unasked = Unasked
  BY DEF Poll!Events, Events, Poll!AllEvents, AllEvents, Poll!Unasked, Unasked
<1>2. \A p : Poll!Pairs(p) = Pairs(p)
  BY DEF Poll!Pairs, Pairs
<1>3. \A pd, h : Poll!Hits(pd, h) = Hits(pd, h)
  BY DEF Poll!Hits, Hits, Poll!Unasked, Unasked
<1>4. \A s, t : Poll!Unlink(s, t) = Unlink(s, t)
  BY DEF Poll!Unlink, Unlink, Poll!RemoveAt, RemoveAt
<1>5. \A s : Poll!FlattenSeq(s) = FlattenSeq(s)
  BY DEF Poll!FlattenSeq, FlattenSeq
<1> QED BY <1>1, <1>2, <1>3, <1>4, <1>5

LEMMA PollConstants ==
  /\ PollSets["poll"] \subseteq Seq(Entries) \ {<<>>}
  /\ MIN_SIZE \in Nat \ {0} /\ GROWTH \in Nat
  /\ Poll!Asked \subseteq Fds \X Events
<1>1. PollSets["poll"] \subseteq Seq(Entries) \ {<<>>} /\ MIN_SIZE \in Nat \ {0} /\ GROWTH \in Nat
  BY EventsysAssumption
     DEF EventsysAssumption, Poll!PollAssumption, Poll!Entries, Entries, Poll!Events, Events
<1>2. Poll!Asked = UNION {Pairs(p) : p \in PollSets["poll"]}
  BY PollSame DEF Poll!Asked
<1>3. \A p \in PollSets["poll"] : Pairs(p) \subseteq Fds \X Events
  BY <1>1, PollSetFacts
<1> QED BY <1>1, <1>2, <1>3

-----------------------------------------------------------------------------
(* Sums of lengths.                                                        *)
LEMMA LensSum ==
  ASSUME NEW f \in Waits, NEW S \in SUBSET Threads
  PROVE  /\ SumOver(Lens(f), S) = Total(Lens(f), S)
         /\ IsFiniteSet(S) /\ \A t \in S : Lens(f)[t] \in Nat
         /\ SumOver(Lens(f), S) \in Nat
         /\ \A t \in Threads : Lens(f)[t] = Len(f[t]) /\ Len(f[t]) \in Nat
<1>1. \A t \in Threads : Lens(f)[t] = Len(f[t]) /\ Len(f[t]) \in Nat
  BY DEF Lens, Waits
<1>2. IsFiniteSet(S)
  BY ThreadsFinite, FS_Subset
<1>3. SumOver(Lens(f), S) = Total(Lens(f), S)
  BY SumIsTotal DEF SumOver
<1>4. \A t \in S : Lens(f)[t] \in Nat
  BY <1>1
<1> QED BY <1>1, <1>2, <1>3, <1>4, TotalNat

LEMMA LensUpdate ==
  ASSUME NEW f \in Waits, NEW t \in Threads, NEW g \in Waits,
         \A u \in Threads : u # t => g[u] = f[u]
  PROVE  /\ SumOver(Lens(f), Threads) \in Nat /\ SumOver(Lens(g), Threads) \in Nat
         /\ Len(f[t]) \in Nat /\ Len(g[t]) \in Nat
         /\ SumOver(Lens(g), Threads) = (SumOver(Lens(f), Threads) - Len(f[t])) + Len(g[t])
<1> DEFINE R == Threads \ {t}
<1>1. /\ SumOver(Lens(f), Threads) = Total(Lens(f), Threads)
      /\ SumOver(Lens(g), Threads) = Total(Lens(g), Threads)
      /\ SumOver(Lens(f), Threads) \in Nat /\ SumOver(Lens(g), Threads) \in Nat
      /\ \A u \in Threads : Lens(f)[u] = Len(f[u]) /\ Len(f[u]) \in Nat
      /\ \A u \in Threads : Lens(g)[u] = Len(g[u]) /\ Len(g[u]) \in Nat
  BY LensSum
<1>2. \A u \in Threads : Lens(f)[u] \in Nat /\ Lens(g)[u] \in Nat
  BY <1>1
<1>3. IsFiniteSet(R) /\ \A u \in R : Lens(f)[u] = Lens(g)[u]
  <2>1. \A u \in R : f[u] = g[u] /\ u \in Threads
    OBVIOUS
  <2> QED BY <1>1, <2>1, ThreadsFinite, FS_Subset
<1>4. Total(Lens(f), R) = Total(Lens(g), R)
  <2> HIDE DEF R
  <2> QED BY <1>3, TotalSame
<1>5. Total(Lens(f), Threads) = Lens(f)[t] + Total(Lens(f), R)
  BY <1>2, ThreadsFinite, TotalRemove
<1>6. Total(Lens(g), Threads) = Lens(g)[t] + Total(Lens(g), R)
  BY <1>2, ThreadsFinite, TotalRemove
<1>7. Total(Lens(f), R) \in Nat
  <2>1. \A u \in R : Lens(f)[u] \in Nat
    BY <1>2
  <2> HIDE DEF R
  <2> QED BY <1>3, <2>1, TotalNat
<1> HIDE DEF R
<1> QED BY <1>1, <1>4, <1>5, <1>6, <1>7

(* The threads from position i up to j, and their descriptors.             *)
Stretch(q, i, j) == {q[k] : k \in i..j}

LEMMA AheadIs ==
  ASSUME NEW P, P \subseteq Seq(Entries) \ {<<>>}, NEW q, NEW f, Queued(P, q, f)
  PROVE  /\ Len(q) \in Nat
         /\ \A i \in Nat \ {0} : \A j \in 0..Len(q) : Ahead(q, f, i, j) \in Nat
         /\ \A i \in Nat \ {0} : Ahead(q, f, i, i - 1) = 0
         /\ \A i \in 1..Len(q) : \A j \in i..Len(q) :
              Ahead(q, f, i, j) = Len(f[q[i]]) + Ahead(q, f, i + 1, j)
         /\ \A i \in 1..Len(q) : \A j \in i..Len(q) :
              Ahead(q, f, i, j) = Ahead(q, f, i, j - 1) + Len(f[q[j]])
         /\ Ahead(q, f, 1, Len(q)) = SumOver(Lens(f), Threads)
         /\ \A i \in 1..Len(q) : Len(f[q[i]]) \in Nat
<1>1. /\ q \in Seq(Threads) /\ IsInjective(q) /\ f \in Waits /\ Len(q) \in Nat
      /\ \A i \in 1..Len(q) : q[i] \in Threads
      /\ \A t \in Threads : t \in ToSet(q) <=> f[t] # <<>>
  <2>1. Len(q) \in Nat
    BY DEF Queued
  <2>2. q \in Seq(Threads) /\ IsInjective(q) /\ f \in Waits
    BY QueuedWaits
  <2>3. \A i \in 1..Len(q) : q[i] \in Threads
    BY QueuedThreads
  <2>4. \A t \in Threads : t \in ToSet(q) <=> f[t] # <<>>
    BY DEF Queued
  <2> QED BY <2>1, <2>2, <2>3, <2>4
<1>2. \A i, j \in 1..Len(q) : q[i] = q[j] => i = j
  BY <1>1, SeqDomain
<1>3. \A i \in Nat \ {0} : \A j \in 0..Len(q) : Stretch(q, i, j) \in SUBSET Threads
  BY <1>1 DEF Stretch
<1>4. ASSUME NEW i \in Nat \ {0}, NEW j \in 0..Len(q)
      PROVE  /\ Ahead(q, f, i, j) = Total(Lens(f), Stretch(q, i, j))
             /\ Ahead(q, f, i, j) \in Nat /\ IsFiniteSet(Stretch(q, i, j))
             /\ \A t \in Stretch(q, i, j) : Lens(f)[t] \in Nat
  BY <1>1, <1>3, LensSum DEF Ahead, Stretch
<1>5. \A i \in 1..Len(q) : Lens(f)[q[i]] = Len(f[q[i]]) /\ Len(f[q[i]]) \in Nat
  BY <1>1, LensSum
<1>6. ASSUME NEW i \in Nat \ {0} PROVE Ahead(q, f, i, i - 1) = 0
  <2>1. Stretch(q, i, i - 1) = {}
    BY DEF Stretch
  <2>2. Stretch(q, i, i - 1) \in SUBSET Threads
    BY <2>1
  <2>3. Ahead(q, f, i, i - 1) = Total(Lens(f), {})
    BY <1>1, <2>1, <2>2, LensSum DEF Ahead, Stretch
  <2> QED BY <2>3, FS_EmptySet, TotalDef
<1>7. ASSUME NEW i \in 1..Len(q), NEW j \in i..Len(q), NEW k \in i..j, NEW S,
             S = Stretch(q, i, j) \ {q[k]}
      PROVE  Ahead(q, f, i, j) = Len(f[q[k]]) + Total(Lens(f), S)
  <2>1. i \in Nat \ {0} /\ j \in 0..Len(q) /\ k \in 1..Len(q) /\ q[k] \in Stretch(q, i, j)
    BY <1>1 DEF Stretch
  <2>2. Total(Lens(f), Stretch(q, i, j)) =
          Lens(f)[q[k]] + Total(Lens(f), Stretch(q, i, j) \ {q[k]})
    BY <1>4, <2>1, TotalRemove
  <2> QED BY <1>4, <1>5, <1>7, <2>1, <2>2
<1>8. ASSUME NEW i \in 1..Len(q), NEW j \in i..Len(q)
      PROVE  Ahead(q, f, i, j) = Len(f[q[i]]) + Ahead(q, f, i + 1, j)
  <2>1. i \in i..j /\ i + 1 \in Nat \ {0} /\ j \in 0..Len(q)
    BY <1>1
  <2>2. Stretch(q, i + 1, j) = Stretch(q, i, j) \ {q[i]}
    <3>1. \A k \in (i + 1)..j : k \in i..j /\ q[k] # q[i]
      BY <1>1, <1>2
    <3>2. \A k \in i..j : k # i => k \in (i + 1)..j
      BY <1>1
    <3> QED BY <3>1, <3>2 DEF Stretch
  <2>3. Ahead(q, f, i, j) = Len(f[q[i]]) + Total(Lens(f), Stretch(q, i + 1, j))
    BY <1>7, <2>1, <2>2
  <2>4. Ahead(q, f, i + 1, j) = Total(Lens(f), Stretch(q, i + 1, j))
    BY <1>4, <2>1
  <2> QED BY <2>3, <2>4
<1>9. ASSUME NEW i \in 1..Len(q), NEW j \in i..Len(q)
      PROVE  Ahead(q, f, i, j) = Ahead(q, f, i, j - 1) + Len(f[q[j]])
  <2>1. j \in i..j /\ i \in Nat \ {0} /\ j - 1 \in 0..Len(q) /\ j \in 1..Len(q)
    BY <1>1
  <2>2. Stretch(q, i, j - 1) = Stretch(q, i, j) \ {q[j]}
    <3>1. \A k \in i..(j - 1) : k \in i..j /\ q[k] # q[j]
      BY <1>1, <1>2
    <3>2. \A k \in i..j : k # j => k \in i..(j - 1)
      BY <1>1
    <3> QED BY <3>1, <3>2 DEF Stretch
  <2>3. Ahead(q, f, i, j) = Len(f[q[j]]) + Total(Lens(f), Stretch(q, i, j - 1))
    BY <1>7, <2>1, <2>2
  <2>4. Ahead(q, f, i, j - 1) = Total(Lens(f), Stretch(q, i, j - 1)) /\ Ahead(q, f, i, j - 1) \in Nat
    BY <1>4, <2>1
  <2>5. Len(f[q[j]]) \in Nat
    BY <1>5, <2>1
  <2> QED BY <2>3, <2>4, <2>5
<1>10. Ahead(q, f, 1, Len(q)) = SumOver(Lens(f), Threads)
  <2> DEFINE S == Stretch(q, 1, Len(q))
  <2>1. S \in SUBSET Threads /\ Ahead(q, f, 1, Len(q)) = Total(Lens(f), S)
    <3>1. 1 \in Nat \ {0} /\ Len(q) \in 0..Len(q)
      BY <1>1
    <3> QED BY <1>3, <1>4, <3>1
  <2>2. \A t \in Threads \ S : Len(f[t]) = 0
    <3>1. \A x : x \in ToSet(q) <=> \E k \in 1..Len(q) : q[k] = x
      BY <1>1, SeqDomain
    <3> QED BY <1>1, <3>1, NothingAsked DEF Stretch
  <2>3. \A t \in Threads : Lens(f)[t] = Len(f[t]) /\ Lens(f)[t] \in Nat
    BY <1>1, LensSum
  <2> HIDE DEF S
  <2>4. SumOver(Lens(f), Threads) = Total(Lens(f), Threads)
    BY <1>1, LensSum
  <2>5. /\ Total(Lens(f), S) \in Nat
        /\ Total(Lens(f), Threads) = Total(Lens(f), S) + Total(Lens(f), Threads \ S)
    BY <2>1, <2>3, ThreadsFinite, TotalSplit
  <2>6. Total(Lens(f), Threads \ S) = 0
    <3>1. IsFiniteSet(Threads \ S) /\ \A t \in Threads \ S : Lens(f)[t] = 0
      BY <2>2, <2>3, ThreadsFinite, FS_Subset
    <3> QED BY <3>1, TotalZero
  <2> QED BY <2>1, <2>4, <2>5, <2>6
<1> QED BY <1>1, <1>4, <1>5, <1>6, <1>8, <1>9, <1>10

(* What is behind a pollq does not change when it leaves the queue.        *)
LEMMA AheadGone ==
  ASSUME NEW P, P \subseteq Seq(Entries) \ {<<>>}, NEW q, NEW f, Queued(P, q, f),
         NEW k \in 1..Len(q), NEW r, r = Unlink(q, q[k]), NEW g, g = With(f, q[k], <<>>)
  PROVE  \A i \in k..Len(q) : Ahead(r, g, k, i - 1) = Ahead(q, f, k + 1, i)
<1> DEFINE t == q[k]
<1>0. t \in Threads /\ f[t] # <<>> /\ f \in Waits /\ Len(q) \in Nat
      /\ \A i \in 1..Len(q) : q[i] \in Threads
  <2>1. Len(q) \in Nat
    BY DEF Queued
  <2>2. \A i \in 1..Len(q) : q[i] \in Threads /\ f[q[i]] # <<>>
    BY QueuedThreads
  <2>3. f \in Waits
    BY QueuedWaits
  <2> QED BY <2>1, <2>2, <2>3
<1>1. /\ Queued(P, r, g) /\ Len(r) = Len(q) - 1
      /\ \A i \in 1..Len(r) : /\ r[i] = IF i < k THEN q[i] ELSE q[i + 1]
                              /\ g[r[i]] = f[r[i]]
  <2>1. /\ Queued(P, Unlink(q, t), With(f, t, <<>>)) /\ Len(Unlink(q, t)) = Len(q) - 1
        /\ \A j \in 1..Len(q) : q[j] = t =>
             \A i \in 1..Len(Unlink(q, t)) :
                /\ Unlink(q, t)[i] = IF i < j THEN q[i] ELSE q[i + 1]
                /\ With(f, t, <<>>)[Unlink(q, t)[i]] = f[Unlink(q, t)[i]]
    BY <1>0, QueuedDel
  <2> QED BY <2>1
<1>2. g \in Waits
  BY <1>1, QueuedWaits
<1> SUFFICES ASSUME NEW i \in k..Len(q) PROVE Ahead(r, g, k, i - 1) = Ahead(q, f, k + 1, i)
  OBVIOUS
<1>3. k \in Nat \ {0} /\ i \in Nat /\ i \in 1..Len(q)
  BY <1>0
<1>4. \A j \in k..(i - 1) : /\ j + 1 \in (k + 1)..i /\ j + 1 \in 1..Len(q)
                            /\ r[j] = q[j + 1] /\ g[r[j]] = f[r[j]]
  <2> TAKE j \in k..(i - 1)
  <2>1. j \in 1..Len(r) /\ ~(j < k) /\ j + 1 \in (k + 1)..i /\ j + 1 \in 1..Len(q)
    BY <1>0, <1>1, <1>3
  <2> QED BY <1>1, <2>1
<1>5. \A j \in (k + 1)..i : j - 1 \in k..(i - 1) /\ (j - 1) + 1 = j
  BY <1>3
<1>6. Stretch(r, k, i - 1) = Stretch(q, k + 1, i)
  <2>1. ASSUME NEW x \in Stretch(r, k, i - 1) PROVE x \in Stretch(q, k + 1, i)
    BY <1>4 DEF Stretch
  <2>2. ASSUME NEW x \in Stretch(q, k + 1, i) PROVE x \in Stretch(r, k, i - 1)
    <3>1. PICK j \in (k + 1)..i : x = q[j]
      BY DEF Stretch
    <3>2. j - 1 \in k..(i - 1) /\ (j - 1) + 1 = j
      BY <1>5
    <3>3. r[j - 1] = q[(j - 1) + 1]
      BY <1>4, <3>2
    <3> QED BY <3>1, <3>2, <3>3 DEF Stretch
  <2> QED BY <2>1, <2>2
<1> DEFINE S == Stretch(r, k, i - 1)
<1>7. S \in SUBSET Threads /\ \A u \in S : g[u] = f[u]
  <2> SUFFICES ASSUME NEW u \in S PROVE u \in Threads /\ g[u] = f[u]
    OBVIOUS
  <2>1. PICK j \in k..(i - 1) : u = r[j]
    BY DEF Stretch
  <2>2. j + 1 \in 1..Len(q) /\ r[j] = q[j + 1] /\ g[r[j]] = f[r[j]]
    BY <1>4
  <2> QED BY <1>0, <2>1, <2>2
<1>8. Ahead(r, g, k, i - 1) = SumOver(Lens(g), S) /\ Ahead(q, f, k + 1, i) = SumOver(Lens(f), S)
  BY <1>6 DEF Ahead, Stretch
<1> HIDE DEF S
<1>9. \A u \in S : Lens(g)[u] = Lens(f)[u]
  BY <1>7 DEF Lens
<1>10. /\ SumOver(Lens(g), S) = Total(Lens(g), S) /\ SumOver(Lens(f), S) = Total(Lens(f), S)
       /\ IsFiniteSet(S)
  BY <1>0, <1>2, <1>7, LensSum
<1>11. Total(Lens(g), S) = Total(Lens(f), S)
  BY <1>9, <1>10, TotalSame
<1> QED BY <1>8, <1>10, <1>11

LEMMA PollAhead ==
  ASSUME Queued(PollSets["poll"], ioq, pds)
  PROVE  /\ Len(ioq) \in Nat
         /\ \A i \in Nat \ {0} : \A j \in 0..Len(ioq) : Ahead(ioq, pds, i, j) \in Nat
         /\ \A i \in Nat \ {0} : Ahead(ioq, pds, i, i - 1) = 0
         /\ \A i \in 1..Len(ioq) : \A j \in i..Len(ioq) :
               Ahead(ioq, pds, i, j) = Len(pds[ioq[i]]) + Ahead(ioq, pds, i + 1, j)
         /\ \A i \in 1..Len(ioq) : \A j \in i..Len(ioq) :
               Ahead(ioq, pds, i, j) = Ahead(ioq, pds, i, j - 1) + Len(pds[ioq[j]])
         /\ Ahead(ioq, pds, 1, Len(ioq)) = SumOver(Lens(pds), Threads)
         /\ \A i \in 1..Len(ioq) : Len(pds[ioq[i]]) \in Nat
<1>1. PollSets["poll"] \subseteq Seq(Entries) \ {<<>>}
  BY PollConstants
<1> HIDE DEF Ahead
<1> QED BY <1>1, AheadIs, ZenonT(60)

(* The array that dispatch gathers.                                        *)
LEMMA GatheredIs ==
  ASSUME Queued(PollSets["poll"], ioq, pds)
  PROVE  /\ Poll!Gathered \in Seq(Entries)
         /\ Len(Poll!Gathered) = Ahead(ioq, pds, 1, Len(ioq))
         /\ Len(Poll!Gathered) = SumOver(Lens(pds), Threads)
         /\ \A i \in 1..Len(ioq) : \A j \in 1..Len(pds[ioq[i]]) :
              /\ Ahead(ioq, pds, 1, i - 1) + j \in 1..Len(Poll!Gathered)
              /\ Poll!Gathered[Ahead(ioq, pds, 1, i - 1) + j] = pds[ioq[i]][j]
<1> DEFINE n == Len(ioq)
           s == [i \in 1..n |-> pds[ioq[i]]]
           end == [i \in 0..n |-> Ahead(ioq, pds, 1, i)]
<1>0. PollSets["poll"] \subseteq Seq(Entries) \ {<<>>}
  BY PollConstants
<1>1. /\ n \in Nat
      /\ \A j \in 0..n : Ahead(ioq, pds, 1, j) \in Nat
      /\ Ahead(ioq, pds, 1, 0) = 0
      /\ \A j \in 1..n : Ahead(ioq, pds, 1, j) = Ahead(ioq, pds, 1, j - 1) + Len(pds[ioq[j]])
      /\ Ahead(ioq, pds, 1, n) = SumOver(Lens(pds), Threads)
      /\ \A i \in 1..n : Len(pds[ioq[i]]) \in Nat
  <2>1. /\ Len(ioq) \in Nat
        /\ \A i \in Nat \ {0} : \A j \in 0..Len(ioq) : Ahead(ioq, pds, i, j) \in Nat
        /\ \A i \in Nat \ {0} : Ahead(ioq, pds, i, i - 1) = 0
        /\ \A i \in 1..Len(ioq) : \A j \in i..Len(ioq) :
              Ahead(ioq, pds, i, j) = Ahead(ioq, pds, i, j - 1) + Len(pds[ioq[j]])
        /\ Ahead(ioq, pds, 1, Len(ioq)) = SumOver(Lens(pds), Threads)
        /\ \A i \in 1..Len(ioq) : Len(pds[ioq[i]]) \in Nat
    BY PollAhead, Zenon
  <2>2. 1 \in Nat \ {0} /\ 1 - 1 = 0
    OBVIOUS
  <2>3. ASSUME NEW j \in 1..n
        PROVE  Ahead(ioq, pds, 1, j) = Ahead(ioq, pds, 1, j - 1) + Len(pds[ioq[j]])
    <3>1. 1 \in 1..Len(ioq) /\ j \in 1..Len(ioq)
      BY <2>1
    <3> QED BY <2>1, <3>1
  <2> QED BY <2>1, <2>2, <2>3
<1>2. s \in Seq(Seq(Entries)) /\ Len(s) = n /\ \A i \in 1..n : s[i] = pds[ioq[i]]
  <2>1. \A t \in Threads : pds[t] \in Seq(Entries)
    BY <1>0, QueuedTyped
  <2>2. \A i \in 1..Len(ioq) : ioq[i] \in Threads
    BY <1>0, QueuedThreads
  <2> QED BY <1>1, <2>1, <2>2
<1>3. Poll!Gathered = FlattenSeq(s)
  BY PollSame DEF Poll!Gathered
<1> HIDE DEF s
<1>4. Ends(s, end)
  <2>1. end \in [0..n -> Nat]
    BY <1>1
  <2>2. end[0] = 0
    BY <1>1
  <2>3. ASSUME NEW i \in 1..n PROVE end[i] = end[i - 1] + Len(s[i])
    <3>1. i \in 0..n /\ i - 1 \in 0..n
      BY <1>1
    <3>2. end[i] = Ahead(ioq, pds, 1, i) /\ end[i - 1] = Ahead(ioq, pds, 1, i - 1)
      BY <3>1
    <3> HIDE DEF end
    <3> QED BY <1>1, <1>2, <3>2
  <2> HIDE DEF end
  <2> QED BY <1>2, <2>1, <2>2, <2>3 DEF Ends
<1>5. \A i \in 1..n : /\ i - 1 \in 0..n /\ i \in 0..n /\ end[i] = Ahead(ioq, pds, 1, i)
                      /\ end[i - 1] = Ahead(ioq, pds, 1, i - 1)
  BY <1>1
<1>6. end[n] = Ahead(ioq, pds, 1, n)
  BY <1>1
<1> HIDE DEF end
<1>7. /\ FlattenSeq(s) \in Seq(Entries) /\ Len(FlattenSeq(s)) = end[n]
      /\ \A i \in 1..n : end[i] <= end[n]
      /\ \A i \in 1..n : \A j \in 1..Len(s[i]) : FlattenSeq(s)[end[i - 1] + j] = s[i][j]
  BY <1>2, <1>4, FlattenIs
<1>8. ASSUME NEW i \in 1..n, NEW j \in 1..Len(pds[ioq[i]])
      PROVE  /\ Ahead(ioq, pds, 1, i - 1) + j \in 1..Len(Poll!Gathered)
             /\ Poll!Gathered[Ahead(ioq, pds, 1, i - 1) + j] = pds[ioq[i]][j]
  <2>1. Poll!Gathered[Ahead(ioq, pds, 1, i - 1) + j] = pds[ioq[i]][j]
    <3>1. s[i] = pds[ioq[i]] /\ end[i - 1] = Ahead(ioq, pds, 1, i - 1)
      BY <1>2, <1>5
    <3>2. FlattenSeq(s)[end[i - 1] + j] = s[i][j]
      BY <1>7, <3>1
    <3> QED BY <1>3, <3>1, <3>2
  <2>2. Ahead(ioq, pds, 1, i - 1) + Len(pds[ioq[i]]) <= end[n]
    BY <1>1, <1>5, <1>7
  <2>3. /\ Ahead(ioq, pds, 1, i - 1) \in Nat /\ Len(pds[ioq[i]]) \in Nat /\ end[n] \in Nat
    <3>1. i - 1 \in 0..n /\ n \in 0..n
      BY <1>1
    <3> QED BY <1>1, <1>6, <3>1
  <2>4. Ahead(ioq, pds, 1, i - 1) + j \in 1..end[n]
    BY <2>2, <2>3, Within
  <2> QED BY <1>3, <1>7, <2>1, <2>4
<1> QED BY <1>1, <1>3, <1>6, <1>7, <1>8

LEMMA PollFacts ==
  ASSUME PollInv
  PROVE  /\ PollSets["poll"] \subseteq Seq(Entries) \ {<<>>}
         /\ Queued(PollSets["poll"], ioq, pds)
         /\ ioq \in Seq(Threads) /\ Len(ioq) \in Nat /\ pds \in Waits
         /\ \A t \in Threads : pds[t] \in Seq(Entries)
         /\ \A i \in 1..Len(ioq) : ioq[i] \in Threads /\ pds[ioq[i]] # <<>>
         /\ \A t \in Threads : pds[t] # <<>> => \E i \in 1..Len(ioq) : ioq[i] = t
<1>1. Queued(PollSets["poll"], ioq, pds)
  BY DEF PollInv
<1>2. PollSets["poll"] \subseteq Seq(Entries) \ {<<>>}
  BY PollConstants
<1>3. ioq \in Seq(Threads) /\ pds \in Waits
  BY <1>1, <1>2, QueuedWaits
<1>4. \A t \in Threads : pds[t] \in Seq(Entries)
  BY <1>1, <1>2, QueuedTyped
<1>5. \A i \in 1..Len(ioq) : ioq[i] \in Threads /\ pds[ioq[i]] # <<>>
  BY <1>1, <1>2, QueuedThreads
<1>6. \A t \in Threads : pds[t] # <<>> => \E i \in 1..Len(ioq) : ioq[i] = t
  BY <1>1, <1>2, QueuedPlace
<1> QED BY <1>1, <1>2, <1>3, <1>4, <1>5, <1>6

LEMMA PollInit == Poll!Init => PollInv
<1> SUFFICES ASSUME Poll!Init PROVE PollInv
  OBVIOUS
<1>1. /\ ioq = <<>> /\ pds = [t \in Threads |-> <<>>] /\ fdcnt = 0 /\ size = MIN_SIZE
      /\ open = Fds /\ happened = {} /\ pollfds = <<>> /\ loop = "none" /\ scan = 1 /\ at = 0
  BY DEF Poll!Init
<1>2. Queued(PollSets["poll"], ioq, pds)
  BY <1>1, QueuedNone
<1>3. SumOver(Lens(pds), Threads) = 0
  <2>1. pds \in Waits /\ \A t \in Threads : pds[t] = <<>>
    BY <1>1 DEF Waits
  <2>2. SumOver(Lens(pds), Threads) = Total(Lens(pds), Threads)
    BY <2>1, LensSum
  <2>3. \A t \in Threads : Lens(pds)[t] = 0
    BY <2>1, NothingAsked DEF Lens
  <2> QED BY <2>2, <2>3, ThreadsFinite, TotalZero
<1>4. LoopDone
  <2>1. Len(ioq) = 0
    BY <1>1
  <2> QED BY <1>1, <2>1, NoConcern DEF LoopDone
<1>5. pollfds \in Seq(SUBSET (Events \cup Unasked)) /\ Len(pollfds) = 0
  BY <1>1
<1>6. size \in Nat \ {0} /\ Len(pollfds) <= size
  BY <1>1, <1>5, PollConstants
<1> QED BY <1>1, <1>2, <1>3, <1>4, <1>5, <1>6 DEF PollInv

LEMMA PollAdd ==
  ASSUME PollInv, NEW t \in Threads, NEW p \in PollSets["poll"], Poll!pollset_add(t, p)
  PROVE  PollInv'
<1>1. /\ loop = "none" /\ pds[t] = <<>> /\ fdcnt' = fdcnt + Len(p)
      /\ ioq' = Joined(ioq, t) /\ pds' = With(pds, t, p)
      /\ UNCHANGED <<size, open, happened, pollfds, loop, scan, at>>
  BY DEF Poll!pollset_add, Poll!loopVars, With, Joined
<1>2. p \in Seq(Entries) /\ p # <<>>
  BY PollConstants
<1>3. /\ Queued(PollSets["poll"], ioq', pds') /\ pds'[t] = p
      /\ \A u \in Threads : u # t => pds'[u] = pds[u]
  BY <1>1, <1>2, PollFacts, QueuedAdd
<1>4. fdcnt' = SumOver(Lens(pds'), Threads)
  <2>1. pds' \in Waits /\ pds \in Waits
    BY <1>3, PollFacts, QueuedWaits
  <2>2. /\ SumOver(Lens(pds), Threads) \in Nat /\ Len(pds[t]) \in Nat /\ Len(pds'[t]) \in Nat
        /\ SumOver(Lens(pds'), Threads) =
             (SumOver(Lens(pds), Threads) - Len(pds[t])) + Len(pds'[t])
    BY <1>3, <2>1, LensUpdate
  <2>3. Len(pds[t]) = 0 /\ fdcnt = SumOver(Lens(pds), Threads)
    BY <1>1, NothingAsked DEF PollInv
  <2> QED BY <1>1, <1>3, <2>2, <2>3
<1>5. LoopDone'
  BY <1>1, NothingHappens DEF LoopDone, PollInv
<1> QED BY <1>1, <1>3, <1>4, <1>5 DEF PollInv

(* A pollq leaves the queue.                                               *)
LEMMA PollUncount ==
  ASSUME PollInv, NEW t \in Threads, pds[t] # <<>>, Poll!Dequeue(t),
         fdcnt' = fdcnt - Len(pds[t])
  PROVE  /\ ioq' = Unlink(ioq, t) /\ pds' = With(pds, t, <<>>)
         /\ Queued(PollSets["poll"], ioq, pds)'
         /\ fdcnt' = SumOver(Lens(pds'), Threads)
         /\ Len(ioq') = Len(ioq) - 1
         /\ \A k \in 1..Len(ioq) : ioq[k] = t =>
              \A i \in 1..Len(ioq') : /\ ioq'[i] = IF i < k THEN ioq[i] ELSE ioq[i + 1]
                                      /\ pds'[ioq'[i]] = pds[ioq'[i]]
<1>1. ioq' = Unlink(ioq, t) /\ pds' = With(pds, t, <<>>)
  BY PollSame DEF Poll!Dequeue, With
<1>2. Queued(PollSets["poll"], ioq, pds)
  BY DEF PollInv
<1>3. /\ Queued(PollSets["poll"], ioq', pds') /\ pds'[t] = <<>>
      /\ \A u \in Threads : u # t => pds'[u] = pds[u]
      /\ Len(ioq') = Len(ioq) - 1
      /\ \A k \in 1..Len(ioq) : ioq[k] = t =>
           \A i \in 1..Len(ioq') : /\ ioq'[i] = IF i < k THEN ioq[i] ELSE ioq[i + 1]
                                   /\ pds'[ioq'[i]] = pds[ioq'[i]]
  BY <1>1, <1>2, QueuedDel
<1>4. fdcnt' = SumOver(Lens(pds'), Threads)
  <2>1. pds' \in Waits /\ pds \in Waits
    BY <1>3, PollFacts, QueuedWaits
  <2>2. /\ SumOver(Lens(pds), Threads) \in Nat /\ Len(pds[t]) \in Nat /\ Len(pds'[t]) \in Nat
        /\ SumOver(Lens(pds'), Threads) =
             (SumOver(Lens(pds), Threads) - Len(pds[t])) + Len(pds'[t])
    BY <1>3, <2>1, LensUpdate
  <2>3. Len(pds'[t]) = 0 /\ fdcnt = SumOver(Lens(pds), Threads)
    BY <1>3, NothingAsked DEF PollInv
  <2> QED BY <2>2, <2>3
<1> QED BY <1>1, <1>3, <1>4

LEMMA PollDel == ASSUME PollInv, NEW t \in Threads, Poll!pollset_del(t) PROVE PollInv'
<1>1. /\ loop = "none" /\ pds[t] # <<>> /\ Poll!Dequeue(t) /\ fdcnt' = fdcnt - Len(pds[t])
      /\ UNCHANGED <<size, open, happened, pollfds, loop, scan, at>>
  BY DEF Poll!pollset_del, Poll!loopVars
<1>2. Queued(PollSets["poll"], ioq, pds)' /\ fdcnt' = SumOver(Lens(pds'), Threads)
  BY <1>1, PollUncount
<1>3. LoopDone'
  BY <1>1, NothingHappens DEF LoopDone, PollInv
<1> QED BY <1>1, <1>2, <1>3 DEF PollInv

LEMMA PollDispatch ==
  ASSUME PollInv, NEW events \in SUBSET {x \in Poll!Asked : x[1] \in open},
         Poll!dispatch_poll(events)
  PROVE  PollInv'
<1> DEFINE G == Poll!Gathered
<1>1. /\ loop = "none" /\ size' = Poll!NeededSize
      /\ happened' = events \cup ((Fds \ open) \X {"NVAL"})
      /\ pollfds' = [i \in 1..Len(G) |-> IF i <= fdcnt THEN Hits(G[i], happened') ELSE {}]
      /\ loop' = (IF \E i \in DOMAIN pollfds' : pollfds'[i] # {} THEN "notify" ELSE "return")
      /\ scan' = 1 /\ at' = 0
      /\ UNCHANGED <<ioq, pds, fdcnt, open>>
  BY PollSame DEF Poll!dispatch_poll
<1>2. Queued(PollSets["poll"], ioq, pds) /\ fdcnt = SumOver(Lens(pds), Threads)
      /\ open \subseteq Fds /\ size \in Nat \ {0}
  BY DEF PollInv
<1>3. /\ G \in Seq(Entries) /\ Len(G) = Ahead(ioq, pds, 1, Len(ioq)) /\ Len(G) = fdcnt
      /\ \A i \in 1..Len(ioq) : \A j \in 1..Len(pds[ioq[i]]) :
           /\ Ahead(ioq, pds, 1, i - 1) + j \in 1..Len(G)
           /\ G[Ahead(ioq, pds, 1, i - 1) + j] = pds[ioq[i]][j]
  BY <1>2, GatheredIs
<1>4. Len(G) \in Nat /\ \A k \in 1..Len(G) : G[k] \in Entries
  BY <1>3
<1> HIDE DEF G
<1>5. pollfds' = [k \in 1..Len(G) |-> Hits(G[k], happened')]
  BY <1>1, <1>3, <1>4
<1>6. /\ Len(pollfds') = Len(G) /\ DOMAIN pollfds' = 1..Len(G)
      /\ \A k \in 1..Len(G) : pollfds'[k] = Hits(G[k], happened')
  <2>1. DOMAIN pollfds' = 1..Len(G) /\ \A k \in 1..Len(G) : pollfds'[k] = Hits(G[k], happened')
    BY <1>5
  <2>2. Len(pollfds') = Len(G)
    BY <1>4, <1>5
  <2> QED BY <2>1, <2>2
<1>7. pollfds' \in Seq(SUBSET (Events \cup Unasked))
  <2>1. \A k \in 1..Len(G) : Hits(G[k], happened') \in SUBSET (Events \cup Unasked)
    BY <1>4 DEF Hits, Entries
  <2> QED BY <1>4, <1>5, <2>1
<1>8. happened' \subseteq AllEvents
  <2>1. events \subseteq Fds \X Events
    BY PollConstants
  <2> QED BY <1>1, <2>1 DEF AllEvents, Unasked
<1>9. size' \in Nat \ {0} /\ Len(pollfds') <= size'
  <2>1. GROWTH \in Nat /\ fdcnt \in Nat /\ size \in Nat \ {0}
    BY <1>2, <1>3, <1>4, PollConstants
  <2>2. size' = IF fdcnt > size THEN fdcnt + GROWTH ELSE size
    BY <1>1 DEF Poll!NeededSize
  <2> QED BY <1>3, <1>6, <2>1, <2>2
<1>10. \A i \in 1..Len(ioq) : \A j \in 1..Len(pds[ioq[i]]) :
         /\ Ahead(ioq, pds, 1, i - 1) + j \in DOMAIN pollfds'
         /\ pollfds'[Ahead(ioq, pds, 1, i - 1) + j] = Hits(pds[ioq[i]][j], happened')
  BY <1>3, <1>6
<1>11. LoopDone'
  <2>1. loop' = "return" => \A t \in Threads : ~Concerned(pds'[t], happened')
    <3> SUFFICES ASSUME loop' = "return", NEW t \in Threads, Concerned(pds[t], happened')
                 PROVE  FALSE
      BY <1>1
    <3>1. pds[t] # <<>>
      BY NothingAsked
    <3>2. PICK i \in 1..Len(ioq) : ioq[i] = t
      BY <3>1, PollFacts
    <3>3. pds[t] \in Seq(Entries)
      BY PollFacts
    <3>4. PICK j \in 1..Len(pds[t]) : Hits(pds[t][j], happened') # {}
      <4>1. DOMAIN pds[t] = 1..Len(pds[t])
        BY <3>3
      <4> QED BY <4>1, Zenon DEF Concerned
    <3>5. ~ \E k \in DOMAIN pollfds' : pollfds'[k] # {}
      BY <1>1
    <3> QED BY <1>10, <3>2, <3>4, <3>5
  <2>2. loop' # "none"
    BY <1>1
  <2> QED BY <1>1, <2>1, <2>2, BeginLoop
<1>12. \A i \in 1..Len(ioq) : \A j \in 1..Len(pds[ioq[i]]) :
         pollfds'[0 + Ahead(ioq, pds, 1, i - 1) + j] = Hits(pds[ioq[i]][j], happened')
  <2> TAKE i \in 1..Len(ioq)
  <2> TAKE j \in 1..Len(pds[ioq[i]])
  <2>1. 0 + Ahead(ioq, pds, 1, i - 1) = Ahead(ioq, pds, 1, i - 1)
    <3>1. 1 \in Nat \ {0} /\ i - 1 \in 0..Len(ioq)
      BY <1>2, PollAhead
    <3>2. Ahead(ioq, pds, 1, i - 1) \in Nat
      BY <1>2, <3>1, PollAhead
    <3> QED BY <3>2
  <2> QED BY <1>10, <2>1
<1>13. Len(pollfds') = 0 + Ahead(ioq, pds, 1, Len(ioq))
  BY <1>3, <1>4, <1>6
<1>14. loop' \in {"none", "notify", "return"}
  BY <1>1
<1>15. Laid(ioq', pds', pollfds', happened', scan', at')
  <2>1. Laid(ioq, pds, pollfds', happened', 1, 0)
    BY <1>12, <1>13 DEF Laid
  <2> QED BY <1>1, <2>1
<1>16. Queued(PollSets["poll"], ioq, pds)' /\ (fdcnt = SumOver(Lens(pds), Threads))'
  BY <1>1, <1>2
<1>17. open' \subseteq Fds /\ scan' \in Nat \ {0} /\ at' \in Nat
  BY <1>1, <1>2
<1> QED BY <1>7, <1>8, <1>9, <1>11, <1>14, <1>15, <1>16, <1>17 DEF PollInv

(* The slice of a pollq is what of its events has happened.                *)
LEMMA PollSlice ==
  ASSUME PollInv, loop = "notify", scan <= Len(ioq)
  PROVE  LET p == pds[ioq[scan]] IN
         /\ scan \in 1..Len(ioq) /\ ioq[scan] \in Threads /\ p # <<>> /\ p \in Seq(Entries)
         /\ Len(p) \in Nat
         /\ Poll!Slice = Revents(p, happened)
         /\ (\E i \in DOMAIN Poll!Slice : Poll!Slice[i] # {}) <=> Concerned(p, happened)
<1> DEFINE p == pds[ioq[scan]]
<1>1. scan \in 1..Len(ioq) /\ ioq[scan] \in Threads /\ p # <<>> /\ p \in Seq(Entries)
  BY PollFacts DEF PollInv
<1>2. Len(p) \in Nat /\ DOMAIN p = 1..Len(p) /\ Len(ioq) \in Nat
  BY <1>1, PollFacts
<1> HIDE DEF p
<1>3. /\ at \in Nat /\ scan \in Nat \ {0} /\ Queued(PollSets["poll"], ioq, pds)
      /\ pollfds \in Seq(SUBSET (Events \cup Unasked))
  BY DEF PollInv
<1>4. Ahead(ioq, pds, scan, scan - 1) = 0
  BY <1>3, PollAhead
<1>5. /\ Ahead(ioq, pds, scan, Len(ioq)) = Len(p) + Ahead(ioq, pds, scan + 1, Len(ioq))
      /\ Ahead(ioq, pds, scan + 1, Len(ioq)) \in Nat
  <2>1. Len(ioq) \in scan..Len(ioq) /\ scan + 1 \in Nat \ {0} /\ Len(ioq) \in 0..Len(ioq)
    BY <1>1, <1>2, <1>3
  <2> QED BY <1>1, <1>3, <2>1, PollAhead DEF p
<1>6. /\ \A j \in 1..Len(p) :
           pollfds[at + Ahead(ioq, pds, scan, scan - 1) + j] = Hits(p[j], happened)
      /\ Len(pollfds) = at + Ahead(ioq, pds, scan, Len(ioq))
  <2>1. scan \in scan..Len(ioq)
    BY <1>1
  <2> QED BY <2>1 DEF PollInv, Laid, p
<1>7. at + Len(p) <= Len(pollfds)
  BY <1>2, <1>3, <1>5, <1>6
<1>8. Poll!Slice = [j \in 1..Len(p) |-> pollfds[at + j]]
  <2>1. Poll!Slice = SubSeq(pollfds, at + 1, at + Len(p))
    BY DEF Poll!Slice, p
  <2>2. SubSeq(pollfds, at + 1, at + Len(p)) =
          [j \in 1..((at + Len(p)) - (at + 1) + 1) |-> pollfds[(j + (at + 1)) - 1]]
    BY <1>2, <1>3
  <2>3. ((at + Len(p)) - (at + 1)) + 1 = Len(p)
    BY <1>2, <1>3
  <2>4. \A j \in 1..Len(p) : (j + (at + 1)) - 1 = at + j
    BY <1>2, <1>3
  <2>5. [j \in 1..((at + Len(p)) - (at + 1) + 1) |-> pollfds[(j + (at + 1)) - 1]] =
          [j \in 1..Len(p) |-> pollfds[(j + (at + 1)) - 1]]
    BY <2>3
  <2>6. [j \in 1..Len(p) |-> pollfds[(j + (at + 1)) - 1]] =
          [j \in 1..Len(p) |-> pollfds[at + j]]
    BY <2>4
  <2> QED BY <2>1, <2>2, <2>5, <2>6
<1>9. \A j \in 1..Len(p) : pollfds[at + j] = Hits(p[j], happened)
  <2> TAKE j \in 1..Len(p)
  <2>1. at + Ahead(ioq, pds, scan, scan - 1) + j = at + j
    BY <1>2, <1>3, <1>4
  <2> QED BY <1>6, <2>1
<1>10. Poll!Slice = Revents(p, happened)
  BY <1>2, <1>8, <1>9 DEF Revents
<1>11. (\E i \in DOMAIN Poll!Slice : Poll!Slice[i] # {}) <=> Concerned(p, happened)
  BY <1>2, <1>8, <1>9 DEF Concerned
<1> QED BY <1>1, <1>2, <1>10, <1>11 DEF p

LEMMA PollNotify == PollInv /\ Poll!dispatch_notify => PollInv'
<1> SUFFICES ASSUME PollInv, Poll!dispatch_notify PROVE PollInv'
  OBVIOUS
<1> DEFINE t == ioq[scan]
<1>1. /\ loop = "notify" /\ scan <= Len(ioq)
      /\ Poll!Dequeue(t) /\ fdcnt' = fdcnt - Len(pds[t]) /\ at' = at + Len(pds[t])
      /\ UNCHANGED <<size, open, happened, pollfds, loop, scan>>
  BY DEF Poll!dispatch_notify, Poll!InLoop
<1>2. scan \in 1..Len(ioq) /\ t \in Threads /\ pds[t] # <<>> /\ Len(pds[t]) \in Nat
  BY <1>1, PollSlice
<1>3. /\ ioq' = Unlink(ioq, t) /\ pds' = With(pds, t, <<>>)
      /\ Queued(PollSets["poll"], ioq, pds)'
      /\ fdcnt' = SumOver(Lens(pds'), Threads)
      /\ Len(ioq') = Len(ioq) - 1
      /\ \A i \in 1..Len(ioq') : /\ ioq'[i] = IF i < scan THEN ioq[i] ELSE ioq[i + 1]
                                 /\ pds'[ioq'[i]] = pds[ioq'[i]]
  BY <1>1, <1>2, PollUncount
<1>4. Len(ioq) \in Nat /\ scan \in Nat \ {0} /\ at \in Nat /\ Queued(PollSets["poll"], ioq, pds)
  BY PollFacts DEF PollInv
<1>5. LoopDone'
  <2>1. LoopDone /\ PollSets["poll"] \subseteq Seq(Entries) \ {<<>>}
    BY PollConstants DEF PollInv
  <2> QED BY <1>1, <1>3, <1>4, <2>1, NotifyLoop
<1>6. \A i \in scan..Len(ioq) : Ahead(ioq', pds', scan, i - 1) = Ahead(ioq, pds, scan + 1, i)
  <2>1. PollSets["poll"] \subseteq Seq(Entries) \ {<<>>}
    BY PollConstants
  <2>2. ioq' = Unlink(ioq, ioq[scan]) /\ pds' = With(pds, ioq[scan], <<>>)
    BY <1>3
  <2> QED BY <1>2, <1>4, <2>1, <2>2, AheadGone
<1>7. \A i \in scan..Len(ioq) :
        /\ Ahead(ioq, pds, scan, i) = Len(pds[t]) + Ahead(ioq, pds, scan + 1, i)
        /\ Ahead(ioq, pds, scan + 1, i) \in Nat
  <2> TAKE i \in scan..Len(ioq)
  <2>1. i \in 0..Len(ioq) /\ scan + 1 \in Nat \ {0}
    BY <1>2, <1>4
  <2> QED BY <1>2, <1>4, <2>1, PollAhead
<1> HIDE DEF t
<1>8. /\ \A i \in scan..Len(ioq) : \A j \in 1..Len(pds[ioq[i]]) :
           pollfds[at + Ahead(ioq, pds, scan, i - 1) + j] = Hits(pds[ioq[i]][j], happened)
      /\ Len(pollfds) = at + Ahead(ioq, pds, scan, Len(ioq))
  BY <1>1 DEF PollInv, Laid
<1>9. ASSUME NEW i \in scan..Len(ioq'), NEW j \in 1..Len(pds'[ioq'[i]])
      PROVE  pollfds[at' + Ahead(ioq', pds', scan, i - 1) + j] = Hits(pds'[ioq'[i]][j], happened)
  <2>1. /\ i \in 1..Len(ioq') /\ ~(i < scan) /\ i \in scan..Len(ioq)
        /\ i + 1 \in scan..Len(ioq) /\ (i + 1) - 1 = i
    BY <1>2, <1>3, <1>4
  <2>2. ioq'[i] = ioq[i + 1] /\ pds'[ioq'[i]] = pds[ioq[i + 1]]
    BY <1>3, <2>1
  <2>3. pollfds[at + Ahead(ioq, pds, scan, i) + j] = Hits(pds[ioq[i + 1]][j], happened)
    BY <1>8, <2>1, <2>2
  <2>4. at' + Ahead(ioq', pds', scan, i - 1) = at + Ahead(ioq, pds, scan, i)
    <3>1. Ahead(ioq', pds', scan, i - 1) = Ahead(ioq, pds, scan + 1, i)
      BY <1>6, <2>1
    <3>2. /\ Ahead(ioq, pds, scan, i) = Len(pds[t]) + Ahead(ioq, pds, scan + 1, i)
          /\ Ahead(ioq, pds, scan + 1, i) \in Nat
      BY <1>7, <2>1
    <3>3. at' = at + Len(pds[t]) /\ at \in Nat /\ Len(pds[t]) \in Nat
      BY <1>1, <1>2, <1>4
    <3> QED BY <3>1, <3>2, <3>3
  <2> QED BY <2>2, <2>3, <2>4
<1>10. Len(pollfds) = at' + Ahead(ioq', pds', scan, Len(ioq'))
  <2>1. Len(ioq) \in scan..Len(ioq) /\ Len(ioq) - 1 = Len(ioq')
    BY <1>2, <1>3, <1>4
  <2>2. Ahead(ioq', pds', scan, Len(ioq')) = Ahead(ioq, pds, scan + 1, Len(ioq))
    BY <1>6, <2>1
  <2>3. /\ Ahead(ioq, pds, scan, Len(ioq))
           = Len(pds[t]) + Ahead(ioq, pds, scan + 1, Len(ioq))
        /\ Ahead(ioq, pds, scan + 1, Len(ioq)) \in Nat
    BY <1>7, <2>1
  <2>4. at' = at + Len(pds[t]) /\ at \in Nat /\ Len(pds[t]) \in Nat
    BY <1>1, <1>2, <1>4
  <2> QED BY <1>8, <2>2, <2>3, <2>4
<1>11. at' \in Nat
  BY <1>1, <1>2, <1>4
<1>12. Laid(ioq', pds', pollfds', happened', scan', at')
  <2>1. Laid(ioq', pds', pollfds, happened, scan, at')
    BY <1>9, <1>10 DEF Laid
  <2> QED BY <1>1, <2>1
<1> QED BY <1>1, <1>3, <1>5, <1>11, <1>12 DEF PollInv

LEMMA PollPass == PollInv /\ Poll!dispatch_pass => PollInv'
<1> SUFFICES ASSUME PollInv, Poll!dispatch_pass PROVE PollInv'
  OBVIOUS
<1> DEFINE t == ioq[scan]
<1>1. /\ loop = "notify" /\ scan <= Len(ioq) /\ \A i \in DOMAIN Poll!Slice : Poll!Slice[i] = {}
      /\ scan' = scan + 1 /\ at' = at + Len(pds[t])
      /\ UNCHANGED <<ioq, pds, fdcnt, size, open, happened, pollfds, loop>>
  BY DEF Poll!dispatch_pass, Poll!InLoop
<1>2. scan \in 1..Len(ioq) /\ Len(pds[t]) \in Nat /\ ~Concerned(pds[t], happened)
  BY <1>1, PollSlice
<1>3. Len(ioq) \in Nat /\ scan \in Nat \ {0} /\ at \in Nat /\ Queued(PollSets["poll"], ioq, pds)
  BY PollFacts DEF PollInv
<1>4. LoopDone'
  <2>1. LoopDone
    BY DEF PollInv
  <2> QED BY <1>1, <1>2, <1>3, <2>1, PassLoop
<1>5. \A i \in scan..Len(ioq) :
        /\ Ahead(ioq, pds, scan, i) = Len(pds[t]) + Ahead(ioq, pds, scan + 1, i)
        /\ Ahead(ioq, pds, scan + 1, i) \in Nat
  <2> TAKE i \in scan..Len(ioq)
  <2>1. i \in 0..Len(ioq) /\ scan + 1 \in Nat \ {0}
    BY <1>2, <1>3
  <2> QED BY <1>2, <1>3, <2>1, PollAhead
<1>6. /\ \A i \in scan..Len(ioq) : \A j \in 1..Len(pds[ioq[i]]) :
           pollfds[at + Ahead(ioq, pds, scan, i - 1) + j] = Hits(pds[ioq[i]][j], happened)
      /\ Len(pollfds) = at + Ahead(ioq, pds, scan, Len(ioq))
  BY <1>1 DEF PollInv, Laid
<1> HIDE DEF t
<1>7. ASSUME NEW i \in (scan + 1)..Len(ioq), NEW j \in 1..Len(pds[ioq[i]])
      PROVE  pollfds[at' + Ahead(ioq, pds, scan + 1, i - 1) + j] = Hits(pds[ioq[i]][j], happened)
  <2>1. i \in scan..Len(ioq) /\ i - 1 \in scan..Len(ioq)
    BY <1>2, <1>3
  <2>2. at' + Ahead(ioq, pds, scan + 1, i - 1) = at + Ahead(ioq, pds, scan, i - 1)
    <3>1. /\ Ahead(ioq, pds, scan, i - 1) = Len(pds[t]) + Ahead(ioq, pds, scan + 1, i - 1)
          /\ Ahead(ioq, pds, scan + 1, i - 1) \in Nat
      BY <1>5, <2>1
    <3> QED BY <1>1, <1>2, <1>3, <3>1
  <2> QED BY <1>6, <2>1, <2>2
<1>8. Len(pollfds) = at' + Ahead(ioq, pds, scan + 1, Len(ioq))
  <2>1. Len(ioq) \in scan..Len(ioq)
    BY <1>2, <1>3
  <2>2. /\ Ahead(ioq, pds, scan, Len(ioq)) = Len(pds[t]) + Ahead(ioq, pds, scan + 1, Len(ioq))
        /\ Ahead(ioq, pds, scan + 1, Len(ioq)) \in Nat
    BY <1>5, <2>1
  <2>3. at' = at + Len(pds[t]) /\ at \in Nat /\ Len(pds[t]) \in Nat
    BY <1>1, <1>2, <1>3
  <2> QED BY <1>6, <2>2, <2>3
<1>9. at' \in Nat /\ scan' \in Nat \ {0}
  BY <1>1, <1>2, <1>3
<1>10. Laid(ioq', pds', pollfds', happened', scan', at')
  <2>1. Laid(ioq, pds, pollfds, happened, scan + 1, at')
    BY <1>7, <1>8 DEF Laid
  <2> QED BY <1>1, <2>1
<1>11. Queued(PollSets["poll"], ioq, pds)' /\ (fdcnt = SumOver(Lens(pds), Threads))'
  BY <1>1 DEF PollInv
<1> QED BY <1>1, <1>4, <1>9, <1>10, <1>11 DEF PollInv

LEMMA PollReturn == PollInv /\ Poll!dispatch_return => PollInv'
<1> SUFFICES ASSUME PollInv, Poll!dispatch_return PROVE PollInv'
  OBVIOUS
<1>1. /\ happened' = {} /\ pollfds' = <<>> /\ loop' = "none" /\ scan' = 1 /\ at' = 0
      /\ UNCHANGED <<ioq, pds, fdcnt, size, open>>
  BY DEF Poll!dispatch_return
<1>2. LoopDone'
  BY <1>1, NothingHappens
<1>3. Queued(PollSets["poll"], ioq, pds)' /\ (fdcnt = SumOver(Lens(pds), Threads))'
  BY <1>1 DEF PollInv
<1>4. pollfds' \in Seq(SUBSET (Events \cup Unasked)) /\ Len(pollfds') = 0
  BY <1>1
<1>5. size' \in Nat \ {0} /\ Len(pollfds') <= size'
  BY <1>1, <1>4 DEF PollInv
<1> QED BY <1>1, <1>2, <1>3, <1>4, <1>5 DEF PollInv

LEMMA PollOpenClose ==
  ASSUME PollInv, NEW fd \in Fds, Poll!fd_close(fd) \/ Poll!fd_open(fd)
  PROVE  PollInv'
<1>1. /\ loop = "none" /\ open' \subseteq Fds
      /\ UNCHANGED <<ioq, pds, fdcnt, size, happened, pollfds, loop, scan, at>>
  BY DEF Poll!fd_close, Poll!fd_open, Poll!loopVars, PollInv
<1>2. LoopDone'
  BY <1>1, NothingHappens DEF LoopDone, PollInv
<1>3. Queued(PollSets["poll"], ioq, pds)' /\ (fdcnt = SumOver(Lens(pds), Threads))'
  BY <1>1 DEF PollInv
<1> QED BY <1>1, <1>2, <1>3 DEF PollInv

LEMMA PollNext == PollInv /\ Poll!Next => PollInv'
BY PollAdd, PollDel, PollDispatch, PollNotify, PollPass, PollReturn, PollOpenClose
   DEF Poll!Next

(* What the run checks of the poll event system.                           *)
LEMMA PollChecks == PollInv => Poll!TypeOK /\ Poll!CountExact /\ Poll!ArrayFits
<1> SUFFICES ASSUME PollInv PROVE Poll!TypeOK /\ Poll!CountExact /\ Poll!ArrayFits
  OBVIOUS
<1>1. Queued(PollSets["poll"], ioq, pds) /\ fdcnt = SumOver(Lens(pds), Threads)
  BY DEF PollInv
<1>2. Poll!CountExact
  BY <1>1, GatheredIs DEF Poll!CountExact
<1>3. fdcnt \in Nat
  BY <1>1, PollFacts, LensSum
<1>4. Poll!TypeOK
  BY <1>1, <1>3, PollSame DEF PollInv, Poll!TypeOK, Queued
<1>5. Poll!ArrayFits
  BY DEF Poll!ArrayFits, PollInv
<1> QED BY <1>2, <1>4, <1>5

LEMMA SelectChecks ==
  SelectInv => Select!TypeOK /\ Select!CountsExact /\ Select!FdSetsExact /\ Select!MaxfdCovers
<1> SUFFICES ASSUME SelectInv
             PROVE  Select!TypeOK /\ Select!CountsExact /\ Select!FdSetsExact /\ Select!MaxfdCovers
  OBVIOUS
<1>1. fdset \subseteq Fds \X Events
  <2>1. fdset = UNION {Pairs(pds[t]) : t \in Threads}
    BY DEF SelectInv
  <2>2. \A t \in Threads : Pairs(pds[t]) \subseteq Fds \X Events
    BY SelectFacts
  <2> QED BY <2>1, <2>2
<1>2. Select!TypeOK
  BY <1>1, SelectSame DEF SelectInv, Select!TypeOK, Queued
<1>3. Select!CountsExact
  BY SelectSame DEF SelectInv, Select!CountsExact
<1>4. Select!FdSetsExact
  BY SelectSame DEF SelectInv, Select!FdSetsExact
<1>5. Select!MaxfdCovers
  BY SelectSame DEF SelectInv, Select!MaxfdCovers, Covers
<1> QED BY <1>2, <1>3, <1>4, <1>5

-----------------------------------------------------------------------------
(* The kqueue event system.                                                *)

LEMMA KqueueSame ==
  /\ Kqueue!Events = Events /\ Kqueue!AllEvents = AllEvents /\ Kqueue!Unasked = Unasked
  /\ Kqueue!Filters = Filters
  /\ \A p : Kqueue!Pairs(p) = Pairs(p) /\ Kqueue!Descriptors(p) = Descriptors(p)
  /\ \A p, x : Kqueue!Times(p, x) = Times(p, x)
  /\ \A f, x : Kqueue!TimesAsked(f, x) = TimesAsked(f, x)
  /\ \A s, t : Kqueue!Unlink(s, t) = Unlink(s, t)
  /\ \A S : Kqueue!Max(S) = Max(S) /\ Kqueue!Min(S) = Min(S)
  /\ \A S : Kqueue!Cardinality(S) = Cardinality(S)
<1>1. Kqueue!Events = Events /\ Kqueue!AllEvents = AllEvents /\ Kqueue!Unasked = Unasked
  BY DEF Kqueue!Events, Events, Kqueue!AllEvents, AllEvents, Kqueue!Unasked, Unasked
<1>2. \A p : Kqueue!Pairs(p) = Pairs(p) /\ Kqueue!Descriptors(p) = Descriptors(p)
  BY DEF Kqueue!Pairs, Pairs, Kqueue!Descriptors, Descriptors
<1>3. \A p, x : Kqueue!Times(p, x) = Times(p, x)
  BY DEF Kqueue!Times, Times, Kqueue!Cardinality, Cardinality
<1>4. \A f, x : Kqueue!TimesAsked(f, x) = TimesAsked(f, x)
  BY DEF Kqueue!TimesAsked, TimesAsked, Kqueue!Times, Times, Kqueue!Cardinality, Cardinality,
         Kqueue!MapThenSumSet, MapThenSumSet, Kqueue!MapThenFoldSet, MapThenFoldSet
<1>5. \A s, t : Kqueue!Unlink(s, t) = Unlink(s, t)
  BY DEF Kqueue!Unlink, Unlink, Kqueue!RemoveAt, RemoveAt
<1>6. \A S : Kqueue!Max(S) = Max(S) /\ Kqueue!Min(S) = Min(S)
  BY DEF Kqueue!Max, Max, Kqueue!Min, Min
<1>7. Kqueue!Filters = Filters
  BY DEF Kqueue!Filters, Filters
<1>8. \A S : Kqueue!Cardinality(S) = Cardinality(S)
  BY DEF Kqueue!Cardinality, Cardinality
<1> QED BY <1>1, <1>2, <1>3, <1>4, <1>5, <1>6, <1>7, <1>8

LEMMA KqueueConstants ==
  /\ PollSets["kqueue"] \subseteq Seq(Entries) \ {<<>>}
  /\ LIST_SIZE \in Nat \ {0} /\ MaxAdds \in Nat /\ MaxForks \in Nat /\ Refused \subseteq Fds
  /\ Filters \subseteq Fds \X Events
<1>1. /\ PollSets["kqueue"] \subseteq Seq(Entries) \ {<<>>}
      /\ LIST_SIZE \in Nat \ {0} /\ MaxAdds \in Nat /\ MaxForks \in Nat /\ Refused \subseteq Fds
  BY EventsysAssumption
     DEF EventsysAssumption, Kqueue!KqueueAssumption, Kqueue!Entries, Entries, Kqueue!Events, Events
<1>2. Filters \subseteq Fds \X Events
  BY DEF Filters, Events
<1> QED BY <1>1, <1>2

LEMMA KqueueFacts ==
  ASSUME Queued(PollSets["kqueue"], ioq, pds)
  PROVE  /\ PollSets["kqueue"] \subseteq Seq(Entries) \ {<<>>}
         /\ ioq \in Seq(Threads) /\ Len(ioq) \in Nat /\ pds \in Waits
         /\ \A t \in Threads : pds[t] \in Seq(Entries)
         /\ \A i \in 1..Len(ioq) : ioq[i] \in Threads /\ pds[ioq[i]] # <<>>
         /\ \A t \in Threads : pds[t] # <<>> => \E i \in 1..Len(ioq) : ioq[i] = t
<1>2. PollSets["kqueue"] \subseteq Seq(Entries) \ {<<>>}
  BY KqueueConstants
<1>3. ioq \in Seq(Threads) /\ pds \in Waits
  BY <1>2, QueuedWaits
<1>4. \A t \in Threads : pds[t] \in Seq(Entries)
  BY <1>2, QueuedTyped
<1>5. \A i \in 1..Len(ioq) : ioq[i] \in Threads /\ pds[ioq[i]] # <<>>
  <2>1. \A i \in 1..Len(ioq) : ioq[i] \in Threads /\ ioq[i] \in ToSet(ioq)
    BY <1>3, SeqDomain
  <2> QED BY <2>1 DEF Queued
<1>6. \A t \in Threads : pds[t] # <<>> => \E i \in 1..Len(ioq) : ioq[i] = t
  BY <1>2, QueuedPlace
<1> QED BY <1>2, <1>3, <1>4, <1>5, <1>6

-----------------------------------------------------------------------------
(* The size of a list that is doubled until there is room.                 *)
DoubledDef(f, s, m) == f = [k \in 0..m |-> IF k = 0 THEN s ELSE 2 * f[k - 1]]

LEMMA DoubledExists ==
  ASSUME NEW s \in Nat \ {0}, NEW m \in Nat
  PROVE  \E f \in [0..m -> Nat \ {0}] : DoubledDef(f, s, m)
<1> DEFINE Good == {k \in 0..m : \E f \in [0..k -> Nat \ {0}] : DoubledDef(f, s, k)}
<1>1. 0 \in Good
  <2> DEFINE f == [k \in 0..0 |-> s]
  <2>1. f = [k \in 0..0 |-> IF k = 0 THEN s ELSE 2 * f[k - 1]] /\ f \in [0..0 -> Nat \ {0}]
    OBVIOUS
  <2> HIDE DEF f
  <2> QED BY <2>1 DEF DoubledDef
<1>2. ASSUME NEW k \in 1..m, k - 1 \in Good PROVE k \in Good
  <2>1. PICK f \in [0..(k - 1) -> Nat \ {0}] : DoubledDef(f, s, k - 1)
    BY <1>2
  <2>2. \A i \in 0..(k - 1) : f[i] = IF i = 0 THEN s ELSE 2 * f[i - 1]
    BY <2>1 DEF DoubledDef
  <2> DEFINE h == [i \in 0..k |-> IF i = k THEN 2 * f[k - 1] ELSE f[i]]
  <2>3. f[k - 1] \in Nat \ {0}
    OBVIOUS
  <2>4. \A i \in 0..k : i # k => i \in 0..(k - 1) /\ (i # 0 => i - 1 \in 0..k /\ i - 1 # k)
    OBVIOUS
  <2>5. k - 1 \in 0..k /\ k - 1 # k /\ k # 0
    OBVIOUS
  <2>6. h \in [0..k -> Nat \ {0}]
    <3>1. 2 * f[k - 1] \in Nat \ {0}
      BY <2>3
    <3>2. \A i \in 0..k : h[i] \in Nat \ {0}
      BY <2>4, <3>1
    <3> QED BY <3>2
  <2>7. \A i \in 0..k : h[i] = IF i = 0 THEN s ELSE 2 * h[i - 1]
    <3> TAKE i \in 0..k
    <3>1. CASE i = k
      <4>1. h[k - 1] = f[k - 1]
        BY <2>5
      <4> QED BY <2>5, <3>1, <4>1
    <3>2. CASE i # k
      <4>1. h[i] = f[i] /\ (i # 0 => h[i - 1] = f[i - 1])
        BY <2>4, <3>2
      <4> QED BY <2>2, <2>4, <3>2, <4>1
    <3> QED BY <3>1, <3>2
  <2>8. h = [i \in 0..k |-> h[i]] /\ k \in 0..m
    OBVIOUS
  <2> HIDE DEF h
  <2>9. DoubledDef(h, s, k)
    BY <2>7, <2>8 DEF DoubledDef
  <2> QED BY <2>6, <2>8, <2>9
<1> HIDE DEF Good
<1>3. \A k \in 0..m : k \in Good
  BY <1>1, <1>2, LoopInvariant
<1>4. m \in Good
  BY <1>3
<1> QED BY <1>4 DEF Good

LEMMA DoubledIs ==
  ASSUME NEW s \in Nat \ {0}, NEW m \in Nat, NEW f, f = CHOOSE h : DoubledDef(h, s, m)
  PROVE  /\ DOMAIN f = 0..m
         /\ \A k \in 0..m : f[k] \in Nat \ {0} /\ k + 1 <= f[k]
<1>1. DoubledDef(f, s, m)
  BY DoubledExists
<1>2. f = [k \in 0..m |-> IF k = 0 THEN s ELSE 2 * f[k - 1]]
  BY <1>1 DEF DoubledDef
<1>3. DOMAIN f = 0..m /\ f[0] = s /\ \A k \in 1..m : f[k] = 2 * f[k - 1]
  <2>1. DOMAIN f = 0..m
    BY <1>2, Zenon
  <2>2. \A k \in 0..m : f[k] = IF k = 0 THEN s ELSE 2 * f[k - 1]
    BY <1>2, Zenon
  <2> QED BY <2>1, <2>2
<1> DEFINE Good == {k \in 0..m : f[k] \in Nat \ {0} /\ k + 1 <= f[k]}
<1>4. 0 \in Good
  BY <1>3
<1>5. ASSUME NEW k \in 1..m, k - 1 \in Good PROVE k \in Good
  <2>1. f[k - 1] \in Nat /\ k <= f[k - 1] /\ k \in 0..m /\ k \in Nat \ {0}
    BY <1>5
  <2>2. f[k] = 2 * f[k - 1]
    BY <1>3
  <2> HIDE DEF Good
  <2>3. f[k] \in Nat \ {0} /\ k + 1 <= f[k]
    BY <2>1, <2>2
  <2> QED BY <2>1, <2>3 DEF Good
<1> HIDE DEF Good
<1>6. \A k \in 0..m : k \in Good
  BY <1>4, <1>5, LoopInvariant
<1> QED BY <1>3, <1>6 DEF Good

LEMMA RoomIs ==
  ASSUME NEW s \in Nat \ {0}, NEW n \in Nat, NEW p \in Seq(Entries)
  PROVE  LET r == Kqueue!Room(s, n, p) IN r \in Nat \ {0} /\ n + 2 * Len(p) <= r
<1> DEFINE m == n + 2 * Len(p)
           f == CHOOSE h : DoubledDef(h, s, m)
           enough == {k \in DOMAIN f : 2 * Len(p) <= f[k] - n}
<1>1. Len(p) \in Nat /\ m \in Nat
  OBVIOUS
<1>2. Kqueue!Room(s, n, p) = f[Min(enough)]
  BY KqueueSame DEF Kqueue!Room, DoubledDef
<1> HIDE DEF f
<1>3. DOMAIN f = 0..m /\ \A k \in 0..m : f[k] \in Nat \ {0} /\ k + 1 <= f[k]
  BY <1>1, DoubledIs DEF f
<1>4. enough \subseteq Nat /\ m \in enough
  <2>1. m \in 0..m /\ 0..m \subseteq Nat
    BY <1>1
  <2> HIDE DEF m
  <2>2. f[m] \in Nat /\ m + 1 <= f[m] /\ m \in DOMAIN f
    BY <1>3, <2>1
  <2>3. 2 * Len(p) <= f[m] - n
    BY <1>1, <2>2 DEF m
  <2> QED BY <1>3, <2>1, <2>2, <2>3
<1>5. Min(enough) \in enough
  BY <1>4, MinIs
<1>6. f[Min(enough)] \in Nat \ {0} /\ 2 * Len(p) <= f[Min(enough)] - n
  BY <1>3, <1>5
<1> QED BY <1>1, <1>2, <1>6

(* How often the first i threads of the queue ask for event x.             *)
Upto(q, f, x, i) == Total([t \in Threads |-> Times(f[t], x)], Stretch(q, 1, i))

LEMMA UptoIs ==
  ASSUME NEW P, P \subseteq Seq(Entries) \ {<<>>}, NEW q, NEW f, Queued(P, q, f), NEW x
  PROVE  /\ Upto(q, f, x, 0) = 0 /\ Upto(q, f, x, Len(q)) = TimesAsked(f, x)
         /\ \A i \in 0..Len(q) : Upto(q, f, x, i) \in Nat
         /\ \A i \in 1..Len(q) : Upto(q, f, x, i) = Upto(q, f, x, i - 1) + Times(f[q[i]], x)
         /\ \A i \in 1..Len(q) : Times(f[q[i]], x) \in Nat
<1> DEFINE w == [t \in Threads |-> Times(f[t], x)]
           n == Len(q)
<1>1. /\ q \in Seq(Threads) /\ IsInjective(q) /\ f \in Waits /\ n \in Nat
      /\ \A i \in 1..n : q[i] \in Threads
      /\ \A t \in Threads : t \in ToSet(q) <=> f[t] # <<>>
  <2>1. n \in Nat
    BY DEF Queued
  <2>2. q \in Seq(Threads) /\ IsInjective(q) /\ f \in Waits
    BY QueuedWaits
  <2>3. \A i \in 1..n : q[i] \in Threads
    BY QueuedThreads
  <2>4. \A t \in Threads : t \in ToSet(q) <=> f[t] # <<>>
    BY DEF Queued
  <2> QED BY <2>1, <2>2, <2>3, <2>4
<1>2. \A i, j \in 1..n : q[i] = q[j] => i = j
  BY <1>1, SeqDomain
<1>3. TimesAsked(f, x) = Total(w, Threads) /\ \A t \in Threads : w[t] \in Nat
  BY <1>1, AskedIsTotal
<1>4. \A i \in 1..n : w[q[i]] = Times(f[q[i]], x) /\ Times(f[q[i]], x) \in Nat
  BY <1>1, <1>3
<1>5. \A i : Upto(q, f, x, i) = Total(w, Stretch(q, 1, i))
  BY DEF Upto
<1>6. \A t \in Threads : f[t] = <<>> => w[t] = 0
  BY TimesOfNone
<1> HIDE DEF w
<1>7. \A i \in 0..n : Stretch(q, 1, i) \in SUBSET Threads
  BY <1>1 DEF Stretch
<1>8. \A i \in 0..n : IsFiniteSet(Stretch(q, 1, i)) /\ \A t \in Stretch(q, 1, i) : w[t] \in Nat
  BY <1>3, <1>7, ThreadsFinite, FS_Subset
<1>9. \A i \in 0..n : Upto(q, f, x, i) \in Nat
  BY <1>5, <1>8, TotalNat
<1>10. Upto(q, f, x, 0) = 0
  <2>1. Stretch(q, 1, 0) = {}
    BY DEF Stretch
  <2> QED BY <1>5, <2>1, FS_EmptySet, TotalDef
<1>11. ASSUME NEW i \in 1..n PROVE Upto(q, f, x, i) = Upto(q, f, x, i - 1) + Times(f[q[i]], x)
  <2>1. Stretch(q, 1, i - 1) = Stretch(q, 1, i) \ {q[i]}
    <3>1. \A k \in 1..(i - 1) : k \in 1..i /\ q[k] # q[i]
      BY <1>1, <1>2
    <3>2. \A k \in 1..i : k # i => k \in 1..(i - 1)
      BY <1>1
    <3> QED BY <3>1, <3>2 DEF Stretch
  <2>2. i \in 0..n /\ i - 1 \in 0..n /\ q[i] \in Stretch(q, 1, i)
    BY <1>1 DEF Stretch
  <2>3. Total(w, Stretch(q, 1, i)) = w[q[i]] + Total(w, Stretch(q, 1, i) \ {q[i]})
    BY <1>8, <2>2, TotalRemove
  <2>4. Upto(q, f, x, i - 1) \in Nat
    BY <1>9, <2>2
  <2>5. Upto(q, f, x, i) = w[q[i]] + Upto(q, f, x, i - 1)
    BY <1>5, <2>1, <2>3
  <2>6. w[q[i]] \in Nat /\ w[q[i]] = Times(f[q[i]], x)
    BY <1>4
  <2> QED BY <2>4, <2>5, <2>6
<1>12. Upto(q, f, x, n) = TimesAsked(f, x)
  <2> DEFINE S == Stretch(q, 1, n)
  <2>1. S \in SUBSET Threads /\ Upto(q, f, x, n) = Total(w, S)
    <3>1. n \in 0..n
      BY <1>1
    <3> QED BY <1>5, <1>7, <3>1
  <2>2. \A t \in Threads \ S : w[t] = 0
    <3>1. \A y : y \in ToSet(q) <=> \E k \in 1..n : q[k] = y
      BY <1>1, SeqDomain
    <3> QED BY <1>1, <1>6, <3>1 DEF Stretch
  <2> HIDE DEF S
  <2>3. /\ Total(w, S) \in Nat
        /\ Total(w, Threads) = Total(w, S) + Total(w, Threads \ S)
    BY <1>3, <2>1, ThreadsFinite, TotalSplit
  <2>4. Total(w, Threads \ S) = 0
    <3>1. IsFiniteSet(Threads \ S)
      BY ThreadsFinite, FS_Subset
    <3> QED BY <2>2, <3>1, TotalZero
  <2> QED BY <1>3, <2>1, <2>3, <2>4
<1> QED BY <1>4, <1>9, <1>10, <1>11, <1>12

-----------------------------------------------------------------------------
(* The filters of a set of descriptors are at most two for each.           *)
LEMMA NewFilters ==
  ASSUME NEW p \in Seq(Entries), NEW new, new \subseteq Pairs(p), new \subseteq Filters
  PROVE  IsFiniteSet(new) /\ Cardinality(new) \in Nat /\ Cardinality(new) <= 2 * Len(p)
<1> DEFINE n == Len(p)
           E == {"IN", "OUT"}
           g == [z \in (1..n) \X E |-> <<p[z[1]].fd, z[2]>>]
           T == {<<p[i].fd, e>> : i \in 1..n, e \in E}
<1>1. n \in Nat /\ IsFiniteSet(1..n) /\ Cardinality(1..n) = n
  <2>1. n \in Nat
    OBVIOUS
  <2>2. 1 \in Int /\ n \in Int
    BY <2>1
  <2>3. IsFiniteSet(1..n) /\ Cardinality(1..n) = IF 1 > n THEN 0 ELSE n - 1 + 1
    BY <2>2, FS_Interval
  <2> HIDE DEF n
  <2> QED BY <2>1, <2>3
<1>2. IsFiniteSet(E) /\ Cardinality(E) = 2
  <2> DEFINE I == {"IN"}
  <2>1. IsFiniteSet(I) /\ Cardinality(I) = 1
    BY FS_Singleton
  <2>2. E = I \cup {"OUT"} /\ "OUT" \notin I
    OBVIOUS
  <2> HIDE DEF I, E
  <2>3. /\ IsFiniteSet(I \cup {"OUT"})
        /\ Cardinality(I \cup {"OUT"}) = IF "OUT" \in I THEN Cardinality(I) ELSE Cardinality(I) + 1
    BY <2>1, FS_AddElement
  <2> QED BY <2>1, <2>2, <2>3
<1>3. IsFiniteSet((1..n) \X E) /\ Cardinality((1..n) \X E) = n * 2
  <2> DEFINE A == 1..n
  <2>1. IsFiniteSet(A) /\ Cardinality(A) = n
    BY <1>1
  <2> HIDE DEF A, E
  <2>2. IsFiniteSet(A \X E) /\ Cardinality(A \X E) = Cardinality(A) * Cardinality(E)
    BY <1>2, <2>1, FS_Product
  <2> QED BY <1>2, <2>1, <2>2 DEF A
<1>4. g \in Surjection((1..n) \X E, T)
  <2>1. g \in [(1..n) \X E -> T]
    OBVIOUS
  <2>2. ASSUME NEW t \in T PROVE \E z \in (1..n) \X E : g[z] = t
    <3>1. PICK i \in 1..n : \E e \in E : t = <<p[i].fd, e>>
      BY <2>2
    <3>2. PICK e \in E : t = <<p[i].fd, e>>
      BY <3>1
    <3> DEFINE z == <<i, e>>
    <3>3. z \in (1..n) \X E /\ g[z] = t
      BY <3>2
    <3> HIDE DEF z, g
    <3> QED BY <3>3
  <2> HIDE DEF g, T, E
  <2> QED BY <2>1, <2>2 DEF Surjection
<1>5. new \in SUBSET T
  <2> SUFFICES ASSUME NEW x \in new PROVE x \in T
    OBVIOUS
  <2>1. x = <<x[1], x[2]>> /\ x[2] \in E /\ x \in Fds \X Events /\ x \in Pairs(p)
    BY DEF Filters, Events
  <2>2. PICK i \in 1..n : p[i].fd = x[1] /\ x[2] \in p[i].events
    BY <2>1, TimesPairs
  <2> QED BY <2>1, <2>2
<1> HIDE DEF g, T, E
<1>6. IsFiniteSet(T) /\ Cardinality(T) <= n * 2
  <2>1. Cardinality(T) <= Cardinality((1..n) \X E) /\ IsFiniteSet(T)
    BY <1>3, <1>4, FS_Surjection
  <2> QED BY <1>3, <2>1
<1>7. IsFiniteSet(new) /\ Cardinality(new) <= Cardinality(T)
  BY <1>5, <1>6, FS_Subset
<1>8. Cardinality(new) \in Nat /\ Cardinality(T) \in Nat
  BY <1>6, <1>7, FS_CardinalityType
<1> QED BY <1>1, <1>6, <1>7, <1>8

(* The counts and the list of filters to add, which is large enough.       *)
KqLists == {k \in [cnt : [Filters -> Nat], addlist : SUBSET Filters, addcnt : Nat,
                   size : Nat \ {0}] : k.addcnt <= k.size}

LEMMA KqAddIs ==
  ASSUME NEW k \in KqLists, NEW p \in Seq(Entries), Pairs(p) \subseteq Filters
  PROVE  LET j == Kqueue!kq_pollset_add(k, p) IN
         /\ j \in KqLists
         /\ \A x \in Filters : j.cnt[x] = k.cnt[x] + Times(p, x)
         /\ j.addlist = k.addlist \cup {x \in Pairs(p) : k.cnt[x] = 0}
<1> DEFINE new == {x \in Pairs(p) : k.cnt[x] = 0}
           j == Kqueue!kq_pollset_add(k, p)
<1>1. /\ k.cnt \in [Filters -> Nat] /\ k.addlist \in SUBSET Filters /\ k.addcnt \in Nat
      /\ k.size \in Nat \ {0} /\ k.addcnt <= k.size
  BY DEF KqLists
<1>2. j = [cnt |-> [x \in Filters |-> k.cnt[x] + Times(p, x)],
           addlist |-> k.addlist \cup new,
           addcnt |-> k.addcnt + Cardinality(new),
           size |-> Kqueue!Room(k.size, k.addcnt, p)]
  BY KqueueSame DEF Kqueue!kq_pollset_add
<1>3. Cardinality(new) \in Nat /\ Cardinality(new) <= 2 * Len(p)
  BY NewFilters
<1>4. new \subseteq Filters
  OBVIOUS
<1> HIDE DEF j, new
<1>5. /\ Kqueue!Room(k.size, k.addcnt, p) \in Nat \ {0}
      /\ k.addcnt + 2 * Len(p) <= Kqueue!Room(k.size, k.addcnt, p)
  BY <1>1, RoomIs
<1>6. \A x \in Filters : Times(p, x) \in Nat
  BY KqueueConstants, TimesPairs
<1>7. [x \in Filters |-> k.cnt[x] + Times(p, x)] \in [Filters -> Nat]
  BY <1>1, <1>6
<1>8. k.addcnt + Cardinality(new) \in Nat /\ k.addcnt + Cardinality(new) <= j.size
  BY <1>1, <1>2, <1>3, <1>5
<1>9. j \in KqLists
  BY <1>1, <1>2, <1>4, <1>5, <1>7, <1>8 DEF KqLists
<1> QED BY <1>2, <1>9 DEF j, new

LEMMA KqUpto ==
  ASSUME Queued(PollSets["kqueue"], ioq, pds), NEW x
  PROVE  /\ Upto(ioq, pds, x, 0) = 0 /\ Upto(ioq, pds, x, Len(ioq)) = TimesAsked(pds, x)
         /\ \A i \in 0..Len(ioq) : Upto(ioq, pds, x, i) \in Nat
         /\ \A i \in 1..Len(ioq) :
              Upto(ioq, pds, x, i) = Upto(ioq, pds, x, i - 1) + Times(pds[ioq[i]], x)
         /\ \A i \in 1..Len(ioq) : Times(pds[ioq[i]], x) \in Nat
<1>1. PollSets["kqueue"] \subseteq Seq(Entries) \ {<<>>}
  BY KqueueConstants
<1> QED BY <1>1, UptoIs, ZenonT(60)

(* The fold over the queue that collects all of it once more.              *)
KqBase == [cnt |-> [x \in Filters |-> 0], addlist |-> {}, addcnt |-> 0, size |-> size]
KqAgain(f, n) ==
  f = [s \in SUBSET (1..n) |->
         IF s = {} THEN KqBase
         ELSE Kqueue!kq_pollset_add(f[s \ {Max(s)}], pds[ioq[Max(s)]])]

LEMMA KqRebuiltIs ==
  ASSUME Queued(PollSets["kqueue"], ioq, pds), size \in Nat \ {0},
         \A t \in Threads : Pairs(pds[t]) \subseteq Filters
  PROVE  /\ Kqueue!Rebuilt \in KqLists
         /\ \A x \in Filters : Kqueue!Rebuilt.cnt[x] = TimesAsked(pds, x)
         /\ \A t \in Threads : Pairs(pds[t]) \subseteq Kqueue!Rebuilt.addlist
<1> DEFINE n == Len(ioq)
           f == CHOOSE f : KqAgain(f, n)
           add(k, i) == Kqueue!kq_pollset_add(k, pds[ioq[i]])
<1>1. /\ n \in Nat /\ DOMAIN ioq = 1..n /\ pds \in Waits
      /\ \A t \in Threads : pds[t] \in Seq(Entries)
      /\ \A i \in 1..n : ioq[i] \in Threads
      /\ \A t \in Threads : pds[t] # <<>> => \E i \in 1..n : ioq[i] = t
  <2>1. ioq \in Seq(Threads) /\ DOMAIN ioq = 1..n
    BY KqueueFacts
  <2> QED BY <2>1, KqueueFacts
<1>2. KqBase \in KqLists
  BY DEF KqBase, KqLists
<1>3. ASSUME NEW k \in KqLists, NEW i \in 1..n
      PROVE  /\ add(k, i) \in KqLists
             /\ \A x \in Filters : add(k, i).cnt[x] = k.cnt[x] + Times(pds[ioq[i]], x)
             /\ add(k, i).addlist = k.addlist \cup {x \in Pairs(pds[ioq[i]]) : k.cnt[x] = 0}
  <2>1. pds[ioq[i]] \in Seq(Entries) /\ Pairs(pds[ioq[i]]) \subseteq Filters
    BY <1>1
  <2> QED BY <2>1, KqAddIs
<1>4. Kqueue!Rebuilt = f[1..n]
  <2> DEFINE b == [Kqueue!Lists EXCEPT !.cnt = Kqueue!NoCounts, !.addlist = {}, !.addcnt = 0]
  <2>1. b = KqBase
    <3>1. Kqueue!NoCounts = [x \in Filters |-> 0]
      BY KqueueSame DEF Kqueue!NoCounts
    <3> DEFINE z == [x \in Filters |-> 0]
    <3>2. b = [cnt |-> z, addlist |-> {}, addcnt |-> 0, size |-> size]
      <4>1. Kqueue!NoCounts = z
        BY <3>1
      <4> DEFINE r == Kqueue!Lists
                 r1 == [r EXCEPT !.cnt = z]
                 r2 == [r1 EXCEPT !.addlist = {}]
                 r3 == [r2 EXCEPT !.addcnt = 0]
      <4> HIDE DEF z
      <4>2. r = [cnt |-> cnt, addlist |-> addlist, addcnt |-> addcnt, size |-> size]
        BY DEF Kqueue!Lists
      <4> HIDE DEF r
      <4>3. r1 = [cnt |-> z, addlist |-> addlist, addcnt |-> addcnt, size |-> size]
        BY <4>2
      <4>4. b = r3
        BY <4>1, <4>2 DEF r
      <4> HIDE DEF r1
      <4>5. r2 = [cnt |-> z, addlist |-> {}, addcnt |-> addcnt, size |-> size]
        BY <4>3
      <4> HIDE DEF r2, b
      <4>6. r3 = [cnt |-> z, addlist |-> {}, addcnt |-> 0, size |-> size]
        BY <4>5
      <4> QED BY <4>4, <4>6
    <3> QED BY <3>2 DEF KqBase
  <2>2. Kqueue!Rebuilt = Kqueue!FoldLeft(LAMBDA k, t : Kqueue!kq_pollset_add(k, pds[t]), b, ioq)
    BY DEF Kqueue!Rebuilt
  <2> HIDE DEF b
  <2>3. Kqueue!Rebuilt = (CHOOSE h : h = [s \in SUBSET DOMAIN ioq |->
                             IF s = {} THEN b
                             ELSE Kqueue!kq_pollset_add(h[s \ {Max(s)}], pds[ioq[Max(s)]])])[DOMAIN ioq]
    BY <2>2 DEF Kqueue!FoldLeft, Kqueue!MapThenFoldSet, Kqueue!Max, Max
  <2> QED BY <1>1, <2>1, <2>3 DEF KqAgain
<1>5. KqAgain(f, n)
  <2> DEFINE g == [z \in KqLists \X (1..n) |-> add(z[1], z[2])]
  <2>1. \A k \in KqLists : \A i \in 1..n : g[<<k, i>>] = add(k, i)
    OBVIOUS
  <2>2. \A k \in KqLists : \A i \in 1..n : g[<<k, i>>] \in KqLists
    BY <1>3, <2>1
  <2> HIDE DEF g
  <2>3. PICK h \in [SUBSET (1..n) -> KqLists] : FoldDef(h, g, KqBase, n)
    BY <1>1, <1>2, <2>2, FoldExists
  <2>4. h = [s \in SUBSET (1..n) |-> IF s = {} THEN KqBase ELSE g[<<h[s \ {Max(s)}], Max(s)>>]]
    BY <2>3 DEF FoldDef
  <2>5. \A s \in SUBSET (1..n) : s # {} => Max(s) \in 1..n /\ h[s \ {Max(s)}] \in KqLists
    BY <1>1, MaxIn
  <2>6. h = [s \in SUBSET (1..n) |-> IF s = {} THEN KqBase ELSE add(h[s \ {Max(s)}], Max(s))]
    <3> HIDE DEF add
    <3> QED BY <2>1, <2>4, <2>5
  <2>7. KqAgain(h, n)
    BY <2>6 DEF KqAgain
  <2> QED BY <2>7
<1> HIDE DEF f
<1>6. f[{}] = KqBase
  BY <1>5 DEF KqAgain
<1>7. \A i \in 1..n : f[1..i] = add(f[1..(i - 1)], i)
  <2> TAKE i \in 1..n
  <2>1. /\ 1..i # {} /\ Max(1..i) = i /\ (1..i) \ {i} = 1..(i - 1)
        /\ 1..i \in SUBSET (1..n)
    BY <1>1, StagesAre
  <2> QED BY <1>5, <2>1 DEF KqAgain
<1> DEFINE Good == {i \in 0..n :
             /\ f[1..i] \in KqLists
             /\ \A x \in Filters : f[1..i].cnt[x] = Upto(ioq, pds, x, i)
             /\ \A x \in Filters : f[1..i].cnt[x] # 0 => x \in f[1..i].addlist}
<1> HIDE DEF add
<1>8. 0 \in Good
  <2>1. 1..0 = {} /\ 0 \in 0..n
    BY <1>1
  <2>2. f[1..0] = KqBase
    BY <1>6, <2>1
  <2>3. \A x \in Filters : KqBase.cnt[x] = 0
    BY DEF KqBase
  <2>4. \A x : Upto(ioq, pds, x, 0) = 0
    BY KqUpto
  <2> QED BY <1>2, <2>1, <2>2, <2>3, <2>4
<1>9. ASSUME NEW i \in 1..n, i - 1 \in Good PROVE i \in Good
  <2> DEFINE k == f[1..(i - 1)]
             p == pds[ioq[i]]
  <2>1. /\ k \in KqLists
        /\ \A x \in Filters : k.cnt[x] = Upto(ioq, pds, x, i - 1)
        /\ \A x \in Filters : k.cnt[x] # 0 => x \in k.addlist
    BY <1>9
  <2>2. f[1..i] = add(k, i) /\ i \in 0..n
    BY <1>1, <1>7
  <2>3. p \in Seq(Entries)
    BY <1>1
  <2> HIDE DEF Good, k, p
  <2>4. /\ add(k, i) \in KqLists
        /\ \A x \in Filters : add(k, i).cnt[x] = k.cnt[x] + Times(p, x)
        /\ add(k, i).addlist = k.addlist \cup {x \in Pairs(p) : k.cnt[x] = 0}
    BY <1>3, <2>1 DEF p
  <2>5. ASSUME NEW x \in Filters
        PROVE  /\ add(k, i).cnt[x] = Upto(ioq, pds, x, i)
               /\ add(k, i).cnt[x] # 0 => x \in add(k, i).addlist
    <3>1. add(k, i).cnt[x] = k.cnt[x] + Times(p, x) /\ k.cnt[x] = Upto(ioq, pds, x, i - 1)
      BY <2>1, <2>4
    <3>2. Upto(ioq, pds, x, i) = Upto(ioq, pds, x, i - 1) + Times(p, x)
      <4>1. \A j \in 1..Len(ioq) :
              Upto(ioq, pds, x, j) = Upto(ioq, pds, x, j - 1) + Times(pds[ioq[j]], x)
        BY KqUpto
      <4> QED BY <4>1 DEF p
    <3>3. x \in Fds \X Events
      BY KqueueConstants
    <3>4. Times(p, x) \in Nat /\ (Times(p, x) = 0 <=> x \notin Pairs(p))
      BY <2>3, <3>3, TimesPairs
    <3>5. k.cnt[x] # 0 => x \in k.addlist
      BY <2>1
    <3>6. k.cnt[x] = 0 /\ Times(p, x) # 0 => x \in add(k, i).addlist
      BY <2>4, <3>4
    <3>7. k.cnt[x] # 0 => x \in add(k, i).addlist
      BY <2>4, <3>5
    <3>8. k.cnt[x] \in Nat
      BY <2>1 DEF KqLists
    <3> QED BY <3>1, <3>2, <3>4, <3>6, <3>7, <3>8
  <2> QED BY <2>2, <2>4, <2>5 DEF Good
<1> HIDE DEF Good
<1>10. \A i \in 0..n : i \in Good
  BY <1>1, <1>8, <1>9, LoopInvariant
<1>11. n \in Good
  BY <1>1, <1>10
<1>12. /\ Kqueue!Rebuilt \in KqLists
       /\ \A x \in Filters : Kqueue!Rebuilt.cnt[x] = Upto(ioq, pds, x, n)
       /\ \A x \in Filters : Kqueue!Rebuilt.cnt[x] # 0 => x \in Kqueue!Rebuilt.addlist
  BY <1>4, <1>11 DEF Good
<1>13. \A x : Upto(ioq, pds, x, n) = TimesAsked(pds, x)
  BY KqUpto
<1>14. ASSUME NEW t \in Threads, NEW x \in Pairs(pds[t]) PROVE x \in Kqueue!Rebuilt.addlist
  <2>1. x \in Filters /\ x \in Fds \X Events
    BY KqueueConstants
  <2>2. TimesAsked(pds, x) # 0
    BY <1>1, <2>1, AskedNone
  <2> QED BY <1>12, <1>13, <2>1, <2>2
<1> QED BY <1>12, <1>13, <1>14

LEMMA KqueueInit == Kqueue!Init => KqueueInv
<1> SUFFICES ASSUME Kqueue!Init PROVE KqueueInv
  OBVIOUS
<1>1. /\ ioq = <<>> /\ pds = [t \in Threads |-> <<>>] /\ cnt = [x \in Filters |-> 0]
      /\ kq = {} /\ addlist = {} /\ addcnt = 0 /\ size = LIST_SIZE /\ open = Fds
      /\ forks = 0 /\ stale = FALSE /\ happened = {} /\ revents = [fd \in Fds |-> {}]
      /\ dellist = {} /\ loop = "none" /\ scan = 1
  BY KqueueSame DEF Kqueue!Init, Kqueue!NoCounts, Kqueue!NoRevents
<1>2. Queued(PollSets["kqueue"], ioq, pds) /\ \A x : TimesAsked(pds, x) = 0
  BY <1>1, QueuedNone
<1>3. \A t \in Threads : Pairs(pds[t]) = {} /\ Descriptors(pds[t]) = {}
  BY <1>1, NothingAsked
<1>4. LoopDone
  <2>1. Len(ioq) = 0
    BY <1>1
  <2> QED BY <1>1, <2>1, NoConcern DEF LoopDone
<1>5. cnt \in [Filters -> Nat] /\ \A x \in Filters : cnt[x] = TimesAsked(pds, x)
  <2>1. cnt = [x \in Filters |-> 0] /\ \A x : TimesAsked(pds, x) = 0
    BY <1>1, <1>2
  <2> QED BY <2>1
<1>6. revents = [fd \in Fds |-> {e \in Events \cup Unasked : <<fd, e>> \in happened}]
  <2>1. \A fd : {e \in Events \cup Unasked : <<fd, e>> \in {}} = {}
    OBVIOUS
  <2> QED BY <1>1, <2>1
<1>7. Secured(pds, kq \cup addlist, revents)
  BY <1>3 DEF Secured
<1>8. size \in Nat \ {0} /\ addcnt \in 0..MaxAdds /\ addcnt <= size /\ forks \in 0..MaxForks
  BY <1>1, KqueueConstants
<1>9. /\ open \subseteq Fds /\ stale \in BOOLEAN /\ happened \subseteq AllEvents
      /\ kq \subseteq Filters /\ addlist \subseteq Filters /\ dellist \subseteq Filters
  BY <1>1
<1> QED BY <1>1, <1>2, <1>3, <1>4, <1>5, <1>6, <1>7, <1>8, <1>9 DEF KqueueInv

(* While no dispatch is under way nothing has happened.                    *)
LEMMA KqueueQuiet ==
  ASSUME KqueueInv, loop = "none"
  PROVE  /\ happened = {} /\ \A fd \in Fds : revents[fd] = {}
         /\ ~stale => \A t \in Threads : Pairs(pds[t]) \subseteq kq \cup addlist
<1>1. happened = {}
  BY DEF KqueueInv, LoopDone
<1>2. \A fd \in Fds : revents[fd] = {}
  BY <1>1 DEF KqueueInv
<1>3. ASSUME ~stale, NEW t \in Threads, NEW x \in Pairs(pds[t]) PROVE x \in kq \cup addlist
  <2>1. x \in kq \cup addlist \/ revents[x[1]] \cap ({x[2]} \cup Unasked) # {}
    BY <1>3 DEF KqueueInv, Secured
  <2>2. x[1] \in Fds
    BY DEF KqueueInv, Filters
  <2> QED BY <1>2, <2>1, <2>2
<1> QED BY <1>1, <1>2, <1>3

(* A filter is counted if and only if it is waited for.                    *)
LEMMA KqueueAsked ==
  ASSUME KqueueInv, NEW x \in Filters
  PROVE  cnt[x] \in Nat /\ (cnt[x] = 0 <=> \A t \in Threads : x \notin Pairs(pds[t]))
<1>1. pds \in Waits
  BY KqueueFacts DEF KqueueInv
<1>2. x \in Fds \X Events
  BY KqueueConstants
<1>3. cnt[x] = TimesAsked(pds, x)
  BY DEF KqueueInv
<1> QED BY <1>1, <1>2, <1>3, AskedNone

LEMMA KqueueAdd ==
  ASSUME KqueueInv, NEW t \in Threads, NEW p \in PollSets["kqueue"],
         Kqueue!Descriptors(p) \subseteq open, Kqueue!pollset_add(t, p)
  PROVE  KqueueInv'
<1> DEFINE k == Kqueue!Lists
           j == Kqueue!kq_pollset_add(k, p)
<1>1. /\ loop = "none" /\ pds[t] = <<>> /\ Pairs(p) \subseteq Filters /\ j.addcnt <= MaxAdds
      /\ cnt' = j.cnt /\ addlist' = j.addlist /\ addcnt' = j.addcnt /\ size' = j.size
      /\ ioq' = Joined(ioq, t) /\ pds' = With(pds, t, p)
      /\ UNCHANGED <<kq, open, forks, stale, happened, revents, dellist, loop, scan>>
  BY KqueueSame DEF Kqueue!pollset_add, Kqueue!loopVars, Kqueue!procVars, With, Joined
<1>2. p \in Seq(Entries) /\ p # <<>> /\ Descriptors(p) \subseteq open
  BY KqueueConstants, KqueueSame
<1>3. /\ k \in KqLists /\ k.cnt = cnt /\ k.addlist = addlist
  BY DEF KqueueInv, Kqueue!Lists, KqLists
<1> HIDE DEF j, k
<1>4. /\ j \in KqLists
      /\ \A x \in Filters : j.cnt[x] = cnt[x] + Times(p, x)
      /\ j.addlist = addlist \cup {x \in Pairs(p) : cnt[x] = 0}
  BY <1>1, <1>2, <1>3, KqAddIs DEF j
<1>5. /\ Queued(PollSets["kqueue"], ioq', pds') /\ pds'[t] = p
      /\ \A u \in Threads : u # t => pds'[u] = pds[u]
  <2>1. Queued(PollSets["kqueue"], ioq, pds)
    BY DEF KqueueInv
  <2> QED BY <1>1, <1>2, <2>1, QueuedAdd
<1>6. ASSUME NEW x \in Filters PROVE cnt'[x] = TimesAsked(pds', x)
  <2>1. pds \in Waits
    BY KqueueFacts DEF KqueueInv
  <2>2. /\ TimesAsked(pds', x) = (TimesAsked(pds, x) - Times(pds[t], x)) + Times(p, x)
        /\ TimesAsked(pds, x) \in Nat /\ Times(p, x) \in Nat
    BY <1>1, <1>2, <2>1, AskedUpdate
  <2>3. Times(pds[t], x) = 0
    BY <1>1, TimesOfNone
  <2>4. cnt[x] = TimesAsked(pds, x)
    BY DEF KqueueInv
  <2> QED BY <1>1, <1>4, <2>2, <2>3, <2>4
<1>7. /\ cnt' \in [Filters -> Nat] /\ addlist' \subseteq Filters /\ addcnt' \in 0..MaxAdds
      /\ size' \in Nat \ {0} /\ addcnt' <= size'
  BY <1>1, <1>4, KqueueConstants DEF KqLists
<1>8. \A u \in Threads : Descriptors(pds'[u]) \subseteq open /\ Pairs(pds'[u]) \subseteq Filters
  BY <1>1, <1>2, <1>5 DEF KqueueInv
<1>9. ~stale => Secured(pds', kq \cup addlist', revents)
  <2> SUFFICES ASSUME ~stale, NEW u \in Threads, NEW x \in Pairs(pds'[u])
               PROVE  x \in kq \cup addlist'
    BY DEF Secured
  <2>1. \A v \in Threads : Pairs(pds[v]) \subseteq kq \cup addlist
    BY <1>1, KqueueQuiet
  <2>2. addlist \subseteq addlist'
    BY <1>1, <1>4
  <2>3. CASE u # t
    BY <1>5, <2>1, <2>2, <2>3
  <2>4. CASE u = t
    <3>1. x \in Pairs(p) /\ x \in Filters
      BY <1>1, <1>5, <2>4
    <3>2. CASE cnt[x] = 0
      BY <1>1, <1>4, <3>1, <3>2
    <3>3. CASE cnt[x] # 0
      <4>1. PICK v \in Threads : x \in Pairs(pds[v])
        BY <3>1, <3>3, KqueueAsked
      <4> QED BY <2>1, <2>2, <4>1
    <3> QED BY <3>2, <3>3
  <2> QED BY <2>3, <2>4
<1>10. (~stale => Secured(pds, kq \cup addlist, revents))'
  BY <1>1, <1>9
<1>11. LoopDone'
  BY <1>1, NothingHappens, KqueueQuiet
<1>12. dellist' = {}
  BY <1>1 DEF KqueueInv
<1>13. /\ kq' \subseteq Filters /\ open' \subseteq Fds /\ forks' \in 0..MaxForks
       /\ stale' \in BOOLEAN /\ happened' \subseteq AllEvents /\ scan' \in Nat \ {0}
       /\ revents' = [fd \in Fds |-> {e \in Events \cup Unasked : <<fd, e>> \in happened'}]
  BY <1>1 DEF KqueueInv
<1>14. (\A u \in Threads : Descriptors(pds[u]) \subseteq open /\ Pairs(pds[u]) \subseteq Filters)'
  BY <1>1, <1>8
<1>15. (\A x \in Filters : cnt[x] = TimesAsked(pds, x))'
  BY <1>6
<1> QED BY <1>1, <1>5, <1>7, <1>10, <1>11, <1>12, <1>13, <1>14, <1>15 DEF KqueueInv

(* A pollq leaves the queue.                                               *)
LEMMA KqueueUncount ==
  ASSUME KqueueInv, NEW t \in Threads, pds[t] # <<>>,
         Kqueue!Dequeue(t), Kqueue!Uncount(pds[t])
  PROVE  /\ ioq' = Unlink(ioq, t) /\ pds' = With(pds, t, <<>>)
         /\ Queued(PollSets["kqueue"], ioq, pds)'
         /\ cnt' \in [Filters -> Nat]
         /\ \A x \in Filters : cnt'[x] = TimesAsked(pds', x) /\ cnt'[x] = cnt[x] - Times(pds[t], x)
         /\ \A x \in Filters : Times(pds[t], x) \in Nat /\ cnt[x] \in Nat
         /\ \A u \in Threads : pds'[u] = <<>> \/ pds'[u] = pds[u]
<1>1. /\ ioq' = Unlink(ioq, t) /\ pds' = With(pds, t, <<>>)
      /\ cnt' = [x \in Filters |-> cnt[x] - Times(pds[t], x)]
  BY KqueueSame DEF Kqueue!Dequeue, Kqueue!Uncount, With
<1>2. /\ Queued(PollSets["kqueue"], ioq', pds') /\ pds'[t] = <<>>
      /\ \A u \in Threads : u # t => pds'[u] = pds[u]
  <2>1. Queued(PollSets["kqueue"], ioq, pds)
    BY DEF KqueueInv
  <2>2. LET r == Unlink(ioq, t)
            g == With(pds, t, <<>>)
        IN
        /\ Queued(PollSets["kqueue"], r, g) /\ g[t] = <<>>
        /\ \A u \in Threads : u # t => g[u] = pds[u]
    BY <2>1, QueuedDel
  <2> QED BY <1>1, <2>2
<1>3. pds \in Waits
  BY KqueueFacts DEF KqueueInv
<1>4. ASSUME NEW x \in Filters
      PROVE  /\ cnt'[x] \in Nat /\ cnt'[x] = TimesAsked(pds', x)
             /\ cnt'[x] = cnt[x] - Times(pds[t], x)
             /\ Times(pds[t], x) \in Nat /\ cnt[x] \in Nat
  <2>1. /\ TimesAsked(With(pds, t, <<>>), x) = TimesAsked(pds, x) - Times(pds[t], x)
        /\ TimesAsked(With(pds, t, <<>>), x) \in Nat /\ TimesAsked(pds, x) \in Nat
        /\ Times(pds[t], x) \in Nat
    BY <1>3, AskedDown
  <2>2. cnt[x] = TimesAsked(pds, x)
    BY DEF KqueueInv
  <2>3. cnt'[x] = cnt[x] - Times(pds[t], x)
    BY <1>1
  <2> QED BY <1>1, <2>1, <2>2, <2>3
<1>5. cnt' \in [Filters -> Nat]
  BY <1>1, <1>4
<1>6. Queued(PollSets["kqueue"], ioq, pds)'
  BY <1>2
<1>7. \A u \in Threads : pds'[u] = <<>> \/ pds'[u] = pds[u]
  BY <1>2
<1> QED BY <1>1, <1>4, <1>5, <1>6, <1>7

(* What deletion takes out of the kernel's queue.                          *)
LEMMA KqueueDelete ==
  ASSUME NEW gone, Kqueue!Delete(gone)
  PROVE  kq' \subseteq kq /\ kq \ kq' \subseteq gone
BY DEF Kqueue!Delete

(* What was waited for and not deleted is still secured.                   *)
LEMMA SecuredLess ==
  ASSUME NEW f, NEW k, NEW r, Secured(f, k, r), NEW g, NEW j,
         \A t \in Threads : g[t] = <<>> \/ g[t] = f[t],
         \A t \in Threads : \A x \in Pairs(g[t]) : x \in k => x \in j
  PROVE  Secured(g, j, r)
<1> SUFFICES ASSUME NEW t \in Threads, NEW x \in Pairs(g[t])
             PROVE  x \in j \/ r[x[1]] \cap ({x[2]} \cup Unasked) # {}
  BY DEF Secured
<1>1. g[t] = f[t]
  BY NothingAsked
<1>2. x \in k \/ r[x[1]] \cap ({x[2]} \cup Unasked) # {}
  BY <1>1 DEF Secured
<1> QED BY <1>2

LEMMA KqueueDel ==
  ASSUME KqueueInv, NEW t \in Threads, Kqueue!pollset_del(t)
  PROVE  KqueueInv'
<1> DEFINE gone == Kqueue!Unused(pds[t])
<1>1. /\ loop = "none" /\ pds[t] # <<>> /\ Kqueue!Dequeue(t) /\ Kqueue!Uncount(pds[t])
      /\ Kqueue!Delete(gone)
      /\ UNCHANGED <<addlist, addcnt, size, open, forks, stale, happened, revents,
                     dellist, loop, scan>>
  BY DEF Kqueue!pollset_del, Kqueue!addVars, Kqueue!loopVars, Kqueue!procVars
<1>2. /\ Queued(PollSets["kqueue"], ioq, pds)'
      /\ cnt' \in [Filters -> Nat]
      /\ \A x \in Filters : cnt'[x] = TimesAsked(pds', x) /\ cnt'[x] = cnt[x] - Times(pds[t], x)
      /\ \A x \in Filters : Times(pds[t], x) \in Nat /\ cnt[x] \in Nat
      /\ \A u \in Threads : pds'[u] = <<>> \/ pds'[u] = pds[u]
  BY <1>1, KqueueUncount
<1>3. \A x \in gone : x \in Filters => cnt'[x] = 0
  <2> SUFFICES ASSUME NEW x \in gone, x \in Filters PROVE cnt'[x] = 0
    OBVIOUS
  <2>1. cnt[x] <= Times(pds[t], x)
    BY KqueueSame DEF Kqueue!Unused
  <2>2. cnt'[x] = cnt[x] - Times(pds[t], x) /\ cnt'[x] \in Nat
    BY <1>2
  <2> QED BY <1>2, <2>1, <2>2
<1> HIDE DEF gone
<1>4. \A u \in Threads : Descriptors(pds'[u]) \subseteq open /\ Pairs(pds'[u]) \subseteq Filters
  <2>1. Descriptors(<<>>) = {} /\ Pairs(<<>>) = {}
    BY NothingAsked
  <2> QED BY <1>2, <2>1 DEF KqueueInv
<1>5. kq' \subseteq kq /\ kq \ kq' \subseteq gone
  BY <1>1, KqueueDelete
<1>6. pds' \in Waits
  <2>1. PollSets["kqueue"] \subseteq Seq(Entries) \ {<<>>}
    BY KqueueConstants
  <2> QED BY <1>2, <2>1, QueuedWaits
<1>7. ~stale => Secured(pds', kq' \cup addlist, revents)
  <2> SUFFICES ASSUME ~stale PROVE Secured(pds', kq' \cup addlist, revents)
    OBVIOUS
  <2>1. Secured(pds, kq \cup addlist, revents)
    BY DEF KqueueInv
  <2>2. ASSUME NEW u \in Threads, NEW x \in Pairs(pds'[u]), x \in kq \cup addlist
        PROVE  x \in kq' \cup addlist
    <3>1. x \in Filters /\ x \in Fds \X Events
      BY <1>4, KqueueConstants
    <3>2. TimesAsked(pds', x) # 0
      BY <1>6, <3>1, AskedNone
    <3>3. x \notin gone
      BY <1>2, <1>3, <3>1, <3>2
    <3> QED BY <1>5, <2>2, <3>3
  <2> QED BY <1>2, <2>1, <2>2, SecuredLess
<1>8. (~stale => Secured(pds, kq \cup addlist, revents))'
  BY <1>1, <1>7
<1>9. LoopDone'
  BY <1>1, NothingHappens, KqueueQuiet
<1>10. dellist' = {}
  BY <1>1 DEF KqueueInv
<1>11. /\ kq' \subseteq Filters /\ open' \subseteq Fds /\ forks' \in 0..MaxForks
       /\ stale' \in BOOLEAN /\ happened' \subseteq AllEvents /\ scan' \in Nat \ {0}
       /\ addlist' \subseteq Filters /\ addcnt' \in 0..MaxAdds
       /\ size' \in Nat \ {0} /\ addcnt' <= size'
       /\ revents' = [fd \in Fds |-> {e \in Events \cup Unasked : <<fd, e>> \in happened'}]
  BY <1>1, <1>5 DEF KqueueInv
<1>12. (\A u \in Threads : Descriptors(pds[u]) \subseteq open /\ Pairs(pds[u]) \subseteq Filters)'
  BY <1>1, <1>4
<1>13. (\A x \in Filters : cnt[x] = TimesAsked(pds, x))'
  BY <1>2
<1> QED BY <1>1, <1>2, <1>8, <1>9, <1>10, <1>11, <1>12, <1>13 DEF KqueueInv

(* What the process waits for in the end.                                  *)
KqNow == IF stale THEN Kqueue!Rebuilt ELSE Kqueue!Lists

LEMMA KqueueNow ==
  ASSUME KqueueInv, loop = "none"
  PROVE  /\ KqNow \in KqLists
         /\ \A x \in Filters : KqNow.cnt[x] = TimesAsked(pds, x)
         /\ \A t \in Threads : Pairs(pds[t]) \subseteq (IF stale THEN {} ELSE kq) \cup KqNow.addlist
<1>1. CASE stale
  <2>1. /\ Queued(PollSets["kqueue"], ioq, pds) /\ size \in Nat \ {0}
        /\ \A t \in Threads : Pairs(pds[t]) \subseteq Filters
    BY DEF KqueueInv
  <2>2. KqNow = Kqueue!Rebuilt
    BY <1>1 DEF KqNow
  <2>3. /\ Kqueue!Rebuilt \in KqLists
        /\ \A x \in Filters : Kqueue!Rebuilt.cnt[x] = TimesAsked(pds, x)
        /\ \A t \in Threads : Pairs(pds[t]) \subseteq Kqueue!Rebuilt.addlist
    BY <2>1, KqRebuiltIs
  <2> QED BY <1>1, <2>2, <2>3
<1>2. CASE ~stale
  <2>1. KqNow = Kqueue!Lists
    BY <1>2 DEF KqNow
  <2>2. Kqueue!Lists \in KqLists /\ Kqueue!Lists.cnt = cnt /\ Kqueue!Lists.addlist = addlist
    BY DEF KqueueInv, Kqueue!Lists, KqLists
  <2>3. \A t \in Threads : Pairs(pds[t]) \subseteq kq \cup addlist
    BY <1>2, KqueueQuiet
  <2> QED BY <1>2, <2>1, <2>2, <2>3 DEF KqueueInv
<1> QED BY <1>1, <1>2

LEMMA KqueueDispatch == KqueueInv /\ Kqueue!dispatch_wait => KqueueInv'
<1> SUFFICES ASSUME KqueueInv, Kqueue!dispatch_wait PROVE KqueueInv'
  OBVIOUS
<1> DEFINE now == KqNow
           old == IF stale THEN {} ELSE kq
           bad == {x \in now.addlist : x[1] \in Refused \/ x[1] \notin open}
           all == old \cup (now.addlist \ bad)
<1>1. /\ loop = "none" /\ stale' = FALSE /\ cnt' = now.cnt /\ addlist' = {} /\ addcnt' = 0
      /\ size' = now.size
      /\ revents' = [fd \in Fds |-> {x[2] : x \in {y \in happened' : y[1] = fd}}]
      /\ loop' = (IF happened' = {} THEN "return" ELSE "notify") /\ scan' = 1
      /\ UNCHANGED <<ioq, pds, open, forks, dellist>>
  BY DEF Kqueue!dispatch_wait, KqNow
<1>2. PICK fired \in IF bad # {} THEN {bad} ELSE SUBSET all :
        /\ kq' = all \ fired
        /\ happened' = fired \cup {<<x[1], Kqueue!Failure(x[1])>> : x \in bad}
  BY DEF Kqueue!dispatch_wait, KqNow
<1>3. /\ now \in KqLists
      /\ \A x \in Filters : now.cnt[x] = TimesAsked(pds, x)
      /\ \A t \in Threads : Pairs(pds[t]) \subseteq old \cup now.addlist
  BY <1>1, KqueueNow
<1>4. /\ now.addlist \subseteq Filters /\ now.cnt \in [Filters -> Nat] /\ now.size \in Nat \ {0}
  BY <1>3 DEF KqLists
<1> HIDE DEF now
<1>5. old \subseteq Filters /\ bad \subseteq Filters /\ all \subseteq Filters
  BY <1>4 DEF KqueueInv
<1>6. fired \subseteq Filters /\ (bad # {} => fired = bad) /\ (bad = {} => fired \subseteq all)
  BY <1>2, <1>5
<1>7. \A fd : Kqueue!Failure(fd) \in Unasked
  BY DEF Kqueue!Failure, Unasked
<1>8. happened' \subseteq AllEvents
  <2> SUFFICES ASSUME NEW y \in happened' PROVE y \in AllEvents
    OBVIOUS
  <2>1. CASE y \in fired
    <3>1. y \in Fds \X Events
      BY <1>6, <2>1, KqueueConstants
    <3> QED BY <3>1 DEF AllEvents
  <2>2. CASE y \notin fired
    <3>1. PICK x \in bad : y = <<x[1], Kqueue!Failure(x[1])>>
      BY <1>2, <2>2
    <3>2. x[1] \in Fds
      BY <1>5 DEF Filters
    <3> QED BY <1>7, <3>1, <3>2 DEF AllEvents
  <2> QED BY <2>1, <2>2
<1>9. revents' = [fd \in Fds |-> {e \in Events \cup Unasked : <<fd, e>> \in happened'}]
  <2>1. ASSUME NEW fd \in Fds
        PROVE  {x[2] : x \in {y \in happened' : y[1] = fd}} =
               {e \in Events \cup Unasked : <<fd, e>> \in happened'}
    <3>1. \A x \in happened' : x = <<x[1], x[2]>> /\ x[2] \in Events \cup Unasked
      BY <1>8 DEF AllEvents
    <3> QED BY <3>1
  <2> QED BY <1>1, <2>1
<1>10. \A x \in Filters : x[1] \in Fds /\ x = <<x[1], x[2]>> /\ x[2] \in Events
  BY DEF Filters, Events
<1>11. Secured(pds, kq', revents')
  <2> SUFFICES ASSUME NEW t \in Threads, NEW x \in Pairs(pds[t]), x \notin kq'
               PROVE  revents'[x[1]] \cap ({x[2]} \cup Unasked) # {}
    BY DEF Secured
  <2>1. x \in Filters /\ x \in old \cup now.addlist
    BY <1>3 DEF KqueueInv
  <2>2. x[1] \in Fds /\ x = <<x[1], x[2]>> /\ x[2] \in Events
    BY <1>10, <2>1
  <2>3. \A e \in Events \cup Unasked : <<x[1], e>> \in happened' => e \in revents'[x[1]]
    BY <1>9, <2>2
  <2>4. CASE x \in fired
    <3>1. <<x[1], x[2]>> \in happened'
      BY <1>2, <2>2, <2>4
    <3> QED BY <2>2, <2>3, <3>1
  <2>5. CASE x \in bad
    <3>1. <<x[1], Kqueue!Failure(x[1])>> \in happened'
      BY <1>2, <2>5
    <3> QED BY <1>7, <2>3, <3>1
  <2>6. x \in fired \/ x \in bad
    BY <1>2, <2>1
  <2> QED BY <2>4, <2>5, <2>6
<1>12. (~stale => Secured(pds, kq \cup addlist, revents))'
  <2>1. kq' \cup addlist' = kq' /\ pds' = pds
    BY <1>1
  <2> QED BY <1>11, <2>1
<1>13. LoopDone'
  <2>1. loop' # "none" /\ (loop' = "return" => \A t \in Threads : ~Concerned(pds'[t], happened'))
    BY <1>1, NoConcern
  <2> QED BY <1>1, <2>1, BeginLoop
<1>14. kq' \subseteq Filters
  BY <1>2, <1>5
<1>15. dellist = {}
  BY <1>1 DEF KqueueInv
<1>16. /\ Queued(PollSets["kqueue"], ioq, pds)' /\ open' \subseteq Fds /\ forks' \in 0..MaxForks
       /\ (\A t \in Threads : Descriptors(pds[t]) \subseteq open /\ Pairs(pds[t]) \subseteq Filters)'
  BY <1>1 DEF KqueueInv
<1>17. (\A x \in Filters : cnt[x] = TimesAsked(pds, x))' /\ cnt' \in [Filters -> Nat]
  BY <1>1, <1>3, <1>4
<1>18. /\ addlist' \subseteq Filters /\ addcnt' \in 0..MaxAdds /\ size' \in Nat \ {0}
       /\ addcnt' <= size' /\ dellist' = {} /\ loop' \in {"none", "notify", "return"}
       /\ scan' \in Nat \ {0} /\ stale' \in BOOLEAN /\ ~stale' /\ addlist' = {}
  <2>1. addcnt' \in 0..MaxAdds /\ size' \in Nat \ {0} /\ addcnt' <= size'
    <3>1. MaxAdds \in Nat
      BY KqueueConstants
    <3> QED BY <1>1, <1>4, <3>1
  <2>2. addlist' \subseteq Filters /\ dellist' = {} /\ addlist' = {} /\ scan' \in Nat \ {0}
    BY <1>1, <1>15
  <2>3. stale' \in BOOLEAN /\ ~stale'
    BY <1>1
  <2>4. loop' \in {"none", "notify", "return"}
    BY <1>1
  <2> QED BY <2>1, <2>2, <2>3, <2>4
<1> QED BY <1>8, <1>9, <1>12, <1>13, <1>14, <1>16, <1>17, <1>18 DEF KqueueInv

(* What the loop stores for a pollq is what has happened of its events.    *)
LEMMA KqueueSlice ==
  ASSUME KqueueInv, NEW p \in Seq(Entries)
  PROVE  /\ Kqueue!LoopRevents(p) = Revents(p, happened)
         /\ Kqueue!Notified(p) <=> Concerned(p, happened)
<1>1. DOMAIN p = 1..Len(p) /\ \A i \in 1..Len(p) : p[i].fd \in Fds /\ p[i].events \subseteq Events
  BY PollSetFacts
<1>2. \A i \in DOMAIN p :
        revents[p[i].fd] \cap (p[i].events \cup Unasked) = Hits(p[i], happened)
  <2> TAKE i \in DOMAIN p
  <2>1. revents[p[i].fd] = {e \in Events \cup Unasked : <<p[i].fd, e>> \in happened}
    BY <1>1 DEF KqueueInv
  <2> QED BY <1>1, <2>1 DEF Hits
<1>3. Kqueue!LoopRevents(p) = Revents(p, happened)
  BY <1>2, KqueueSame DEF Kqueue!LoopRevents, Revents
<1>4. Kqueue!Notified(p) <=> Concerned(p, happened)
  BY <1>3 DEF Kqueue!Notified, Concerned, Revents
<1> QED BY <1>3, <1>4

LEMMA KqueueNotify == KqueueInv /\ Kqueue!dispatch_notify => KqueueInv'
<1> SUFFICES ASSUME KqueueInv, Kqueue!dispatch_notify PROVE KqueueInv'
  OBVIOUS
<1> DEFINE t == ioq[scan]
<1>1. /\ loop = "notify" /\ scan <= Len(ioq)
      /\ Kqueue!Dequeue(t) /\ Kqueue!Uncount(pds[t])
      /\ dellist' = dellist \cup {x \in Kqueue!Unused(pds[t]) : x[2] \notin revents[x[1]]}
      /\ UNCHANGED <<kq, addlist, addcnt, size, open, forks, stale, happened, revents, loop, scan>>
  BY DEF Kqueue!dispatch_notify, Kqueue!InLoop, Kqueue!addVars, Kqueue!procVars
<1>2. t \in Threads /\ pds[t] # <<>> /\ pds[t] \in Seq(Entries)
  <2>1. Queued(PollSets["kqueue"], ioq, pds) /\ scan \in Nat \ {0}
    BY DEF KqueueInv
  <2>2. Len(ioq) \in Nat /\ \A i \in 1..Len(ioq) : ioq[i] \in Threads /\ pds[ioq[i]] # <<>>
    BY <2>1, KqueueFacts
  <2>3. scan \in 1..Len(ioq)
    BY <1>1, <2>1, <2>2
  <2>4. \A u \in Threads : pds[u] \in Seq(Entries)
    BY <2>1, KqueueFacts
  <2> QED BY <2>2, <2>3, <2>4
<1>3. /\ ioq' = Unlink(ioq, t) /\ pds' = With(pds, t, <<>>)
      /\ Queued(PollSets["kqueue"], ioq, pds)'
      /\ cnt' \in [Filters -> Nat]
      /\ \A x \in Filters : cnt'[x] = TimesAsked(pds', x) /\ cnt'[x] = cnt[x] - Times(pds[t], x)
      /\ \A x \in Filters : Times(pds[t], x) \in Nat /\ cnt[x] \in Nat
      /\ \A u \in Threads : pds'[u] = <<>> \/ pds'[u] = pds[u]
  BY <1>1, <1>2, KqueueUncount
<1>4. LoopDone'
  <2>1. /\ LoopDone /\ PollSets["kqueue"] \subseteq Seq(Entries) \ {<<>>}
        /\ Queued(PollSets["kqueue"], ioq, pds) /\ scan \in Nat \ {0}
    BY KqueueConstants DEF KqueueInv
  <2> QED BY <1>1, <1>3, <2>1, NotifyLoop
<1>5. \A x \in dellist' : x \in Filters /\ cnt'[x] = 0
  <2> SUFFICES ASSUME NEW x \in dellist' PROVE x \in Filters /\ cnt'[x] = 0
    OBVIOUS
  <2>1. x \in Filters /\ cnt[x] <= Times(pds[t], x)
    <3>1. CASE x \in dellist
      <4>1. x \in Filters /\ cnt[x] = 0
        BY <3>1 DEF KqueueInv
      <4> QED BY <1>3, <4>1
    <3>2. CASE x \notin dellist
      <4>1. x \in Kqueue!Unused(pds[t])
        BY <1>1, <3>2
      <4>2. x \in Pairs(pds[t]) /\ cnt[x] <= Times(pds[t], x)
        BY <4>1, KqueueSame DEF Kqueue!Unused
      <4> QED BY <1>2, <4>2 DEF KqueueInv
    <3> QED BY <3>1, <3>2
  <2>2. cnt'[x] \in Nat /\ cnt'[x] = cnt[x] - Times(pds[t], x)
    BY <1>3, <2>1
  <2> QED BY <1>3, <2>1, <2>2
<1> HIDE DEF t
<1>6. (\A u \in Threads : Descriptors(pds[u]) \subseteq open /\ Pairs(pds[u]) \subseteq Filters)'
  <2>1. Descriptors(<<>>) = {} /\ Pairs(<<>>) = {}
    BY NothingAsked
  <2>2. \A u \in Threads : Descriptors(pds'[u]) \subseteq open /\ Pairs(pds'[u]) \subseteq Filters
    BY <1>3, <2>1 DEF KqueueInv
  <2> QED BY <1>1, <2>2
<1>7. (~stale => Secured(pds, kq \cup addlist, revents))'
  <2> SUFFICES ASSUME ~stale PROVE Secured(pds', kq \cup addlist, revents)
    BY <1>1
  <2>1. Secured(pds, kq \cup addlist, revents)
    BY DEF KqueueInv
  <2> QED BY <1>3, <2>1, SecuredLess
<1>8. (\A x \in Filters : cnt[x] = TimesAsked(pds, x))'
  BY <1>3
<1>9. /\ kq' \subseteq Filters /\ open' \subseteq Fds /\ forks' \in 0..MaxForks
      /\ stale' \in BOOLEAN /\ happened' \subseteq AllEvents /\ scan' \in Nat \ {0}
      /\ addlist' \subseteq Filters /\ addcnt' \in 0..MaxAdds
      /\ size' \in Nat \ {0} /\ addcnt' <= size' /\ ~stale' /\ addlist' = {}
      /\ revents' = [fd \in Fds |-> {e \in Events \cup Unasked : <<fd, e>> \in happened'}]
  BY <1>1 DEF KqueueInv
<1> QED BY <1>1, <1>3, <1>4, <1>5, <1>6, <1>7, <1>8, <1>9 DEF KqueueInv

LEMMA KqueuePass == KqueueInv /\ Kqueue!dispatch_pass => KqueueInv'
<1> SUFFICES ASSUME KqueueInv, Kqueue!dispatch_pass PROVE KqueueInv'
  OBVIOUS
<1>1. /\ loop = "notify" /\ scan <= Len(ioq) /\ ~Kqueue!Notified(pds[ioq[scan]])
      /\ scan' = scan + 1
      /\ UNCHANGED <<ioq, pds, cnt, kq, addlist, addcnt, size, open, forks, stale, happened,
                     revents, dellist, loop>>
  BY DEF Kqueue!dispatch_pass, Kqueue!InLoop, Kqueue!addVars, Kqueue!procVars
<1>2. pds[ioq[scan]] \in Seq(Entries) /\ scan \in Nat \ {0}
  <2>1. Queued(PollSets["kqueue"], ioq, pds) /\ scan \in Nat \ {0}
    BY DEF KqueueInv
  <2>2. Len(ioq) \in Nat /\ \A i \in 1..Len(ioq) : ioq[i] \in Threads
    BY <2>1, KqueueFacts
  <2>3. scan \in 1..Len(ioq)
    BY <1>1, <2>1, <2>2
  <2>4. \A u \in Threads : pds[u] \in Seq(Entries)
    BY <2>1, KqueueFacts
  <2> QED BY <2>1, <2>2, <2>3, <2>4
<1>3. ~Concerned(pds[ioq[scan]], happened)
  BY <1>1, <1>2, KqueueSlice
<1>4. LoopDone'
  <2>1. LoopDone
    BY DEF KqueueInv
  <2> QED BY <1>1, <1>2, <1>3, <2>1, PassLoop
<1>5. scan' \in Nat \ {0}
  BY <1>1, <1>2
<1>6. /\ Queued(PollSets["kqueue"], ioq, pds)'
      /\ (\A t \in Threads : Descriptors(pds[t]) \subseteq open /\ Pairs(pds[t]) \subseteq Filters)'
      /\ (\A x \in Filters : cnt[x] = TimesAsked(pds, x))'
      /\ (~stale => Secured(pds, kq \cup addlist, revents))'
      /\ revents' = [fd \in Fds |-> {e \in Events \cup Unasked : <<fd, e>> \in happened'}]
      /\ \A x \in dellist' : cnt'[x] = 0
  BY <1>1 DEF KqueueInv
<1>7. /\ cnt' \in [Filters -> Nat] /\ kq' \subseteq Filters /\ addlist' \subseteq Filters
      /\ dellist' \subseteq Filters /\ addcnt' \in 0..MaxAdds /\ size' \in Nat \ {0}
      /\ addcnt' <= size' /\ open' \subseteq Fds /\ forks' \in 0..MaxForks /\ stale' \in BOOLEAN
      /\ happened' \subseteq AllEvents /\ loop' = "notify" /\ ~stale' /\ addlist' = {}
  BY <1>1 DEF KqueueInv
<1> QED BY <1>4, <1>5, <1>6, <1>7 DEF KqueueInv

LEMMA KqueueReturn == KqueueInv /\ Kqueue!dispatch_return => KqueueInv'
<1> SUFFICES ASSUME KqueueInv, Kqueue!dispatch_return PROVE KqueueInv'
  OBVIOUS
<1>1. /\ loop = "return" \/ (loop = "notify" /\ scan > Len(ioq))
      /\ Kqueue!Delete(dellist)
      /\ dellist' = {} /\ happened' = {} /\ revents' = [fd \in Fds |-> {}]
      /\ loop' = "none" /\ scan' = 1
      /\ UNCHANGED <<ioq, pds, cnt, addlist, addcnt, size, open, forks, stale>>
  BY DEF Kqueue!dispatch_return, Kqueue!NoRevents, Kqueue!addVars, Kqueue!procVars
<1>2. kq' \subseteq kq /\ kq \ kq' \subseteq dellist
  BY <1>1, KqueueDelete
<1>3. \A t \in Threads : ~Concerned(pds[t], happened)
  <2>1. /\ Queued(PollSets["kqueue"], ioq, pds) /\ LoopDone /\ scan \in Nat
        /\ PollSets["kqueue"] \subseteq Seq(Entries) \ {<<>>}
    BY KqueueConstants DEF KqueueInv
  <2> QED BY <1>1, <2>1, AllPassed
<1>4. addlist = {} /\ ~stale
  BY <1>1 DEF KqueueInv
<1>5. ASSUME NEW t \in Threads, NEW x \in Pairs(pds[t]) PROVE x \in kq'
  <2>1. x \in Filters /\ x \in Fds \X Events /\ x = <<x[1], x[2]>> /\ x[1] \in Fds
    BY KqueueConstants DEF KqueueInv, Filters
  <2>2. pds[t] \in Seq(Entries)
    BY KqueueFacts DEF KqueueInv
  <2>3. PICK i \in 1..Len(pds[t]) : pds[t][i].fd = x[1] /\ x[2] \in pds[t][i].events
    BY <2>1, <2>2, TimesPairs
  <2>4. Hits(pds[t][i], happened) = {}
    <3>1. DOMAIN pds[t] = 1..Len(pds[t])
      BY <2>2
    <3> QED BY <1>3, <3>1 DEF Concerned
  <2>5. revents[x[1]] \cap ({x[2]} \cup Unasked) = {}
    <3>1. revents[x[1]] = {e \in Events \cup Unasked : <<x[1], e>> \in happened}
      BY <2>1 DEF KqueueInv
    <3> QED BY <2>3, <2>4, <3>1 DEF Hits
  <2>6. x \in kq
    BY <1>4, <2>5 DEF KqueueInv, Secured
  <2>7. cnt[x] # 0
    BY <2>1, KqueueAsked
  <2>8. x \notin dellist
    BY <2>7 DEF KqueueInv
  <2> QED BY <1>2, <2>6, <2>8
<1>6. (~stale => Secured(pds, kq \cup addlist, revents))'
  <2>1. Secured(pds, kq' \cup addlist', revents')
    BY <1>5 DEF Secured
  <2> QED BY <1>1, <2>1
<1>7. LoopDone'
  BY <1>1, NothingHappens
<1>8. revents' = [fd \in Fds |-> {e \in Events \cup Unasked : <<fd, e>> \in happened'}]
  <2>1. \A fd : {e \in Events \cup Unasked : <<fd, e>> \in {}} = {}
    OBVIOUS
  <2> QED BY <1>1, <2>1
<1>9. /\ Queued(PollSets["kqueue"], ioq, pds)'
      /\ (\A t \in Threads : Descriptors(pds[t]) \subseteq open /\ Pairs(pds[t]) \subseteq Filters)'
      /\ (\A x \in Filters : cnt[x] = TimesAsked(pds, x))'
  BY <1>1 DEF KqueueInv
<1>10. /\ cnt' \in [Filters -> Nat] /\ kq' \subseteq Filters /\ addlist' \subseteq Filters
       /\ addcnt' \in 0..MaxAdds /\ size' \in Nat \ {0}
       /\ addcnt' <= size' /\ open' \subseteq Fds /\ forks' \in 0..MaxForks /\ stale' \in BOOLEAN
       /\ happened' \subseteq AllEvents
  BY <1>1, <1>2 DEF KqueueInv
<1> QED BY <1>1, <1>6, <1>7, <1>8, <1>9, <1>10 DEF KqueueInv

(* Nobody waits for a descriptor that is not in use.                       *)
LEMMA KqueueUnused ==
  ASSUME KqueueInv, NEW fd \in Fds, ~Kqueue!InUse(fd)
  PROVE  \A t \in Threads : fd \notin Descriptors(pds[t])
<1> SUFFICES ASSUME NEW t \in Threads, fd \in Descriptors(pds[t]) PROVE FALSE
  OBVIOUS
<1>1. pds[t] \in Seq(Entries)
  BY KqueueFacts DEF KqueueInv
<1>2. PICK i \in 1..Len(pds[t]) : pds[t][i].fd = fd
  BY <1>1, PollSetFacts
<1>3. PICK e \in pds[t][i].events : TRUE
  BY <1>1, PollSetFacts
<1>4. <<fd, e>> \in Pairs(pds[t])
  BY <1>1, <1>2, PairIn
<1>5. <<fd, e>> \in Filters
  BY <1>4 DEF KqueueInv
<1>6. cnt[<<fd, e>>] # 0
  BY <1>4, <1>5, KqueueAsked
<1>7. e = "IN" \/ e = "OUT"
  BY <1>5 DEF Filters
<1> QED BY <1>6, <1>7 DEF Kqueue!InUse

LEMMA KqueueOpenClose ==
  ASSUME KqueueInv, NEW fd \in Fds, Kqueue!fd_close(fd) \/ Kqueue!fd_open(fd)
  PROVE  KqueueInv'
<1>1. /\ loop = "none" /\ open' \subseteq Fds /\ kq' \subseteq kq
      /\ UNCHANGED <<ioq, pds, cnt, addlist, addcnt, size, forks, stale, happened, revents,
                     dellist, loop, scan>>
  BY DEF Kqueue!fd_close, Kqueue!fd_open, Kqueue!loopVars, Kqueue!addVars, KqueueInv
<1>2. \A t \in Threads : /\ Descriptors(pds[t]) \subseteq open'
                         /\ \A x \in Pairs(pds[t]) : x \in kq => x \in kq'
  <2>1. CASE Kqueue!fd_open(fd)
    BY <2>1 DEF Kqueue!fd_open, KqueueInv
  <2>2. CASE Kqueue!fd_close(fd)
    <3>1. open' = open \ {fd} /\ kq' = {x \in kq : x[1] # fd} /\ ~Kqueue!InUse(fd)
      BY <2>2 DEF Kqueue!fd_close
    <3>2. \A t \in Threads : fd \notin Descriptors(pds[t]) /\ pds[t] \in Seq(Entries)
      BY <3>1, KqueueUnused, KqueueFacts DEF KqueueInv
    <3>3. \A t \in Threads : \A x \in Pairs(pds[t]) : x[1] # fd
      BY <3>2, PollSetFacts
    <3> QED BY <3>1, <3>2, <3>3 DEF KqueueInv
  <2> QED BY <2>1, <2>2
<1>3. (~stale => Secured(pds, kq \cup addlist, revents))'
  <2> SUFFICES ASSUME ~stale PROVE Secured(pds, kq' \cup addlist, revents)
    BY <1>1
  <2>1. Secured(pds, kq \cup addlist, revents)
    BY DEF KqueueInv
  <2> QED BY <1>2, <2>1, SecuredLess
<1>4. LoopDone'
  BY <1>1, NothingHappens, KqueueQuiet
<1>5. /\ Queued(PollSets["kqueue"], ioq, pds)'
      /\ (\A x \in Filters : cnt[x] = TimesAsked(pds, x))'
      /\ revents' = [f \in Fds |-> {e \in Events \cup Unasked : <<f, e>> \in happened'}]
      /\ dellist' = {}
  BY <1>1 DEF KqueueInv
<1>6. (\A t \in Threads : Descriptors(pds[t]) \subseteq open /\ Pairs(pds[t]) \subseteq Filters)'
  <2>1. \A t \in Threads : Pairs(pds[t]) \subseteq Filters
    BY DEF KqueueInv
  <2> QED BY <1>1, <1>2, <2>1
<1>7. /\ cnt' \in [Filters -> Nat] /\ kq' \subseteq Filters /\ addlist' \subseteq Filters
      /\ addcnt' \in 0..MaxAdds /\ size' \in Nat \ {0}
      /\ addcnt' <= size' /\ forks' \in 0..MaxForks /\ stale' \in BOOLEAN
      /\ happened' \subseteq AllEvents /\ scan' \in Nat \ {0}
  BY <1>1 DEF KqueueInv
<1> QED BY <1>1, <1>3, <1>4, <1>5, <1>6, <1>7 DEF KqueueInv

LEMMA KqueueFork == KqueueInv /\ Kqueue!fork => KqueueInv'
<1> SUFFICES ASSUME KqueueInv, Kqueue!fork PROVE KqueueInv'
  OBVIOUS
<1>1. /\ loop = "none" /\ forks < MaxForks /\ forks' = forks + 1 /\ stale' = TRUE /\ kq' = {}
      /\ UNCHANGED <<ioq, pds, cnt, addlist, addcnt, size, open, happened, revents,
                     dellist, loop, scan>>
  BY DEF Kqueue!fork, Kqueue!addVars, Kqueue!loopVars
<1>2. LoopDone'
  BY <1>1, NothingHappens, KqueueQuiet
<1>3. forks' \in 0..MaxForks
  BY <1>1, KqueueConstants DEF KqueueInv
<1>4. /\ Queued(PollSets["kqueue"], ioq, pds)'
      /\ (\A x \in Filters : cnt[x] = TimesAsked(pds, x))'
      /\ revents' = [f \in Fds |-> {e \in Events \cup Unasked : <<f, e>> \in happened'}]
      /\ dellist' = {}
      /\ (\A t \in Threads : Descriptors(pds[t]) \subseteq open /\ Pairs(pds[t]) \subseteq Filters)'
  BY <1>1 DEF KqueueInv
<1>5. /\ cnt' \in [Filters -> Nat] /\ kq' \subseteq Filters /\ addlist' \subseteq Filters
      /\ addcnt' \in 0..MaxAdds /\ size' \in Nat \ {0}
      /\ addcnt' <= size' /\ open' \subseteq Fds
      /\ happened' \subseteq AllEvents /\ scan' \in Nat \ {0}
  BY <1>1 DEF KqueueInv
<1>6. stale' \in BOOLEAN /\ stale'
  BY <1>1
<1> QED BY <1>1, <1>2, <1>3, <1>4, <1>5, <1>6 DEF KqueueInv

LEMMA KqueueNext == KqueueInv /\ Kqueue!Next => KqueueInv'
BY KqueueAdd, KqueueDel, KqueueDispatch, KqueueNotify, KqueuePass, KqueueReturn,
   KqueueOpenClose, KqueueFork
   DEF Kqueue!Next

(* What the run checks of the kqueue event system.                         *)
LEMMA KqueueChecks ==
  KqueueInv => /\ Kqueue!TypeOK /\ Kqueue!CountsExact /\ Kqueue!NothingMissed
               /\ Kqueue!AddlistFits /\ Kqueue!WaitedOpen
<1> SUFFICES ASSUME KqueueInv
             PROVE  /\ Kqueue!TypeOK /\ Kqueue!CountsExact /\ Kqueue!NothingMissed
                    /\ Kqueue!AddlistFits /\ Kqueue!WaitedOpen
  OBVIOUS
<1>1. revents \in [Fds -> SUBSET (Events \cup Unasked)]
  BY DEF KqueueInv
<1>2. Kqueue!TypeOK
  BY <1>1, KqueueSame DEF KqueueInv, Kqueue!TypeOK, Queued
<1>3. Kqueue!CountsExact
  BY KqueueSame DEF KqueueInv, Kqueue!CountsExact
<1>4. Kqueue!NothingMissed
  BY KqueueSame, KqueueQuiet DEF Kqueue!NothingMissed
<1>5. Kqueue!AddlistFits
  BY DEF KqueueInv, Kqueue!AddlistFits
<1>6. Kqueue!WaitedOpen
  BY KqueueSame DEF KqueueInv, Kqueue!WaitedOpen
<1> QED BY <1>2, <1>3, <1>4, <1>5, <1>6

-----------------------------------------------------------------------------
(* The epoll event system.                                                 *)

LEMMA EpollSame ==
  /\ Epoll!Events = Events /\ Epoll!AllEvents = AllEvents /\ Epoll!Unasked = Unasked
  /\ \A p : Epoll!Pairs(p) = Pairs(p) /\ Epoll!Descriptors(p) = Descriptors(p)
  /\ \A p, x : Epoll!Times(p, x) = Times(p, x)
  /\ \A f, x : Epoll!TimesAsked(f, x) = TimesAsked(f, x)
  /\ \A s, t : Epoll!Unlink(s, t) = Unlink(s, t)
  /\ \A S : Epoll!Max(S) = Max(S)
  /\ \A S : Epoll!Cardinality(S) = Cardinality(S)
  /\ \A c, fd : Epoll!EpollEvents(c, fd) = Wanted(c, fd)
<1>1. Epoll!Events = Events /\ Epoll!AllEvents = AllEvents /\ Epoll!Unasked = Unasked
  BY DEF Epoll!Events, Events, Epoll!AllEvents, AllEvents, Epoll!Unasked, Unasked
<1>2. \A p : Epoll!Pairs(p) = Pairs(p) /\ Epoll!Descriptors(p) = Descriptors(p)
  BY DEF Epoll!Pairs, Pairs, Epoll!Descriptors, Descriptors
<1>3. \A p, x : Epoll!Times(p, x) = Times(p, x)
  BY DEF Epoll!Times, Times, Epoll!Cardinality, Cardinality
<1>4. \A f, x : Epoll!TimesAsked(f, x) = TimesAsked(f, x)
  BY DEF Epoll!TimesAsked, TimesAsked, Epoll!Times, Times, Epoll!Cardinality, Cardinality,
         Epoll!MapThenSumSet, MapThenSumSet, Epoll!MapThenFoldSet, MapThenFoldSet
<1>5. \A s, t : Epoll!Unlink(s, t) = Unlink(s, t)
  BY DEF Epoll!Unlink, Unlink, Epoll!RemoveAt, RemoveAt
<1>6. \A S : Epoll!Max(S) = Max(S)
  BY DEF Epoll!Max, Max
<1>7. \A S : Epoll!Cardinality(S) = Cardinality(S)
  BY DEF Epoll!Cardinality, Cardinality
<1>8. \A c, fd : Epoll!EpollEvents(c, fd) = Wanted(c, fd)
  BY DEF Epoll!EpollEvents, Wanted, Epoll!Events, Events
<1> QED BY <1>1, <1>2, <1>3, <1>4, <1>5, <1>6, <1>7, <1>8

LEMMA EpollConstants ==
  /\ PollSets["epoll"] \subseteq Seq(Entries) \ {<<>>}
  /\ EVTLIST_SIZE \in Nat \ {0} /\ 2 * MaxForks \in Nat /\ Refused \subseteq Fds
  /\ Failures \subseteq {"ERR", "HUP"} /\ IsFiniteSet(Fds)
<1>1. /\ PollSets["epoll"] \subseteq Seq(Entries) \ {<<>>}
      /\ EVTLIST_SIZE \in Nat \ {0} /\ 2 * MaxForks \in Nat /\ Refused \subseteq Fds
      /\ Failures \subseteq {"ERR", "HUP"}
  BY EventsysAssumption
     DEF EventsysAssumption, Epoll!EpollAssumption, Epoll!Entries, Entries, Epoll!Events, Events
<1>2. IsFiniteSet(Fds)
  BY EventsysAssumption DEF EventsysAssumption, Epoll!EpollAssumption, Epoll!IsFiniteSet, IsFiniteSet
<1> QED BY <1>1, <1>2

LEMMA EpollFacts ==
  ASSUME Queued(PollSets["epoll"], ioq, pds)
  PROVE  /\ PollSets["epoll"] \subseteq Seq(Entries) \ {<<>>}
         /\ ioq \in Seq(Threads) /\ Len(ioq) \in Nat /\ pds \in Waits
         /\ \A t \in Threads : pds[t] \in Seq(Entries)
         /\ \A i \in 1..Len(ioq) : ioq[i] \in Threads /\ pds[ioq[i]] # <<>>
         /\ \A t \in Threads : pds[t] # <<>> => \E i \in 1..Len(ioq) : ioq[i] = t
<1>2. PollSets["epoll"] \subseteq Seq(Entries) \ {<<>>}
  BY EpollConstants
<1>3. ioq \in Seq(Threads) /\ pds \in Waits
  BY <1>2, QueuedWaits
<1>4. \A t \in Threads : pds[t] \in Seq(Entries)
  BY <1>2, QueuedTyped
<1>5. \A i \in 1..Len(ioq) : ioq[i] \in Threads /\ pds[ioq[i]] # <<>>
  <2>1. \A i \in 1..Len(ioq) : ioq[i] \in Threads /\ ioq[i] \in ToSet(ioq)
    BY <1>3, SeqDomain
  <2> QED BY <2>1 DEF Queued
<1>6. \A t \in Threads : pds[t] # <<>> => \E i \in 1..Len(ioq) : ioq[i] = t
  BY <1>2, QueuedPlace
<1> QED BY <1>2, <1>3, <1>4, <1>5, <1>6

(* The counts of one entry, up and down, and the events wanted then.       *)
LEMMA CountedUp ==
  ASSUME NEW c \in [Fds \X Events -> Int], NEW pd \in Entries
  PROVE  LET u == Epoll!Counted(c, pd, 1) IN
         /\ u \in [Fds \X Events -> Int]
         /\ \A x \in Fds \X Events : u[x] = c[x] + One(pd, x)
         /\ \A fd \in Fds : fd # pd.fd => Wanted(u, fd) = Wanted(c, fd)
         /\ (\A x \in Fds \X Events : c[x] \in Nat) => Wanted(u, pd.fd) # {}
<1> DEFINE u == Epoll!Counted(c, pd, 1)
<1>1. u = [x \in Fds \X Events |-> IF x[1] = pd.fd /\ x[2] \in pd.events THEN c[x] + 1 ELSE c[x]]
  BY EpollSame DEF Epoll!Counted
<1> HIDE DEF u
<1>2. u \in [Fds \X Events -> Int]
  BY <1>1
<1>3. \A x \in Fds \X Events : u[x] = c[x] + One(pd, x)
  BY <1>1 DEF One
<1>4. \A fd \in Fds : fd # pd.fd => Wanted(u, fd) = Wanted(c, fd)
  <2> TAKE fd \in Fds
  <2>1. fd # pd.fd => \A e \in Events : u[<<fd, e>>] = c[<<fd, e>>]
    BY <1>1
  <2> QED BY <2>1 DEF Wanted
<1>5. ASSUME \A x \in Fds \X Events : c[x] \in Nat PROVE Wanted(u, pd.fd) # {}
  <2>1. pd.fd \in Fds /\ pd.events \subseteq Events /\ pd.events # {}
    BY DEF Entries
  <2>2. PICK e \in pd.events : TRUE
    BY <2>1
  <2> DEFINE x == <<pd.fd, e>>
  <2>3. x \in Fds \X Events /\ x[1] = pd.fd /\ x[2] = e
    BY <2>1, <2>2
  <2> HIDE DEF x
  <2>4. u[x] = c[x] + 1 /\ c[x] \in Nat
    BY <1>1, <1>5, <2>2, <2>3
  <2>5. u[x] # 0
    BY <2>4
  <2> QED BY <2>1, <2>5 DEF Wanted, x
<1> QED BY <1>2, <1>3, <1>4, <1>5 DEF u

LEMMA CountedDown ==
  ASSUME NEW c \in [Fds \X Events -> Int], NEW pd \in Entries,
         \A x \in Fds \X Events : c[x] \in Nat /\ c[x] >= One(pd, x)
  PROVE  LET u == Epoll!Counted(c, pd, -1) IN
         /\ u \in [Fds \X Events -> Int]
         /\ \A x \in Fds \X Events : u[x] = c[x] - One(pd, x) /\ u[x] \in Nat
         /\ \A fd \in Fds : fd # pd.fd => Wanted(u, fd) = Wanted(c, fd)
         /\ \A fd \in Fds : Wanted(u, fd) \subseteq Wanted(c, fd)
<1> DEFINE u == Epoll!Counted(c, pd, -1)
<1>1. u = [x \in Fds \X Events |-> IF x[1] = pd.fd /\ x[2] \in pd.events THEN c[x] + (-1) ELSE c[x]]
  BY EpollSame DEF Epoll!Counted
<1> HIDE DEF u
<1>2. u \in [Fds \X Events -> Int]
  BY <1>1
<1>3. \A x \in Fds \X Events : u[x] = c[x] - One(pd, x) /\ u[x] \in Nat
  BY <1>1 DEF One
<1>4. \A fd \in Fds : fd # pd.fd => Wanted(u, fd) = Wanted(c, fd)
  <2> TAKE fd \in Fds
  <2>1. fd # pd.fd => \A e \in Events : u[<<fd, e>>] = c[<<fd, e>>]
    BY <1>1
  <2> QED BY <2>1 DEF Wanted
<1>5. \A fd \in Fds : Wanted(u, fd) \subseteq Wanted(c, fd)
  <2> SUFFICES ASSUME NEW fd \in Fds, NEW e \in Events, u[<<fd, e>>] # 0
               PROVE  c[<<fd, e>>] # 0
    BY DEF Wanted
  <2> DEFINE x == <<fd, e>>
  <2>1. x \in Fds \X Events
    OBVIOUS
  <2> HIDE DEF x
  <2>2. u[x] = c[x] - One(pd, x) /\ u[x] \in Nat /\ One(pd, x) \in {0, 1} /\ c[x] \in Nat
    BY <1>3, <2>1 DEF One
  <2>3. u[x] # 0 => c[x] # 0
    BY <2>2
  <2> QED BY <2>3 DEF x
<1> QED BY <1>2, <1>3, <1>4, <1>5 DEF u

(* How many descriptors are of interest when that in one changes.          *)
Watched(i) == {fd \in Fds : i[fd] # {}}

LEMMA WatchedIs ==
  ASSUME NEW i \in [Fds -> SUBSET Events], NEW d \in Fds, NEW j,
         \A fd \in Fds : fd # d => j[fd] = i[fd]
  PROVE  /\ Cardinality(Watched(i)) \in Nat /\ Cardinality(Watched(j)) \in Nat
         /\ i[d] # {} /\ j[d] = {} => Cardinality(Watched(j)) = Cardinality(Watched(i)) - 1
         /\ i[d] = {} /\ j[d] # {} => Cardinality(Watched(j)) = Cardinality(Watched(i)) + 1
         /\ (i[d] = {} <=> j[d] = {}) => Cardinality(Watched(j)) = Cardinality(Watched(i))
<1>1. IsFiniteSet(Fds) /\ Watched(i) \in SUBSET Fds /\ Watched(j) \in SUBSET Fds
  BY EpollConstants DEF Watched
<1>2. /\ IsFiniteSet(Watched(i)) /\ IsFiniteSet(Watched(j))
      /\ Cardinality(Watched(i)) \in Nat /\ Cardinality(Watched(j)) \in Nat
  BY <1>1, FS_Subset, FS_CardinalityType
<1>3. d \in Watched(i) <=> i[d] # {}
  BY DEF Watched
<1>4. ASSUME i[d] # {}, j[d] = {} PROVE Cardinality(Watched(j)) = Cardinality(Watched(i)) - 1
  <2>1. Watched(j) = Watched(i) \ {d}
    BY <1>4 DEF Watched
  <2>2. Cardinality(Watched(i) \ {d}) = Cardinality(Watched(i)) - 1
    BY <1>2, <1>3, <1>4, FS_RemoveElement
  <2> QED BY <2>1, <2>2
<1>5. ASSUME i[d] = {}, j[d] # {} PROVE Cardinality(Watched(j)) = Cardinality(Watched(i)) + 1
  <2>1. Watched(j) = Watched(i) \cup {d}
    BY <1>5 DEF Watched
  <2>2. Cardinality(Watched(i) \cup {d}) = Cardinality(Watched(i)) + 1
    BY <1>2, <1>3, <1>5, FS_AddElement
  <2> QED BY <2>1, <2>2
<1>6. ASSUME i[d] = {} <=> j[d] = {} PROVE Cardinality(Watched(j)) = Cardinality(Watched(i))
  <2>1. Watched(j) = Watched(i)
    BY <1>6 DEF Watched
  <2> QED BY <2>1
<1> QED BY <1>2, <1>4, <1>5, <1>6

LEMMA RegistryIs ==
  ASSUME NEW e, NEW r
  PROVE  Registry(e, r) <=>
           /\ \A fd \in Fds : IF r[fd] = {} THEN fd \notin Refused => e.interest[fd] = Wanted(e.cnt, fd)
                              ELSE Wanted(e.cnt, fd) \subseteq e.interest[fd]
           /\ \A fd \in Refused : e.interest[fd] = {}
           /\ e.n = Cardinality(Watched(e.interest)) /\ e.n <= e.size
BY DEF Registry, Watched

(* One round of the loop that takes a pollq off.                           *)
DelChange(e, pd) ==
  /\ Wanted(Epoll!Counted(e.cnt, pd, -1), pd.fd) # Wanted(e.cnt, pd.fd)
  /\ revents[pd.fd] = {} /\ e.interest[pd.fd] # {}

LEMMA DelOneFields ==
  ASSUME NEW e \in Regs, NEW pd \in Entries
  PROVE  LET d == Epoll!DelOne(e, pd)
             new == Wanted(d.cnt, pd.fd)
         IN
         /\ d \in Regs
         /\ d.cnt = Epoll!Counted(e.cnt, pd, -1) /\ d.size = e.size
         /\ d.interest = [e.interest EXCEPT ![pd.fd] = IF DelChange(e, pd) THEN new ELSE @]
         /\ d.n = IF DelChange(e, pd) /\ new = {} THEN e.n - 1 ELSE e.n
<1> DEFINE d == Epoll!DelOne(e, pd)
           c == Epoll!Counted(e.cnt, pd, -1)
           new == Wanted(c, pd.fd)
           change == DelChange(e, pd)
<1>1. /\ e.cnt \in [Fds \X Events -> Int] /\ e.interest \in [Fds -> SUBSET Events]
      /\ e.n \in Int /\ e.size \in Nat \ {0} /\ pd.fd \in Fds
  BY DEF Regs, Entries
<1>2. d = [e EXCEPT !.cnt = c,
                    !.interest[pd.fd] = IF change THEN new ELSE @,
                    !.n = IF change /\ new = {} THEN @ - 1 ELSE @]
  BY EpollSame DEF Epoll!DelOne, DelChange
<1>3. c \in [Fds \X Events -> Int]
  <2>1. c = [x \in Fds \X Events |-> IF x[1] = pd.fd /\ x[2] \in pd.events
                                       THEN e.cnt[x] + (-1) ELSE e.cnt[x]]
    BY EpollSame DEF Epoll!Counted
  <2> QED BY <1>1, <2>1
<1>4. new \subseteq Events /\ change \in BOOLEAN
  BY DEF Wanted, DelChange
<1> HIDE DEF c, new, d, change
<1>5. /\ d.cnt = c /\ d.size = e.size
      /\ d.interest = [e.interest EXCEPT ![pd.fd] = IF change THEN new ELSE @]
      /\ d.n = IF change /\ new = {} THEN e.n - 1 ELSE e.n
      /\ d \in Regs
  <2>1. d.cnt = c /\ d.size = e.size
    BY <1>2 DEF Regs
  <2>2. d.interest = [e.interest EXCEPT ![pd.fd] = IF change THEN new ELSE @]
    BY <1>2 DEF Regs
  <2>3. d.n = IF change /\ new = {} THEN e.n - 1 ELSE e.n
    BY <1>2 DEF Regs
  <2>4. d = [cnt |-> d.cnt, interest |-> d.interest, n |-> d.n, size |-> d.size]
    BY <1>2 DEF Regs
  <2>5. d.interest \in [Fds -> SUBSET Events] /\ d.n \in Int
    BY <1>1, <1>4, <2>2, <2>3
  <2> QED BY <1>1, <1>3, <2>1, <2>2, <2>3, <2>4, <2>5 DEF Regs
<1> QED BY <1>5 DEF d, c, new, change

LEMMA DelOneIs ==
  ASSUME NEW e \in Regs, NEW pd \in Entries,
         \A x \in Fds \X Events : e.cnt[x] \in Nat /\ e.cnt[x] >= One(pd, x)
  PROVE  LET d == Epoll!DelOne(e, pd) IN
         /\ d \in Regs
         /\ \A x \in Fds \X Events : d.cnt[x] = e.cnt[x] - One(pd, x) /\ d.cnt[x] \in Nat
         /\ Registry(e, revents) => Registry(d, revents)
<1> DEFINE d == Epoll!DelOne(e, pd)
           c == Epoll!Counted(e.cnt, pd, -1)
           new == Wanted(c, pd.fd)
           change == DelChange(e, pd)
<1>1. /\ e.cnt \in [Fds \X Events -> Int] /\ e.interest \in [Fds -> SUBSET Events]
      /\ e.n \in Int /\ e.size \in Nat \ {0} /\ pd.fd \in Fds
  BY DEF Regs, Entries
<1>3. /\ c \in [Fds \X Events -> Int]
      /\ \A x \in Fds \X Events : c[x] = e.cnt[x] - One(pd, x) /\ c[x] \in Nat
      /\ \A fd \in Fds : fd # pd.fd => Wanted(c, fd) = Wanted(e.cnt, fd)
      /\ \A fd \in Fds : Wanted(c, fd) \subseteq Wanted(e.cnt, fd)
  BY <1>1, CountedDown
<1>5. /\ d.cnt = c /\ d.size = e.size
      /\ d.interest = [e.interest EXCEPT ![pd.fd] = IF change THEN new ELSE @]
      /\ d.n = IF change /\ new = {} THEN e.n - 1 ELSE e.n
      /\ d \in Regs
  BY DelOneFields
<1>2. change <=> new # Wanted(e.cnt, pd.fd) /\ revents[pd.fd] = {} /\ e.interest[pd.fd] # {}
  BY DEF DelChange
<1> HIDE DEF c, new, d, change
<1>6. /\ \A fd \in Fds : fd # pd.fd => d.interest[fd] = e.interest[fd]
      /\ d.interest[pd.fd] = IF change THEN new ELSE e.interest[pd.fd]
  BY <1>1, <1>5
<1>7. ASSUME Registry(e, revents) PROVE Registry(d, revents)
  <2>1. /\ \A fd \in Fds : IF revents[fd] = {} THEN fd \notin Refused => e.interest[fd] = Wanted(e.cnt, fd)
                           ELSE Wanted(e.cnt, fd) \subseteq e.interest[fd]
        /\ \A fd \in Refused : e.interest[fd] = {}
        /\ e.n = Cardinality(Watched(e.interest)) /\ e.n <= e.size
    BY <1>7, RegistryIs
  <2>2. \A fd \in Fds : IF revents[fd] = {} THEN fd \notin Refused => d.interest[fd] = Wanted(d.cnt, fd)
                        ELSE Wanted(d.cnt, fd) \subseteq d.interest[fd]
    <3> TAKE fd \in Fds
    <3>1. CASE fd # pd.fd
      BY <1>3, <1>5, <1>6, <2>1, <3>1
    <3>2. CASE fd = pd.fd
      <4>1. new \subseteq Wanted(e.cnt, fd) /\ new = Wanted(d.cnt, fd)
        BY <1>1, <1>3, <1>5, <3>2 DEF new
      <4>2. CASE revents[fd] = {}
        <5> SUFFICES ASSUME fd \notin Refused PROVE d.interest[fd] = Wanted(d.cnt, fd)
          BY <4>2
        <5>1. e.interest[fd] = Wanted(e.cnt, fd)
          BY <2>1, <4>2
        <5>2. change <=> new # Wanted(e.cnt, fd)
          BY <3>2, <4>1, <4>2, <5>1, <1>2
        <5> QED BY <1>6, <3>2, <4>1, <5>1, <5>2
      <4>3. CASE revents[fd] # {}
        <5>1. ~change
          BY <1>2, <3>2, <4>3
        <5>2. Wanted(e.cnt, fd) \subseteq e.interest[fd]
          BY <2>1, <4>3
        <5> QED BY <1>6, <3>2, <4>1, <4>3, <5>1, <5>2
      <4> QED BY <4>2, <4>3
    <3> QED BY <3>1, <3>2
  <2>3. \A fd \in Refused : d.interest[fd] = {}
    <3> TAKE fd \in Refused
    <3>1. fd \in Fds /\ e.interest[fd] = {}
      BY <2>1, EpollConstants
    <3>2. fd = pd.fd => ~change
      BY <1>2, <3>1
    <3> QED BY <1>6, <3>1, <3>2
  <2>4. d.n = Cardinality(Watched(d.interest)) /\ d.n <= d.size
    <3>1. \A fd \in Fds : fd # pd.fd => d.interest[fd] = e.interest[fd]
      BY <1>6
    <3>2. /\ Cardinality(Watched(e.interest)) \in Nat
          /\ e.interest[pd.fd] # {} /\ d.interest[pd.fd] = {} =>
               Cardinality(Watched(d.interest)) = Cardinality(Watched(e.interest)) - 1
          /\ (e.interest[pd.fd] = {} <=> d.interest[pd.fd] = {}) =>
               Cardinality(Watched(d.interest)) = Cardinality(Watched(e.interest))
      BY <1>1, <3>1, WatchedIs
    <3>3. CASE change /\ new = {}
      <4>1. e.interest[pd.fd] # {} /\ d.interest[pd.fd] = {}
        BY <1>2, <1>6, <3>3
      <4> QED BY <1>1, <1>5, <2>1, <3>2, <3>3, <4>1
    <3>4. CASE ~(change /\ new = {})
      <4>1. e.interest[pd.fd] = {} <=> d.interest[pd.fd] = {}
        BY <1>2, <1>6, <3>4
      <4> QED BY <1>5, <2>1, <3>2, <3>4, <4>1
    <3> QED BY <3>3, <3>4
  <2> QED BY <2>2, <2>3, <2>4, RegistryIs
<1> QED BY <1>3, <1>5, <1>7 DEF d

(* The loop that takes all entries of a pollq off.                         *)
EpDel(f, e, p, n) ==
  f = [s \in SUBSET (1..n) |->
         IF s = {} THEN e ELSE Epoll!DelOne(f[s \ {Max(s)}], p[Max(s)])]

LEMMA EpDelIs ==
  ASSUME NEW e \in Regs, NEW p \in Seq(Entries),
         \A x \in Fds \X Events : e.cnt[x] \in Nat /\ e.cnt[x] >= Times(p, x)
  PROVE  LET d == Epoll!epoll_pollset_del(e, p) IN
         /\ d \in Regs
         /\ \A x \in Fds \X Events : d.cnt[x] = e.cnt[x] - Times(p, x) /\ d.cnt[x] \in Nat
         /\ Registry(e, revents) => Registry(d, revents)
<1> DEFINE n == Len(p)
           f == CHOOSE f : EpDel(f, e, p, n)
           del(d, i) == Epoll!DelOne(d, p[i])
<1>1. n \in Nat /\ DOMAIN p = 1..n /\ \A i \in 1..n : p[i] \in Entries
  BY PollSetFacts
<1>2. ASSUME NEW d \in Regs, NEW i \in 1..n PROVE del(d, i) \in Regs
  BY <1>1, DelOneFields
<1>3. Epoll!epoll_pollset_del(e, p) = f[1..n]
  <2>1. Epoll!epoll_pollset_del(e, p) =
          (CHOOSE h : h = [s \in SUBSET DOMAIN p |->
              IF s = {} THEN e ELSE Epoll!DelOne(h[s \ {Max(s)}], p[Max(s)])])[DOMAIN p]
    BY DEF Epoll!epoll_pollset_del, Epoll!FoldLeft, Epoll!MapThenFoldSet, Epoll!Max, Max
  <2> QED BY <1>1, <2>1 DEF EpDel
<1>4. EpDel(f, e, p, n)
  <2> DEFINE g == [z \in Regs \X (1..n) |-> del(z[1], z[2])]
  <2>1. \A d \in Regs : \A i \in 1..n : g[<<d, i>>] = del(d, i)
    OBVIOUS
  <2>2. \A d \in Regs : \A i \in 1..n : g[<<d, i>>] \in Regs
    BY <1>2, <2>1
  <2> HIDE DEF g
  <2>3. PICK h \in [SUBSET (1..n) -> Regs] : FoldDef(h, g, e, n)
    BY <1>1, <2>2, FoldExists
  <2>4. h = [s \in SUBSET (1..n) |-> IF s = {} THEN e ELSE g[<<h[s \ {Max(s)}], Max(s)>>]]
    BY <2>3 DEF FoldDef
  <2>5. \A s \in SUBSET (1..n) : s # {} => Max(s) \in 1..n /\ h[s \ {Max(s)}] \in Regs
    BY <1>1, MaxIn
  <2>6. h = [s \in SUBSET (1..n) |-> IF s = {} THEN e ELSE del(h[s \ {Max(s)}], Max(s))]
    <3> HIDE DEF del
    <3> QED BY <2>1, <2>4, <2>5
  <2>7. EpDel(h, e, p, n)
    BY <2>6 DEF EpDel
  <2> QED BY <2>7
<1> HIDE DEF f
<1>5. f[{}] = e
  BY <1>4 DEF EpDel
<1>6. \A i \in 1..n : f[1..i] = Epoll!DelOne(f[1..(i - 1)], p[i])
  <2> TAKE i \in 1..n
  <2>1. /\ 1..i # {} /\ Max(1..i) = i /\ (1..i) \ {i} = 1..(i - 1)
        /\ 1..i \in SUBSET (1..n)
    BY <1>1, StagesAre
  <2> QED BY <1>4, <2>1 DEF EpDel
<1> DEFINE Good == {i \in 0..n :
             /\ f[1..i] \in Regs
             /\ \A x \in Fds \X Events : /\ f[1..i].cnt[x] = e.cnt[x] - TimesTo(p, i, x)
                                         /\ f[1..i].cnt[x] \in Nat
             /\ Registry(e, revents) => Registry(f[1..i], revents)}
<1>7. 0 \in Good
  <2>1. 1..0 = {} /\ 0 \in 0..n
    BY <1>1
  <2>2. f[1..0] = e
    BY <1>5, <2>1
  <2>3. \A x : TimesTo(p, 0, x) = 0
    BY TimesRound
  <2> QED BY <2>1, <2>2, <2>3
<1>8. ASSUME NEW i \in 1..n, i - 1 \in Good PROVE i \in Good
  <2> DEFINE d == f[1..(i - 1)]
             b == Epoll!DelOne(d, p[i])
  <2>1. /\ d \in Regs
        /\ \A x \in Fds \X Events : d.cnt[x] = e.cnt[x] - TimesTo(p, i - 1, x) /\ d.cnt[x] \in Nat
        /\ Registry(e, revents) => Registry(d, revents)
    BY <1>8
  <2>2. f[1..i] = b /\ i \in 0..n /\ p[i] \in Entries
    BY <1>1, <1>6
  <2> HIDE DEF Good, d
  <2>3. ASSUME NEW x \in Fds \X Events
        PROVE  /\ d.cnt[x] >= One(p[i], x) /\ d.cnt[x] \in Nat
               /\ d.cnt[x] - One(p[i], x) = e.cnt[x] - TimesTo(p, i, x)
    <3>1. /\ TimesTo(p, i, x) = TimesTo(p, i - 1, x) + One(p[i], x)
          /\ TimesTo(p, i, x) <= Times(p, x)
          /\ TimesTo(p, i, x) \in Nat
      BY <2>2, TimesRound
    <3>2. TimesTo(p, i - 1, x) \in Nat
      <4>1. i - 1 \in 0..Len(p)
        BY <1>1
      <4> QED BY <4>1, TimesRound
    <3>3. /\ d.cnt[x] = e.cnt[x] - TimesTo(p, i - 1, x) /\ d.cnt[x] \in Nat
          /\ e.cnt[x] \in Nat /\ e.cnt[x] >= Times(p, x)
      BY <2>1
    <3>4. Times(p, x) \in Nat /\ One(p[i], x) \in {0, 1}
      BY TimesPairs DEF One
    <3>5. One(p[i], x) \in Int
      BY <3>4
    <3>6. d.cnt[x] >= One(p[i], x)
      BY <3>1, <3>2, <3>3, <3>4, <3>5
    <3>7. d.cnt[x] - One(p[i], x) = e.cnt[x] - TimesTo(p, i, x)
      BY <3>1, <3>2, <3>3, <3>5
    <3> QED BY <3>3, <3>6, <3>7
  <2>4. /\ b \in Regs
        /\ \A x \in Fds \X Events : b.cnt[x] = d.cnt[x] - One(p[i], x) /\ b.cnt[x] \in Nat
        /\ Registry(d, revents) => Registry(b, revents)
    BY <2>1, <2>2, <2>3, DelOneIs
  <2> HIDE DEF b
  <2>5. \A x \in Fds \X Events : b.cnt[x] = e.cnt[x] - TimesTo(p, i, x) /\ b.cnt[x] \in Nat
    BY <2>3, <2>4
  <2> QED BY <2>1, <2>2, <2>4, <2>5 DEF Good
<1> HIDE DEF Good
<1>9. \A i \in 0..n : i \in Good
  BY <1>1, <1>7, <1>8, LoopInvariant
<1>10. n \in Good
  BY <1>1, <1>9
<1>11. /\ f[1..n] \in Regs
       /\ \A x \in Fds \X Events : f[1..n].cnt[x] = e.cnt[x] - TimesTo(p, n, x) /\ f[1..n].cnt[x] \in Nat
       /\ Registry(e, revents) => Registry(f[1..n], revents)
  BY <1>10 DEF Good
<1>12. \A x : TimesTo(p, n, x) = Times(p, x)
  BY TimesRound
<1> QED BY <1>3, <1>11, <1>12

(* The state of the loop that puts a pollq on, and one round of it.        *)
Adding == [e : Regs, i : Nat, failed : BOOLEAN]

AddFails(e, pd) ==
  LET old == Wanted(e.cnt, pd.fd) IN
  /\ Wanted(Epoll!Counted(e.cnt, pd, 1), pd.fd) # old
  /\ IF old = {} THEN pd.fd \in Refused ELSE e.interest[pd.fd] = {}

AddIn(e, pd) ==
  /\ ~AddFails(e, pd) /\ Wanted(e.cnt, pd.fd) = {}
  /\ Wanted(Epoll!Counted(e.cnt, pd, 1), pd.fd) # {}

AddedInterest(e, pd) ==
  LET old == Wanted(e.cnt, pd.fd)
      new == Wanted(Epoll!Counted(e.cnt, pd, 1), pd.fd)
  IN  IF AddFails(e, pd) \/ new = old \/ (old = {} /\ e.interest[pd.fd] # {})
      THEN e.interest[pd.fd] ELSE new

LEMMA AddOneFields ==
  ASSUME NEW s \in Adding, NEW pd \in Entries, ~s.failed
  PROVE  LET a == Epoll!AddOne(s, pd)
             e == s.e
         IN
         /\ a \in Adding /\ a.i = s.i + 1 /\ a.failed = AddFails(e, pd)
         /\ a.e.cnt = Epoll!Counted(e.cnt, pd, 1)
         /\ a.e.interest = [e.interest EXCEPT ![pd.fd] = AddedInterest(e, pd)]
         /\ a.e.n = IF AddIn(e, pd) THEN e.n + 1 ELSE e.n
         /\ a.e.size = IF AddIn(e, pd) /\ e.n + 1 > e.size THEN 2 * e.size ELSE e.size
<1> DEFINE a == Epoll!AddOne(s, pd)
           e == s.e
           c == Epoll!Counted(e.cnt, pd, 1)
           old == Wanted(e.cnt, pd.fd)
           new == Wanted(c, pd.fd)
           fails == AddFails(e, pd)
           b == [e EXCEPT !.cnt = c]
           r == IF fails \/ new = old THEN b
                ELSE IF old = {} THEN Epoll!Registered(b, pd.fd, new)
                ELSE Epoll!Modified(b, pd.fd, new)
<1>1. /\ e \in Regs /\ s.i \in Nat
      /\ e.cnt \in [Fds \X Events -> Int] /\ e.interest \in [Fds -> SUBSET Events]
      /\ e.n \in Int /\ e.size \in Nat \ {0} /\ pd.fd \in Fds
  BY DEF Adding, Regs, Entries
<1>2. c \in [Fds \X Events -> Int]
  BY <1>1, CountedUp
<1>3. new \subseteq Events
  BY DEF Wanted
<1>4. b.cnt = c /\ b.interest = e.interest /\ b.n = e.n /\ b.size = e.size /\ b \in Regs
  BY <1>1, <1>2 DEF Regs
<1>5. a = [e |-> r, i |-> s.i + 1, failed |-> fails]
  <2>1. old = Epoll!EpollEvents(s.e.cnt, pd.fd)
    BY EpollSame
  <2>2. new = Epoll!EpollEvents(b.cnt, pd.fd)
    BY <1>4, EpollSame
  <2>3. b = [s.e EXCEPT !.cnt = Epoll!Counted(@, pd, 1)]
    OBVIOUS
  <2>4. fails <=> new # old /\ IF old = {} THEN pd.fd \in Refused ELSE b.interest[pd.fd] = {}
    BY <1>4 DEF AddFails
  <2>5. fails = (new # old /\ IF old = {} THEN pd.fd \in Refused ELSE b.interest[pd.fd] = {})
    BY <2>4 DEF AddFails
  <2> DEFINE o == Epoll!EpollEvents(s.e.cnt, pd.fd)
             b2 == [s.e EXCEPT !.cnt = Epoll!Counted(@, pd, 1)]
             w == Epoll!EpollEvents(b2.cnt, pd.fd)
             f == /\ w # o
                  /\ IF o = {} THEN pd.fd \in Refused ELSE b2.interest[pd.fd] = {}
  <2>6. a = IF s.failed THEN s
            ELSE [e |-> IF f \/ w = o THEN b2
                        ELSE IF o = {} THEN Epoll!Registered(b2, pd.fd, w)
                        ELSE Epoll!Modified(b2, pd.fd, w),
                  i |-> s.i + 1, failed |-> f]
    BY DEF Epoll!AddOne
  <2>7. o = old /\ w = new /\ b2 = b
    BY <2>1, <2>2, <2>3
  <2> HIDE DEF b2, o, w
  <2>8. fails = f
    BY <2>5, <2>7
  <2> HIDE DEF c, old, new, fails, b, f, a
  <2> QED BY <2>6, <2>7, <2>8
<1>6. fails \in BOOLEAN /\ AddIn(e, pd) \in BOOLEAN
  BY DEF AddFails, AddIn
<1>7. /\ AddIn(e, pd) <=> ~fails /\ old = {} /\ new # {}
      /\ AddedInterest(e, pd) = IF fails \/ new = old \/ (old = {} /\ e.interest[pd.fd] # {})
                                THEN e.interest[pd.fd] ELSE new
  BY DEF AddIn, AddedInterest
<1> HIDE DEF c, old, new, fails, b
<1>8. /\ r \in Regs /\ r.cnt = c
      /\ r.interest = [e.interest EXCEPT ![pd.fd] = AddedInterest(e, pd)]
      /\ r.n = (IF AddIn(e, pd) THEN e.n + 1 ELSE e.n)
      /\ r.size = (IF AddIn(e, pd) /\ e.n + 1 > e.size THEN 2 * e.size ELSE e.size)
  <2>1. CASE fails \/ new = old
    <3>1. r = b /\ ~AddIn(e, pd) /\ AddedInterest(e, pd) = e.interest[pd.fd]
      BY <1>7, <2>1
    <3>2. [e.interest EXCEPT ![pd.fd] = e.interest[pd.fd]] = e.interest
      BY <1>1
    <3> QED BY <1>4, <3>1, <3>2
  <2>2. CASE ~(fails \/ new = old) /\ old = {}
    <3>1. r = Epoll!Registered(b, pd.fd, new) /\ AddIn(e, pd)
      BY <1>7, <2>2
    <3>2. r = [b EXCEPT !.interest[pd.fd] = IF @ = {} THEN new ELSE @,
                        !.n = @ + 1,
                        !.size = IF b.n + 1 > @ THEN 2 * @ ELSE @]
      BY <3>1 DEF Epoll!Registered
    <3>3. AddedInterest(e, pd) = IF e.interest[pd.fd] = {} THEN new ELSE e.interest[pd.fd]
      BY <1>7, <2>2
    <3> HIDE DEF r
    <3>4. r.cnt = c
      BY <1>4, <3>2 DEF Regs
    <3>5. r.interest = [e.interest EXCEPT ![pd.fd] = AddedInterest(e, pd)]
      BY <1>1, <1>4, <3>2, <3>3 DEF Regs
    <3>6. r.n = e.n + 1
      BY <1>4, <3>2 DEF Regs
    <3>7. r.size = IF e.n + 1 > e.size THEN 2 * e.size ELSE e.size
      BY <1>4, <3>2 DEF Regs
    <3>8. r = [cnt |-> r.cnt, interest |-> r.interest, n |-> r.n, size |-> r.size]
      BY <1>4, <3>2 DEF Regs
    <3>9. r.interest \in [Fds -> SUBSET Events]
      BY <1>1, <1>3, <3>3, <3>5
    <3>10. r.n \in Int /\ r.size \in Nat \ {0}
      BY <1>1, <3>6, <3>7
    <3>11. r \in Regs
      BY <1>2, <3>4, <3>8, <3>9, <3>10 DEF Regs
    <3> QED BY <3>1, <3>4, <3>5, <3>6, <3>7, <3>11
  <2>3. CASE ~(fails \/ new = old) /\ old # {}
    <3>1. r = Epoll!Modified(b, pd.fd, new) /\ ~AddIn(e, pd) /\ AddedInterest(e, pd) = new
      BY <1>7, <2>3
    <3>2. r = [b EXCEPT !.interest[pd.fd] = new]
      BY <3>1 DEF Epoll!Modified
    <3> HIDE DEF r
    <3> QED BY <1>1, <1>2, <1>3, <1>4, <3>1, <3>2 DEF Regs
  <2> QED BY <2>1, <2>2, <2>3
<1> HIDE DEF r
<1>9. a \in Adding /\ a.e = r /\ a.i = s.i + 1 /\ a.failed = fails
  BY <1>1, <1>5, <1>6, <1>8 DEF Adding
<1> HIDE DEF a
<1> QED BY <1>8, <1>9 DEF a, e, c, fails

(* No descriptor that the kernel refuses is counted.                       *)
Clean(e) == \A fd \in Refused : Wanted(e.cnt, fd) = {}

LEMMA AddOneIs ==
  ASSUME NEW s \in Adding, NEW pd \in Entries, ~s.failed, Clean(s.e),
         \A fd \in Fds : revents[fd] = {}, \A x \in Fds \X Events : s.e.cnt[x] \in Nat
  PROVE  LET a == Epoll!AddOne(s, pd) IN
         /\ a \in Adding /\ a.i = s.i + 1
         /\ \A x \in Fds \X Events : a.e.cnt[x] = s.e.cnt[x] + One(pd, x)
         /\ ~a.failed => Clean(a.e) /\ pd.fd \notin Refused
         /\ Registry(s.e, revents) => Registry(a.e, revents) /\ (a.failed => pd.fd \in Refused)
<1> DEFINE a == Epoll!AddOne(s, pd)
           e == s.e
           c == Epoll!Counted(e.cnt, pd, 1)
           old == Wanted(e.cnt, pd.fd)
           new == Wanted(c, pd.fd)
           fails == AddFails(e, pd)
           into == AddIn(e, pd)
<1>1. /\ e \in Regs
      /\ e.cnt \in [Fds \X Events -> Int] /\ e.interest \in [Fds -> SUBSET Events]
      /\ e.n \in Int /\ e.size \in Nat \ {0} /\ pd.fd \in Fds
  BY DEF Adding, Regs, Entries
<1>2. /\ \A x \in Fds \X Events : c[x] = e.cnt[x] + One(pd, x)
      /\ \A fd \in Fds : fd # pd.fd => Wanted(c, fd) = Wanted(e.cnt, fd)
      /\ new # {}
  BY <1>1, CountedUp
<1>3. /\ a \in Adding /\ a.i = s.i + 1 /\ a.failed = fails
      /\ a.e.cnt = c
      /\ a.e.interest = [e.interest EXCEPT ![pd.fd] = AddedInterest(e, pd)]
      /\ a.e.n = IF into THEN e.n + 1 ELSE e.n
      /\ a.e.size = IF into /\ e.n + 1 > e.size THEN 2 * e.size ELSE e.size
  BY AddOneFields
<1>4. fails <=> new # old /\ IF old = {} THEN pd.fd \in Refused ELSE e.interest[pd.fd] = {}
  BY DEF AddFails
<1>5. into <=> ~fails /\ old = {}
  BY <1>2 DEF AddIn
<1>6. AddedInterest(e, pd) = IF fails \/ new = old \/ (old = {} /\ e.interest[pd.fd] # {})
                             THEN e.interest[pd.fd] ELSE new
  BY DEF AddedInterest
<1>7. ~fails => pd.fd \notin Refused
  <2> SUFFICES ASSUME pd.fd \in Refused PROVE fails
    OBVIOUS
  <2>1. old = {}
    BY DEF Clean
  <2> QED BY <1>2, <1>4, <2>1
<1> HIDE DEF a, c, new, old, fails, into
<1>8. ~fails => Clean(a.e)
  <2> SUFFICES ASSUME ~fails, NEW fd \in Refused PROVE Wanted(c, fd) = {}
    BY <1>3 DEF Clean
  <2>1. fd # pd.fd /\ fd \in Fds
    BY <1>7, EpollConstants
  <2> QED BY <1>2, <2>1 DEF Clean
<1>9. ASSUME Registry(e, revents)
      PROVE  Registry(a.e, revents) /\ (fails => pd.fd \in Refused)
  <2>1. /\ \A fd \in Fds : fd \notin Refused => e.interest[fd] = Wanted(e.cnt, fd)
        /\ \A fd \in Refused : e.interest[fd] = {}
        /\ e.n = Cardinality(Watched(e.interest)) /\ e.n <= e.size
    BY <1>9, RegistryIs
  <2>2. fails => pd.fd \in Refused
    <3> SUFFICES ASSUME fails, pd.fd \notin Refused PROVE FALSE
      OBVIOUS
    <3>1. old # {} /\ e.interest[pd.fd] = {}
      BY <1>4
    <3>2. e.interest[pd.fd] = old
      BY <1>1, <2>1 DEF old
    <3> QED BY <3>1, <3>2
  <2>3. pd.fd \notin Refused => AddedInterest(e, pd) = new
    <3> SUFFICES ASSUME pd.fd \notin Refused PROVE AddedInterest(e, pd) = new
      OBVIOUS
    <3>1. ~fails /\ e.interest[pd.fd] = old
      BY <1>1, <2>1, <2>2 DEF old
    <3> QED BY <1>6, <3>1
  <2>4. pd.fd \in Refused => AddedInterest(e, pd) = {}
    <3> SUFFICES ASSUME pd.fd \in Refused PROVE AddedInterest(e, pd) = {}
      OBVIOUS
    <3>1. fails /\ e.interest[pd.fd] = {}
      BY <1>7, <2>1
    <3> QED BY <1>6, <3>1
  <2>5. /\ \A fd \in Fds : fd # pd.fd => a.e.interest[fd] = e.interest[fd]
        /\ a.e.interest[pd.fd] = AddedInterest(e, pd)
    BY <1>1, <1>3
  <2>6. \A fd \in Fds : IF revents[fd] = {} THEN fd \notin Refused => a.e.interest[fd] = Wanted(a.e.cnt, fd)
                        ELSE Wanted(a.e.cnt, fd) \subseteq a.e.interest[fd]
    <3> TAKE fd \in Fds
    <3> SUFFICES ASSUME fd \notin Refused PROVE a.e.interest[fd] = Wanted(a.e.cnt, fd)
      OBVIOUS
    <3>1. CASE fd = pd.fd
      BY <1>3, <2>3, <2>5, <3>1 DEF new
    <3>2. CASE fd # pd.fd
      BY <1>2, <1>3, <2>1, <2>5, <3>2
    <3> QED BY <3>1, <3>2
  <2>7. \A fd \in Refused : a.e.interest[fd] = {}
    <3> TAKE fd \in Refused
    <3>1. fd \in Fds
      BY EpollConstants
    <3> QED BY <2>1, <2>4, <2>5, <3>1
  <2>8. a.e.n = Cardinality(Watched(a.e.interest)) /\ a.e.n <= a.e.size
    <3>1. \A fd \in Fds : fd # pd.fd => a.e.interest[fd] = e.interest[fd]
      BY <2>5
    <3>2. /\ Cardinality(Watched(e.interest)) \in Nat
          /\ e.interest[pd.fd] = {} /\ a.e.interest[pd.fd] # {} =>
               Cardinality(Watched(a.e.interest)) = Cardinality(Watched(e.interest)) + 1
          /\ (e.interest[pd.fd] = {} <=> a.e.interest[pd.fd] = {}) =>
               Cardinality(Watched(a.e.interest)) = Cardinality(Watched(e.interest))
      <4> DEFINE i == e.interest
                 j == a.e.interest
                 d == pd.fd
      <4>1. i \in [Fds -> SUBSET Events] /\ d \in Fds /\ \A fd \in Fds : fd # d => j[fd] = i[fd]
        BY <1>1, <3>1
      <4> HIDE DEF i, j, d
      <4>2. /\ Cardinality(Watched(i)) \in Nat /\ Cardinality(Watched(j)) \in Nat
            /\ i[d] # {} /\ j[d] = {} => Cardinality(Watched(j)) = Cardinality(Watched(i)) - 1
            /\ i[d] = {} /\ j[d] # {} => Cardinality(Watched(j)) = Cardinality(Watched(i)) + 1
            /\ (i[d] = {} <=> j[d] = {}) => Cardinality(Watched(j)) = Cardinality(Watched(i))
        BY <4>1, WatchedIs
      <4> QED BY <4>2 DEF i, j, d
    <3>3. CASE into
      <4>1. pd.fd \notin Refused /\ old = {}
        BY <1>5, <1>7, <3>3
      <4>2. e.interest[pd.fd] = {} /\ a.e.interest[pd.fd] # {}
        BY <1>1, <1>2, <2>1, <2>3, <2>5, <4>1 DEF old
      <4>3. a.e.n = e.n + 1
        BY <1>3, <3>3
      <4>4. a.e.size = IF e.n + 1 > e.size THEN 2 * e.size ELSE e.size
        BY <1>3, <3>3
      <4>5. e.n + 1 <= a.e.size
        BY <1>1, <2>1, <4>4
      <4> QED BY <2>1, <3>2, <4>2, <4>3, <4>5
    <3>4. CASE ~into
      <4>1. e.interest[pd.fd] = {} <=> a.e.interest[pd.fd] = {}
        <5>1. CASE pd.fd \in Refused
          BY <2>1, <2>4, <2>5, <5>1
        <5>2. CASE pd.fd \notin Refused
          <6>1. old # {}
            BY <1>5, <2>2, <3>4, <5>2
          <6>2. e.interest[pd.fd] = old /\ a.e.interest[pd.fd] = new
            BY <1>1, <2>1, <2>3, <2>5, <5>2 DEF old
          <6> QED BY <1>2, <6>1, <6>2
        <5> QED BY <5>1, <5>2
      <4>2. a.e.n = e.n /\ a.e.size = e.size
        BY <1>3, <3>4
      <4> QED BY <2>1, <3>2, <4>1, <4>2
    <3> QED BY <3>3, <3>4
  <2>9. Registry(a.e, revents)
    BY <2>6, <2>7, <2>8, RegistryIs
  <2> QED BY <2>2, <2>9
<1> QED BY <1>2, <1>3, <1>7, <1>8, <1>9 DEF a

(* The loop that puts all entries of a pollq on.                           *)
EpAdd(f, b, p, n) ==
  f = [s \in SUBSET (1..n) |->
         IF s = {} THEN b ELSE Epoll!AddOne(f[s \ {Max(s)}], p[Max(s)])]

EpFirst(e) == [e |-> e, i |-> 0, failed |-> FALSE]

(* What holds after k rounds of it, begun with e.                          *)
EpRound(e, p, s, k) ==
  /\ s \in Adding /\ s.i \in 0..k
  /\ \A x \in Fds \X Events : s.e.cnt[x] = e.cnt[x] + TimesTo(p, s.i, x)
  /\ ~s.failed => s.i = k /\ Clean(s.e) /\ \A j \in 1..k : p[j].fd \notin Refused
  /\ Registry(e, revents) => /\ Registry(s.e, revents)
                             /\ s.failed => \E j \in 1..k : p[j].fd \in Refused

LEMMA AddOneStays ==
  ASSUME NEW s \in Adding, NEW pd \in Entries
  PROVE  Epoll!AddOne(s, pd) \in Adding
<1>1. CASE s.failed
  BY <1>1 DEF Epoll!AddOne
<1>2. CASE ~s.failed
  BY <1>2, AddOneFields
<1> QED BY <1>1, <1>2

LEMMA EpRoundFirst ==
  ASSUME NEW e \in Regs, NEW p \in Seq(Entries), Clean(e)
  PROVE  EpRound(e, p, EpFirst(e), 0)
<1> DEFINE s == EpFirst(e)
<1>1. s \in Adding /\ s.e = e /\ s.i = 0 /\ s.failed = FALSE
  BY DEF EpFirst, Adding
<1> HIDE DEF s
<1>2. \A x : TimesTo(p, 0, x) = 0
  BY TimesRound
<1>3. \A x \in Fds \X Events : e.cnt[x] \in Int
  BY DEF Regs
<1>4. \A x \in Fds \X Events : s.e.cnt[x] = e.cnt[x] + TimesTo(p, s.i, x)
  BY <1>1, <1>2, <1>3
<1> QED BY <1>1, <1>4 DEF EpRound, s

LEMMA EpRoundNext ==
  ASSUME NEW e \in Regs, NEW p \in Seq(Entries), NEW k \in 1..Len(p), NEW s,
         EpRound(e, p, s, k - 1), \A fd \in Fds : revents[fd] = {},
         \A x \in Fds \X Events : e.cnt[x] \in Nat
  PROVE  EpRound(e, p, Epoll!AddOne(s, p[k]), k)
<1>1. /\ s \in Adding /\ s.i \in 0..(k - 1)
      /\ \A x \in Fds \X Events : s.e.cnt[x] = e.cnt[x] + TimesTo(p, s.i, x)
      /\ ~s.failed => s.i = k - 1 /\ Clean(s.e) /\ \A j \in 1..(k - 1) : p[j].fd \notin Refused
      /\ Registry(e, revents) => /\ Registry(s.e, revents)
                                 /\ s.failed => \E j \in 1..(k - 1) : p[j].fd \in Refused
  BY DEF EpRound
<1>2. k \in 1..k /\ 1..(k - 1) \subseteq 1..k /\ 1..k = (1..(k - 1)) \cup {k} /\ p[k] \in Entries
  OBVIOUS
<1>3. CASE s.failed
  <2>1. Epoll!AddOne(s, p[k]) = s
    BY <1>3 DEF Epoll!AddOne
  <2>2. s.i \in 0..k
    BY <1>1
  <2>3. EpRound(e, p, s, k)
    BY <1>1, <1>2, <1>3, <2>2 DEF EpRound
  <2> QED BY <2>1, <2>3
<1>4. CASE ~s.failed
  <2> DEFINE a == Epoll!AddOne(s, p[k])
  <2>1. s.i = k - 1 /\ Clean(s.e) /\ \A j \in 1..(k - 1) : p[j].fd \notin Refused
    BY <1>1, <1>4
  <2>2. ASSUME NEW x \in Fds \X Events
        PROVE  /\ s.e.cnt[x] \in Nat
               /\ s.e.cnt[x] + One(p[k], x) = e.cnt[x] + TimesTo(p, k, x)
    <3>1. /\ TimesTo(p, k, x) = TimesTo(p, k - 1, x) + One(p[k], x)
      BY TimesRound
    <3>2. TimesTo(p, k - 1, x) \in Nat
      <4>1. k - 1 \in 0..Len(p)
        OBVIOUS
      <4> QED BY <4>1, TimesRound
    <3>3. s.e.cnt[x] = e.cnt[x] + TimesTo(p, k - 1, x) /\ e.cnt[x] \in Nat
      BY <1>1, <2>1
    <3>4. One(p[k], x) \in Nat
      BY DEF One
    <3> QED BY <3>1, <3>2, <3>3, <3>4
  <2>3. /\ a \in Adding /\ a.i = s.i + 1
        /\ \A x \in Fds \X Events : a.e.cnt[x] = s.e.cnt[x] + One(p[k], x)
        /\ ~a.failed => Clean(a.e) /\ p[k].fd \notin Refused
        /\ Registry(s.e, revents) => Registry(a.e, revents) /\ (a.failed => p[k].fd \in Refused)
    BY <1>1, <1>2, <1>4, <2>1, <2>2, AddOneIs
  <2> HIDE DEF a
  <2>4. a.i = k /\ a.i \in 0..k
    BY <2>1, <2>3
  <2>5. \A x \in Fds \X Events : a.e.cnt[x] = e.cnt[x] + TimesTo(p, a.i, x)
    BY <2>2, <2>3, <2>4
  <2>6. ~a.failed => \A j \in 1..k : p[j].fd \notin Refused
    BY <1>2, <2>1, <2>3
  <2>7. EpRound(e, p, a, k)
    BY <1>1, <1>2, <2>3, <2>4, <2>5, <2>6 DEF EpRound
  <2> QED BY <2>7 DEF a
<1> QED BY <1>3, <1>4

LEMMA EpAddLoop ==
  ASSUME NEW e \in Regs, NEW p \in Seq(Entries), Clean(e),
         \A fd \in Fds : revents[fd] = {}, \A x \in Fds \X Events : e.cnt[x] \in Nat
  PROVE  LET s == Epoll!FoldLeft(Epoll!AddOne, EpFirst(e), p) IN
         EpRound(e, p, s, Len(p))
<1> DEFINE n == Len(p)
           b == EpFirst(e)
           f == CHOOSE f : EpAdd(f, b, p, n)
           add(s, i) == Epoll!AddOne(s, p[i])
           fold == Epoll!FoldLeft(Epoll!AddOne, b, p)
<1>1. n \in Nat /\ DOMAIN p = 1..n /\ \A i \in 1..n : p[i] \in Entries
  BY PollSetFacts
<1>2. b \in Adding
  BY DEF EpFirst, Adding
<1>3. ASSUME NEW s \in Adding, NEW i \in 1..n PROVE add(s, i) \in Adding
  BY <1>1, AddOneStays
<1>4. fold = f[1..n]
  <2> HIDE DEF b
  <2>1. fold =
          (CHOOSE h : h = [s \in SUBSET DOMAIN p |->
              IF s = {} THEN b ELSE Epoll!AddOne(h[s \ {Max(s)}], p[Max(s)])])[DOMAIN p]
    BY DEF Epoll!FoldLeft, Epoll!MapThenFoldSet, Epoll!Max, Max
  <2> QED BY <1>1, <2>1 DEF EpAdd
<1> HIDE DEF b, fold
<1>5. EpAdd(f, b, p, n)
  <2> DEFINE g == [z \in Adding \X (1..n) |-> add(z[1], z[2])]
  <2>1. \A d \in Adding : \A i \in 1..n : g[<<d, i>>] = add(d, i)
    OBVIOUS
  <2>2. \A d \in Adding : \A i \in 1..n : g[<<d, i>>] \in Adding
    BY <1>3, <2>1
  <2> HIDE DEF g
  <2>3. PICK h \in [SUBSET (1..n) -> Adding] : FoldDef(h, g, b, n)
    BY <1>1, <1>2, <2>2, FoldExists
  <2>4. h = [s \in SUBSET (1..n) |-> IF s = {} THEN b ELSE g[<<h[s \ {Max(s)}], Max(s)>>]]
    BY <2>3 DEF FoldDef
  <2>5. \A s \in SUBSET (1..n) : s # {} => Max(s) \in 1..n /\ h[s \ {Max(s)}] \in Adding
    BY <1>1, MaxIn
  <2>6. h = [s \in SUBSET (1..n) |-> IF s = {} THEN b ELSE add(h[s \ {Max(s)}], Max(s))]
    <3> HIDE DEF add
    <3>1. \A s \in SUBSET (1..n) : s # {} =>
             g[<<h[s \ {Max(s)}], Max(s)>>] = add(h[s \ {Max(s)}], Max(s))
      BY <2>1, <2>5
    <3> QED BY <2>4, <3>1
  <2>7. EpAdd(h, b, p, n)
    BY <2>6 DEF EpAdd
  <2> QED BY <2>7
<1> HIDE DEF f
<1>6. f[{}] = b
  BY <1>5 DEF EpAdd
<1>7. \A i \in 1..n : f[1..i] = Epoll!AddOne(f[1..(i - 1)], p[i])
  <2> TAKE i \in 1..n
  <2>1. /\ 1..i # {} /\ Max(1..i) = i /\ (1..i) \ {i} = 1..(i - 1)
        /\ 1..i \in SUBSET (1..n)
    BY <1>1, StagesAre
  <2> QED BY <1>5, <2>1 DEF EpAdd
<1> DEFINE Good == {i \in 0..n : EpRound(e, p, f[1..i], i)}
<1>8. 0 \in Good
  <2>1. 1..0 = {} /\ 0 \in 0..n
    BY <1>1
  <2>2. f[1..0] = b
    BY <1>6, <2>1
  <2>3. EpRound(e, p, b, 0)
    BY EpRoundFirst DEF b
  <2> QED BY <2>1, <2>2, <2>3
<1>9. ASSUME NEW i \in 1..n, i - 1 \in Good PROVE i \in Good
  <2>1. EpRound(e, p, f[1..(i - 1)], i - 1)
    BY <1>9
  <2>2. EpRound(e, p, Epoll!AddOne(f[1..(i - 1)], p[i]), i)
    BY <2>1, EpRoundNext
  <2>3. i \in 0..n
    BY <1>1
  <2> QED BY <1>7, <2>2, <2>3
<1> HIDE DEF Good
<1>10. \A i \in 0..n : i \in Good
  BY <1>1, <1>8, <1>9, LoopInvariant
<1>11. n \in Good
  BY <1>1, <1>10
<1>12. EpRound(e, p, f[1..n], n)
  BY <1>11 DEF Good
<1> QED BY <1>4, <1>12 DEF fold, b

(* All of a pollq is counted and registered, or none of it.                *)
LEMMA EpAddIs ==
  ASSUME NEW e \in Regs, NEW p \in Seq(Entries), Clean(e),
         \A fd \in Fds : revents[fd] = {}, \A x \in Fds \X Events : e.cnt[x] \in Nat
  PROVE  LET a == Epoll!epoll_pollset_add(e, p) IN
         /\ a.e \in Regs
         /\ \A x \in Fds \X Events :
              a.e.cnt[x] = IF a.failed THEN e.cnt[x] ELSE e.cnt[x] + Times(p, x)
         /\ ~a.failed => Clean(a.e) /\ \A j \in 1..Len(p) : p[j].fd \notin Refused
         /\ Registry(e, revents) => /\ Registry(a.e, revents)
                                    /\ a.failed => \E j \in 1..Len(p) : p[j].fd \in Refused
<1> DEFINE s == Epoll!FoldLeft(Epoll!AddOne, EpFirst(e), p)
           a == Epoll!epoll_pollset_add(e, p)
           q == SubSeq(p, 1, s.i)
           d == Epoll!epoll_pollset_del(s.e, q)
<1>1. EpRound(e, p, s, Len(p))
  BY EpAddLoop
<1>2. a = IF s.failed THEN [s EXCEPT !.e = d] ELSE s
  BY DEF Epoll!epoll_pollset_add, EpFirst
<1> HIDE DEF a, s
<1>3. /\ s \in Adding /\ s.i \in 0..Len(p) /\ s.e \in Regs
      /\ \A x \in Fds \X Events : s.e.cnt[x] = e.cnt[x] + TimesTo(p, s.i, x)
      /\ ~s.failed => s.i = Len(p) /\ Clean(s.e) /\ \A j \in 1..Len(p) : p[j].fd \notin Refused
      /\ Registry(e, revents) => /\ Registry(s.e, revents)
                                 /\ s.failed => \E j \in 1..Len(p) : p[j].fd \in Refused
  BY <1>1 DEF EpRound, Adding
<1>4. CASE ~s.failed
  <2>1. a = s
    BY <1>2, <1>4
  <2>2. \A x : TimesTo(p, Len(p), x) = Times(p, x)
    BY TimesRound
  <2> QED BY <1>3, <1>4, <2>1, <2>2 DEF a
<1>5. CASE s.failed
  <2>1. a = [s EXCEPT !.e = d]
    BY <1>2, <1>5
  <2> HIDE DEF d
  <2>2. a.e = d /\ a.failed
    BY <1>3, <1>5, <2>1 DEF Adding
  <2>3. /\ q \in Seq(Entries) /\ Len(q) = s.i
        /\ \A i \in 0..s.i : \A x : TimesTo(q, i, x) = TimesTo(p, i, x)
    BY <1>3, TimesOfPrefix
  <2> HIDE DEF q
  <2>4. ASSUME NEW x \in Fds \X Events
        PROVE  /\ s.e.cnt[x] \in Nat /\ s.e.cnt[x] >= Times(q, x)
               /\ s.e.cnt[x] - Times(q, x) = e.cnt[x]
    <3>1. Times(q, x) = TimesTo(p, s.i, x)
      <4>1. TimesTo(q, Len(q), x) = Times(q, x)
        BY <2>3, TimesRound
      <4>2. s.i \in 0..s.i
        BY <1>3
      <4> QED BY <2>3, <4>1, <4>2
    <3>2. TimesTo(p, s.i, x) \in Nat
      BY <1>3, TimesRound
    <3>3. s.e.cnt[x] = e.cnt[x] + TimesTo(p, s.i, x) /\ e.cnt[x] \in Nat
      BY <1>3
    <3> QED BY <3>1, <3>2, <3>3
  <2>5. /\ d \in Regs
        /\ \A x \in Fds \X Events : d.cnt[x] = s.e.cnt[x] - Times(q, x)
        /\ Registry(s.e, revents) => Registry(d, revents)
    BY <1>3, <2>3, <2>4, EpDelIs DEF d
  <2>6. \A x \in Fds \X Events : a.e.cnt[x] = e.cnt[x]
    BY <2>2, <2>4, <2>5
  <2> QED BY <1>3, <1>5, <2>2, <2>5, <2>6 DEF a
<1> QED BY <1>4, <1>5

LEMMA EpUpto ==
  ASSUME Queued(PollSets["epoll"], ioq, pds), NEW x
  PROVE  /\ Upto(ioq, pds, x, 0) = 0 /\ Upto(ioq, pds, x, Len(ioq)) = TimesAsked(pds, x)
         /\ \A i \in 0..Len(ioq) : Upto(ioq, pds, x, i) \in Nat
         /\ \A i \in 1..Len(ioq) :
              Upto(ioq, pds, x, i) = Upto(ioq, pds, x, i - 1) + Times(pds[ioq[i]], x)
         /\ \A i \in 1..Len(ioq) : Times(pds[ioq[i]], x) \in Nat
<1>1. PollSets["epoll"] \subseteq Seq(Entries) \ {<<>>}
  BY EpollConstants
<1> QED BY <1>1, UptoIs, ZenonT(60)

(* The fold over the queue that registers all of it in a new list.         *)
EpBase == [cnt |-> [x \in Fds \X Events |-> 0], interest |-> [fd \in Fds |-> {}],
           n |-> 0, size |-> ep.size]
EpAgain(f, n) ==
  f = [s \in SUBSET (1..n) |->
         IF s = {} THEN EpBase
         ELSE Epoll!epoll_pollset_add(f[s \ {Max(s)}], pds[ioq[Max(s)]]).e]

Proper == {e \in Regs : /\ Clean(e) /\ Registry(e, revents)
                        /\ \A x \in Fds \X Events : e.cnt[x] \in Nat}

LEMMA EpBaseIs ==
  ASSUME ep \in Regs, \A fd \in Fds : revents[fd] = {}
  PROVE  /\ EpBase \in Proper /\ \A x \in Fds \X Events : EpBase.cnt[x] = 0
         /\ [ep EXCEPT !.cnt = Epoll!NoCounts, !.interest = Epoll!NoInterest, !.n = 0] = EpBase
<1>0. Refused \subseteq Fds
  BY EpollConstants
<1> DEFINE z == [x \in Fds \X Events |-> 0]
           w == [fd \in Fds |-> {}]
<1>1. EpBase = [cnt |-> z, interest |-> w, n |-> 0, size |-> ep.size]
  BY DEF EpBase
<1>2. Epoll!NoCounts = z /\ Epoll!NoInterest = w
  BY EpollSame DEF Epoll!NoCounts, Epoll!NoInterest
<1>3. z \in [Fds \X Events -> Int] /\ w \in [Fds -> SUBSET Events]
  OBVIOUS
<1>4. \A x \in Fds \X Events : z[x] = 0
  OBVIOUS
<1>5. \A fd \in Fds : w[fd] = {}
  OBVIOUS
<1> HIDE DEF z, w
<1>6. ep.size \in Nat \ {0}
  BY DEF Regs
<1>7. EpBase \in Regs
  BY <1>1, <1>3, <1>6 DEF Regs
<1>8. EpBase.cnt = z /\ EpBase.interest = w /\ EpBase.n = 0 /\ EpBase.size = ep.size
  BY <1>1
<1>9. \A fd \in Fds : Wanted(z, fd) = {}
  <2> SUFFICES ASSUME NEW fd \in Fds, NEW e \in Events PROVE z[<<fd, e>>] = 0
    BY DEF Wanted
  <2> QED BY <1>4
<1>10. Clean(EpBase)
  BY <1>0, <1>8, <1>9 DEF Clean
<1>11. Registry(EpBase, revents)
  <2>1. Watched(w) = {}
    BY <1>5 DEF Watched
  <2>2. Cardinality({}) = 0
    BY FS_EmptySet
  <2>3. EpBase.n = Cardinality(Watched(EpBase.interest)) /\ EpBase.n <= EpBase.size
    BY <1>6, <1>8, <2>1, <2>2
  <2>4. \A fd \in Fds : EpBase.interest[fd] = {} /\ Wanted(EpBase.cnt, fd) = {}
    BY <1>5, <1>8, <1>9
  <2> QED BY <1>0, <2>3, <2>4, RegistryIs
<1>12. EpBase \in Proper /\ \A x \in Fds \X Events : EpBase.cnt[x] = 0
  BY <1>4, <1>7, <1>8, <1>10, <1>11 DEF Proper
<1>13. [ep EXCEPT !.cnt = z, !.interest = w, !.n = 0] = EpBase
  <2> DEFINE r1 == [ep EXCEPT !.cnt = z]
             r2 == [r1 EXCEPT !.interest = w]
             r3 == [r2 EXCEPT !.n = 0]
             b == [ep EXCEPT !.cnt = z, !.interest = w, !.n = 0]
  <2>1. b = r3
    BY DEF Regs
  <2>2. r1 = [cnt |-> z, interest |-> ep.interest, n |-> ep.n, size |-> ep.size]
    BY DEF Regs
  <2> HIDE DEF r1
  <2>3. r2 = [cnt |-> z, interest |-> w, n |-> ep.n, size |-> ep.size]
    BY <2>2
  <2> HIDE DEF r2
  <2>4. r3 = [cnt |-> z, interest |-> w, n |-> 0, size |-> ep.size]
    BY <2>3
  <2> HIDE DEF r3, b
  <2>5. b = EpBase
    BY <1>1, <2>1, <2>4
  <2> QED BY <2>5 DEF b
<1> QED BY <1>2, <1>12, <1>13

LEMMA EpAgainOne ==
  ASSUME NEW e \in Proper, NEW p \in Seq(Entries), \A fd \in Fds : revents[fd] = {},
         Descriptors(p) \cap Refused = {}
  PROVE  LET a == Epoll!epoll_pollset_add(e, p).e IN
         a \in Proper /\ \A x \in Fds \X Events : a.cnt[x] = e.cnt[x] + Times(p, x)
<1> DEFINE a == Epoll!epoll_pollset_add(e, p)
<1>1. /\ e \in Regs /\ Clean(e) /\ Registry(e, revents)
      /\ \A x \in Fds \X Events : e.cnt[x] \in Nat
  BY DEF Proper
<1>2. /\ a.e \in Regs
      /\ \A x \in Fds \X Events :
           a.e.cnt[x] = IF a.failed THEN e.cnt[x] ELSE e.cnt[x] + Times(p, x)
      /\ ~a.failed => Clean(a.e)
      /\ Registry(a.e, revents)
      /\ a.failed => \E j \in 1..Len(p) : p[j].fd \in Refused
  BY <1>1, EpAddIs
<1> HIDE DEF a
<1>3. \A j \in 1..Len(p) : p[j].fd \notin Refused
  BY PollSetFacts
<1>4. ~a.failed
  BY <1>2, <1>3
<1>5. \A x \in Fds \X Events : a.e.cnt[x] = e.cnt[x] + Times(p, x) /\ a.e.cnt[x] \in Nat
  BY <1>1, <1>2, <1>4, TimesPairs
<1> QED BY <1>2, <1>4, <1>5 DEF Proper, a

LEMMA EpRebuiltIs ==
  ASSUME Queued(PollSets["epoll"], ioq, pds), ep \in Regs, \A fd \in Fds : revents[fd] = {},
         \A t \in Threads : Descriptors(pds[t]) \cap Refused = {}
  PROVE  /\ Epoll!Rebuilt \in Proper
         /\ \A x \in Fds \X Events : Epoll!Rebuilt.cnt[x] = TimesAsked(pds, x)
<1> DEFINE n == Len(ioq)
           f == CHOOSE f : EpAgain(f, n)
           add(k, i) == Epoll!epoll_pollset_add(k, pds[ioq[i]]).e
<1>1. /\ n \in Nat /\ DOMAIN ioq = 1..n /\ pds \in Waits
      /\ \A t \in Threads : pds[t] \in Seq(Entries)
      /\ \A i \in 1..n : ioq[i] \in Threads
  <2>1. ioq \in Seq(Threads) /\ DOMAIN ioq = 1..n
    BY EpollFacts
  <2> QED BY <2>1, EpollFacts
<1>2. EpBase \in Proper /\ \A x \in Fds \X Events : EpBase.cnt[x] = 0
  BY EpBaseIs
<1>3. ASSUME NEW k \in Proper, NEW i \in 1..n
      PROVE  /\ add(k, i) \in Proper
             /\ \A x \in Fds \X Events : add(k, i).cnt[x] = k.cnt[x] + Times(pds[ioq[i]], x)
  <2>1. pds[ioq[i]] \in Seq(Entries) /\ Descriptors(pds[ioq[i]]) \cap Refused = {}
    BY <1>1
  <2> QED BY <2>1, EpAgainOne
<1>4. Epoll!Rebuilt = f[1..n]
  <2> DEFINE b == [ep EXCEPT !.cnt = Epoll!NoCounts, !.interest = Epoll!NoInterest, !.n = 0]
  <2>1. b = EpBase
    BY EpBaseIs
  <2>2. Epoll!Rebuilt = Epoll!FoldLeft(LAMBDA k, t : Epoll!epoll_pollset_add(k, pds[t]).e, b, ioq)
    BY DEF Epoll!Rebuilt
  <2> HIDE DEF b
  <2>3. Epoll!Rebuilt = (CHOOSE h : h = [s \in SUBSET DOMAIN ioq |->
                             IF s = {} THEN b
                             ELSE Epoll!epoll_pollset_add(h[s \ {Max(s)}], pds[ioq[Max(s)]]).e])[DOMAIN ioq]
    BY <2>2 DEF Epoll!FoldLeft, Epoll!MapThenFoldSet, Epoll!Max, Max
  <2> QED BY <1>1, <2>1, <2>3 DEF EpAgain
<1>5. EpAgain(f, n)
  <2> DEFINE g == [z \in Proper \X (1..n) |-> add(z[1], z[2])]
  <2>1. \A k \in Proper : \A i \in 1..n : g[<<k, i>>] = add(k, i)
    OBVIOUS
  <2>2. \A k \in Proper : \A i \in 1..n : g[<<k, i>>] \in Proper
    BY <1>3, <2>1
  <2> HIDE DEF g
  <2>3. PICK h \in [SUBSET (1..n) -> Proper] : FoldDef(h, g, EpBase, n)
    BY <1>1, <1>2, <2>2, FoldExists
  <2>4. h = [s \in SUBSET (1..n) |-> IF s = {} THEN EpBase ELSE g[<<h[s \ {Max(s)}], Max(s)>>]]
    BY <2>3 DEF FoldDef
  <2>5. \A s \in SUBSET (1..n) : s # {} => Max(s) \in 1..n /\ h[s \ {Max(s)}] \in Proper
    BY <1>1, MaxIn
  <2>6. h = [s \in SUBSET (1..n) |-> IF s = {} THEN EpBase ELSE add(h[s \ {Max(s)}], Max(s))]
    <3> HIDE DEF add
    <3>1. \A s \in SUBSET (1..n) : s # {} =>
             g[<<h[s \ {Max(s)}], Max(s)>>] = add(h[s \ {Max(s)}], Max(s))
      BY <2>1, <2>5
    <3> QED BY <2>4, <3>1
  <2>7. EpAgain(h, n)
    BY <2>6 DEF EpAgain
  <2> QED BY <2>7
<1> HIDE DEF f
<1>6. f[{}] = EpBase
  BY <1>5 DEF EpAgain
<1>7. \A i \in 1..n : f[1..i] = add(f[1..(i - 1)], i)
  <2> TAKE i \in 1..n
  <2>1. /\ 1..i # {} /\ Max(1..i) = i /\ (1..i) \ {i} = 1..(i - 1)
        /\ 1..i \in SUBSET (1..n)
    BY <1>1, StagesAre
  <2>2. \A s \in SUBSET (1..n) : s # {} => f[s] = add(f[s \ {Max(s)}], Max(s))
    BY <1>5 DEF EpAgain
  <2>3. f[1..i] = add(f[(1..i) \ {Max(1..i)}], Max(1..i))
    BY <2>1, <2>2
  <2> HIDE DEF add
  <2> QED BY <2>1, <2>3
<1> DEFINE Good == {i \in 0..n :
             /\ f[1..i] \in Proper
             /\ \A x \in Fds \X Events : f[1..i].cnt[x] = Upto(ioq, pds, x, i)}
<1> HIDE DEF add
<1>8. 0 \in Good
  <2>1. 1..0 = {} /\ 0 \in 0..n
    BY <1>1
  <2>2. f[1..0] = EpBase
    BY <1>6, <2>1
  <2>4. \A x : Upto(ioq, pds, x, 0) = 0
    BY EpUpto
  <2> QED BY <1>2, <2>1, <2>2, <2>4
<1>9. ASSUME NEW i \in 1..n, i - 1 \in Good PROVE i \in Good
  <2> DEFINE k == f[1..(i - 1)]
             p == pds[ioq[i]]
  <2>1. k \in Proper /\ \A x \in Fds \X Events : k.cnt[x] = Upto(ioq, pds, x, i - 1)
    BY <1>9
  <2>2. f[1..i] = add(k, i) /\ i \in 0..n
    BY <1>1, <1>7
  <2> HIDE DEF Good, k, p
  <2>4. /\ add(k, i) \in Proper
        /\ \A x \in Fds \X Events : add(k, i).cnt[x] = k.cnt[x] + Times(p, x)
    BY <1>3, <2>1 DEF p
  <2>5. ASSUME NEW x \in Fds \X Events PROVE add(k, i).cnt[x] = Upto(ioq, pds, x, i)
    <3>1. add(k, i).cnt[x] = k.cnt[x] + Times(p, x) /\ k.cnt[x] = Upto(ioq, pds, x, i - 1)
      BY <2>1, <2>4
    <3>2. Upto(ioq, pds, x, i) = Upto(ioq, pds, x, i - 1) + Times(p, x)
      <4>1. \A j \in 1..Len(ioq) :
              Upto(ioq, pds, x, j) = Upto(ioq, pds, x, j - 1) + Times(pds[ioq[j]], x)
        BY EpUpto
      <4> QED BY <4>1 DEF p
    <3> QED BY <3>1, <3>2
  <2> QED BY <2>2, <2>4, <2>5 DEF Good
<1> HIDE DEF Good
<1>10. \A i \in 0..n : i \in Good
  BY <1>1, <1>8, <1>9, LoopInvariant
<1>11. n \in Good
  BY <1>1, <1>10
<1>12. /\ Epoll!Rebuilt \in Proper
       /\ \A x \in Fds \X Events : Epoll!Rebuilt.cnt[x] = Upto(ioq, pds, x, n)
  BY <1>4, <1>11 DEF Good
<1>13. \A x : Upto(ioq, pds, x, n) = TimesAsked(pds, x)
  BY EpUpto
<1> QED BY <1>12, <1>13

(* While no dispatch is under way nothing has happened.                    *)
LEMMA EpollQuiet ==
  ASSUME EpollInv, loop = "none"
  PROVE  happened = {} /\ \A fd \in Fds : revents[fd] = {}
<1>1. happened = {}
  BY DEF EpollInv, LoopDone
<1>2. happened = UNION {{fd} \X revents[fd] : fd \in Fds}
  BY DEF EpollInv
<1>3. ASSUME NEW fd \in Fds, NEW e \in revents[fd] PROVE FALSE
  <2>1. <<fd, e>> \in {fd} \X revents[fd]
    BY <1>3
  <2>2. <<fd, e>> \in happened
    BY <1>2, <2>1
  <2> QED BY <1>1, <2>2
<1> QED BY <1>1, <1>3

(* An event is counted if and only if it is waited for.                    *)
LEMMA EpollAsked ==
  ASSUME EpollInv, NEW x \in Fds \X Events
  PROVE  ep.cnt[x] \in Nat /\ (ep.cnt[x] = 0 <=> \A t \in Threads : x \notin Pairs(pds[t]))
<1>1. pds \in Waits
  BY EpollFacts DEF EpollInv
<1>3. ep.cnt[x] = TimesAsked(pds, x)
  BY DEF EpollInv
<1> QED BY <1>1, <1>3, AskedNone

(* The events wanted of a descriptor are those that threads ask for.       *)
LEMMA EpollWanted ==
  ASSUME EpollInv, NEW fd \in Fds
  PROVE  Wanted(ep.cnt, fd) = {e \in Events : \E t \in Threads : <<fd, e>> \in Pairs(pds[t])}
<1>1. \A e \in Events : ep.cnt[<<fd, e>>] # 0 <=> \E t \in Threads : <<fd, e>> \in Pairs(pds[t])
  <2> TAKE e \in Events
  <2>1. <<fd, e>> \in Fds \X Events
    OBVIOUS
  <2> QED BY <2>1, EpollAsked
<1> QED BY <1>1 DEF Wanted

(* Nobody waits for a descriptor of which no event is wanted.              *)
LEMMA EpollUnused ==
  ASSUME EpollInv, NEW fd \in Fds, Wanted(ep.cnt, fd) = {}
  PROVE  \A t \in Threads : fd \notin Descriptors(pds[t])
<1> SUFFICES ASSUME NEW t \in Threads, fd \in Descriptors(pds[t]) PROVE FALSE
  OBVIOUS
<1>1. pds[t] \in Seq(Entries)
  BY EpollFacts DEF EpollInv
<1>2. PICK i \in 1..Len(pds[t]) : pds[t][i].fd = fd
  BY <1>1, PollSetFacts
<1>3. PICK e \in pds[t][i].events : TRUE
  BY <1>1, PollSetFacts
<1>4. <<fd, e>> \in Pairs(pds[t]) /\ <<fd, e>> \in Fds \X Events
  BY <1>1, <1>2, PairIn
<1>5. e \in Events
  BY <1>4
<1> QED BY <1>4, <1>5, EpollWanted

LEMMA EpollClean == ASSUME EpollInv PROVE Clean(ep)
<1> SUFFICES ASSUME NEW fd \in Refused, NEW e \in Events, NEW t \in Threads,
                    <<fd, e>> \in Pairs(pds[t])
             PROVE  FALSE
  BY EpollWanted, EpollConstants DEF Clean
<1>1. pds[t] \in Seq(Entries)
  BY EpollFacts DEF EpollInv
<1>2. <<fd, e>>[1] \in Descriptors(pds[t])
  BY <1>1, PollSetFacts
<1> QED BY <1>2 DEF EpollInv

LEMMA EpollInit == Epoll!Init => EpollInv
<1> SUFFICES ASSUME Epoll!Init PROVE EpollInv
  OBVIOUS
<1>1. /\ ioq = <<>> /\ pds = [t \in Threads |-> <<>>]
      /\ open = Fds /\ forks = 0 /\ stale = FALSE /\ happened = {}
      /\ revents = [fd \in Fds |-> {}] /\ evtlist = {} /\ loop = "none" /\ scan = 1
  BY DEF Epoll!Init, Epoll!NoRevents
<1>2. Queued(PollSets["epoll"], ioq, pds) /\ \A x : TimesAsked(pds, x) = 0
  BY <1>1, QueuedNone
<1>3. \A t \in Threads : Descriptors(pds[t]) = {}
  BY <1>1, NothingAsked
<1>4. LoopDone
  <2>1. Len(ioq) = 0
    BY <1>1
  <2> QED BY <1>1, <2>1, NoConcern DEF LoopDone
<1>5. \A fd \in Fds : revents[fd] = {}
  BY <1>1
<1>6. ep \in Regs /\ ep.cnt = [x \in Fds \X Events |-> 0] /\ EpBase = ep
  <2> DEFINE z == [x \in Fds \X Events |-> 0]
             w == [fd \in Fds |-> {}]
  <2>1. Epoll!NoCounts = z /\ Epoll!NoInterest = w
    BY EpollSame DEF Epoll!NoCounts, Epoll!NoInterest
  <2>2. z \in [Fds \X Events -> Int] /\ w \in [Fds -> SUBSET Events]
    OBVIOUS
  <2>3. EVTLIST_SIZE \in Nat \ {0}
    BY EpollConstants
  <2> HIDE DEF z, w
  <2>4. ep = [cnt |-> z, interest |-> w, n |-> 0, size |-> EVTLIST_SIZE]
    BY <2>1 DEF Epoll!Init
  <2>5. EpBase = [cnt |-> z, interest |-> w, n |-> 0, size |-> ep.size]
    BY DEF EpBase, z, w
  <2>6. ep \in Regs /\ ep.cnt = z /\ EpBase = ep
    BY <2>2, <2>3, <2>4, <2>5 DEF Regs
  <2> QED BY <2>6 DEF z
<1>7. Registry(ep, revents)
  BY <1>5, <1>6, EpBaseIs DEF Proper
<1>8. \A x \in Fds \X Events : ep.cnt[x] = TimesAsked(pds, x)
  BY <1>2, <1>6
<1>9. revents \in [Fds -> SUBSET (Events \cup {"ERR", "HUP"})]
  BY <1>1
<1>10. happened = UNION {{fd} \X revents[fd] : fd \in Fds}
  <2>1. \A fd \in Fds : {fd} \X revents[fd] = {}
    BY <1>5
  <2> QED BY <1>1, <2>1
<1>11. evtlist = {fd \in Fds : revents[fd] # {}}
  BY <1>1, <1>5
<1>12. forks \in 0..(2 * MaxForks)
  BY <1>1, EpollConstants
<1>13. /\ open \subseteq Fds /\ stale \in BOOLEAN /\ scan \in Nat \ {0} /\ loop = "none"
       /\ \A t \in Threads : Descriptors(pds[t]) \subseteq open \ Refused
  <2>1. open = Fds /\ stale = FALSE /\ scan = 1 /\ loop = "none"
    BY <1>1
  <2>2. \A t \in Threads : Descriptors(pds[t]) \subseteq open \ Refused
    BY <1>3
  <2>3. stale \in BOOLEAN
    BY <2>1
  <2>4. scan \in Nat \ {0}
    BY <2>1
  <2> QED BY <2>1, <2>2, <2>3, <2>4
<1>14. ep \in Regs
  BY <1>6
<1> QED BY <1>2, <1>4, <1>7, <1>8, <1>9, <1>10, <1>11, <1>12, <1>13, <1>14 DEF EpollInv

LEMMA EpollAdd ==
  ASSUME EpollInv, NEW t \in Threads, NEW p \in PollSets["epoll"],
         Epoll!Descriptors(p) \subseteq open, Epoll!pollset_add(t, p)
  PROVE  EpollInv'
<1> DEFINE s == Epoll!epoll_pollset_add(ep, p)
<1>1. /\ loop = "none" /\ pds[t] = <<>> /\ ep' = s.e
      /\ IF s.failed THEN ioq' = ioq /\ pds' = pds
         ELSE ioq' = Joined(ioq, t) /\ pds' = With(pds, t, p)
      /\ UNCHANGED <<open, forks, stale, happened, revents, evtlist, loop, scan>>
  BY DEF Epoll!pollset_add, Epoll!loopVars, Epoll!procVars, With, Joined
<1>2. p \in Seq(Entries) /\ p # <<>> /\ Descriptors(p) \subseteq open
  BY EpollConstants, EpollSame
<1>3. /\ ep \in Regs /\ Clean(ep) /\ \A fd \in Fds : revents[fd] = {}
      /\ \A x \in Fds \X Events : ep.cnt[x] \in Nat
  BY <1>1, EpollClean, EpollQuiet, EpollAsked DEF EpollInv
<1>4. /\ s.e \in Regs
      /\ \A x \in Fds \X Events :
           s.e.cnt[x] = IF s.failed THEN ep.cnt[x] ELSE ep.cnt[x] + Times(p, x)
      /\ ~s.failed => \A j \in 1..Len(p) : p[j].fd \notin Refused
      /\ Registry(ep, revents) => Registry(s.e, revents)
  BY <1>2, <1>3, EpAddIs
<1> HIDE DEF s
<1>5. Queued(PollSets["epoll"], ioq, pds)
  BY DEF EpollInv
<1>6. /\ Queued(PollSets["epoll"], ioq', pds')
      /\ \A u \in Threads : pds'[u] = pds[u] \/ (~s.failed /\ pds'[u] = p)
  <2>1. CASE s.failed
    BY <1>1, <1>5, <2>1
  <2>2. CASE ~s.failed
    <3>1. /\ Queued(PollSets["epoll"], Joined(ioq, t), With(pds, t, p)) /\ With(pds, t, p)[t] = p
          /\ \A u \in Threads : u # t => With(pds, t, p)[u] = pds[u]
      BY <1>1, <1>2, <1>5, QueuedAdd
    <3> QED BY <1>1, <2>2, <3>1
  <2> QED BY <2>1, <2>2
<1>7. ASSUME NEW x \in Fds \X Events PROVE ep'.cnt[x] = TimesAsked(pds', x)
  <2>1. ep.cnt[x] = TimesAsked(pds, x)
    BY DEF EpollInv
  <2>2. CASE s.failed
    BY <1>1, <1>4, <2>1, <2>2
  <2>3. CASE ~s.failed
    <3>1. pds \in Waits
      BY <1>5, EpollFacts
    <3>2. /\ TimesAsked(With(pds, t, p), x) = (TimesAsked(pds, x) - Times(pds[t], x)) + Times(p, x)
          /\ TimesAsked(pds, x) \in Nat /\ Times(p, x) \in Nat
      BY <1>2, <3>1, AskedUpdate
    <3>3. Times(pds[t], x) = 0
      BY <1>1, TimesOfNone
    <3>4. ep'.cnt[x] = ep.cnt[x] + Times(p, x) /\ pds' = With(pds, t, p)
      BY <1>1, <1>4, <2>3
    <3> QED BY <2>1, <3>2, <3>3, <3>4
  <2> QED BY <2>2, <2>3
<1>8. \A u \in Threads : Descriptors(pds'[u]) \subseteq open \ Refused
  <2>1. ~s.failed => Descriptors(p) \subseteq open \ Refused
    <3>1. \A d : d \in Descriptors(p) <=> \E i \in 1..Len(p) : p[i].fd = d
      BY <1>2, PollSetFacts
    <3> QED BY <1>2, <1>4, <3>1
  <2> QED BY <1>6, <2>1 DEF EpollInv
<1>9. (~stale => Registry(ep, revents))'
  <2>1. ~stale => Registry(ep', revents)
    BY <1>1, <1>4 DEF EpollInv
  <2> QED BY <1>1, <2>1
<1>10. LoopDone'
  BY <1>1, NothingHappens, EpollQuiet
<1>11. /\ open' \subseteq Fds /\ forks' \in 0..(2 * MaxForks) /\ stale' \in BOOLEAN
       /\ scan' \in Nat \ {0} /\ ep' \in Regs
       /\ revents' \in [Fds -> SUBSET (Events \cup {"ERR", "HUP"})]
       /\ happened' = UNION {{fd} \X revents'[fd] : fd \in Fds}
       /\ evtlist' = {fd \in Fds : revents'[fd] # {}}
  BY <1>1, <1>4 DEF EpollInv
<1>12. (\A u \in Threads : Descriptors(pds[u]) \subseteq open \ Refused)'
  BY <1>1, <1>8
<1>13. (\A x \in Fds \X Events : ep.cnt[x] = TimesAsked(pds, x))'
  BY <1>7
<1>14. Queued(PollSets["epoll"], ioq, pds)'
  BY <1>6
<1> QED BY <1>1, <1>9, <1>10, <1>11, <1>12, <1>13, <1>14 DEF EpollInv

(* A pollq leaves the queue.                                               *)
LEMMA EpollUncount ==
  ASSUME EpollInv, NEW t \in Threads, pds[t] # <<>>, Epoll!Dequeue(t),
         ep' = Epoll!epoll_pollset_del(ep, pds[t])
  PROVE  /\ ioq' = Unlink(ioq, t) /\ pds' = With(pds, t, <<>>)
         /\ Queued(PollSets["epoll"], ioq, pds)'
         /\ ep' \in Regs
         /\ \A x \in Fds \X Events : ep'.cnt[x] = TimesAsked(pds', x)
         /\ Registry(ep, revents) => Registry(ep', revents)
         /\ \A u \in Threads : pds'[u] = <<>> \/ pds'[u] = pds[u]
<1>1. ioq' = Unlink(ioq, t) /\ pds' = With(pds, t, <<>>)
  BY EpollSame DEF Epoll!Dequeue, With
<1>2. /\ Queued(PollSets["epoll"], ioq', pds') /\ pds'[t] = <<>>
      /\ \A u \in Threads : u # t => pds'[u] = pds[u]
  <2>1. Queued(PollSets["epoll"], ioq, pds)
    BY DEF EpollInv
  <2>2. LET r == Unlink(ioq, t)
            g == With(pds, t, <<>>)
        IN
        /\ Queued(PollSets["epoll"], r, g) /\ g[t] = <<>>
        /\ \A u \in Threads : u # t => g[u] = pds[u]
    BY <2>1, QueuedDel
  <2> QED BY <1>1, <2>2
<1>3. pds \in Waits /\ pds[t] \in Seq(Entries)
  BY EpollFacts DEF EpollInv
<1>4. ASSUME NEW x \in Fds \X Events
      PROVE  /\ ep.cnt[x] \in Nat /\ ep.cnt[x] >= Times(pds[t], x)
             /\ ep.cnt[x] - Times(pds[t], x) = TimesAsked(pds', x)
  <2>1. /\ TimesAsked(With(pds, t, <<>>), x) = TimesAsked(pds, x) - Times(pds[t], x)
        /\ TimesAsked(With(pds, t, <<>>), x) \in Nat /\ TimesAsked(pds, x) \in Nat
        /\ Times(pds[t], x) \in Nat
    BY <1>3, AskedDown
  <2>2. ep.cnt[x] = TimesAsked(pds, x)
    BY DEF EpollInv
  <2> QED BY <1>1, <2>1, <2>2
<1>5. ep \in Regs
  BY DEF EpollInv
<1>6. LET d == Epoll!epoll_pollset_del(ep, pds[t]) IN
      /\ d \in Regs
      /\ \A x \in Fds \X Events : d.cnt[x] = ep.cnt[x] - Times(pds[t], x) /\ d.cnt[x] \in Nat
      /\ Registry(ep, revents) => Registry(d, revents)
  BY <1>3, <1>4, <1>5, EpDelIs
<1>7. Queued(PollSets["epoll"], ioq, pds)'
  BY <1>2
<1>8. \A u \in Threads : pds'[u] = <<>> \/ pds'[u] = pds[u]
  BY <1>2
<1> QED BY <1>1, <1>4, <1>6, <1>7, <1>8

LEMMA EpollDel ==
  ASSUME EpollInv, NEW t \in Threads, Epoll!pollset_del(t)
  PROVE  EpollInv'
<1>1. /\ loop = "none" /\ pds[t] # <<>> /\ Epoll!Dequeue(t)
      /\ ep' = Epoll!epoll_pollset_del(ep, pds[t])
      /\ UNCHANGED <<open, forks, stale, happened, revents, evtlist, loop, scan>>
  BY DEF Epoll!pollset_del, Epoll!loopVars, Epoll!procVars
<1>2. /\ Queued(PollSets["epoll"], ioq, pds)'
      /\ ep' \in Regs
      /\ \A x \in Fds \X Events : ep'.cnt[x] = TimesAsked(pds', x)
      /\ Registry(ep, revents) => Registry(ep', revents)
      /\ \A u \in Threads : pds'[u] = <<>> \/ pds'[u] = pds[u]
  BY <1>1, EpollUncount
<1>3. (\A u \in Threads : Descriptors(pds[u]) \subseteq open \ Refused)'
  <2>1. \A u \in Threads : Descriptors(pds'[u]) \subseteq open \ Refused
    BY <1>2, NothingAsked DEF EpollInv
  <2> QED BY <1>1, <2>1
<1>4. (~stale => Registry(ep, revents))'
  <2>1. ~stale => Registry(ep', revents)
    BY <1>2 DEF EpollInv
  <2> QED BY <1>1, <2>1
<1>5. LoopDone'
  BY <1>1, NothingHappens, EpollQuiet
<1>6. /\ open' \subseteq Fds /\ forks' \in 0..(2 * MaxForks) /\ stale' \in BOOLEAN
      /\ scan' \in Nat \ {0}
      /\ revents' \in [Fds -> SUBSET (Events \cup {"ERR", "HUP"})]
      /\ happened' = UNION {{fd} \X revents'[fd] : fd \in Fds}
      /\ evtlist' = {fd \in Fds : revents'[fd] # {}}
  BY <1>1 DEF EpollInv
<1>7. (\A x \in Fds \X Events : ep.cnt[x] = TimesAsked(pds, x))'
  BY <1>2
<1> QED BY <1>1, <1>2, <1>3, <1>4, <1>5, <1>6, <1>7 DEF EpollInv

(* What the process waits for in the end.                                  *)
EpNow == IF stale THEN Epoll!Rebuilt ELSE ep

LEMMA EpollNow ==
  ASSUME EpollInv, loop = "none"
  PROVE  EpNow \in Proper /\ \A x \in Fds \X Events : EpNow.cnt[x] = TimesAsked(pds, x)
<1>1. \A fd \in Fds : revents[fd] = {}
  BY EpollQuiet
<1>2. CASE stale
  <2>1. /\ Queued(PollSets["epoll"], ioq, pds) /\ ep \in Regs
        /\ \A t \in Threads : Descriptors(pds[t]) \cap Refused = {}
    BY DEF EpollInv
  <2>2. EpNow = Epoll!Rebuilt
    BY <1>2 DEF EpNow
  <2>3. /\ Epoll!Rebuilt \in Proper
        /\ \A x \in Fds \X Events : Epoll!Rebuilt.cnt[x] = TimesAsked(pds, x)
    BY <1>1, <2>1, EpRebuiltIs
  <2> QED BY <2>2, <2>3
<1>3. CASE ~stale
  <2>1. EpNow = ep
    BY <1>3 DEF EpNow
  <2>2. ep \in Regs /\ Registry(ep, revents) /\ \A x \in Fds \X Events : ep.cnt[x] = TimesAsked(pds, x)
    BY <1>3 DEF EpollInv
  <2>3. Clean(ep) /\ \A x \in Fds \X Events : ep.cnt[x] \in Nat
    BY EpollClean, EpollAsked
  <2> QED BY <2>1, <2>2, <2>3 DEF Proper
<1> QED BY <1>2, <1>3

(* What epoll_wait reports of one descriptor.                              *)
Of(reported, fd) == {x[2] : x \in {y \in reported : y[1] = fd}}

LEMMA OfIs ==
  ASSUME NEW i \in [Fds -> SUBSET Events], NEW reported, reported \subseteq Epoll!Watched(i)
  PROVE  /\ {x[1] : x \in reported} = {fd \in Fds : Of(reported, fd) # {}}
         /\ \A fd \in Fds : /\ Of(reported, fd) \subseteq Events \cup {"ERR", "HUP"}
                            /\ Of(reported, fd) # {} => i[fd] # {}
<1>1. ASSUME NEW x \in reported
      PROVE  x[1] \in Fds /\ i[x[1]] # {} /\ x[2] \in Events \cup {"ERR", "HUP"}
  <2>1. PICK fd \in Fds : i[fd] # {} /\ x \in {fd} \X (i[fd] \cup Failures)
    BY DEF Epoll!Watched
  <2>2. x[1] = fd /\ x[2] \in i[fd] \cup Failures
    BY <2>1
  <2> QED BY <2>1, <2>2, EpollConstants
<1>2. \A fd : \A e : e \in Of(reported, fd) <=> \E x \in reported : x[1] = fd /\ x[2] = e
  BY DEF Of
<1>3. {x[1] : x \in reported} = {fd \in Fds : Of(reported, fd) # {}}
  <2>1. ASSUME NEW x \in reported PROVE x[1] \in Fds /\ Of(reported, x[1]) # {}
    <3>1. x[2] \in Of(reported, x[1])
      BY <1>2
    <3> QED BY <1>1, <3>1
  <2>2. ASSUME NEW fd \in Fds, Of(reported, fd) # {} PROVE \E x \in reported : x[1] = fd
    BY <1>2, <2>2
  <2> HIDE DEF Of
  <2> QED BY <2>1, <2>2
<1>4. ASSUME NEW fd \in Fds, NEW e \in Of(reported, fd)
      PROVE  i[fd] # {} /\ e \in Events \cup {"ERR", "HUP"}
  <2>1. PICK x \in reported : x[1] = fd /\ x[2] = e
    BY <1>2
  <2> QED BY <1>1, <2>1
<1> QED BY <1>3, <1>4

LEMMA ErrorsIs ==
  ASSUME NEW c, NEW fd, NEW r, r \subseteq Events \cup {"ERR", "HUP"}
  PROVE  LET w == Epoll!WithErrors(c, fd, r) IN
         w \subseteq Events \cup {"ERR", "HUP"} /\ (w = {} <=> r = {})
BY EpollSame DEF Epoll!WithErrors, Wanted

LEMMA EpollDispatch == EpollInv /\ Epoll!dispatch_wait => EpollInv'
<1> SUFFICES ASSUME EpollInv, Epoll!dispatch_wait PROVE EpollInv'
  OBVIOUS
<1> DEFINE now == EpNow
           r == [fd \in Fds |-> revents'[fd]]
<1>1. /\ loop = "none" /\ ep' = now /\ stale' = FALSE
      /\ happened' = UNION {{fd} \X revents'[fd] : fd \in Fds}
      /\ loop' = (IF evtlist' = {} THEN "return" ELSE "notify") /\ scan' = 1
      /\ UNCHANGED <<ioq, pds, open, forks>>
  BY DEF Epoll!dispatch_wait, EpNow
<1>2. PICK reported \in SUBSET Epoll!Watched(now.interest) :
        /\ evtlist' = {x[1] : x \in reported}
        /\ revents' = [fd \in Fds |-> Epoll!WithErrors(now.cnt, fd,
                            {x[2] : x \in {y \in reported : y[1] = fd}})]
  BY DEF Epoll!dispatch_wait, EpNow
<1>3. now \in Proper /\ \A x \in Fds \X Events : now.cnt[x] = TimesAsked(pds, x)
  BY <1>1, EpollNow
<1>4. now \in Regs /\ Registry(now, revents) /\ now.interest \in [Fds -> SUBSET Events]
  BY <1>3 DEF Proper, Regs
<1>5. \A fd \in Fds : revents[fd] = {}
  BY <1>1, EpollQuiet
<1> HIDE DEF now
<1>6. /\ evtlist' = {fd \in Fds : Of(reported, fd) # {}}
      /\ \A fd \in Fds : /\ Of(reported, fd) \subseteq Events \cup {"ERR", "HUP"}
                         /\ Of(reported, fd) # {} => now.interest[fd] # {}
  BY <1>2, <1>4, OfIs
<1>7. revents' = [fd \in Fds |-> Epoll!WithErrors(now.cnt, fd, Of(reported, fd))]
  BY <1>2 DEF Of
<1>8. \A fd \in Fds : /\ revents'[fd] \subseteq Events \cup {"ERR", "HUP"}
                      /\ revents'[fd] = {} <=> Of(reported, fd) = {}
  <2> TAKE fd \in Fds
  <2>1. revents'[fd] = Epoll!WithErrors(now.cnt, fd, Of(reported, fd))
    BY <1>7
  <2> QED BY <1>6, <2>1, ErrorsIs
<1>9. revents' \in [Fds -> SUBSET (Events \cup {"ERR", "HUP"})]
  <2>1. revents' = [fd \in Fds |-> revents'[fd]]
    BY <1>7
  <2> QED BY <1>8, <2>1
<1>10. evtlist' = {fd \in Fds : revents'[fd] # {}}
  BY <1>6, <1>8
<1>11. Registry(now, revents')
  <2>1. /\ \A fd \in Fds : fd \notin Refused => now.interest[fd] = Wanted(now.cnt, fd)
        /\ \A fd \in Refused : now.interest[fd] = {}
        /\ now.n = Cardinality(Watched(now.interest)) /\ now.n <= now.size
    BY <1>4, <1>5, RegistryIs
  <2>2. \A fd \in Fds : revents'[fd] # {} => fd \notin Refused
    BY <1>6, <1>8, <2>1
  <2>3. \A fd \in Fds : IF revents'[fd] = {} THEN fd \notin Refused => now.interest[fd] = Wanted(now.cnt, fd)
                        ELSE Wanted(now.cnt, fd) \subseteq now.interest[fd]
    BY <2>1, <2>2
  <2> QED BY <2>1, <2>3, RegistryIs
<1>12. (~stale => Registry(ep, revents))'
  BY <1>1, <1>11
<1>13. LoopDone'
  <2>1. ASSUME loop' = "return" PROVE happened' = {}
    <3>1. evtlist' = {}
      BY <1>1, <2>1
    <3>2. \A fd \in Fds : revents'[fd] = {}
      BY <1>10, <3>1
    <3>3. \A fd \in Fds : {fd} \X revents'[fd] = {}
      BY <3>2
    <3> QED BY <1>1, <3>3
  <2>2. loop' = "return" => \A t \in Threads : ~Concerned(pds'[t], happened')
    BY <2>1, NoConcern
  <2>3. loop' # "none" /\ scan' = 1
    BY <1>1
  <2> QED BY <2>2, <2>3, BeginLoop
<1>14. Queued(PollSets["epoll"], ioq, pds)'
  BY <1>1 DEF EpollInv
<1>15. (\A t \in Threads : Descriptors(pds[t]) \subseteq open \ Refused)'
  BY <1>1 DEF EpollInv
<1>16. (\A x \in Fds \X Events : ep.cnt[x] = TimesAsked(pds, x))'
  BY <1>1, <1>3
<1>17. open' \subseteq Fds /\ forks' \in 0..(2 * MaxForks)
  BY <1>1 DEF EpollInv
<1>18. ep' \in Regs
  BY <1>1, <1>4
<1>19. stale' \in BOOLEAN /\ ~stale'
  BY <1>1
<1>20. scan' \in Nat \ {0}
  BY <1>1
<1>21. loop' \in {"none", "notify", "return"}
  BY <1>1
<1>22. happened' = UNION {{fd} \X revents'[fd] : fd \in Fds}
  BY <1>1
<1> QED BY <1>9, <1>10, <1>12, <1>13, <1>14, <1>15, <1>16, <1>17, <1>18, <1>19, <1>20, <1>21, <1>22
        DEF EpollInv

(* What the loop stores for a pollq is what has happened of its events.    *)
LEMMA EpollSlice ==
  ASSUME EpollInv, NEW p \in Seq(Entries)
  PROVE  /\ Epoll!LoopRevents(p) = Revents(p, happened)
         /\ Epoll!Notified(p) <=> Concerned(p, happened)
<1>1. DOMAIN p = 1..Len(p) /\ \A i \in 1..Len(p) : p[i].fd \in Fds /\ p[i].events \subseteq Events
  BY PollSetFacts
<1>2. \A fd \in Fds : \A e : <<fd, e>> \in happened <=> e \in revents[fd]
  <2> TAKE fd \in Fds
  <2> TAKE e
  <2>1. happened = UNION {{d} \X revents[d] : d \in Fds}
    BY DEF EpollInv
  <2>2. \A d \in Fds : <<fd, e>> \in {d} \X revents[d] <=> d = fd /\ e \in revents[d]
    OBVIOUS
  <2> QED BY <2>1, <2>2
<1>3. \A fd \in Fds : revents[fd] \subseteq Events \cup {"ERR", "HUP"}
  BY DEF EpollInv
<1>4. \A i \in DOMAIN p :
        revents[p[i].fd] \cap (p[i].events \cup {"ERR", "HUP"}) = Hits(p[i], happened)
  <2> TAKE i \in DOMAIN p
  <2>1. p[i].fd \in Fds /\ p[i].events \subseteq Events
    BY <1>1
  <2>2. Hits(p[i], happened) = {e \in p[i].events \cup Unasked : e \in revents[p[i].fd]}
    BY <1>2, <2>1 DEF Hits
  <2>3. revents[p[i].fd] \subseteq Events \cup {"ERR", "HUP"}
    BY <1>3, <2>1
  <2> QED BY <2>2, <2>3 DEF Unasked, Events
<1>5. Epoll!LoopRevents(p) = Revents(p, happened)
  BY <1>4 DEF Epoll!LoopRevents, Revents
<1>6. Epoll!Notified(p) <=> Concerned(p, happened)
  BY <1>5 DEF Epoll!Notified, Concerned, Revents
<1> QED BY <1>5, <1>6

(* The thread whose turn it is in the loop.                                *)
LEMMA EpollTurn ==
  ASSUME EpollInv, loop = "notify", scan <= Len(ioq)
  PROVE  /\ ioq[scan] \in Threads /\ pds[ioq[scan]] # <<>>
         /\ pds[ioq[scan]] \in Seq(Entries) /\ scan \in Nat \ {0}
<1>1. Queued(PollSets["epoll"], ioq, pds) /\ scan \in Nat \ {0}
  BY DEF EpollInv
<1>2. Len(ioq) \in Nat /\ \A i \in 1..Len(ioq) : ioq[i] \in Threads /\ pds[ioq[i]] # <<>>
  BY <1>1, EpollFacts
<1>3. scan \in 1..Len(ioq)
  BY <1>1, <1>2
<1>4. \A u \in Threads : pds[u] \in Seq(Entries)
  BY <1>1, EpollFacts
<1> QED BY <1>1, <1>2, <1>3, <1>4

LEMMA EpollNotify == EpollInv /\ Epoll!dispatch_notify => EpollInv'
<1> SUFFICES ASSUME EpollInv, Epoll!dispatch_notify PROVE EpollInv'
  OBVIOUS
<1> DEFINE t == ioq[scan]
<1>1. /\ loop = "notify" /\ scan <= Len(ioq) /\ Epoll!Dequeue(t)
      /\ ep' = Epoll!epoll_pollset_del(ep, pds[t])
      /\ UNCHANGED <<open, forks, stale, happened, revents, evtlist, loop, scan>>
  BY DEF Epoll!dispatch_notify, Epoll!InLoop, Epoll!procVars, Epoll!loopVars
<1>2. t \in Threads /\ pds[t] # <<>>
  BY <1>1, EpollTurn
<1>3. /\ ioq' = Unlink(ioq, t) /\ pds' = With(pds, t, <<>>)
      /\ Queued(PollSets["epoll"], ioq, pds)'
      /\ ep' \in Regs
      /\ \A x \in Fds \X Events : ep'.cnt[x] = TimesAsked(pds', x)
      /\ Registry(ep, revents) => Registry(ep', revents)
      /\ \A u \in Threads : pds'[u] = <<>> \/ pds'[u] = pds[u]
  BY <1>1, <1>2, EpollUncount
<1>4. LoopDone'
  <2>1. /\ LoopDone /\ PollSets["epoll"] \subseteq Seq(Entries) \ {<<>>}
        /\ Queued(PollSets["epoll"], ioq, pds) /\ scan \in Nat \ {0}
    BY EpollConstants DEF EpollInv
  <2> QED BY <1>1, <1>3, <2>1, NotifyLoop
<1> HIDE DEF t
<1>5. (\A u \in Threads : Descriptors(pds[u]) \subseteq open \ Refused)'
  <2>1. \A u \in Threads : Descriptors(pds'[u]) \subseteq open \ Refused
    BY <1>3, NothingAsked DEF EpollInv
  <2> QED BY <1>1, <2>1
<1>6. (~stale => Registry(ep, revents))'
  <2>1. ~stale => Registry(ep', revents)
    BY <1>3 DEF EpollInv
  <2> QED BY <1>1, <2>1
<1>7. /\ open' \subseteq Fds /\ forks' \in 0..(2 * MaxForks) /\ stale' \in BOOLEAN
      /\ scan' \in Nat \ {0} /\ ~stale'
      /\ revents' \in [Fds -> SUBSET (Events \cup {"ERR", "HUP"})]
      /\ happened' = UNION {{fd} \X revents'[fd] : fd \in Fds}
      /\ evtlist' = {fd \in Fds : revents'[fd] # {}}
  BY <1>1 DEF EpollInv
<1>8. (\A x \in Fds \X Events : ep.cnt[x] = TimesAsked(pds, x))'
  BY <1>3
<1> QED BY <1>1, <1>3, <1>4, <1>5, <1>6, <1>7, <1>8 DEF EpollInv

LEMMA EpollPass == EpollInv /\ Epoll!dispatch_pass => EpollInv'
<1> SUFFICES ASSUME EpollInv, Epoll!dispatch_pass PROVE EpollInv'
  OBVIOUS
<1>1. /\ loop = "notify" /\ scan <= Len(ioq) /\ ~Epoll!Notified(pds[ioq[scan]])
      /\ scan' = scan + 1
      /\ UNCHANGED <<ioq, pds, ep, open, forks, stale, happened, revents, evtlist, loop>>
  BY DEF Epoll!dispatch_pass, Epoll!InLoop, Epoll!procVars
<1>2. pds[ioq[scan]] \in Seq(Entries) /\ scan \in Nat \ {0}
  BY <1>1, EpollTurn
<1>3. ~Concerned(pds[ioq[scan]], happened)
  BY <1>1, <1>2, EpollSlice
<1>4. LoopDone'
  <2>1. LoopDone
    BY DEF EpollInv
  <2> QED BY <1>1, <1>2, <1>3, <2>1, PassLoop
<1>5. scan' \in Nat \ {0}
  BY <1>1, <1>2
<1>6. /\ Queued(PollSets["epoll"], ioq, pds)' /\ ep' \in Regs
      /\ (\A t \in Threads : Descriptors(pds[t]) \subseteq open \ Refused)'
      /\ (\A x \in Fds \X Events : ep.cnt[x] = TimesAsked(pds, x))'
      /\ (~stale => Registry(ep, revents))'
  BY <1>1 DEF EpollInv
<1>7. /\ open' \subseteq Fds /\ forks' \in 0..(2 * MaxForks) /\ stale' \in BOOLEAN
      /\ loop' = "notify" /\ ~stale'
      /\ revents' \in [Fds -> SUBSET (Events \cup {"ERR", "HUP"})]
      /\ happened' = UNION {{fd} \X revents'[fd] : fd \in Fds}
      /\ evtlist' = {fd \in Fds : revents'[fd] # {}}
  BY <1>1 DEF EpollInv
<1> QED BY <1>4, <1>5, <1>6, <1>7 DEF EpollInv

(* What is left to the end of dispatch is done there.                      *)
LEMMA SettledIs ==
  ASSUME EpollInv, loop # "none"
  PROVE  LET e == Epoll!Settled IN
         /\ e \in Regs /\ e.cnt = ep.cnt
         /\ \A r : (\A fd \in Fds : r[fd] = {}) => Registry(e, r)
<1> DEFINE e == Epoll!Settled
           new == [fd \in Fds |-> IF fd \in evtlist THEN Wanted(ep.cnt, fd) ELSE ep.interest[fd]]
           gone == {fd \in evtlist : Wanted(ep.cnt, fd) = {} /\ ep.interest[fd] # {}}
<1>1. /\ ep \in Regs /\ ep.cnt \in [Fds \X Events -> Int]
      /\ ep.interest \in [Fds -> SUBSET Events] /\ ep.n \in Int /\ ep.size \in Nat \ {0}
  BY DEF EpollInv, Regs
<1>2. e = [ep EXCEPT !.interest = new, !.n = @ - Cardinality(gone)]
  BY EpollSame DEF Epoll!Settled
<1>3. /\ \A fd \in Fds : IF revents[fd] = {} THEN fd \notin Refused => ep.interest[fd] = Wanted(ep.cnt, fd)
                         ELSE Wanted(ep.cnt, fd) \subseteq ep.interest[fd]
      /\ \A fd \in Refused : ep.interest[fd] = {}
      /\ ep.n = Cardinality(Watched(ep.interest)) /\ ep.n <= ep.size
  BY RegistryIs DEF EpollInv
<1>4. evtlist = {fd \in Fds : revents[fd] # {}}
  BY DEF EpollInv
<1>5. /\ IsFiniteSet(Watched(ep.interest)) /\ IsFiniteSet(gone)
      /\ Cardinality(gone) \in Nat /\ Cardinality(Watched(ep.interest)) \in Nat
  <2>1. IsFiniteSet(Fds) /\ Watched(ep.interest) \in SUBSET Fds /\ gone \in SUBSET Fds
    BY <1>4, EpollConstants DEF Watched
  <2> HIDE DEF gone
  <2> QED BY <2>1, FS_Subset, FS_CardinalityType
<1>6. new \in [Fds -> SUBSET Events]
  BY <1>1 DEF Wanted
<1>7. \A fd \in Fds : new[fd] = IF fd \in evtlist THEN Wanted(ep.cnt, fd) ELSE ep.interest[fd]
  OBVIOUS
<1> HIDE DEF e, new
<1>8. /\ e.cnt = ep.cnt /\ e.interest = new /\ e.n = ep.n - Cardinality(gone)
      /\ e.size = ep.size /\ e \in Regs
  <2>1. e.cnt = ep.cnt
    BY <1>1, <1>2 DEF Regs
  <2>2. e.interest = new
    BY <1>1, <1>2 DEF Regs
  <2>3. e.n = ep.n - Cardinality(gone)
    BY <1>1, <1>2 DEF Regs
  <2>4. e.size = ep.size
    BY <1>1, <1>2 DEF Regs
  <2>5. e = [cnt |-> e.cnt, interest |-> e.interest, n |-> e.n, size |-> e.size]
    BY <1>1, <1>2 DEF Regs
  <2> HIDE DEF gone
  <2>6. e.n \in Int
    BY <1>1, <1>5, <2>3
  <2> QED BY <1>1, <1>6, <2>1, <2>2, <2>3, <2>4, <2>5, <2>6 DEF Regs
<1>9. Watched(new) = Watched(ep.interest) \ gone /\ gone \subseteq Watched(ep.interest)
  <2>1. \A fd \in evtlist : fd \in Fds /\ Wanted(ep.cnt, fd) \subseteq ep.interest[fd]
    BY <1>3, <1>4
  <2> QED BY <1>7, <2>1 DEF Watched
<1>10. Cardinality(Watched(new)) = Cardinality(Watched(ep.interest)) - Cardinality(gone)
  <2> DEFINE W == Watched(ep.interest)
  <2>1. IsFiniteSet(W) /\ IsFiniteSet(gone) /\ W \cap gone = gone
    BY <1>5, <1>9
  <2> HIDE DEF gone, W
  <2>2. Cardinality(W \ gone) = Cardinality(W) - Cardinality(W \cap gone)
    BY <2>1, FS_Difference
  <2> QED BY <1>9, <2>1, <2>2 DEF W
<1> HIDE DEF gone
<1>11. e.n = Cardinality(Watched(e.interest)) /\ e.n <= e.size
  BY <1>1, <1>3, <1>5, <1>8, <1>10
<1>12. \A fd \in Fds : fd \notin Refused => e.interest[fd] = Wanted(e.cnt, fd)
  BY <1>3, <1>4, <1>7, <1>8
<1>13. \A fd \in Refused : e.interest[fd] = {}
  <2> TAKE fd \in Refused
  <2>1. fd \in Fds /\ Wanted(ep.cnt, fd) = {}
    BY EpollClean, EpollConstants DEF Clean
  <2> QED BY <1>3, <1>7, <1>8, <2>1
<1>14. ASSUME NEW r, \A fd \in Fds : r[fd] = {} PROVE Registry(e, r)
  BY <1>11, <1>12, <1>13, <1>14, RegistryIs
<1> QED BY <1>8, <1>14 DEF e

LEMMA EpollReturn == EpollInv /\ Epoll!dispatch_return => EpollInv'
<1> SUFFICES ASSUME EpollInv, Epoll!dispatch_return PROVE EpollInv'
  OBVIOUS
<1>1. /\ loop # "none" /\ ep' = Epoll!Settled
      /\ happened' = {} /\ revents' = [fd \in Fds |-> {}] /\ evtlist' = {}
      /\ loop' = "none" /\ scan' = 1
      /\ UNCHANGED <<ioq, pds, open, forks, stale>>
  BY DEF Epoll!dispatch_return, Epoll!NoRevents, Epoll!procVars
<1>2. /\ ep' \in Regs /\ ep'.cnt = ep.cnt
      /\ \A r : (\A fd \in Fds : r[fd] = {}) => Registry(ep', r)
  BY <1>1, SettledIs
<1>3. \A fd \in Fds : revents'[fd] = {}
  BY <1>1
<1>4. (~stale => Registry(ep, revents))'
  BY <1>2, <1>3
<1>5. revents' \in [Fds -> SUBSET (Events \cup {"ERR", "HUP"})]
  BY <1>1
<1>6. happened' = UNION {{fd} \X revents'[fd] : fd \in Fds}
  <2>1. \A fd \in Fds : {fd} \X revents'[fd] = {}
    BY <1>3
  <2> QED BY <1>1, <2>1
<1>7. evtlist' = {fd \in Fds : revents'[fd] # {}}
  BY <1>1, <1>3
<1>8. LoopDone'
  BY <1>1, NothingHappens
<1>9. /\ Queued(PollSets["epoll"], ioq, pds)'
      /\ (\A t \in Threads : Descriptors(pds[t]) \subseteq open \ Refused)'
      /\ open' \subseteq Fds /\ forks' \in 0..(2 * MaxForks) /\ stale' \in BOOLEAN
  BY <1>1 DEF EpollInv
<1>10. (\A x \in Fds \X Events : ep.cnt[x] = TimesAsked(pds, x))'
  BY <1>1, <1>2 DEF EpollInv
<1>11. scan' \in Nat \ {0}
  BY <1>1
<1>12. loop' = "none"
  BY <1>1
<1> QED BY <1>2, <1>4, <1>5, <1>6, <1>7, <1>8, <1>9, <1>10, <1>11, <1>12 DEF EpollInv

-----------------------------------------------------------------------------
(* A step outside dispatch that changes neither the queue nor the counts.  *)
LEMMA EpollOutside ==
  ASSUME EpollInv, loop = "none", UNCHANGED <<ioq, pds, happened, revents, evtlist, loop, scan>>,
         ep' \in Regs, ep'.cnt = ep.cnt, open' \subseteq Fds, forks' \in 0..(2 * MaxForks),
         stale' \in BOOLEAN, ~stale' => Registry(ep', revents),
         \A t \in Threads : Descriptors(pds[t]) \subseteq open' \ Refused
  PROVE  EpollInv'
<1>1. LoopDone'
  BY NothingHappens, EpollQuiet
<1>2. /\ Queued(PollSets["epoll"], ioq, pds)' /\ scan' \in Nat \ {0} /\ loop' = "none"
      /\ revents' \in [Fds -> SUBSET (Events \cup {"ERR", "HUP"})]
      /\ happened' = UNION {{fd} \X revents'[fd] : fd \in Fds}
      /\ evtlist' = {fd \in Fds : revents'[fd] # {}}
  BY DEF EpollInv
<1>3. (\A t \in Threads : Descriptors(pds[t]) \subseteq open \ Refused)'
  OBVIOUS
<1>4. (\A x \in Fds \X Events : ep.cnt[x] = TimesAsked(pds, x))'
  BY DEF EpollInv
<1>5. (~stale => Registry(ep, revents))'
  OBVIOUS
<1> QED BY <1>1, <1>2, <1>3, <1>4, <1>5 DEF EpollInv

(* One field of the interest list is set.                                  *)
SetInterest(e, fd, w) == [e EXCEPT !.interest[fd] = w]

LEMMA SetInterestIs ==
  ASSUME NEW e \in Regs, NEW fd \in Fds, NEW w, w \subseteq Events
  PROVE  LET d == SetInterest(e, fd, w) IN
         d \in Regs /\ d.cnt = e.cnt /\ (e.interest[fd] = w => d = e)
<1> DEFINE d == SetInterest(e, fd, w)
<1>1. e = [cnt |-> e.cnt, interest |-> e.interest, n |-> e.n, size |-> e.size]
  BY DEF Regs
<1>2. /\ e.cnt \in [Fds \X Events -> Int] /\ e.interest \in [Fds -> SUBSET Events]
      /\ e.n \in Int /\ e.size \in Nat \ {0}
  BY DEF Regs
<1>3. d = [cnt |-> e.cnt, interest |-> [e.interest EXCEPT ![fd] = w], n |-> e.n, size |-> e.size]
  BY <1>1 DEF SetInterest
<1>4. [e.interest EXCEPT ![fd] = w] \in [Fds -> SUBSET Events]
  BY <1>2
<1>5. e.interest[fd] = w => [e.interest EXCEPT ![fd] = w] = e.interest
  BY <1>2
<1> HIDE DEF d
<1> QED BY <1>1, <1>2, <1>3, <1>4, <1>5 DEF Regs, d

LEMMA EpollClose ==
  ASSUME EpollInv, NEW fd \in Fds, Epoll!fd_close(fd)
  PROVE  EpollInv'
<1>1. /\ loop = "none" /\ open' = open \ {fd} /\ Wanted(ep.cnt, fd) = {}
      /\ ep' = SetInterest(ep, fd, IF stale THEN ep.interest[fd] ELSE {})
      /\ UNCHANGED <<ioq, pds, forks, stale, happened, revents, evtlist, loop, scan>>
  BY EpollSame DEF Epoll!fd_close, Epoll!InUse, Epoll!loopVars, SetInterest
<1>2. ep \in Regs /\ ep.interest[fd] \subseteq Events
  BY DEF EpollInv, Regs
<1>3. ep' \in Regs /\ ep'.cnt = ep.cnt
  BY <1>1, <1>2, SetInterestIs
<1>4. ~stale => Registry(ep', revents)
  <2> SUFFICES ASSUME ~stale PROVE Registry(ep', revents)
    OBVIOUS
  <2>1. Registry(ep, revents) /\ revents[fd] = {}
    BY <1>1, EpollQuiet DEF EpollInv
  <2>2. ep.interest[fd] = {}
    BY <1>1, <2>1, RegistryIs
  <2>3. ep' = ep
    BY <1>1, <1>2, <2>2, SetInterestIs
  <2> QED BY <2>1, <2>3
<1>5. \A t \in Threads : Descriptors(pds[t]) \subseteq open' \ Refused
  BY <1>1, EpollUnused DEF EpollInv
<1>6. open' \subseteq Fds /\ forks' \in 0..(2 * MaxForks) /\ stale' \in BOOLEAN
  BY <1>1 DEF EpollInv
<1>7. ~stale' => Registry(ep', revents)
  BY <1>1, <1>4
<1> QED BY <1>1, <1>3, <1>5, <1>6, <1>7, EpollOutside

LEMMA EpollOpen ==
  ASSUME EpollInv, NEW fd \in Fds, Epoll!fd_open(fd)
  PROVE  EpollInv'
<1>1. /\ loop = "none" /\ open' = open \cup {fd}
      /\ UNCHANGED <<ioq, pds, ep, forks, stale, happened, revents, evtlist, loop, scan>>
  BY DEF Epoll!fd_open, Epoll!loopVars
<1>2. /\ ep' \in Regs /\ ep'.cnt = ep.cnt
      /\ open' \subseteq Fds /\ forks' \in 0..(2 * MaxForks) /\ stale' \in BOOLEAN
      /\ ~stale' => Registry(ep', revents)
      /\ \A t \in Threads : Descriptors(pds[t]) \subseteq open' \ Refused
  BY <1>1 DEF EpollInv
<1> QED BY <1>1, <1>2, EpollOutside

LEMMA EpollFork == EpollInv /\ Epoll!fork => EpollInv'
<1> SUFFICES ASSUME EpollInv, Epoll!fork PROVE EpollInv'
  OBVIOUS
<1>1. /\ loop = "none" /\ forks < 2 * MaxForks /\ forks' = forks + 1 /\ stale' = TRUE
      /\ UNCHANGED <<ioq, pds, ep, open, happened, revents, evtlist, loop, scan>>
  BY DEF Epoll!fork, Epoll!loopVars
<1>2. /\ ep' \in Regs /\ ep'.cnt = ep.cnt /\ open' \subseteq Fds
      /\ \A t \in Threads : Descriptors(pds[t]) \subseteq open' \ Refused
  BY <1>1 DEF EpollInv
<1>3. forks' \in 0..(2 * MaxForks)
  BY <1>1, EpollConstants DEF EpollInv
<1>4. stale' \in BOOLEAN /\ stale'
  BY <1>1
<1> QED BY <1>1, <1>2, <1>3, <1>4, EpollOutside

LEMMA EpollParent ==
  ASSUME EpollInv, NEW fd \in Fds, NEW w \in {{}, {"IN"}}, Epoll!parent_ctl(fd, w)
  PROVE  EpollInv'
<1>1. /\ loop = "none" /\ stale /\ forks < 2 * MaxForks /\ forks' = forks + 1
      /\ ep' = SetInterest(ep, fd, w)
      /\ UNCHANGED <<ioq, pds, open, stale, happened, revents, evtlist, loop, scan>>
  BY DEF Epoll!parent_ctl, Epoll!loopVars, SetInterest
<1>2. ep \in Regs /\ w \subseteq Events
  BY DEF EpollInv, Events
<1>3. ep' \in Regs /\ ep'.cnt = ep.cnt
  BY <1>1, <1>2, SetInterestIs
<1>4. forks' \in 0..(2 * MaxForks)
  BY <1>1, EpollConstants DEF EpollInv
<1>5. /\ open' \subseteq Fds /\ stale' \in BOOLEAN
      /\ \A t \in Threads : Descriptors(pds[t]) \subseteq open' \ Refused
  BY <1>1 DEF EpollInv
<1>6. stale'
  BY <1>1
<1> QED BY <1>1, <1>3, <1>4, <1>5, <1>6, EpollOutside

LEMMA EpollNext == EpollInv /\ Epoll!Next => EpollInv'
BY EpollAdd, EpollDel, EpollDispatch, EpollNotify, EpollPass, EpollReturn,
   EpollClose, EpollOpen, EpollParent, EpollFork
   DEF Epoll!Next

(* What the run checks of the epoll event system.                          *)
LEMMA EpollChecks ==
  EpollInv => /\ Epoll!TypeOK /\ Epoll!CountsExact /\ Epoll!InterestExact /\ Epoll!WaitedOpen
<1> SUFFICES ASSUME EpollInv
             PROVE  /\ Epoll!TypeOK /\ Epoll!CountsExact /\ Epoll!InterestExact
                    /\ Epoll!WaitedOpen
  OBVIOUS
<1>1. ep \in [cnt : [Fds \X Events -> Nat], interest : [Fds -> SUBSET Events],
              n : Int, size : Nat \ {0}]
  <2>1. \A x \in Fds \X Events : ep.cnt[x] \in Nat
    BY EpollAsked
  <2>2. ep \in Regs
    BY DEF EpollInv
  <2>3. ep.cnt \in [Fds \X Events -> Nat]
    BY <2>1, <2>2 DEF Regs
  <2> QED BY <2>2, <2>3 DEF Regs
<1>2. happened \subseteq AllEvents /\ revents \in [Fds -> SUBSET (Events \cup Unasked)]
  <2>1. revents \in [Fds -> SUBSET (Events \cup {"ERR", "HUP"})]
    BY DEF EpollInv
  <2>2. {"ERR", "HUP"} \subseteq Unasked
    BY DEF Unasked
  <2>3. revents \in [Fds -> SUBSET (Events \cup Unasked)]
    BY <2>1, <2>2
  <2>4. happened = UNION {{fd} \X revents[fd] : fd \in Fds}
    BY DEF EpollInv
  <2>5. \A fd \in Fds : revents[fd] \subseteq Events \cup Unasked
    BY <2>3
  <2>6. happened \subseteq AllEvents
    BY <2>4, <2>5 DEF AllEvents
  <2> QED BY <2>3, <2>6
<1>3. Epoll!TypeOK
  <2>1. /\ ioq \in Seq(Threads) /\ pds \in [Threads -> PollSets["epoll"] \cup {<<>>}]
        /\ open \subseteq Fds /\ forks \in 0..(2 * MaxForks) /\ stale \in BOOLEAN
        /\ evtlist \subseteq Fds /\ loop \in {"none", "notify", "return"} /\ scan \in Nat \ {0}
    BY DEF EpollInv, Queued
  <2> QED BY <1>1, <1>2, <2>1, EpollSame DEF Epoll!TypeOK
<1>4. Epoll!CountsExact
  BY EpollSame DEF EpollInv, Epoll!CountsExact
<1>5. Epoll!InterestExact
  <2> SUFFICES ASSUME loop = "none", ~stale
               PROVE  /\ ep.n <= ep.size
                      /\ \A fd \in Fds :
                           ep.interest[fd] = UNION {{e \in Events : <<fd, e>> \in Pairs(pds[t])}
                                                      : t \in Threads}
                      /\ ep.n = Cardinality({fd \in Fds : ep.interest[fd] # {}})
    BY EpollSame DEF Epoll!InterestExact
  <2>1. Registry(ep, revents) /\ \A fd \in Fds : revents[fd] = {}
    BY EpollQuiet DEF EpollInv
  <2>2. ASSUME NEW fd \in Fds
        PROVE  ep.interest[fd] = UNION {{e \in Events : <<fd, e>> \in Pairs(pds[t])} : t \in Threads}
    <3>1. Wanted(ep.cnt, fd) = UNION {{e \in Events : <<fd, e>> \in Pairs(pds[t])} : t \in Threads}
      BY EpollWanted
    <3>2. ep.interest[fd] = Wanted(ep.cnt, fd)
      <4>1. fd \notin Refused => ep.interest[fd] = Wanted(ep.cnt, fd)
        BY <2>1, RegistryIs
      <4>2. fd \in Refused => ep.interest[fd] = {}
        BY <2>1, RegistryIs
      <4>3. fd \in Refused => Wanted(ep.cnt, fd) = {}
        BY EpollClean DEF Clean
      <4> QED BY <4>1, <4>2, <4>3
    <3> QED BY <3>1, <3>2
  <2>3. ep.n <= ep.size /\ ep.n = Cardinality({fd \in Fds : ep.interest[fd] # {}})
    BY <2>1 DEF Registry
  <2> QED BY <2>2, <2>3
<1>6. Epoll!WaitedOpen
  BY EpollSame DEF EpollInv, Epoll!WaitedOpen
<1> QED BY <1>3, <1>4, <1>5, <1>6

LEMMA InvStutter == IInv /\ UNCHANGED vars => IInv'
<1> SUFFICES ASSUME IInv, UNCHANGED vars PROVE IInv'
  OBVIOUS
<1>1. /\ UNCHANGED <<eventsys, ioq, pds, open, happened, loop, scan>>
      /\ UNCHANGED <<cnt, fdset, maxfd, selected>>
      /\ UNCHANGED <<fdcnt, size, pollfds, at>>
      /\ UNCHANGED <<ep, forks, stale, revents, evtlist>>
      /\ UNCHANGED <<kq, addlist, addcnt, dellist>>
  BY DEF vars, shared, selectOnly, pollOnly, epollOnly, kqueueOnly, forkVars
<1>2. LoopDone => LoopDone'
  BY <1>1 DEF LoopDone
<1>3. CASE eventsys = "select"
  <2>1. SelectInv
    BY <1>3 DEF IInv
  <2>2. SelectInv'
    BY <1>1, <1>2, <2>1 DEF SelectInv
  <2> QED BY <1>1, <1>3, <2>2 DEF IInv
<1>4. CASE eventsys = "poll"
  <2>1. PollInv
    BY <1>4 DEF IInv
  <2>2. PollInv'
    BY <1>1, <1>2, <2>1 DEF PollInv
  <2> QED BY <1>1, <1>4, <2>2 DEF IInv
<1>5. CASE eventsys = "epoll"
  <2>1. EpollInv
    BY <1>5 DEF IInv
  <2>2. EpollInv'
    BY <1>1, <1>2, <2>1 DEF EpollInv
  <2> QED BY <1>1, <1>5, <2>2 DEF IInv
<1>6. CASE eventsys = "kqueue"
  <2>1. KqueueInv
    BY <1>6 DEF IInv
  <2>2. KqueueInv'
    BY <1>1, <1>2, <2>1 DEF KqueueInv
  <2> QED BY <1>1, <1>6, <2>2 DEF IInv
<1> QED BY <1>3, <1>4, <1>5, <1>6 DEF IInv

LEMMA InvInit == Init => IInv
BY SelectInit, PollInit, EpollInit, KqueueInit DEF Init, IInv

LEMMA InvNext == IInv /\ [Next]_vars => IInv'
<1> SUFFICES ASSUME IInv, Next PROVE IInv'
  BY InvStutter
<1>0. eventsys' = eventsys
  BY DEF Next
<1>1. CASE eventsys = "select"
  <2>1. SelectInv /\ Select!Next
    BY <1>1 DEF IInv, Next
  <2> QED BY <1>0, <1>1, <2>1, SelectNext DEF IInv
<1>2. CASE eventsys = "poll"
  <2>1. PollInv /\ Poll!Next
    BY <1>2 DEF IInv, Next
  <2> QED BY <1>0, <1>2, <2>1, PollNext DEF IInv
<1>3. CASE eventsys = "epoll"
  <2>1. EpollInv /\ Epoll!Next
    BY <1>3 DEF IInv, Next
  <2> QED BY <1>0, <1>3, <2>1, EpollNext DEF IInv
<1>4. CASE eventsys = "kqueue"
  <2>1. KqueueInv /\ Kqueue!Next
    BY <1>4 DEF IInv, Next
  <2> QED BY <1>0, <1>4, <2>1, KqueueNext DEF IInv
<1> QED BY <1>1, <1>2, <1>3, <1>4 DEF IInv

(* Whichever event system is chosen, its tables, what it asked the kernel  *)
(* for, and how far its dispatch has come fit the pollqs that wait, after  *)
(* every step of event.c.                                                  *)
THEOREM InductiveInvariant == Spec => []IInv
<1>1. Init => IInv
  BY InvInit
<1>2. IInv /\ [Next]_vars => IInv'
  BY InvNext
<1> QED BY <1>1, <1>2, PTL DEF Spec

LEMMA TablesOf == IInv => TablesExact
<1> SUFFICES ASSUME IInv PROVE TablesExact
  OBVIOUS
<1>1. CASE eventsys = "select"
  <2>1. Select!TypeOK /\ Select!CountsExact
    BY <1>1, SelectChecks DEF IInv
  <2> QED BY <1>1, <2>1 DEF TablesExact, TypeOK, CountsExact, ArraysFit, WaitedOpen
<1>2. CASE eventsys = "poll"
  <2>1. Poll!TypeOK /\ Poll!CountExact /\ Poll!ArrayFits
    BY <1>2, PollChecks DEF IInv
  <2> QED BY <1>2, <2>1 DEF TablesExact, TypeOK, CountsExact, ArraysFit, WaitedOpen
<1>3. CASE eventsys = "epoll"
  <2>1. Epoll!TypeOK /\ Epoll!CountsExact /\ Epoll!WaitedOpen
    BY <1>3, EpollChecks DEF IInv
  <2> QED BY <1>3, <2>1 DEF TablesExact, TypeOK, CountsExact, ArraysFit, WaitedOpen
<1>4. CASE eventsys = "kqueue"
  <2>1. Kqueue!TypeOK /\ Kqueue!CountsExact /\ Kqueue!AddlistFits /\ Kqueue!WaitedOpen
    BY <1>4, KqueueChecks DEF IInv
  <2> QED BY <1>4, <2>1 DEF TablesExact, TypeOK, CountsExact, ArraysFit, WaitedOpen
<1> QED BY <1>1, <1>2, <1>3, <1>4 DEF IInv

LEMMA AskedOf == IInv => KernelAsked
<1> SUFFICES ASSUME IInv PROVE KernelAsked
  OBVIOUS
<1>1. eventsys = "select" => Select!FdSetsExact /\ Select!MaxfdCovers
  BY SelectChecks DEF IInv
<1>2. eventsys = "epoll" => Epoll!InterestExact
  BY EpollChecks DEF IInv
<1>3. eventsys = "kqueue" => Kqueue!NothingMissed
  BY KqueueChecks DEF IInv
<1> QED BY <1>1, <1>2, <1>3 DEF KernelAsked

(* The counts and arrays of each event system are those of the pollqs on   *)
(* the I/O queue, however often they were added, notified and deleted in   *)
(* between: no count is left over and no array is too small (pollset_add,  *)
(* pollset_del and dispatch of the four systems in event.c).               *)
THEOREM TablesAlwaysExact == Spec => []TablesExact
BY InductiveInvariant, TablesOf, PTL

(* The kernel is asked for all that the threads wait for: the fd_sets of   *)
(* select up to maxfd, the interest list of epoll, and the filters of      *)
(* kqueue, those that fired and are added again included (event.c).        *)
THEOREM KernelAlwaysAsked == Spec => []KernelAsked
BY InductiveInvariant, AskedOf, PTL

-----------------------------------------------------------------------------
(* The refinement of EventSystem.                                          *)

AllPollSets == UNION {PollSets[s] : s \in DOMAIN PollSets}
Pending == IF loop = "none" THEN {} ELSE {t \in Threads : Concerned(pds[t], happened)}

LEMMA EventSame ==
  /\ \A p, h : (ES!Concerned(p, h) <=> Concerned(p, h)) /\ ES!Revents(p, h) = Revents(p, h)
  /\ ES!AllEvents = AllEvents
<1>1. ES!AllEvents = AllEvents /\ ES!Unasked = Unasked /\ ES!Events = Events
  BY DEF ES!AllEvents, AllEvents, ES!Unasked, Unasked, ES!Events, Events
<1>2. \A p, h : ES!Hits(p, h) = Hits(p, h)
  BY <1>1 DEF ES!Hits, Hits
<1>3. \A p, h : (ES!Concerned(p, h) <=> Concerned(p, h)) /\ ES!Revents(p, h) = Revents(p, h)
  BY <1>2 DEF ES!Concerned, Concerned, ES!Revents, Revents
<1> QED BY <1>1, <1>3

LEMMA SetsOfEach ==
  /\ PollSets["select"] \subseteq AllPollSets /\ PollSets["poll"] \subseteq AllPollSets
  /\ PollSets["epoll"] \subseteq AllPollSets /\ PollSets["kqueue"] \subseteq AllPollSets
<1>1. DOMAIN PollSets = {"select", "poll", "epoll", "kqueue"}
  BY EventsysAssumption DEF EventsysAssumption
<1> QED BY <1>1 DEF AllPollSets

LEMMA StepAdd ==
  ASSUME NEW t \in Threads, NEW p \in AllPollSets, pds[t] = <<>>, loop = "none",
         happened = {}, pds' = With(pds, t, p), told' = <<>>, UNCHANGED <<happened, loop>>
  PROVE  ES!Next
<1>1. ES!Add(t, p)
  BY DEF ES!Add, With
<1> QED BY <1>1 DEF ES!Next, AllPollSets

LEMMA StepRemove ==
  ASSUME NEW t \in Threads, pds[t] # <<>>, loop = "none",
         happened = {}, pds' = With(pds, t, <<>>), told' = <<>>, UNCHANGED <<happened, loop>>
  PROVE  ES!Next
<1>1. ES!Remove(t)
  BY DEF ES!Remove, With
<1> QED BY <1>1 DEF ES!Next

LEMMA StepLearn ==
  ASSUME happened = {}, happened' \subseteq AllEvents, told' = <<>>, pds' = pds,
         loop' = "none" => happened' = {}
  PROVE  ES!Next
<1>1. Pending' = {t \in Threads : Concerned(pds[t], happened')}
  <2>1. CASE loop' = "none"
    <3>1. happened' = {}
      BY <2>1
    <3> QED BY <2>1, <3>1, NoConcern DEF Pending
  <2>2. CASE loop' # "none"
    BY <2>2 DEF Pending
  <2> QED BY <2>1, <2>2
<1>2. ES!Learn
  BY <1>1, EventSame DEF ES!Learn, Pending
<1> QED BY <1>2 DEF ES!Next

LEMMA StepNotify ==
  ASSUME NEW t \in Threads, Concerned(pds[t], happened), loop # "none",
         pds \in [Threads -> PollSets[eventsys] \cup {<<>>}],
         pds' = With(pds, t, <<>>), told' = <<t, Revents(pds[t], happened)>>,
         UNCHANGED <<happened, loop>>
  PROVE  ES!Next
<1>1. t \in Pending
  BY DEF Pending
<1>2. Pending' = Pending \ {t}
  <2>1. pds'[t] = <<>> /\ \A u \in Threads \ {t} : pds'[u] = pds[u]
    BY DEF With
  <2>2. ~Concerned(pds'[t], happened)
    BY <2>1, NothingAsked
  <2>3. Pending' = {u \in Threads : Concerned(pds'[u], happened)}
    BY DEF Pending
  <2>4. Pending = {u \in Threads : Concerned(pds[u], happened)}
    BY DEF Pending
  <2> QED BY <2>1, <2>2, <2>3, <2>4
<1>3. ES!Notify(t)
  BY <1>1, <1>2, EventSame DEF ES!Notify, Pending, With
<1> QED BY <1>3 DEF ES!Next

LEMMA StepReturn ==
  ASSUME \A t \in Threads : ~Concerned(pds[t], happened),
         happened' = {}, told' = <<>>, pds' = pds, loop' = "none"
  PROVE  ES!Next
<1>1. CASE happened = {}
  BY <1>1, StepLearn
<1>2. CASE happened # {}
  <2>1. Pending = {} /\ Pending' = {}
    BY DEF Pending
  <2>2. ES!Return
    BY <1>2, <2>1 DEF ES!Return, Pending
  <2> QED BY <2>2 DEF ES!Next
<1> QED BY <1>1, <1>2

LEMMA StepNone ==
  ASSUME UNCHANGED <<pds, happened, loop, told>>
  PROVE  UNCHANGED ES!vars
BY DEF ES!vars

LEMMA SelectStep == SelectInv /\ eventsys = "select" /\ Select!Next => [ES!Next]_(ES!vars)
<1> SUFFICES ASSUME SelectInv, eventsys = "select", Select!Next PROVE ES!Next \/ UNCHANGED ES!vars
  OBVIOUS
<1>1. loop = "none" => happened = {}
  BY DEF SelectInv, LoopDone
<1>2. happened' \subseteq AllEvents /\ (loop' = "none" => happened' = {})
  <2>1. SelectInv'
    BY SelectNext
  <2> QED BY <2>1 DEF SelectInv, LoopDone
<1>3. Queued(PollSets["select"], ioq, pds) /\ scan \in Nat \ {0}
  BY DEF SelectInv
<1>4. pds \in [Threads -> PollSets[eventsys] \cup {<<>>}]
  BY <1>3 DEF Queued
<1>5. ASSUME NEW t \in Threads, NEW p \in PollSets["select"], Select!pollset_add(t, p)
      PROVE  ES!Next
  <2>1. /\ loop = "none" /\ pds[t] = <<>> /\ pds' = With(pds, t, p) /\ told' = <<>>
        /\ UNCHANGED <<happened, loop>>
    BY <1>5 DEF Select!pollset_add, Select!loopVars, With
  <2> QED BY <1>1, <2>1, SetsOfEach, StepAdd
<1>6. ASSUME NEW t \in Threads, Select!pollset_del(t) PROVE ES!Next
  <2>1. /\ loop = "none" /\ pds[t] # <<>> /\ pds' = With(pds, t, <<>>) /\ told' = <<>>
        /\ UNCHANGED <<happened, loop>>
    BY <1>6 DEF Select!pollset_del, Select!Dequeue, Select!loopVars, With
  <2> QED BY <1>1, <2>1, StepRemove
<1>7. ASSUME NEW events, Select!dispatch_select(events) \/ Select!dispatch_badfd PROVE ES!Next
  <2>1. loop = "none" /\ pds' = pds /\ told' = <<>>
    BY <1>7 DEF Select!dispatch_select, Select!dispatch_badfd
  <2> QED BY <1>1, <1>2, <2>1, StepLearn
<1>8. ASSUME Select!dispatch_notify PROVE ES!Next
  <2> DEFINE t == ioq[scan]
  <2>1. /\ loop \in {"notify", "badfd"} /\ scan <= Len(ioq)
        /\ Select!Notified(pds[t]) /\ told' = <<t, Select!LoopRevents(pds[t])>>
        /\ pds' = With(pds, t, <<>>) /\ UNCHANGED <<happened, loop>>
    BY <1>8 DEF Select!dispatch_notify, Select!InLoop, Select!Dequeue, Select!loopVars, With
  <2>2. t \in Threads
    <3>1. scan \in 1..Len(ioq)
      BY <2>1, SelectFacts DEF SelectInv
    <3> QED BY <3>1, SelectFacts
  <2> HIDE DEF t
  <2>3. Concerned(pds[t], happened) /\ told' = <<t, Revents(pds[t], happened)>> /\ loop # "none"
    BY <2>1, <2>2, SelectRevents
  <2> QED BY <1>4, <2>1, <2>2, <2>3, StepNotify
<1>9. ASSUME Select!dispatch_pass PROVE UNCHANGED ES!vars
  BY <1>9, StepNone DEF Select!dispatch_pass
<1>10. ASSUME Select!dispatch_return PROVE ES!Next
  <2>1. /\ loop = "return" \/ scan > Len(ioq)
        /\ happened' = {} /\ told' = <<>> /\ pds' = pds /\ loop' = "none"
    BY <1>10 DEF Select!dispatch_return
  <2>2. \A t \in Threads : ~Concerned(pds[t], happened)
    <3>1. /\ LoopDone /\ scan \in Nat /\ PollSets["select"] \subseteq Seq(Entries) \ {<<>>}
      BY SelectConstants DEF SelectInv
    <3> QED BY <1>3, <2>1, <3>1, AllPassed
  <2> QED BY <2>1, <2>2, StepReturn
<1>11. ASSUME NEW fd \in Fds, Select!fd_close(fd) \/ Select!raw_close(fd) \/ Select!fd_open(fd)
       PROVE  UNCHANGED ES!vars
  BY <1>11, StepNone DEF Select!fd_close, Select!raw_close, Select!fd_open, Select!loopVars
<1> QED BY <1>5, <1>6, <1>7, <1>8, <1>9, <1>10, <1>11 DEF Select!Next

LEMMA PollStep == PollInv /\ eventsys = "poll" /\ Poll!Next => [ES!Next]_(ES!vars)
<1> SUFFICES ASSUME PollInv, eventsys = "poll", Poll!Next PROVE ES!Next \/ UNCHANGED ES!vars
  OBVIOUS
<1>1. loop = "none" => happened = {}
  BY DEF PollInv, LoopDone
<1>2. happened' \subseteq AllEvents /\ (loop' = "none" => happened' = {})
  <2>1. PollInv'
    BY PollNext
  <2> QED BY <2>1 DEF PollInv, LoopDone
<1>3. Queued(PollSets["poll"], ioq, pds) /\ scan \in Nat \ {0}
  BY DEF PollInv
<1>4. pds \in [Threads -> PollSets[eventsys] \cup {<<>>}]
  BY <1>3 DEF Queued
<1>5. ASSUME NEW t \in Threads, NEW p \in PollSets["poll"], Poll!pollset_add(t, p)
      PROVE  ES!Next
  <2>1. /\ loop = "none" /\ pds[t] = <<>> /\ pds' = With(pds, t, p) /\ told' = <<>>
        /\ UNCHANGED <<happened, loop>>
    BY <1>5 DEF Poll!pollset_add, Poll!loopVars, With
  <2> QED BY <1>1, <2>1, SetsOfEach, StepAdd
<1>6. ASSUME NEW t \in Threads, Poll!pollset_del(t) PROVE ES!Next
  <2>1. /\ loop = "none" /\ pds[t] # <<>> /\ pds' = With(pds, t, <<>>) /\ told' = <<>>
        /\ UNCHANGED <<happened, loop>>
    BY <1>6 DEF Poll!pollset_del, Poll!Dequeue, Poll!loopVars, With
  <2> QED BY <1>1, <2>1, StepRemove
<1>7. ASSUME NEW events, Poll!dispatch_poll(events) PROVE ES!Next
  <2>1. loop = "none" /\ pds' = pds /\ told' = <<>>
    BY <1>7 DEF Poll!dispatch_poll
  <2> QED BY <1>1, <1>2, <2>1, StepLearn
<1>8. ASSUME Poll!dispatch_notify PROVE ES!Next
  <2> DEFINE t == ioq[scan]
  <2>1. /\ loop = "notify" /\ scan <= Len(ioq)
        /\ (\E i \in DOMAIN Poll!Slice : Poll!Slice[i] # {}) /\ told' = <<t, Poll!Slice>>
        /\ pds' = With(pds, t, <<>>) /\ UNCHANGED <<happened, loop>>
    BY <1>8 DEF Poll!dispatch_notify, Poll!InLoop, Poll!Dequeue, With
  <2>2. /\ t \in Threads /\ Poll!Slice = Revents(pds[t], happened)
        /\ Concerned(pds[t], happened)
    BY <2>1, PollSlice
  <2> HIDE DEF t
  <2>3. told' = <<t, Revents(pds[t], happened)>> /\ loop # "none"
    BY <2>1, <2>2
  <2> QED BY <1>4, <2>1, <2>2, <2>3, StepNotify
<1>9. ASSUME Poll!dispatch_pass PROVE UNCHANGED ES!vars
  BY <1>9, StepNone DEF Poll!dispatch_pass
<1>10. ASSUME Poll!dispatch_return PROVE ES!Next
  <2>1. /\ loop = "return" \/ scan > Len(ioq)
        /\ happened' = {} /\ told' = <<>> /\ pds' = pds /\ loop' = "none"
    BY <1>10 DEF Poll!dispatch_return
  <2>2. \A t \in Threads : ~Concerned(pds[t], happened)
    <3>1. /\ LoopDone /\ scan \in Nat /\ PollSets["poll"] \subseteq Seq(Entries) \ {<<>>}
      BY PollConstants DEF PollInv
    <3> QED BY <1>3, <2>1, <3>1, AllPassed
  <2> QED BY <2>1, <2>2, StepReturn
<1>11. ASSUME NEW fd \in Fds, Poll!fd_close(fd) \/ Poll!fd_open(fd) PROVE UNCHANGED ES!vars
  BY <1>11, StepNone DEF Poll!fd_close, Poll!fd_open, Poll!loopVars
<1> QED BY <1>5, <1>6, <1>7, <1>8, <1>9, <1>10, <1>11 DEF Poll!Next

LEMMA EpollStep == EpollInv /\ eventsys = "epoll" /\ Epoll!Next => [ES!Next]_(ES!vars)
<1> SUFFICES ASSUME EpollInv, eventsys = "epoll", Epoll!Next PROVE ES!Next \/ UNCHANGED ES!vars
  OBVIOUS
<1>1. loop = "none" => happened = {}
  BY DEF EpollInv, LoopDone
<1>2. happened' \subseteq AllEvents /\ (loop' = "none" => happened' = {})
  <2>1. EpollInv'
    BY EpollNext
  <2>2. /\ revents' \in [Fds -> SUBSET (Events \cup {"ERR", "HUP"})]
        /\ happened' = UNION {{fd} \X revents'[fd] : fd \in Fds}
    BY <2>1 DEF EpollInv
  <2>3. {"ERR", "HUP"} \subseteq Unasked
    BY DEF Unasked
  <2>4. \A fd \in Fds : revents'[fd] \subseteq Events \cup Unasked
    BY <2>2, <2>3
  <2>5. happened' \subseteq AllEvents
    BY <2>2, <2>4 DEF AllEvents
  <2> QED BY <2>1, <2>5 DEF EpollInv, LoopDone
<1>3. Queued(PollSets["epoll"], ioq, pds) /\ scan \in Nat \ {0}
  BY DEF EpollInv
<1>4. pds \in [Threads -> PollSets[eventsys] \cup {<<>>}]
  BY <1>3 DEF Queued
<1>5. ASSUME NEW t \in Threads, NEW p \in PollSets["epoll"], Epoll!pollset_add(t, p)
      PROVE  ES!Next
  <2>1. /\ loop = "none" /\ pds[t] = <<>> /\ told' = <<>>
        /\ pds' = pds \/ pds' = With(pds, t, p)
        /\ UNCHANGED <<happened, loop>>
    BY <1>5 DEF Epoll!pollset_add, Epoll!loopVars, With
  <2>2. CASE pds' = pds
    BY <1>1, <1>2, <2>1, <2>2, StepLearn
  <2>3. CASE pds' = With(pds, t, p)
    BY <1>1, <2>1, <2>3, SetsOfEach, StepAdd
  <2> QED BY <2>1, <2>2, <2>3
<1>6. ASSUME NEW t \in Threads, Epoll!pollset_del(t) PROVE ES!Next
  <2>1. /\ loop = "none" /\ pds[t] # <<>> /\ pds' = With(pds, t, <<>>) /\ told' = <<>>
        /\ UNCHANGED <<happened, loop>>
    BY <1>6 DEF Epoll!pollset_del, Epoll!Dequeue, Epoll!loopVars, With
  <2> QED BY <1>1, <2>1, StepRemove
<1>7. ASSUME Epoll!dispatch_wait PROVE ES!Next
  <2>1. loop = "none" /\ pds' = pds /\ told' = <<>>
    BY <1>7 DEF Epoll!dispatch_wait
  <2> QED BY <1>1, <1>2, <2>1, StepLearn
<1>8. ASSUME Epoll!dispatch_notify PROVE ES!Next
  <2> DEFINE t == ioq[scan]
  <2>1. /\ loop = "notify" /\ scan <= Len(ioq)
        /\ Epoll!Notified(pds[t]) /\ told' = <<t, Epoll!LoopRevents(pds[t])>>
        /\ pds' = With(pds, t, <<>>) /\ UNCHANGED <<happened, loop>>
    BY <1>8 DEF Epoll!dispatch_notify, Epoll!InLoop, Epoll!Dequeue, Epoll!loopVars, With
  <2>2. t \in Threads /\ pds[t] \in Seq(Entries)
    BY <2>1, EpollTurn
  <2> HIDE DEF t
  <2>3. Concerned(pds[t], happened) /\ told' = <<t, Revents(pds[t], happened)>> /\ loop # "none"
    BY <2>1, <2>2, EpollSlice
  <2> QED BY <1>4, <2>1, <2>2, <2>3, StepNotify
<1>9. ASSUME Epoll!dispatch_pass PROVE UNCHANGED ES!vars
  BY <1>9, StepNone DEF Epoll!dispatch_pass
<1>10. ASSUME Epoll!dispatch_return PROVE ES!Next
  <2>1. /\ loop = "return" \/ scan > Len(ioq)
        /\ happened' = {} /\ told' = <<>> /\ pds' = pds /\ loop' = "none"
    BY <1>10 DEF Epoll!dispatch_return
  <2>2. \A t \in Threads : ~Concerned(pds[t], happened)
    <3>1. /\ LoopDone /\ scan \in Nat /\ PollSets["epoll"] \subseteq Seq(Entries) \ {<<>>}
      BY EpollConstants DEF EpollInv
    <3> QED BY <1>3, <2>1, <3>1, AllPassed
  <2> QED BY <2>1, <2>2, StepReturn
<1>11. ASSUME NEW fd \in Fds, Epoll!fd_close(fd) \/ Epoll!fd_open(fd) PROVE UNCHANGED ES!vars
  BY <1>11, StepNone DEF Epoll!fd_close, Epoll!fd_open, Epoll!loopVars
<1>12. ASSUME NEW fd, NEW w, Epoll!parent_ctl(fd, w) \/ Epoll!fork PROVE UNCHANGED ES!vars
  BY <1>12, StepNone DEF Epoll!parent_ctl, Epoll!fork, Epoll!loopVars
<1> QED BY <1>5, <1>6, <1>7, <1>8, <1>9, <1>10, <1>11, <1>12 DEF Epoll!Next

LEMMA KqueueStep == KqueueInv /\ eventsys = "kqueue" /\ Kqueue!Next => [ES!Next]_(ES!vars)
<1> SUFFICES ASSUME KqueueInv, eventsys = "kqueue", Kqueue!Next PROVE ES!Next \/ UNCHANGED ES!vars
  OBVIOUS
<1>1. loop = "none" => happened = {}
  BY DEF KqueueInv, LoopDone
<1>2. happened' \subseteq AllEvents /\ (loop' = "none" => happened' = {})
  <2>1. KqueueInv'
    BY KqueueNext
  <2> QED BY <2>1 DEF KqueueInv, LoopDone
<1>3. Queued(PollSets["kqueue"], ioq, pds) /\ scan \in Nat \ {0}
  BY DEF KqueueInv
<1>4. pds \in [Threads -> PollSets[eventsys] \cup {<<>>}]
  BY <1>3 DEF Queued
<1>5. ASSUME NEW t \in Threads, NEW p \in PollSets["kqueue"], Kqueue!pollset_add(t, p)
      PROVE  ES!Next
  <2>1. /\ loop = "none" /\ pds[t] = <<>> /\ pds' = With(pds, t, p) /\ told' = <<>>
        /\ UNCHANGED <<happened, loop>>
    BY <1>5 DEF Kqueue!pollset_add, Kqueue!loopVars, With
  <2> QED BY <1>1, <2>1, SetsOfEach, StepAdd
<1>6. ASSUME NEW t \in Threads, Kqueue!pollset_del(t) PROVE ES!Next
  <2>1. /\ loop = "none" /\ pds[t] # <<>> /\ pds' = With(pds, t, <<>>) /\ told' = <<>>
        /\ UNCHANGED <<happened, loop>>
    BY <1>6 DEF Kqueue!pollset_del, Kqueue!Dequeue, Kqueue!loopVars, With
  <2> QED BY <1>1, <2>1, StepRemove
<1>7. ASSUME Kqueue!dispatch_wait PROVE ES!Next
  <2>1. loop = "none" /\ pds' = pds /\ told' = <<>>
    BY <1>7 DEF Kqueue!dispatch_wait
  <2> QED BY <1>1, <1>2, <2>1, StepLearn
<1>8. ASSUME Kqueue!dispatch_notify PROVE ES!Next
  <2> DEFINE t == ioq[scan]
  <2>1. /\ loop = "notify" /\ scan <= Len(ioq)
        /\ Kqueue!Notified(pds[t]) /\ told' = <<t, Kqueue!LoopRevents(pds[t])>>
        /\ pds' = With(pds, t, <<>>) /\ UNCHANGED <<happened, loop>>
    BY <1>8 DEF Kqueue!dispatch_notify, Kqueue!InLoop, Kqueue!Dequeue, With
  <2>2. t \in Threads /\ pds[t] \in Seq(Entries)
    <3>1. Len(ioq) \in Nat /\ \A i \in 1..Len(ioq) : ioq[i] \in Threads
      BY <1>3, KqueueFacts
    <3>2. scan \in 1..Len(ioq)
      BY <1>3, <2>1, <3>1
    <3>3. \A u \in Threads : pds[u] \in Seq(Entries)
      BY <1>3, KqueueFacts
    <3> QED BY <3>1, <3>2, <3>3
  <2> HIDE DEF t
  <2>3. Concerned(pds[t], happened) /\ told' = <<t, Revents(pds[t], happened)>> /\ loop # "none"
    BY <2>1, <2>2, KqueueSlice
  <2> QED BY <1>4, <2>1, <2>2, <2>3, StepNotify
<1>9. ASSUME Kqueue!dispatch_pass PROVE UNCHANGED ES!vars
  BY <1>9, StepNone DEF Kqueue!dispatch_pass
<1>10. ASSUME Kqueue!dispatch_return PROVE ES!Next
  <2>1. /\ loop = "return" \/ scan > Len(ioq)
        /\ happened' = {} /\ told' = <<>> /\ pds' = pds /\ loop' = "none"
    BY <1>10 DEF Kqueue!dispatch_return
  <2>2. \A t \in Threads : ~Concerned(pds[t], happened)
    <3>1. /\ LoopDone /\ scan \in Nat /\ PollSets["kqueue"] \subseteq Seq(Entries) \ {<<>>}
      BY KqueueConstants DEF KqueueInv
    <3> QED BY <1>3, <2>1, <3>1, AllPassed
  <2> QED BY <2>1, <2>2, StepReturn
<1>11. ASSUME NEW fd \in Fds, Kqueue!fd_close(fd) \/ Kqueue!fd_open(fd) PROVE UNCHANGED ES!vars
  BY <1>11, StepNone DEF Kqueue!fd_close, Kqueue!fd_open, Kqueue!loopVars
<1>12. ASSUME Kqueue!fork PROVE UNCHANGED ES!vars
  BY <1>12, StepNone DEF Kqueue!fork, Kqueue!loopVars
<1> QED BY <1>5, <1>6, <1>7, <1>8, <1>9, <1>10, <1>11, <1>12 DEF Kqueue!Next

LEMMA EventInit == Init => ES!Init
<1>1. Init => pds = [t \in Threads |-> <<>>] /\ happened = {} /\ loop = "none" /\ told = <<>>
  BY DEF Init, Select!Init, Poll!Init, Epoll!Init, Kqueue!Init
<1> QED BY <1>1 DEF ES!Init

LEMMA EventNext == IInv /\ [Next]_vars => [ES!Next]_(ES!vars)
<1> SUFFICES ASSUME IInv, [Next]_vars PROVE [ES!Next]_(ES!vars)
  OBVIOUS
<1>1. CASE UNCHANGED vars
  <2>1. UNCHANGED <<pds, happened, loop, told>>
    BY <1>1 DEF vars, shared
  <2> QED BY <2>1, StepNone
<1>2. CASE Next /\ eventsys = "select"
  <2>1. SelectInv /\ Select!Next
    BY <1>2 DEF IInv, Next
  <2> QED BY <1>2, <2>1, SelectStep
<1>3. CASE Next /\ eventsys = "poll"
  <2>1. PollInv /\ Poll!Next
    BY <1>3 DEF IInv, Next
  <2> QED BY <1>3, <2>1, PollStep
<1>4. CASE Next /\ eventsys = "epoll"
  <2>1. EpollInv /\ Epoll!Next
    BY <1>4 DEF IInv, Next
  <2> QED BY <1>4, <2>1, EpollStep
<1>5. CASE Next /\ eventsys = "kqueue"
  <2>1. KqueueInv /\ Kqueue!Next
    BY <1>5 DEF IInv, Next
  <2> QED BY <1>5, <2>1, KqueueStep
<1> QED BY <1>1, <1>2, <1>3, <1>4, <1>5 DEF IInv

(* Each of the four event systems tells the threads what EventSystem says: *)
(* a thread is told just when something happened to a descriptor it waits  *)
(* for, and told all of it (the loops over the I/O queue in event.c).      *)
THEOREM EventsysImplements == Spec => ImplementsEventSystem
<1>1. Init => ES!Init
  BY EventInit
<1>2. IInv /\ [Next]_vars => [ES!Next]_(ES!vars)
  BY EventNext
<1> QED BY <1>1, <1>2, InductiveInvariant, PTL DEF Spec, ES!Spec, ImplementsEventSystem
=============================================================================
