------------------------------ MODULE DNSCache ------------------------------
(***************************************************************************)
(* Name lookups through a cache (dnscache.c, dnsres.c), on the cache of    *)
(* lrucache.c.  A thread gives up the processor only while it waits to     *)
(* send a query or for the reply, so a lookup is the step up to its first  *)
(* query and a step for each reply, timeout or interrupt after it; what    *)
(* it does with a good reply, from the parsing into addr_list to the       *)
(* insertion, is one step.                                                 *)
(*                                                                         *)
(* External: the net, which loses, delays and reorders datagrams, and the  *)
(* name servers.                                                           *)
(* Bounds: MaxTime, and Ids, of which a query takes one that no datagram   *)
(* still on its way has (res_mkquery counts or draws 16 bits).             *)
(***************************************************************************)
EXTENDS LRUCache

CONSTANTS
    Threads, Ports, Ids,
    Queries,    \* how many are tried for a host: one for each name in the
                \* search list and each server
    TTLs,       \* what a server may say; -1 if it has no address
    MaxTime

ASSUME DNSAssumption ==
    /\ NULL \notin Ports \cup Ids
    /\ Queries \in Nat \ {0}
    /\ TTLs \subseteq Int /\ MaxTime \in Nat

VARIABLES
    data,       \* of each entry: whose addresses, when they came and their
                \* TTL; they expire at the sum
    now,        \* st_time
    net,        \* queries and replies on their way
    host,       \* what each thread looks up
    port, id,   \* of the socket of each thread, and of its last query
    query,      \* which it tries
    returned    \* what was asked and returned, by a call that has just
                \* returned addresses

dnsVars == <<cache, data, now, net, host, port, id, query, returned>>

Datagrams ==
    [kind : {"query", "failure"}, port : Ports, id : Ids, host : Keys]
    \cup [kind : {"addresses"}, port : Ports, id : Ids, host : Keys, ttl : TTLs]

Times == 0..MaxTime
Records == [host : Keys, came : Times, ttl : TTLs]

DNSTypeOK ==
    /\ cache \in Caches
    /\ data \in [Entries -> Records \cup {NULL}]
    /\ now \in Times
    /\ net \subseteq Datagrams
    /\ host \in [Threads -> Keys \cup {NULL}]
    /\ port \in [Threads -> Ports \cup {NULL}]
    /\ id \in [Threads -> Ids \cup {NULL}]
    /\ query \in [Threads -> 1..Queries]
    /\ returned \in [asked : Keys, data : Records] \cup {NULL}

DNSInit ==
    /\ cache = NewCache
    /\ data = [e \in Entries |-> NULL]
    /\ now = 0
    /\ net = {}
    /\ host = [t \in Threads |-> NULL]
    /\ port = [t \in Threads |-> NULL]
    /\ id = [t \in Threads |-> NULL]
    /\ query = [t \in Threads |-> 1]
    /\ returned = NULL

Idle(t) == host[t] = NULL
Asking(t) == ~Idle(t) /\ id[t] = NULL   \* about to send a query
Waiting(t) == id[t] # NULL

(* cleanup_entry frees the addresses of an entry with it.                  *)
KeepData(d) == data' = [e \in Entries |-> IF e \in cache'.allocated THEN d[e] ELSE NULL]

-----------------------------------------------------------------------------
(* lookup_entry.                                                           *)

(* Fault: the reference is kept.                                           *)
CacheAfterHit_Kept(e) == Taken(cache, e)

CacheAfterHit(e) == Released(Taken(cache, e), e)

(* Fault: the entry is deleted first and released then.                    *)
CacheAfterExpiry_Kept(e) == Deleted(Taken(cache, e), e)

CacheAfterExpiry(e) == Deleted(Released(Taken(cache, e), e), e)

(* Fault: what expired is served as long as the cache has it.              *)
Valid_Always(e) == TRUE

Valid(e) == now <= data[e].came + data[e].ttl

(* The cache has the answer.                                               *)
ServeFromCache(t, h) ==
    \E e \in Hits(cache, h) :
        /\ Idle(t)
        /\ Valid(e)
        /\ cache' = CacheAfterHit(e)
        /\ returned' = [asked |-> h, data |-> data[e]]
        /\ UNCHANGED <<data, now, net, host, port, id, query>>

(* It has not, and a socket is opened; without one the call fails.         *)
StartLookup(t, h) ==
    /\ Idle(t)
    /\ \A e \in Hits(cache, h) : ~Valid(e)
    /\ cache' = IF Hits(cache, h) = {} THEN cache
                ELSE CacheAfterExpiry(CHOOSE e \in Hits(cache, h) : TRUE)
    /\ returned' = NULL
    /\ \/ \E p \in Ports :
            /\ \A s \in Threads : port[s] # p
            /\ port' = [port EXCEPT ![t] = p]
            /\ host' = [host EXCEPT ![t] = h]
       \/ UNCHANGED <<port, host>>
    /\ KeepData(data)
    /\ UNCHANGED <<now, net, id, query>>

-----------------------------------------------------------------------------
(* _stx_dns_getaddrlist and query_domain.                                  *)

Return(t) ==
    /\ host' = [host EXCEPT ![t] = NULL]
    /\ port' = [port EXCEPT ![t] = NULL]
    /\ id' = [id EXCEPT ![t] = NULL]
    /\ query' = [query EXCEPT ![t] = 1]

Fail(t) == Return(t) /\ returned' = NULL /\ UNCHANGED <<cache, data>>

(* The next server or, after the last one, the next name.                  *)
TryNext(t) ==
    \/ /\ query[t] < Queries
       /\ query' = [query EXCEPT ![t] = @ + 1]
       /\ id' = [id EXCEPT ![t] = NULL]
       /\ returned' = NULL
       /\ UNCHANGED <<cache, data, host, port>>
    \/ query[t] = Queries /\ Fail(t)

SendQuery(t) ==
    \E i \in Ids :
        /\ Asking(t)
        /\ \A m \in net : m.id # i
        /\ \A s \in Threads : id[s] # i
        /\ id' = [id EXCEPT ![t] = i]
        /\ net' = net \cup {[kind |-> "query", port |-> port[t], id |-> i, host |-> host[t]]}
        /\ returned' = NULL
        /\ UNCHANGED <<cache, data, now, host, port, query>>

SendFails(t) == Asking(t) /\ TryNext(t) /\ UNCHANGED <<now, net>>

(* Fault: the next reply is taken for the one that is waited for.          *)
IsReply_Any(t, m) == m.kind # "query" /\ m.port = port[t]

IsReply(t, m) == m.kind # "query" /\ m.port = port[t] /\ m.id = id[t]

(* insert_entry: with no memory, no lifetime or no room there is no entry, *)
(* and the answer is returned all the same.                                *)
InsertAnswer(h, r) ==
    \/ UNCHANGED <<cache, data>>
    \/ \E w \in Weights :
          /\ r.ttl > 0 /\ Entries # cache.allocated
          /\ LET e == CHOOSE e \in Entries : e \notin cache.allocated
                 c == Created(cache, e, h, w) IN
             /\ cache' = IF Fails(c, e) THEN Deleted(Inserted(c, e), e)
                         ELSE Released(Inserted(c, e), e)
             /\ KeepData([data EXCEPT ![e] = r])

(* Whichever name was tried, the entry goes under the host.                *)
ReceiveAddresses(t) ==
    \E m \in net :
        /\ Waiting(t) /\ IsReply(t, m) /\ m.kind = "addresses"
        /\ LET r == [host |-> m.host, came |-> now, ttl |-> m.ttl] IN
           /\ returned' = [asked |-> host[t], data |-> r]
           /\ InsertAnswer(host[t], r)
        /\ net' = net \ {m}
        /\ Return(t)
        /\ UNCHANGED now

(* A reply with an error, without answers or not well-formed.              *)
ReceiveFailure(t) ==
    \E m \in net :
        /\ Waiting(t) /\ IsReply(t, m) /\ m.kind = "failure"
        /\ net' = net \ {m}
        /\ TryNext(t)
        /\ UNCHANGED now

(* A reply to another query, of this thread or of who had the port.        *)
ReceiveStray(t) ==
    \E m \in net :
        /\ Waiting(t) /\ m.kind # "query" /\ m.port = port[t] /\ ~IsReply(t, m)
        /\ net' = net \ {m}
        /\ returned' = NULL
        /\ UNCHANGED <<cache, data, now, host, port, id, query>>

(* Fault: only an interrupt ends the wait.                                 *)
TimeOut_Never(t) == FALSE /\ UNCHANGED dnsVars

TimeOut(t) == Waiting(t) /\ TryNext(t) /\ UNCHANGED <<now, net>>

Interrupt(t) == ~Idle(t) /\ Fail(t) /\ UNCHANGED <<now, net>>

-----------------------------------------------------------------------------
Reply ==
    \E m \in net :
        /\ m.kind = "query"
        /\ \/ net' = (net \ {m}) \cup {[m EXCEPT !.kind = "failure"]}
           \/ \E ttl \in TTLs :
                net' = (net \ {m}) \cup
                       {[kind |-> "addresses", port |-> m.port, id |-> m.id,
                         host |-> m.host, ttl |-> ttl]}
        /\ returned' = NULL
        /\ UNCHANGED <<cache, data, now, host, port, id, query>>

Lose ==
    \E m \in net :
        /\ net' = net \ {m}
        /\ returned' = NULL
        /\ UNCHANGED <<cache, data, now, host, port, id, query>>

Tick ==
    /\ now < MaxTime
    /\ now' = now + 1
    /\ returned' = NULL
    /\ UNCHANGED <<cache, data, net, host, port, id, query>>

Progress(t) ==
    \/ SendQuery(t) \/ SendFails(t)
    \/ ReceiveAddresses(t) \/ ReceiveFailure(t) \/ ReceiveStray(t) \/ TimeOut(t)

DNSNext ==
    \/ \E t \in Threads :
          \/ \E h \in Keys : ServeFromCache(t, h) \/ StartLookup(t, h)
          \/ Progress(t) \/ Interrupt(t)
    \/ Reply \/ Lose \/ Tick

DNSSpec == DNSInit /\ [][DNSNext]_dnsVars

(* Each thread is scheduled, and its waits time out.                       *)
FairDNSSpec ==
    /\ DNSSpec
    /\ \A t \in Threads : WF_dnsVars(SendQuery(t) \/ SendFails(t))
                          /\ WF_dnsVars(ReceiveAddresses(t) \/ ReceiveFailure(t) \/ TimeOut(t))

-----------------------------------------------------------------------------
(* Whatever replies come late, also to a port that another thread had for  *)
(* another host before, the cache and every call have the addresses of the *)
(* host they were asked for (dnsres.c:157-162, dnscache.c:142-152).        *)
AnswersOfTheirHost ==
    /\ \A e \in cache.table : data[e].host = cache.key[e]
    /\ returned # NULL => returned.data.host = returned.asked

(* Between the steps of the threads no entry is in use, marked or left out *)
(* of the table, so that all can make room, the entry that has expired is  *)
(* gone once it was looked up, and two threads that asked for one host at  *)
(* the same time leave one entry (dnscache.c:60-87, 112-122).              *)
NothingPinned ==
    /\ CacheConsistent(cache)
    /\ cache.allocated = cache.table
    /\ cache.delete_pending = {}
    /\ \A e \in cache.table : Unreferenced(cache, e)

(* A call returns addresses that came just now, or ones a server gave no   *)
(* longer ago than their TTL, however long they were cached and whoever    *)
(* put them there (dnscache.c:62, 108).                                    *)
NoStaleAnswer ==
    returned # NULL =>
        LET d == returned.data IN d.came = now \/ now <= d.came + d.ttl

(* What a lookup returns is for its host and still good.                   *)
AnswersCorrect == DNSTypeOK /\ AnswersOfTheirHost /\ NoStaleAnswer

(* Every lookup returns, whatever the servers and the net do.              *)
LookupReturns == \A t \in Threads : []<>Idle(t)

=============================================================================
