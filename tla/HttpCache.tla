----------------------------- MODULE HttpCache -----------------------------
(***************************************************************************)
(* The cache of modules imported over HTTP, src/http/cache.c, as           *)
(* jsrt_load_http_module of src/http/module_loader.c uses it.  A node of   *)
(* the cache has one `next` field, which is its link in the chain of its   *)
(* bucket and its link in the LRU list.                                    *)
(*                                                                         *)
(* Reading a freed node sets fault, and the model stops there.  A freed    *)
(* node may be handed out again by malloc.  jsrt_http_cache_clear is left  *)
(* out: jsrt_http_module_cleanup is not called.                            *)
(***************************************************************************)
EXTENDS Naturals, Sequences, FiniteSets

CONSTANTS
    Urls, Nodes,    \* Nodes: addresses malloc may return
    Nil, Free, None,
    Buckets, BucketOf,  \* BucketOf[u]: hash_url(u)
    MaxEntries,     \* max_entries
    TTL,            \* default_ttl
    MaxTime         \* bound: the clock

ASSUME HttpCacheAssumption ==
    /\ IsFiniteSet(Nodes) /\ MaxEntries \in 1 .. Cardinality(Nodes)
    /\ BucketOf \in [Urls -> Buckets]
    /\ TTL \in Nat /\ MaxTime \in Nat
    /\ Nil \notin Nodes /\ None \notin Urls

Pointers == Nodes \cup {Nil}
NodeStates == [url : Urls, next : Pointers, prev : Pointers, expires : Nat]

ASSUME FreeAssumption == Free \notin NodeStates

VARIABLES
    cache,      \* the JSRT_HttpCache and the nodes
    fetching,   \* the url being downloaded, or None
    served,     \* the url last loaded, from the cache or not (history)
    now         \* time(NULL)

vars == <<cache, fetching, served, now>>

TypeOK ==
    /\ cache.bucket \in [Buckets -> Pointers]
    /\ {cache.head, cache.tail} \subseteq Pointers
    /\ cache.entries \in 0 .. MaxEntries
    /\ \A n \in Nodes : cache.node[n] = Free \/ cache.node[n] \in NodeStates
    /\ cache.fault \in BOOLEAN
    /\ {fetching, served} \subseteq Urls \cup {None} /\ now \in 0 .. MaxTime

Init ==
    /\ cache = [bucket |-> [b \in Buckets |-> Nil], head |-> Nil, tail |-> Nil,
                entries |-> 0, node |-> [n \in Nodes |-> Free], fault |-> FALSE]
    /\ fetching = None /\ served = None /\ now = 0

-----------------------------------------------------------------------------
(* The nodes of a cache c.                                                 *)

Live(c) == {n \in Nodes : c.node[n] # Free}

\* The k-th pointer on the way along `next` from p.
Walk(c, p) ==
    LET at[k \in 0 .. Cardinality(Nodes)] ==
            IF k = 0 THEN p
            ELSE IF at[k - 1] \in Live(c) THEN c.node[at[k - 1]].next ELSE Nil
    IN at

\* Where a search along the chain of bucket b for one of the nodes in T ends:
\* at such a node, at the end of the chain, or at a freed node.
StopsAt(c, b, T) ==
    LET at == Walk(c, c.bucket[b])
    IN CHOOSE k \in DOMAIN at :
          at[k] \notin Live(c) \ T /\ \A j \in 0 .. k - 1 : at[j] \in Live(c) \ T

Reached(c, b, T) == Walk(c, c.bucket[b])[StopsAt(c, b, T)]

Of(c, u) == {n \in Live(c) : c.node[n].url = u}

\* The node found for u: a live one, Nil, or a freed one.
Find(c, u) == Reached(c, BucketOf[u], Of(c, u))

SetNext(c, p, v) == IF p = Nil THEN c ELSE [c EXCEPT !.node[p].next = v]
SetPrev(c, p, v) == IF p = Nil THEN c ELSE [c EXCEPT !.node[p].prev = v]

\* *current = the next of n, where current is the link at which the search
\* along bucket b came to n; nothing if it did not.
Unchain(c, b, n) ==
    LET k == StopsAt(c, b, {n})
        at == Walk(c, c.bucket[b])
    IN IF at[k] = Nil THEN c
       ELSE IF at[k] # n THEN [c EXCEPT !.fault = TRUE]
       ELSE IF k = 0 THEN [c EXCEPT !.bucket[b] = c.node[n].next]
       ELSE SetNext(c, at[k - 1], c.node[n].next)

Release(c, n) == [c EXCEPT !.node[n] = Free, !.entries = @ - 1]

-----------------------------------------------------------------------------
(* The operations of cache.c: the cache they leave.                        *)

\* move_to_front
MoveToFront(c, n) ==
    LET p == c.node[n].prev
        q == c.node[n].next
        d == SetPrev(SetNext(c, p, q), q, p)
    IN IF n = c.head THEN c
       ELSE [SetPrev(SetNext(SetPrev(d, n, Nil), n, d.head), d.head, n)
                EXCEPT !.head = n, !.tail = IF n = c.tail THEN p ELSE @]

\* evict_lru
EvictLru(c) ==
    LET n == c.tail
        p == c.node[n].prev
        d == [SetNext(c, p, Nil) EXCEPT !.tail = p, !.head = IF p = Nil THEN Nil ELSE @]
    IN IF n = Nil THEN c ELSE Release(Unchain(d, BucketOf[c.node[n].url], n), n)

\* jsrt_http_cache_remove, where the search for u finds n.
RemoveNode(c, u, n) ==
    LET p == c.node[n].prev
        q == c.node[n].next
        d == SetPrev(SetNext(Unchain(c, BucketOf[u], n), p, q), q, p)
    IN Release([d EXCEPT !.head = IF p = Nil THEN q ELSE @,
                         !.tail = IF q = Nil THEN p ELSE @], n)

IsExpired(c, n) == now > c.node[n].expires

\* Mutant of Get: the entry found keeps its place.
GetKeepsPlace(c, u) ==
    LET n == Find(c, u)
    IN IF n = Nil THEN c
       ELSE IF n \notin Live(c) THEN [c EXCEPT !.fault = TRUE]
       ELSE IF IsExpired(c, n) THEN RemoveNode(c, u, n)
       ELSE c

\* jsrt_http_cache_get: an expired entry is removed, another one moved to the
\* front.
Get(c, u) ==
    LET n == Find(c, u)
    IN IF n = Nil THEN c
       ELSE IF n \notin Live(c) THEN [c EXCEPT !.fault = TRUE]
       ELSE IF IsExpired(c, n) THEN RemoveNode(c, u, n)
       ELSE MoveToFront(c, n)

Hits(c, u) == Find(c, u) \in Live(c) /\ ~IsExpired(c, Find(c, u))

\* No more than one entry is over the limit when there is one to evict.
MakeRoom(c) == IF c.entries < MaxEntries THEN c ELSE EvictLru(c)

\* The new node n goes to the head of the bucket and, with the same next, to
\* the front of the LRU list.
Insert(c, u, n) ==
    [SetPrev(c, c.head, n) EXCEPT
        !.bucket[BucketOf[u]] = n, !.head = n,
        !.tail = IF c.head = Nil THEN n ELSE @,
        !.entries = @ + 1,
        !.node[n] = [url |-> u, next |-> c.head, prev |-> Nil, expires |-> now + TTL]]

-----------------------------------------------------------------------------
(* jsrt_load_http_module.                                                  *)

Load(u) ==
    /\ ~cache.fault /\ fetching = None
    /\ cache' = Get(cache, u)
    /\ IF Hits(cache, u) THEN served' = u /\ UNCHANGED fetching
       ELSE fetching' = u /\ UNCHANGED served
    /\ UNCHANGED now

\* The entry found expires before it is looked at for the second time.
LoadExpiring(u) ==
    /\ ~cache.fault /\ fetching = None
    /\ Hits(cache, u) /\ cache.node[Find(cache, u)].expires = now
    /\ now < MaxTime /\ now' = now + 1
    /\ cache' = Get(cache, u)
    /\ fetching' = u
    /\ UNCHANGED served

\* jsrt_http_cache_put for what was downloaded: an entry that is found is
\* given a new time, else one is made.
Downloaded ==
    /\ ~cache.fault /\ fetching # None
    /\ LET c == Get(cache, fetching)
       IN IF c.fault THEN cache' = c
          ELSE IF Hits(cache, fetching)
          THEN cache' = [c EXCEPT !.node[Find(cache, fetching)].expires = now + TTL]
          ELSE LET d == MakeRoom(c)
               IN IF d.fault THEN cache' = d
                  ELSE \E n \in Nodes \ Live(d) : cache' = Insert(d, fetching, n)
    /\ fetching' = None /\ served' = fetching
    /\ UNCHANGED now

DownloadFails ==
    /\ ~cache.fault /\ fetching # None
    /\ fetching' = None
    /\ UNCHANGED <<cache, served, now>>

Tick ==
    /\ ~cache.fault /\ now < MaxTime
    /\ now' = now + 1
    /\ UNCHANGED <<cache, fetching, served>>

Next ==
    \/ \E u \in Urls : Load(u) \/ LoadExpiring(u)
    \/ Downloaded \/ DownloadFails \/ Tick

Spec == Init /\ [][Next]_vars

-----------------------------------------------------------------------------
(* Properties.                                                             *)

\* The nodes along the LRU list, front to back.
LruList ==
    LET at == Walk(cache, cache.head)
        k == CHOOSE k \in DOMAIN at : at[k] = Nil /\ \A j \in 0 .. k - 1 : at[j] # Nil
    IN [i \in 1 .. k |-> at[i - 1]]

Service == INSTANCE LruService
    WITH order <- [i \in DOMAIN LruList |-> cache.node[LruList[i]].url],
         stale <- {i \in DOMAIN LruList : IsExpired(cache, LruList[i])}

\* Whatever the buckets do, entries leave the cache in the order of their last
\* use or because they have expired: each step is one of an LRU cache, up to
\* the first use of a freed node.
ImplementsLruService ==
    Service!Init /\ [][cache'.fault \/ Service!Next]_(Service!vars)

=============================================================================
