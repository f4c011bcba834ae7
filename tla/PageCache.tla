------------------------------- MODULE PageCache -------------------------------
(***************************************************************************)
(* The cache of rendered pages.  Every web process keeps an LRU cache of   *)
(* its own and uses Redis instead while it can reach it; a page is found   *)
(* under the cache generation in the database, the time slot, the page and *)
(* the user.  Administrators' changes commit first and raise the           *)
(* generation after; a purge of the maintenance worker raises it inside    *)
(* its transaction, before it commits.  The Node tab of the Consumption    *)
(* page also reads its rows from a query cache of the process, whose key   *)
(* has no generation.                                                      *)
(***************************************************************************)
EXTENDS Integers, FiniteSets, Sequences, SequencesExt

CONSTANTS
    PWorkers,    \* web processes
    PAsks,       \* pages and users: page "list" reads the database, page "nodes"
                 \* the query cache
    PageTtl,     \* V48140_PAGE_CACHE_TTL, in ticks: entry lifetime and slot length
    QueryTtl,    \* V5070_QUERY_CACHE_TTL, in ticks
    LocalItems,  \* V48140_LOCAL_CACHE_ITEMS
    MaxClock, MaxChanges, MaxOutages, MaxAsked, MaxServing
                 \* bounds on time, changes, outages, page requests and requests in progress

ASSUME CacheConstants ==
    /\ PageTtl \in Nat \ {0} /\ QueryTtl \in Nat \ {0} /\ LocalItems \in Nat \ {0}
    /\ {MaxClock, MaxChanges, MaxOutages} \subseteq Nat

VARIABLES
    ptick,      \* the clock
    ver,        \* how many changes of the inventory have been committed
    told,       \* changes that had been answered with the generation raised
    gen,        \* admin_settings.page_cache_generation
    lgen,       \* process -> its own generation
    lru,        \* process -> its entries, least recently used first
    redis,      \* the entries in Redis
    linked,     \* process -> it can reach Redis
    query,      \* process -> the entry of its query cache
    gets,       \* process -> the page request it serves
    change,     \* process -> a change committed but its generation not raised yet
    purge,      \* the maintenance worker's purge: "idle" or "raised"
    served,     \* the response of the last step and what its request may expect,
                \* or Silence
    outages, asked   \* counted against the bounds

cacheVars == <<ptick, ver, told, gen, lgen, lru, redis, linked, query, gets, change, purge,
               served, outages, asked>>

NoGet == [pc |-> "idle"]
NoBody == [ver |-> 0, user |-> "nobody", at |-> 0]
Silence == [body |-> NoBody, user |-> "nobody", floor |-> 0, now |-> 0, kind |-> "list",
            blind |-> FALSE]
NoQuery == [slot |-> -1, expires |-> 0, ver |-> 0, at |-> 0]

CacheInit ==
    /\ ptick = 0 /\ ver = 0 /\ told = 0 /\ gen = 1 /\ outages = 0 /\ asked = 0
    /\ lgen = [w \in PWorkers |-> 1]
    /\ lru = [w \in PWorkers |-> <<>>] /\ redis = {}
    /\ linked = [w \in PWorkers |-> TRUE]
    /\ query = [w \in PWorkers |-> NoQuery]
    /\ gets = [w \in PWorkers |-> NoGet]
    /\ change = [w \in PWorkers |-> 0] /\ purge = "idle"
    /\ served = Silence

-----------------------------------------------------------------------------
(* The two stores. *)

Unexpired(entries) == {x \in entries : x.expires > ptick}
Found(entries, key) == {x \in Unexpired(entries) : x.key = key}

\* Redis first, when it can be reached, and the process's own entries after it.
CacheGet(w, key) ==
    LET there == IF linked[w] THEN Found(redis, key) ELSE {} IN
    IF there # {} THEN there ELSE Found(ToSet(lru[w]), key)

\* A local hit becomes the most recently used entry.
Used(w, hit) ==
    LET at == CHOOSE i \in DOMAIN lru[w] : lru[w][i] = hit IN
    IF hit \in ToSet(lru[w]) THEN Append(RemoveAt(lru[w], at), hit) ELSE lru[w]

\* Redis only, when it can be reached; otherwise the process's own entries,
\* the least recently used one dropped.
LocalSet(w, entry) ==
    LET same == {i \in DOMAIN lru[w] : lru[w][i].key = entry.key}
        others == IF same = {} THEN lru[w] ELSE RemoveAt(lru[w], CHOOSE i \in same : TRUE)
    IN  Append(IF Len(others) < LocalItems THEN others ELSE Tail(others), entry)

CacheSet(w, entry) ==
    IF linked[w]
    THEN redis' = {x \in Unexpired(redis) : x.key # entry.key} \cup {entry} /\ UNCHANGED lru
    ELSE lru' = [lru EXCEPT ![w] = LocalSet(w, entry)] /\ UNCHANGED redis

-----------------------------------------------------------------------------
(* Pages. *)

PageSlot == ptick \div PageTtl

\* The key of a page.  Mutant: without the generation.
PageKeyNoGen(g, k, u) == <<0, PageSlot, k, u>>
PageKey(g, k, u) == <<g, PageSlot, k, u>>

\* The wrapper reads the generation, or falls back to the process's own one when
\* the database does not answer, and looks the page up.
Get(w, k, u, g, blind) ==
    LET key == PageKey(g, k, u)
        hits == CacheGet(w, key) IN
    /\ gets[w] = NoGet /\ Cardinality({o \in PWorkers : gets[o] # NoGet}) < MaxServing
    /\ asked < MaxAsked /\ asked' = asked + 1
    /\ \/ \E x \in hits :
            /\ served' = [body |-> x.body, user |-> u, floor |-> told, now |-> ptick,
                          kind |-> k, blind |-> blind]
            /\ lru' = [lru EXCEPT ![w] = Used(w, x)]
            /\ UNCHANGED gets
       \/ /\ hits = {} /\ served' = Silence
          /\ gets' = [gets EXCEPT ![w] = [pc |-> "miss", key |-> key, kind |-> k, user |-> u,
                                          floor |-> told, blind |-> blind]]
          /\ UNCHANGED lru
    /\ UNCHANGED <<ptick, ver, told, gen, lgen, redis, linked, query, change, purge>>

GetPage(w, k, u) == Get(w, k, u, gen, FALSE) /\ UNCHANGED outages

GetBlind(w, k, u) ==
    /\ outages < MaxOutages /\ outages' = outages + 1
    /\ Get(w, k, u, lgen[w], TRUE)

\* The query cache holds the rows of the current range until they expire.
QuerySlot == ptick \div QueryTtl
QueryHit(w) == query[w].slot = QuerySlot /\ query[w].expires > ptick
QueryRead(w) ==
    IF QueryHit(w) THEN query[w]
    ELSE [slot |-> QuerySlot, expires |-> ptick + QueryTtl, ver |-> ver, at |-> ptick]

\* The page is rendered.
Render(w) ==
    /\ gets[w].pc = "miss"
    /\ LET read == IF gets[w].kind = "nodes" THEN QueryRead(w)
                   ELSE [slot |-> 0, expires |-> 0, ver |-> ver, at |-> ptick] IN
         /\ query' = IF gets[w].kind = "nodes" THEN [query EXCEPT ![w] = read] ELSE query
         /\ gets' = [gets EXCEPT ![w] =
                [pc |-> "rendered", key |-> @.key, kind |-> @.kind, floor |-> @.floor,
                 blind |-> @.blind,
                 body |-> [ver |-> read.ver, user |-> @.user, at |-> read.at]]]
    /\ served' = Silence
    /\ UNCHANGED <<ptick, ver, told, gen, lgen, lru, redis, linked, change, purge, outages, asked>>

\* The page is stored under the key of its lookup, and sent.
Store(w) ==
    /\ gets[w].pc = "rendered"
    /\ CacheSet(w, [key |-> gets[w].key, body |-> gets[w].body, expires |-> ptick + PageTtl])
    /\ served' = [body |-> gets[w].body, user |-> gets[w].body.user, floor |-> gets[w].floor,
                  now |-> ptick, kind |-> gets[w].kind, blind |-> gets[w].blind]
    /\ gets' = [gets EXCEPT ![w] = NoGet]
    /\ UNCHANGED <<ptick, ver, told, gen, lgen, linked, query, change, purge, outages, asked>>

-----------------------------------------------------------------------------
(* Changes. *)

\* An administrator's handler commits.
ChangeCommits(w) ==
    /\ change[w] = 0 /\ ver < MaxChanges
    /\ ver' = ver + 1
    /\ change' = [change EXCEPT ![w] = ver + 1]
    /\ served' = Silence
    /\ UNCHANGED <<ptick, told, gen, lgen, lru, redis, linked, query, gets, purge, outages, asked>>

\* Its wrapper raises both generations, drops the entries of its own process,
\* and answers.
Raise(w) ==
    /\ change[w] # 0
    /\ lgen' = [lgen EXCEPT ![w] = @ + 1]
    /\ lru' = [lru EXCEPT ![w] = <<>>]
    /\ change' = [change EXCEPT ![w] = 0]
    /\ served' = Silence
    /\ UNCHANGED <<ptick, ver, redis, linked, query, gets, purge, asked>>

ChangeAnswered(w) ==
    /\ Raise(w)
    /\ gen' = gen + 1
    /\ told' = IF change[w] > told THEN change[w] ELSE told
    /\ UNCHANGED outages

\* The database refuses the new generation: nobody is told.
RaiseFails(w) ==
    /\ outages < MaxOutages /\ outages' = outages + 1
    /\ Raise(w)
    /\ UNCHANGED <<gen, told>>

\* A purge of the maintenance worker.
PurgeRaises ==
    /\ purge = "idle" /\ ver < MaxChanges
    /\ gen' = gen + 1 /\ purge' = "raised"
    /\ served' = Silence
    /\ UNCHANGED <<ptick, ver, told, lgen, lru, redis, linked, query, gets, change, outages, asked>>

PurgeCommits ==
    /\ purge = "raised" /\ purge' = "idle"
    /\ ver' = ver + 1
    /\ served' = Silence
    /\ UNCHANGED <<ptick, told, gen, lgen, lru, redis, linked, query, gets, change, outages, asked>>

-----------------------------------------------------------------------------
(* Time and Redis. *)

\* A request is rendered and stored within the tick in which it was looked up.
CacheTick ==
    /\ ptick < MaxClock /\ \A w \in PWorkers : gets[w] = NoGet
    /\ ptick' = ptick + 1
    /\ redis' = {x \in redis : x.expires > ptick + 1}
    /\ served' = Silence
    /\ UNCHANGED <<ver, told, gen, lgen, lru, linked, query, gets, change, purge, outages, asked>>

\* A process loses Redis, or tries it again after its pause.
RedisLost(w) ==
    /\ linked[w] /\ outages < MaxOutages /\ outages' = outages + 1
    /\ linked' = [linked EXCEPT ![w] = FALSE]
    /\ served' = Silence
    /\ UNCHANGED <<ptick, ver, told, gen, lgen, lru, redis, query, gets, change, purge, asked>>

RedisBack(w) ==
    /\ ~linked[w]
    /\ linked' = [linked EXCEPT ![w] = TRUE]
    /\ served' = Silence
    /\ UNCHANGED <<ptick, ver, told, gen, lgen, lru, redis, query, gets, change, purge, outages, asked>>

CacheNext ==
    \/ CacheTick \/ PurgeRaises \/ PurgeCommits
    \/ \E w \in PWorkers :
        \/ \E a \in PAsks : GetPage(w, a[1], a[2]) \/ GetBlind(w, a[1], a[2])
        \/ Render(w) \/ Store(w)
        \/ ChangeCommits(w) \/ ChangeAnswered(w) \/ RaiseFails(w)
        \/ RedisLost(w) \/ RedisBack(w)

-----------------------------------------------------------------------------
\* The shapes, and that no process keeps more entries than it may.
CacheTypeOK ==
    /\ ptick \in 0..MaxClock /\ ver \in 0..MaxChanges + 1 /\ told \in 0..ver
    /\ \A w \in PWorkers : Len(lru[w]) <= LocalItems /\ lgen[w] \in Nat \ {0}
    /\ purge \in {"idle", "raised"}

\* _v48140_cache_generation: "invalidates every Gunicorn worker even when Redis is
\* disabled".  Once a change was answered, no request that starts later is served
\* a page rendered before it, by any process, with or without Redis; a request
\* that could not read the generation may be.
AnsweredIsShown ==
    served.kind = "list" /\ ~served.blind => served.body.ver >= served.floor

\* "Successful pushes may leave page cache stale for at most PAGE_CACHE_TTL
\* seconds": no response is older than a slot, and no Node tab older than a slot
\* and the lifetime of its rows, whatever was purged or lost meanwhile.
StaleBounded ==
    served.now - served.body.at
        <= (PageTtl - 1) + (IF served.kind = "nodes" THEN QueryTtl - 1 ELSE 0)

\* A page is only served to the user it was rendered for.
OwnPage == served.user = served.body.user
=============================================================================
