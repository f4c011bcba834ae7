----------------------------- MODULE NodeHealth -----------------------------
(***************************************************************************)
(* Missed pushes.  A push that comes after a gap records how many cycles   *)
(* the node missed (10_ingest_push.py, 04_charts_vm.py); the Node Health   *)
(* page and the page of a node add what was recorded in the last 24 hours  *)
(* to what is being missed now, each with SQL or Python of its own.        *)
(* Payloads are delayed, sent again and served by several processes, which *)
(* a lock of the node orders.  Times are ticks, Cycle of them a cycle.     *)
(***************************************************************************)
EXTENDS Integers, FiniteSets, Sequences, FiniteSetsExt, SequencesExt

CONSTANTS
    HNodes,         \* nodes
    HWorkers,       \* processes that serve pushes
    Cycle,          \* STATUS_PUSH_SECONDS, and CACHE_BUCKET_SECONDS
    Misses,         \* STATUS_WARNING_MISSES
    Day,            \* the window of the pages
    MaxHTick,       \* bound: the clock
    MaxHPushes,     \* bound: pushes
    MaxDeletes      \* bound: purges and clears

ASSUME HealthConstants ==
    /\ {Cycle, Misses, Day} \subseteq Nat \ {0}
    /\ {MaxHTick, MaxHPushes, MaxDeletes} \subseteq Nat

VARIABLES
    htick,      \* the clock
    inventory,  \* node -> last_push, 0 if it has no row, and whether it is hidden
    newest,     \* node -> last_push of its newest snapshot, 0 if it has none
    pushReceipts,   \* push_receipts
    events,     \* node_missed_events
    serving,    \* process -> the push it serves, with the last_push it read
    came,       \* history: node -> the pushes since its data were deleted, as they came
    deletes     \* counted against MaxDeletes

healthVars == <<htick, inventory, newest, pushReceipts, events, serving, came, deletes>>

NoPush == [node |-> "none", time |-> 0, previous |-> 0]

HealthInit ==
    /\ htick = 1
    /\ inventory = [n \in HNodes |-> [last |-> 0, hidden |-> FALSE]]
    /\ newest = [n \in HNodes |-> 0]
    /\ pushReceipts = {}
    /\ events = {}
    /\ serving = [w \in HWorkers |-> NoPush]
    /\ came = [n \in HNodes |-> <<>>]
    /\ deletes = 0

HealthTick ==
    /\ htick < MaxHTick /\ htick' = htick + 1
    /\ UNCHANGED <<inventory, newest, pushReceipts, events, serving, came, deletes>>

\* A bug: pushes of a node are not ordered.
NodeFreeAlways(n) == TRUE

\* pg_advisory_xact_lock of the node: until the transaction ends.
NodeFree(n) == \A w \in HWorkers : serving[w].node # n

\* push: the receipt is new, and last_push is read.  (A known receipt ends the push.)
Serve(w, n, t) ==
    /\ serving[w] = NoPush /\ NodeFree(n)
    /\ t <= htick /\ <<n, t>> \notin pushReceipts
    /\ \A v \in HWorkers : ~(serving[v].node = n /\ serving[v].time = t)
    /\ Cardinality(pushReceipts) < MaxHPushes
    /\ serving' = [serving EXCEPT ![w] = [node |-> n, time |-> t, previous |-> inventory[n].last]]
    /\ UNCHANGED <<htick, inventory, newest, pushReceipts, events, came, deletes>>

\* missed_cycles_for_gap
missed_cycles_for_gap(previous, current) ==
    IF previous <= 0 \/ current <= previous THEN 0
    ELSE Max({0, (current - previous - Cycle) \div Cycle})

\* record_recovered_miss_event: one row for a pair of pushes.
record_recovered_miss_event(n, previous, current) ==
    LET cycles == missed_cycles_for_gap(previous, current)
        known == \E e \in events : e.node = n /\ e.good = previous /\ e.recovered = current
    IN  IF cycles <= 0 \/ known THEN events
        ELSE events \cup {[node |-> n, good |-> previous, recovered |-> current,
                           cycles |-> cycles]}

\* The rest of the push and its commit: a hidden node stays hidden.
Served(w) ==
    LET p == serving[w]
        n == p.node
    IN  /\ p # NoPush
        /\ pushReceipts' = pushReceipts \cup {<<n, p.time>>}
        /\ events' = IF p.previous > 0 /\ p.time > p.previous
                     THEN record_recovered_miss_event(n, p.previous, p.time) ELSE events
        /\ newest' = [newest EXCEPT ![n] = Max({@, p.time})]
        /\ inventory' = [inventory EXCEPT ![n].last = Max({@, p.time})]
        /\ came' = [came EXCEPT ![n] = Append(@, p.time)]
        /\ serving' = [serving EXCEPT ![w] = NoPush]
        /\ UNCHANGED <<htick, deletes>>

\* The push fails and rolls back.
NotServed(w) ==
    /\ serving[w] # NoPush
    /\ serving' = [serving EXCEPT ![w] = NoPush]
    /\ UNCHANGED <<htick, inventory, newest, pushReceipts, events, came, deletes>>

\* An administrator hides a node, or brings it back.
Hide(n, hidden) ==
    /\ inventory[n].last > 0 /\ inventory[n].hidden # hidden /\ deletes < MaxDeletes
    /\ inventory' = [inventory EXCEPT ![n].hidden = hidden]
    /\ deletes' = deletes + 1
    /\ UNCHANGED <<htick, newest, pushReceipts, events, serving, came>>

\* purge_node_data, under the node's lock: all of the node's rows.
PurgeNode(n) ==
    /\ NodeFree(n) /\ deletes < MaxDeletes
    /\ inventory' = [inventory EXCEPT ![n] = [last |-> 0, hidden |-> FALSE]]
    /\ newest' = [newest EXCEPT ![n] = 0]
    /\ pushReceipts' = {r \in pushReceipts : r[1] # n}
    /\ events' = {e \in events : e.node # n}
    /\ came' = [came EXCEPT ![n] = <<>>]
    /\ deletes' = deletes + 1
    /\ UNCHANGED <<htick, serving>>

\* clear_monitoring_data: TRUNCATE waits for every open push; the inventory stays.
ClearAll ==
    /\ \A w \in HWorkers : serving[w] = NoPush
    /\ deletes < MaxDeletes
    /\ newest' = [n \in HNodes |-> 0]
    /\ pushReceipts' = {}
    /\ events' = {}
    /\ came' = [n \in HNodes |-> IF inventory[n].last = 0 THEN <<>> ELSE <<inventory[n].last>>]
    /\ deletes' = deletes + 1
    /\ UNCHANGED <<htick, inventory, serving>>

HealthNext ==
    \/ HealthTick \/ ClearAll
    \/ \E w \in HWorkers : Served(w) \/ NotServed(w) \/ \E n \in HNodes, t \in 1 .. MaxHTick : Serve(w, n, t)
    \/ \E n \in HNodes : PurgeNode(n) \/ \E h \in BOOLEAN : Hide(n, h)
-----------------------------------------------------------------------------
\* The pages.

\* node_status_state: online, missed or down, by the number of missed pushes.
Rank(missed) == IF missed < Misses THEN 0 ELSE IF missed = Misses THEN 1 ELSE 2
node_status_state(last) == IF last = 0 THEN 2 ELSE Rank(Max({0, htick - last}) \div Cycle)

\* missed_cycles
missed_cycles(last) == IF last = 0 THEN 0 ELSE Max({0, (htick - last - Cycle) \div Cycle})

Recent(n) == {e \in events : e.node = n /\ e.recovered >= htick - Day}
Cycles(es) == FoldSet(LAMBDA e, sum : sum + e.cycles, 0, es)

\* get_node_missed_history
get_node_missed_history(n) ==
    [current |-> missed_cycles(inventory[n].last),
     completed |-> Cycles(Recent(n)),
     incidents |-> Cardinality(Recent(n))]

\* The page of a node has a row for every recorded gap and one for the current gap.
node_missed_detail_page(n) ==
    {[from |-> e.good + Cycle, to |-> e.recovered, cycles |-> e.cycles] : e \in Recent(n)} \cup
    {[from |-> inventory[n].last + Cycle, to |-> htick, cycles |-> c] :
        c \in {missed_cycles(inventory[n].last)} \ {0}}

\* get_node_health_rows: the nodes that are not hidden, and their figures in SQL.
LastPush(n) == IF inventory[n].last > 0 THEN inventory[n].last ELSE newest[n]
HealthNodes == {n \in HNodes : LastPush(n) > 0 /\ ~inventory[n].hidden}
HealthRow(n) ==
    [status |-> IF LastPush(n) >= htick - Cycle * Misses THEN 0
                ELSE IF LastPush(n) >= htick - Cycle * (Misses + 1) THEN 1 ELSE 2,
     current |-> Max({0, htick - LastPush(n) - Cycle}) \div Cycle,
     completed |-> Cycles(Recent(n)),
     incidents |-> Cardinality(Recent(n))]

\* node_health_summary: the nodes by the state of their badge.
node_health_summary ==
    [r \in 0 .. 2 |-> Cardinality({n \in HealthNodes : node_status_state(LastPush(n)) = r})]
-----------------------------------------------------------------------------
HealthTypeOK ==
    /\ htick \in 1 .. MaxHTick
    /\ inventory \in [HNodes -> [last : 0 .. MaxHTick, hidden : BOOLEAN]]
    /\ newest \in [HNodes -> 0 .. MaxHTick]
    /\ pushReceipts \subseteq HNodes \X (1 .. MaxHTick)
    /\ \A e \in events : e.node \in HNodes /\ e.cycles > 0
    /\ deletes \in 0 .. MaxDeletes

\* The recorded gaps of a node are exactly those between a push that was the newest
\* and the next newer one: a late payload neither makes nor fills a gap.
GapsAreTold ==
    \A n \in HNodes :
        LET records == {came[n][i] : i \in {j \in DOMAIN came[n] :
                                                \A k \in 1 .. (j - 1) : came[n][k] < came[n][j]}}
            after(a) == {b \in records : b > a}
        IN  {<<e.good, e.recovered>> : e \in {f \in events : f.node = n}} =
                {<<a, Min(after(a))>> : a \in {r \in records :
                    after(r) # {} /\ Min(after(r)) - r >= 2 * Cycle}}

\* No minute is missed twice: the gaps on the page of a node do not overlap, and the
\* cycles fit between their ends.
MissedOnce ==
    \A n \in HNodes :
        \A g, h \in node_missed_detail_page(n) :
            /\ g = h \/ g.to < h.from \/ h.to < g.from
            /\ g.cycles * Cycle <= g.to - g.from

\* The list and the page of a node tell the same; the list sorts by the status of the
\* badge, but for the very second in which a push becomes overdue.
HealthPagesAgree ==
    /\ \A n \in HealthNodes :
          /\ HealthRow(n).completed = get_node_missed_history(n).completed
          /\ HealthRow(n).incidents = get_node_missed_history(n).incidents
          /\ inventory[n].last > 0 => HealthRow(n).current = get_node_missed_history(n).current
          /\ (htick - LastPush(n)) % Cycle # 0 =>
                HealthRow(n).status = node_status_state(LastPush(n))
          /\ node_status_state(LastPush(n)) = 0 => HealthRow(n).current < Misses
    /\ FoldSet(LAMBDA r, sum : sum + node_health_summary[r], 0, 0 .. 2) = Cardinality(HealthNodes)

HealthTold == GapsAreTold /\ MissedOnce /\ HealthPagesAgree
=============================================================================
