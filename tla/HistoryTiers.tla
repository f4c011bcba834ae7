---------------------------- MODULE HistoryTiers ----------------------------
(***************************************************************************)
(* The history of one node: node_push_snapshots, the index of its pushes,  *)
(* and the metric tables the pushes fill.  Retention keeps every bucket of *)
(* the raw period, one real bucket an hour of the hourly period and        *)
(* nothing older.  It runs beside the web service, deletes in batches that *)
(* commit one by one and can die between any two of them.  Time is counted *)
(* in five-minute buckets.                                                 *)
(***************************************************************************)
EXTENDS Integers, Sequences, FiniteSets, FiniteSetsExt

CONSTANTS
    TableOrder,     \* node_stats, vm_perf_stats, node_host_stats, ...: a sequence
    FirstTables,    \* tables with rows that are older than the index
    PushKinds,      \* what a push may bring: tables, complete inventory
    PerHour,        \* buckets of an hour
    RawBuckets,     \* RAW_RETENTION_DAYS
    HourlyBuckets,  \* HOURLY_RETENTION_DAYS
    DeleteAges,     \* ages that delete_history_older_than may be given
    MaxPoints,      \* NODE_CHART_MAX_POINTS
    MaxBucket,      \* bound: time
    MaxRuns,        \* bound: retention and delete runs
    MaxUpsets       \* bound: buckets without a push, late pushes, runs that die

MetricTables == {TableOrder[i] : i \in DOMAIN TableOrder}

ASSUME HistoryAssumption ==
    /\ TableOrder \in Seq(MetricTables) \ {<<>>}
    /\ FirstTables \subseteq MetricTables
    /\ PushKinds \subseteq [tables : SUBSET MetricTables, complete : BOOLEAN]
    /\ PerHour \in Nat \ {0} /\ RawBuckets \in Nat /\ HourlyBuckets \in Nat
    /\ RawBuckets < HourlyBuckets /\ DeleteAges \subseteq Nat /\ MaxPoints \in Nat \ {0}
    /\ {MaxBucket, MaxRuns, MaxUpsets} \subseteq Nat /\ MaxBucket >= 2

VARIABLES
    newest,     \* the newest bucket
    index,      \* node_push_snapshots: bucket to inventory_complete
    metric,     \* metric tables: buckets that have rows
    usage,      \* legacy usage rows, by bucket
    billed,     \* vm_consumption_hourly: legacy rows rolled up, by hour
    indexed,    \* admin_settings: retention_snapshot_backfill_v48125
    job,        \* the run under way
    budget,     \* runs and upsets so far
    brought,    \* history: what the pushes of a bucket brought
    cutoffs,    \* history: raw and hourly cutoff of the last run that ended, raw cutoff of the
                \* last retention run that began
    disturbed   \* history: hours that a push reached after their time

historyVars == <<newest, index, metric, usage, billed, indexed, job, budget, brought,
                 cutoffs, disturbed>>

AllBuckets == 1..MaxBucket
Hour(b) == (b - 1) \div PerHour
AllHours == {Hour(b) : b \in AllBuckets}
Idle == [at |-> "idle", table |-> 1, raw |-> 0, hourly |-> 0, keep |-> {}]
FirstBuckets == 1..2

HistoryInit ==
    /\ newest = 2
    /\ index = [b \in {} |-> FALSE]
    /\ metric = [t \in MetricTables |-> IF t \in FirstTables THEN FirstBuckets ELSE {}]
    /\ usage = FirstBuckets
    /\ billed = [h \in AllHours |-> 0]
    /\ indexed = FALSE
    /\ job = Idle /\ budget = [runs |-> 0, upsets |-> 0]
    /\ brought = [b \in AllBuckets |->
          [tables |-> IF b \in FirstBuckets THEN FirstTables ELSE {}, complete |-> FALSE]]
    /\ cutoffs = [raw |-> 0, hourly |-> 0, thinned |-> 0] /\ disturbed = {}

(***************************************************************************)
(* Pushes                                                                  *)
(***************************************************************************)
\* push, as far as it writes history: a bucket that was complete stays so.
Store(b, k) ==
    /\ index' = [c \in DOMAIN index \cup {b} |->
          IF c # b THEN index[c] ELSE k.complete \/ (b \in DOMAIN index /\ index[b])]
    /\ metric' = [t \in MetricTables |-> IF t \in k.tables THEN metric[t] \cup {b} ELSE metric[t]]
    /\ brought' = [brought EXCEPT ![b] = [tables |-> @.tables \cup k.tables,
                                          complete |-> @.complete \/ k.complete]]
    /\ UNCHANGED <<usage, billed, indexed, job, cutoffs>>

HistoryPush(k) ==
    /\ newest < MaxBucket /\ newest' = newest + 1
    /\ Store(newest + 1, k)
    /\ UNCHANGED <<budget, disturbed>>

Quiet ==
    /\ newest < MaxBucket /\ newest' = newest + 1
    /\ budget.upsets < MaxUpsets /\ budget' = [budget EXCEPT !.upsets = @ + 1]
    /\ UNCHANGED <<index, metric, usage, billed, indexed, job, brought, cutoffs, disturbed>>

\* A payload that an Agent kept while the monitor could not be reached.
LatePush(b, k) ==
    /\ b <= newest /\ budget.upsets < MaxUpsets /\ budget' = [budget EXCEPT !.upsets = @ + 1]
    /\ Store(b, k)
    /\ disturbed' = IF b < cutoffs.thinned THEN disturbed \cup {Hour(b)} ELSE disturbed
    /\ UNCHANGED newest

(***************************************************************************)
(* run_retention and delete_history_older_than                             *)
(***************************************************************************)
\* retention_snapshot_source: the index, and the metric tables too until a run
\* has put them into the index.
Source == DOMAIN index \cup IF indexed THEN {} ELSE UNION {metric[t] : t \in MetricTables}
Complete(b) == b \in DOMAIN index /\ index[b]

\* Mutant: the first bucket, complete or not.
KeptOfFirst(S) == Min(S)

\* Mutant: an hour without a complete inventory has no bucket.
KeptOfComplete(S) == IF \E b \in S : Complete(b) THEN Min({b \in S : Complete(b)}) ELSE 0

\* COALESCE(MIN(CASE WHEN inventory_complete=1 THEN bucket END), MIN(bucket))
KeptOf(S) == IF \E b \in S : Complete(b) THEN Min({b \in S : Complete(b)}) ELSE Min(S)

\* retention_keep_buckets
Keep(raw, hourly) ==
    LET between == {b \in Source : b >= hourly /\ b < raw}
    IN  {KeptOf({b \in between : Hour(b) = h}) : h \in {Hour(b) : b \in between}}

\* run_retention up to the tiers of the kept buckets.
BeginRetention(n) ==
    /\ job.at = "idle" /\ budget.runs < MaxRuns /\ budget' = [budget EXCEPT !.runs = @ + 1]
    /\ job' = [at |-> "metrics", table |-> 1, raw |-> n - RawBuckets,
               hourly |-> n - HourlyBuckets, keep |-> Keep(n - RawBuckets, n - HourlyBuckets)]
    /\ index' = [b \in Source |-> Complete(b)]
    /\ cutoffs' = [cutoffs EXCEPT !.thinned = n - RawBuckets]
    /\ UNCHANGED <<newest, metric, usage, billed, indexed, brought, disturbed>>

\* delete_history_older_than keeps nothing, and starts with the usage rows.
BeginDelete(age) ==
    /\ job.at = "idle" /\ budget.runs < MaxRuns /\ budget' = [budget EXCEPT !.runs = @ + 1]
    /\ job' = [at |-> "usage first", table |-> 1, raw |-> newest - age,
               hourly |-> newest - age, keep |-> {}]
    /\ UNCHANGED <<newest, index, metric, usage, billed, indexed, brought, cutoffs, disturbed>>

\* _delete_in_batches: a batch of a table, in the order of its rows, and another
\* until no row is left.
Doomed(S) == {b \in S : b < job.raw /\ b \notin job.keep}
Batches(S) == {{b \in Doomed(S) : b <= c} : c \in Doomed(S)}
DeleteMetrics(S) ==
    /\ job.at = "metrics"
    /\ metric' = [metric EXCEPT ![TableOrder[job.table]] = @ \ S]
    /\ UNCHANGED <<newest, index, usage, billed, indexed, job, budget, brought, cutoffs, disturbed>>
MetricsDeleted ==
    /\ job.at = "metrics" /\ Doomed(metric[TableOrder[job.table]]) = {}
    /\ job' = IF job.table < Len(TableOrder) THEN [job EXCEPT !.table = @ + 1]
              ELSE [job EXCEPT !.at = IF job.raw = job.hourly THEN "index" ELSE "usage"]
    /\ UNCHANGED <<newest, index, metric, usage, billed, indexed, budget, brought, cutoffs, disturbed>>

\* _rollup_and_delete_legacy_usage: one hour in one transaction.
RollupUsage ==
    LET old == {b \in usage : b < job.raw}
        h == Hour(Min(old))
        chunk == {b \in old : Hour(b) = h}
    IN
    /\ job.at \in {"usage", "usage first"} /\ old # {}
    /\ billed' = [billed EXCEPT ![h] = @ + Cardinality(chunk)]
    /\ usage' = usage \ chunk
    /\ UNCHANGED <<newest, index, metric, indexed, job, budget, brought, cutoffs, disturbed>>
UsageRolledUp ==
    /\ job.at \in {"usage", "usage first"} /\ \A b \in usage : b >= job.raw
    /\ job' = [job EXCEPT !.at = IF job.at = "usage" THEN "index" ELSE "metrics"]
    /\ UNCHANGED <<newest, index, metric, usage, billed, indexed, budget, brought, cutoffs, disturbed>>

DeleteIndex(S) ==
    /\ job.at = "index"
    /\ index' = [b \in DOMAIN index \ S |-> index[b]]
    /\ UNCHANGED <<newest, metric, usage, billed, indexed, job, budget, brought, cutoffs, disturbed>>

\* The run ends; only a retention run leaves the marker.
EndRun ==
    /\ job.at = "index" /\ Doomed(DOMAIN index) = {}
    /\ job' = Idle
    /\ indexed' = (indexed \/ job.raw # job.hourly)
    /\ cutoffs' = [cutoffs EXCEPT !.raw = job.raw, !.hourly = IF job.hourly > @ THEN job.hourly ELSE @]
    /\ UNCHANGED <<newest, index, metric, usage, billed, budget, brought, disturbed>>

\* The process or the machine dies; what was committed stays.
RunDies ==
    /\ job.at # "idle" /\ budget.upsets < MaxUpsets /\ budget' = [budget EXCEPT !.upsets = @ + 1]
    /\ job' = Idle
    /\ cutoffs' = [cutoffs EXCEPT !.raw = 0, !.hourly = IF job.hourly > @ THEN job.hourly ELSE @]
    /\ UNCHANGED <<newest, index, metric, usage, billed, indexed, brought, disturbed>>

HistoryNext ==
    \/ \E k \in PushKinds : HistoryPush(k)
    \/ Quiet
    \/ \E b \in AllBuckets, k \in PushKinds : LatePush(b, k)
    \/ BeginRetention(newest)
    \/ \E age \in DeleteAges : BeginDelete(age)
    \/ \E S \in Batches(metric[TableOrder[job.table]]) : DeleteMetrics(S)
    \/ MetricsDeleted
    \/ RollupUsage
    \/ UsageRolledUp
    \/ \E S \in Batches(DOMAIN index) : DeleteIndex(S)
    \/ EndRun
    \/ RunDies

HistorySpec == HistoryInit /\ [][HistoryNext]_historyVars

(***************************************************************************)
(* Reading                                                                 *)
(***************************************************************************)
\* _node_retained_buckets for a period that begins at start.
Retained(start) ==
    LET listed == {b \in DOMAIN index : b >= start}
    IN  IF listed # {} THEN listed ELSE UNION {metric[t] : t \in FirstTables} \cap start..MaxBucket

\* round(i * last / (n - 1)) of Python: halves go to the even neighbour.
HalfEven(a, m) ==
    LET q == a \div m
        r == a % m
    IN  IF 2 * r < m \/ (2 * r = m /\ q % 2 = 0) THEN q ELSE q + 1

\* _sample_real_buckets: at most n of the buckets, evenly spread.
SampledBuckets(S, n) ==
    LET ids == [i \in 1..Cardinality(S) |-> CHOOSE b \in S : Cardinality({c \in S : c <= b}) = i]
    IN  IF Len(ids) <= n THEN S
        ELSE IF n <= 1 THEN {ids[Len(ids)]}
        ELSE {ids[HalfEven(i * (Len(ids) - 1), n - 1) + 1] : i \in 0..(n - 1)}

(***************************************************************************)
(* Properties                                                              *)
(***************************************************************************)
HistoryTypeOK ==
    /\ newest \in AllBuckets /\ DOMAIN index \subseteq AllBuckets
    /\ \A b \in DOMAIN index : index[b] \in BOOLEAN
    /\ metric \in [MetricTables -> SUBSET AllBuckets]
    /\ usage \subseteq FirstBuckets /\ billed \in [AllHours -> Nat]
    /\ indexed \in BOOLEAN
    /\ job.at \in {"idle", "metrics", "usage", "usage first", "index"}
    /\ job.keep \subseteq AllBuckets

\* _rollup_and_delete_legacy_usage: "A crash therefore cannot leave a committed
\* rollup without the matching raw deletion, and reruns cannot double count it."
BilledOnce ==
    \A h \in AllHours : billed[h] + Cardinality({b \in usage : Hour(b) = h})
                        = Cardinality({b \in FirstBuckets : Hour(b) = h})

\* run_retention: "hourly: one real push per local hour".  When a run has ended,
\* every hour of the hourly period that a push reached has exactly one bucket,
\* whatever earlier runs died half way, with a complete inventory if one of its
\* pushes had one and with all rows that the pushes of the bucket brought; no
\* metric table has a row of another bucket.  Hours that a late push reached
\* while or after they were thinned out are not judged.
Judged == {h \in AllHours \ disturbed : cutoffs.hourly <= h * PerHour + 1 /\ (h + 1) * PerHour < cutoffs.raw}
HourlyOneReal ==
    job.at = "idle" /\ cutoffs.raw > 0 =>
        \A h \in Judged :
            LET pushed == {b \in AllBuckets : Hour(b) = h /\ brought[b].tables # {}}
                kept == {b \in DOMAIN index : Hour(b) = h}
            IN  pushed # {} =>
                  /\ Cardinality(kept) = 1
                  /\ \A b \in kept :
                        /\ (\E c \in pushed : brought[c].complete) => index[b]
                        /\ \A t \in brought[b].tables : b \in metric[t]
                        /\ \A t \in MetricTables, c \in pushed : c \in metric[t] => c = b

\* Raw buckets are never thinned out: what a push brought is there as long as no
\* run's cutoff has passed it.
RawUntouched ==
    \A b \in AllBuckets :
        b >= newest - RawBuckets /\ (\A age \in DeleteAges : b >= newest - age)
            => \A t \in brought[b].tables : b \in metric[t]

\* _sample_real_buckets: charts show the oldest and the newest retained push, at
\* most MaxPoints in all, and leave out no more pushes in one place than the
\* share of a point, rounded up.
ChartShowsEnds ==
    \A start \in AllBuckets :
        LET all == Retained(start)
            shown == SampledBuckets(all, MaxPoints)
        IN  all # {} =>
              /\ shown \subseteq all /\ Cardinality(shown) <= MaxPoints
              /\ Max(all) \in shown
              /\ MaxPoints > 1 =>
                    /\ Min(all) \in shown
                    /\ \A b, c \in shown : (b < c /\ \A d \in shown : d <= b \/ d >= c) =>
                          (Cardinality({d \in all : b < d /\ d < c}) + 1) * (MaxPoints - 1)
                              <= Cardinality(all) - 1 + MaxPoints - 2
=============================================================================
