-------------------------------- MODULE Charts --------------------------------
(***************************************************************************)
(* The charts of a node and of its VMs.  Two sets of readers answer the    *)
(* same requests: one adds up the history every push extends (node_stats,  *)
(* vm_perf_stats), the other reads five-minute chart rows that every push  *)
(* overwrites (storage_v2.py); VIRTINFRA_READ_CHART_V2 chooses.  Beside    *)
(* them the cards of the node page read a selected snapshot or the tables  *)
(* of current values.  One node; payloads may come late and in any order.  *)
(***************************************************************************)
EXTENDS Integers, FiniteSets, Sequences, FiniteSetsExt, SequencesExt

CONSTANTS
    ChVms,          \* VMs of the node
    ChPayloads,     \* what payloads may bring
    BucketTicks,    \* CACHE_BUCKET_SECONDS
    Periods,        \* lengths of the periods
    ChNow,          \* bound: the time at which pages are read
    MaxChPushes,    \* bound: pushes
    MaxChEdits      \* bound: hides and purges

\* A payload: interface rows, VMs with performance data, whether the list of VMs is
\* there and complete, and the interval.  Bytes stand for both directions.
Bridges == {"public", "private", "other"}
ASSUME ChartConstants ==
    /\ \A p \in ChPayloads :
          /\ \A i \in DOMAIN p.net : p.net[i].vm \in ChVms /\ p.net[i].bridge \in Bridges
          /\ p.perf \subseteq ChVms /\ (~p.metrics => p.perf = {})
    /\ BucketTicks \in Nat \ {0} /\ Periods \subseteq Nat
    /\ {ChNow, MaxChPushes, MaxChEdits} \subseteq Nat

VARIABLES
    stats,      \* node_stats: <<bucket, VM, bridge, interface>> -> sums
    perf,       \* vm_perf_stats: <<bucket, VM, time>>
    hostStats,  \* node_host_stats: <<bucket, time>>
    snaps,      \* node_push_snapshots: buckets
    current,    \* vm_current_fast: VM -> row
    ifaceNow,   \* vm_iface_current: <<VM, bridge, interface>> -> row
    nodeSeen,   \* node_current_fast.last_seen
    vmChart,    \* vm_chart_5m: <<bucket, VM>> -> row
    nodeChart,  \* node_chart_5m: bucket -> time of the payload
    hiddenVms,  \* vm_inventory.status = 'hidden'
    accepted,   \* push_receipts, with what each payload was
    edits       \* counted against MaxChEdits

chartVars == <<stats, perf, hostStats, snaps, current, ifaceNow, nodeSeen, vmChart,
               nodeChart, hiddenVms, accepted, edits>>

ChartsInit ==
    /\ stats = <<>> /\ perf = {} /\ hostStats = {} /\ snaps = {}
    /\ current = <<>> /\ ifaceNow = <<>> /\ nodeSeen = 0
    /\ vmChart = <<>> /\ nodeChart = <<>>
    /\ hiddenVms = {} /\ accepted = {} /\ edits = 0

bucket_for(t) == (t \div BucketTicks) * BucketTicks

Bytes(rows) == FoldLeft(LAMBDA s, r : s + r.bytes, 0, rows)
Packets(rows) == FoldLeft(LAMBDA s, r : s + r.packets, 0, rows)
On(rows, bridge) == SelectSeq(rows, LAMBDA r : r.bridge = bridge)
OfVm(rows, v) == SelectSeq(rows, LAMBDA r : r.vm = v)
Overlay(f, g) == [k \in DOMAIN f \cup DOMAIN g |-> IF k \in DOMAIN g THEN g[k] ELSE f[k]]
Only(f, S) == [k \in DOMAIN f \cap S |-> f[k]]
-----------------------------------------------------------------------------
\* A push.

\* _v5052_write_interface_copy_batch: what is stored for a bucket grows.
StatsMerged(t, net) ==
    LET key(r) == <<bucket_for(t), r.vm, r.bridge, r.iface>>
        new(k) == SelectSeq(net, LAMBDA r : key(r) = k)
        old(k) == IF k \in DOMAIN stats THEN stats[k]
                  ELSE [bytes |-> 0, packets |-> 0, sec |-> 0, last |-> 0]
    IN  Overlay(stats, [k \in {key(net[i]) : i \in DOMAIN net} |->
            [bytes |-> old(k).bytes + Bytes(new(k)), packets |-> old(k).packets + Packets(new(k)),
             sec |-> Last(new(k)).sec, last |-> Max({old(k).last, t})]])

\* _v5052_current_writer: a VM's row comes whole from the newest payload that names it.
CurrentRow(p, v, t) ==
    LET net == OfVm(p.net, v)
    IN  [seen |-> t, total |-> Bytes(net),
         public |-> Bytes(On(net, "public")), private |-> Bytes(On(net, "private")),
         cpu |-> IF v \in p.perf THEN 1 ELSE 0,
         sec |-> IF v \in p.perf THEN p.sec ELSE Max({net[i].sec : i \in DOMAIN net})]
Newer(table, t) == {k \in DOMAIN table : table[k].seen > t}
Written(table, rows, t, complete) ==
    LET merged == Overlay(table, Only(rows, DOMAIN rows \ Newer(table, t)))
    IN  IF complete THEN Only(merged, {k \in DOMAIN merged : merged[k].seen >= t}) ELSE merged
CurrentWritten(p, t) ==
    Written(current, [v \in p.perf \cup {p.net[i].vm : i \in DOMAIN p.net} |-> CurrentRow(p, v, t)],
            t, p.complete)
IfaceWritten(p, t) ==
    LET key(r) == <<r.vm, r.bridge, r.iface>>
    IN  Written(ifaceNow, [k \in {key(p.net[i]) : i \in DOMAIN p.net} |->
            [seen |-> t, bytes |-> Last(SelectSeq(p.net, LAMBDA r : key(r) = k)).bytes]],
            t, p.complete)

\* _interface_aggregates: the interfaces of a VM, and sums of its own.
_interface_aggregates(p, v) == [ifaces |-> OfVm(p.net, v), packets |-> Packets(OfVm(p.net, v))]

\* write_storage_v2: a chart row for every VM whose current row is of this payload.
ChartsWritten(p, t, cur) ==
    Overlay(vmChart, [k \in {<<bucket_for(t), v>> : v \in {w \in DOMAIN cur : cur[w].seen = t}} |->
        [row |-> cur[k[2]], ifaces |-> _interface_aggregates(p, k[2]).ifaces,
         packets |-> _interface_aggregates(p, k[2]).packets]])

ChPush(t, p) ==
    LET b == bucket_for(t)
        cur == IF p.metrics THEN CurrentWritten(p, t) ELSE current
        seen == IF p.metrics THEN Max({nodeSeen, t}) ELSE nodeSeen
    IN  /\ Cardinality(accepted) < MaxChPushes
        /\ \A a \in accepted : a.time # t
        /\ stats' = StatsMerged(t, p.net)
        /\ perf' = perf \cup {<<b, v, t>> : v \in p.perf}
        /\ hostStats' = hostStats \cup {<<b, t>>}
        /\ snaps' = snaps \cup {b}
        /\ current' = cur
        /\ ifaceNow' = IF p.metrics THEN IfaceWritten(p, t) ELSE ifaceNow
        /\ nodeSeen' = seen
        /\ vmChart' = ChartsWritten(p, t, cur)
        /\ nodeChart' = IF seen = t THEN Overlay(nodeChart, [c \in {b} |-> t]) ELSE nodeChart
        /\ accepted' = accepted \cup {[time |-> t, metrics |-> p.metrics,
                                       newest |-> \A a \in accepted : a.time < t]}
        /\ UNCHANGED <<hiddenVms, edits>>

HideVm(v) ==
    /\ edits < MaxChEdits
    /\ hiddenVms' = IF v \in hiddenVms THEN hiddenVms \ {v} ELSE hiddenVms \cup {v}
    /\ edits' = edits + 1
    /\ UNCHANGED <<stats, perf, hostStats, snaps, current, ifaceNow, nodeSeen, vmChart,
                   nodeChart, accepted>>

\* purge_vm_data
PurgeVm(v) ==
    /\ edits < MaxChEdits
    /\ stats' = Only(stats, {k \in DOMAIN stats : k[2] # v})
    /\ perf' = {x \in perf : x[2] # v}
    /\ current' = Only(current, DOMAIN current \ {v})
    /\ ifaceNow' = Only(ifaceNow, {k \in DOMAIN ifaceNow : k[1] # v})
    /\ vmChart' = Only(vmChart, {k \in DOMAIN vmChart : k[2] # v})
    /\ edits' = edits + 1
    /\ UNCHANGED <<hostStats, snaps, nodeSeen, nodeChart, hiddenVms, accepted>>

ChartsNext ==
    \/ \E t \in BucketTicks .. ChNow, p \in ChPayloads : ChPush(t, p)
    \/ \E v \in ChVms : HideVm(v) \/ PurgeVm(v)
-----------------------------------------------------------------------------
\* The readers, from the history (..._legacy) and from the chart rows.  A chart is a
\* function of the buckets of a range that it has a point for.

InRange(b, range) == range[1] <= b /\ b < range[2]
range_for_period(period, end) == <<end - period, end>>
StatKeys(b, v) == {k \in DOMAIN stats : k[1] = b /\ k[2] = v}
Sum(f(_), S) == MapThenSumSet(f, S)
Visible(v) == v \notin hiddenVms

\* query_vm_chart: all interfaces of a VM, or those on the given bridges.
_v5040_query_vm_chart_legacy(v, bridges, range) ==
    LET keys(b) == {k \in StatKeys(b, v) : k[3] \in bridges}
        LBytes(k) == stats[k].bytes
        LPackets(k) == stats[k].packets
    IN  [b \in {k[1] : k \in {s \in DOMAIN stats : s[2] = v /\ s[3] \in bridges /\ InRange(s[1], range)}} |->
            [total |-> Sum(LBytes, keys(b)), packets |-> Sum(LPackets, keys(b)),
             last |-> Max({stats[k].last : k \in keys(b)}), sec |-> Max({stats[k].sec : k \in keys(b)})]]

_v5040_iface_values(row, bridges) == SelectSeq(row.ifaces, LAMBDA r : r.bridge \in bridges)
_v5040_network_row(row, values) ==
    [total |-> Bytes(values), packets |-> Packets(values), last |-> row.row.seen, sec |-> row.row.sec]
query_vm_chart(v, bridges, range) ==
    LET values(b) == _v5040_iface_values(vmChart[<<b, v>>], bridges)
        kept == {k[1] : k \in {c \in DOMAIN vmChart : c[2] = v /\ InRange(c[1], range)}}
        drawn == IF bridges = Bridges THEN kept ELSE {b \in kept : values(b) # <<>>}
    IN  [b \in drawn |-> _v5040_network_row(vmChart[<<b, v>>], values(b))]

\* query_node_chart and query_node_network_health_chart.  (The history's buckets are
\* those with a snapshot; no range here is long enough for some to be left out.)
_v5040_query_node_chart_legacy(range) ==
    LET keys(b) == {k \in DOMAIN stats : k[1] = b /\ Visible(k[2])}
        on(b, bridge) == {k \in keys(b) : k[3] = bridge}
        LBytes(k) == stats[k].bytes
        LPackets(k) == stats[k].packets
    IN  [b \in {s \in snaps : InRange(s, range) /\ keys(s) # {}} |->
            [public |-> Sum(LBytes, on(b, "public")), private |-> Sum(LBytes, on(b, "private")),
             total |-> Sum(LBytes, keys(b)), packets |-> Sum(LPackets, keys(b)),
             last |-> Max({stats[k].last : k \in keys(b)}), sec |-> Max({stats[k].sec : k \in keys(b)})]]

query_node_chart(range) ==
    LET keys(b) == {k \in DOMAIN vmChart : k[1] = b /\ Visible(k[2])}
        LPublic(k) == vmChart[k].row.public
        LPrivate(k) == vmChart[k].row.private
        LTotal(k) == vmChart[k].row.total
        LPackets(k) == vmChart[k].packets
    IN  [b \in {k[1] : k \in {c \in DOMAIN vmChart : Visible(c[2]) /\ InRange(c[1], range)}} |->
            [public |-> Sum(LPublic, keys(b)), private |-> Sum(LPrivate, keys(b)),
             total |-> Sum(LTotal, keys(b)), packets |-> Sum(LPackets, keys(b)),
             last |-> Max({vmChart[k].row.seen : k \in keys(b)}),
             sec |-> Max({vmChart[k].row.sec : k \in keys(b)})]]

\* query_vm_perf_chart: the newest sample of a bucket; query_node_perf_chart: the sum of
\* the samples.  A sample is told by its time, and counts 1.
_v5040_query_vm_perf_chart_legacy(v, range) ==
    [b \in {x[1] : x \in {s \in perf : s[2] = v /\ InRange(s[1], range)}} |->
        Max({x[3] : x \in {s \in perf : s[1] = b /\ s[2] = v}})]
query_vm_perf_chart(v, range) ==
    [b \in {k[1] : k \in {c \in DOMAIN vmChart : c[2] = v /\ InRange(c[1], range)}} |->
        vmChart[<<b, v>>].row.seen]
_v5040_query_node_perf_chart_legacy(range) ==
    [b \in {s \in snaps : InRange(s, range) /\ \E x \in perf : x[1] = s /\ Visible(x[2])} |->
        Cardinality({x \in perf : x[1] = b /\ Visible(x[2])})]
query_node_perf_chart(range) ==
    LET LCpu(k) == vmChart[k].row.cpu
    IN  [b \in {k[1] : k \in {c \in DOMAIN vmChart : Visible(c[2]) /\ InRange(c[1], range)}} |->
            Sum(LCpu, {k \in DOMAIN vmChart : k[1] = b /\ Visible(k[2])})]

\* query_node_host_chart
_v5040_query_node_host_chart_legacy(range) ==
    [b \in {s \in snaps : InRange(s, range)} |-> Max({x[2] : x \in {h \in hostStats : h[1] = b}})]
query_node_host_chart(range) == Only(nodeChart, {b \in DOMAIN nodeChart : InRange(b, range)})
-----------------------------------------------------------------------------
\* The snapshot the cards of a page tell of.

\* resolve_snapshot_bucket: a period before the newest push, or a given time.
LatestSnap == IF snaps = {} THEN 0 ELSE Max(snaps)
AtOrBefore(t) == {b \in snaps : b <= t}
LiveSnapshot(period) ==
    LET before == AtOrBefore(LatestSnap - Max({0, period - BucketTicks}))
    IN  IF snaps = {} THEN 0 ELSE IF before # {} THEN Max(before) ELSE Min(snaps)
SnapshotAt(time) ==
    LET before == AtOrBefore(bucket_for(time)) IN IF before = {} THEN 0 ELSE Max(before)

\* resolve_table_snapshot_bucket: the nearest bucket of a table, the later of two.
resolve_table_snapshot_bucket(buckets, target) ==
    LET near == {b \in buckets : target - BucketTicks <= b /\ b <= target + BucketTicks}
        distance(b) == IF b < target THEN target - b ELSE b - target
        nearest == {b \in near : \A c \in near : distance(b) <= distance(c)}
    IN  IF target = 0 \/ near = {} THEN 0 ELSE Max(nearest)

StatBuckets == {k[1] : k \in DOMAIN stats}

\* get_node_overview and get_node_metric_overview of a past snapshot, the traffic.
NodeOverviewAt(snapshot) ==
    LET b == resolve_table_snapshot_bucket(StatBuckets, snapshot)
        LBytes(k) == stats[k].bytes
    IN  [bucket |-> b, total |-> Sum(LBytes, {k \in DOMAIN stats : k[1] = b /\ Visible(k[2])})]

\* get_node_host_period of a past snapshot.
get_node_host_period(snapshot) ==
    LET b == resolve_table_snapshot_bucket({x[1] : x \in hostStats}, snapshot)
    IN  IF b = 0 THEN 0 ELSE Max({x[2] : x \in {h \in hostStats : h[1] = b}})

\* The live cards: get_node_overview from the interfaces, get_node_metric_overview
\* from the VMs.
LiveOverview ==
    LET LBytes(k) == ifaceNow[k].bytes IN Sum(LBytes, {k \in DOMAIN ifaceNow : Visible(k[1])})
LiveMetricVms == {v \in DOMAIN current : Visible(v)}
-----------------------------------------------------------------------------
ChartsTypeOK ==
    /\ \A k \in DOMAIN stats : k[1] \in snaps /\ k[2] \in ChVms
    /\ \A k \in DOMAIN vmChart : k[1] \in snaps /\ k[2] \in ChVms
    /\ DOMAIN current \subseteq ChVms /\ nodeSeen \in 0 .. ChNow
    /\ DOMAIN nodeChart \subseteq snaps /\ hiddenVms \subseteq ChVms
    /\ edits \in 0 .. MaxChEdits

Whole == <<0, ChNow + 1>>

\* A bucket with one push, which brought the VMs and was not late.
Plain(b) == \E a \in accepted : /\ bucket_for(a.time) = b /\ a.metrics /\ a.newest
                                /\ \A c \in accepted : c # a => bucket_for(c.time) # b

\* Turning the switch changes no chart, where a bucket had one push: only a VM
\* without traffic has a point of zero in the one and none in the other.
ReadersAgree ==
    \A b \in {s \in snaps : Plain(s)} :
        LET range == <<b, b + 1>>
            Same(f, g) == DOMAIN f \subseteq DOMAIN g /\ \A c \in DOMAIN f : f[c] = g[c]
            NoSec(f) == [c \in DOMAIN f |-> [f[c] EXCEPT !.sec = 0]]
        IN  /\ \A v \in ChVms, bridges \in {Bridges} \cup {{x} : x \in Bridges} :
                  /\ Same(NoSec(_v5040_query_vm_chart_legacy(v, bridges, range)),
                          NoSec(query_vm_chart(v, bridges, range)))
                  /\ \A c \in DOMAIN query_vm_chart(v, bridges, range) :
                        \/ c \in DOMAIN _v5040_query_vm_chart_legacy(v, bridges, range)
                        \/ bridges = Bridges /\ query_vm_chart(v, bridges, range)[c].total = 0
            /\ Same(NoSec(_v5040_query_node_chart_legacy(range)), NoSec(query_node_chart(range)))
            /\ \A v \in ChVms : Same(_v5040_query_vm_perf_chart_legacy(v, range),
                                     query_vm_perf_chart(v, range))
            /\ Same(_v5040_query_node_perf_chart_legacy(range), query_node_perf_chart(range))
            /\ _v5040_query_node_host_chart_legacy(range) = query_node_host_chart(range)

\* The chart rows never show traffic the history does not have.
NothingInvented ==
    \A v \in ChVms, bridges \in {Bridges} \cup {{x} : x \in Bridges} :
        LET rows == query_vm_chart(v, bridges, Whole)
            history == _v5040_query_vm_chart_legacy(v, bridges, Whole)
        IN  \A b \in DOMAIN rows : rows[b].total > 0 =>
                b \in DOMAIN history /\ rows[b].total <= history[b].total

\* The charts of the VMs add up to that of the node, and those of the bridges to that
\* of the VM, in both readers, although each is computed apart.
ChartsAddUp ==
    LET at(f, b) == IF b \in DOMAIN f THEN f[b].total ELSE 0
    IN  \A b \in snaps :
        /\ LET Old(v) == at(_v5040_query_vm_chart_legacy(v, Bridges, Whole), b)
               New(v) == at(query_vm_chart(v, Bridges, Whole), b)
           IN  /\ at(_v5040_query_node_chart_legacy(Whole), b) = Sum(Old, {v \in ChVms : Visible(v)})
               /\ at(query_node_chart(Whole), b) = Sum(New, {v \in ChVms : Visible(v)})
        /\ \A v \in ChVms :
              LET Old(x) == at(_v5040_query_vm_chart_legacy(v, {x}, Whole), b)
                  New(x) == at(query_vm_chart(v, {x}, Whole), b)
              IN  /\ at(_v5040_query_vm_chart_legacy(v, Bridges, Whole), b) = Sum(Old, Bridges)
                  /\ at(query_vm_chart(v, Bridges, Whole), b) = Sum(New, Bridges)
        /\ \A f \in {_v5040_query_node_chart_legacy(Whole), query_node_chart(Whole)} :
              b \in DOMAIN f => f[b].public + f[b].private <= f[b].total

\* The newest values of a VM are its newest point.
ChartIsCurrent ==
    \A v \in DOMAIN current :
        /\ <<bucket_for(current[v].seen), v>> \in DOMAIN vmChart
        /\ vmChart[<<bucket_for(current[v].seen), v>>].row = current[v]

\* A longer period never selects a newer snapshot, what is selected was retained, and
\* the cards tell what the chart draws there; live, when everything is of one push,
\* the interfaces add up to the VMs.
CardsTellCharts ==
    /\ \A p, q \in Periods : p <= q => LiveSnapshot(q) <= LiveSnapshot(p)
    /\ \A s \in {LiveSnapshot(p) : p \in Periods} \cup {SnapshotAt(t) : t \in 1 .. ChNow} :
          /\ s \in snaps \cup {0}
          /\ s \in StatBuckets /\ Plain(s) /\ s \in DOMAIN query_node_chart(Whole) =>
                NodeOverviewAt(s) = [bucket |-> s, total |-> query_node_chart(Whole)[s].total]
          /\ s # 0 /\ Plain(s) => get_node_host_period(s) = query_node_host_chart(Whole)[s]
    /\ LET LTotal(v) == current[v].total
           one == \A v \in DOMAIN current : current[v].seen = nodeSeen
           same == \A k \in DOMAIN ifaceNow : ifaceNow[k].seen = nodeSeen
       IN  one /\ same => LiveOverview = Sum(LTotal, LiveMetricVms)

ChartsTold == ReadersAgree /\ NothingInvented /\ ChartsAddUp /\ ChartIsCurrent /\ CardsTellCharts
=============================================================================
