---------------------------- MODULE CurrentMetrics ----------------------------
(***************************************************************************)
(* What one node's pushes leave in the tables of current values and of     *)
(* five-minute charts.  A payload may bring a VM's network half, its       *)
(* performance half (with its disks) or both, may lack the VM list, and    *)
(* may carry a time older than what is stored (the node's clock was set    *)
(* back).  A stored value is represented by the time of the payload it     *)
(* came from, 0 where there is none.  Two units of time are one bucket.    *)
(* Pushes and purges of a node hold its advisory lock: each is one step.   *)
(***************************************************************************)
EXTENDS Integers, FiniteSets, FiniteSetsExt

CONSTANTS
    CVms,       \* VMs of the node
    Payloads,   \* what payloads may bring
    MaxStamp,   \* bound: time
    MaxPurges   \* bound: purges

\* A payload: VMs with interfaces, VMs with performance data, whether the list
\* of VMs is there at all, whether it is complete, whether the disks are
\* customer disks, whether storage devices are reported.
ASSUME CurrentAssumption ==
    /\ IsFiniteSet(CVms)
    /\ Payloads \subseteq [net : SUBSET CVms, perf : SUBSET CVms,
                           present : BOOLEAN, complete : BOOLEAN,
                           cust : BOOLEAN, mount : BOOLEAN]
    /\ \A p \in Payloads : ~p.present => p.perf = {}
    /\ MaxStamp \in Nat /\ MaxPurges \in Nat

VARIABLES
    got,        \* push_receipts: times of accepted payloads
    latest,     \* vm_latest_metrics: seen, network half, performance half
    cur,        \* vm_current_fast: seen, network half, performance half
    ifc,        \* vm_iface_current: last_seen
    nic,        \* vm_nic_identity_lookup: payload the address is from
    nodeRow,    \* node_current_fast: seen, number of VMs
    hostRow,    \* host, physical network, agent health and filesystem rows
    disk,       \* vm_disk_current: last_seen, role
    dsum,       \* vm_disk_summary_current: last_seen
    mount,      \* node_storage_current: last_seen
    msum,       \* node_storage_mount_summary_current: last_seen, disks
    chart,      \* vm_chart_5m: bucket, VM
    raw,        \* vm_raw_detail_5m: bucket, VM
    nchart,     \* node_chart_5m: bucket
    snap,       \* node_push_snapshots: bucket
    purges,     \* purges so far
    swept,      \* history: a purge since nodeRow was written may have put it wrong
    thinned     \* history: a purge has deleted chart rows

cmVars == <<got, latest, cur, ifc, nic, nodeRow, hostRow, disk, dsum, mount,
            msum, chart, raw, nchart, snap, purges, swept, thinned>>

Stamps == 0..MaxStamp
BucketOf(t) == (t + 1) \div 2
Buckets == 1..BucketOf(MaxStamp)

Nothing == [seen |-> 0, net |-> 0, perf |-> 0]
NoHost == [phys |-> [seen |-> 0, val |-> 0], host |-> [seen |-> 0, val |-> 0],
           health |-> [seen |-> 0, val |-> 0], fs |-> 0]
NoDisk == [t |-> 0, cust |-> FALSE]
NoSnap == [push |-> 0, vms |-> 0, complete |-> FALSE, stored |-> 0]
NoChart == [t |-> 0, vms |-> 0, host |-> 0]

CMTypeOK ==
    /\ got \subseteq 1..MaxStamp
    /\ latest \in [CVms -> [seen : Stamps, net : Stamps, perf : Stamps]]
    /\ cur \in [CVms -> [seen : Stamps, net : Stamps, perf : Stamps]]
    /\ \A v \in CVms : \A r \in {latest[v], cur[v]} : r.seen = Max({r.net, r.perf})
    /\ ifc \in [CVms -> Stamps] /\ nic \in [CVms -> Stamps]
    /\ nodeRow \in [seen : Stamps, vms : 0..Cardinality(CVms)]
    /\ hostRow \in [phys : [seen : Stamps, val : Stamps], host : [seen : Stamps, val : Stamps],
                    health : [seen : Stamps, val : Stamps], fs : Stamps]
    /\ disk \in [CVms -> [t : Stamps, cust : BOOLEAN]] /\ dsum \in [CVms -> Stamps]
    /\ mount \in Stamps /\ msum \in [t : Stamps, disks : 0..Cardinality(CVms)]
    /\ chart \in [Buckets -> [CVms -> Stamps]] /\ raw \in [Buckets -> [CVms -> Stamps]]
    /\ nchart \in [Buckets -> [t : Stamps, vms : 0..Cardinality(CVms), host : Stamps]]
    /\ snap \in [Buckets -> [push : Stamps, vms : 0..Cardinality(CVms),
                             complete : BOOLEAN, stored : Stamps]]

CMInit ==
    /\ got = {}
    /\ latest = [v \in CVms |-> Nothing] /\ cur = [v \in CVms |-> Nothing]
    /\ ifc = [v \in CVms |-> 0] /\ nic = [v \in CVms |-> 0]
    /\ nodeRow = [seen |-> 0, vms |-> 0] /\ hostRow = NoHost
    /\ disk = [v \in CVms |-> NoDisk] /\ dsum = [v \in CVms |-> 0]
    /\ mount = 0 /\ msum = [t |-> 0, disks |-> 0]
    /\ chart = [b \in Buckets |-> [v \in CVms |-> 0]]
    /\ raw = [b \in Buckets |-> [v \in CVms |-> 0]]
    /\ nchart = [b \in Buckets |-> NoChart] /\ snap = [b \in Buckets |-> NoSnap]
    /\ purges = 0 /\ swept = FALSE /\ thinned = FALSE

(***************************************************************************)
(* The parts of a push at time t with payload p                            *)
(***************************************************************************)
\* node_push_snapshots: the counts are those of the payload that came last.
Snapshot(t, p) ==
    [push |-> Max({snap[BucketOf(t)].push, t}), vms |-> Cardinality(p.net \cup p.perf),
     complete |-> snap[BucketOf(t)].complete \/ p.complete,
     stored |-> IF p.present THEN t ELSE snap[BucketOf(t)].stored]

\* node_physical_net_latest and node_bridge_addresses_latest, node_host_latest,
\* agent_health_latest: the values of the payload that came last under the
\* newest time.  node_filesystem_latest: that payload's time too.
PhysUpsert(row, t) == [seen |-> Max({row.seen, t}), val |-> t]
HostUpsert(row, t) == [seen |-> Max({row.seen, t}), val |-> t]
HealthUpsert(row, t) == [seen |-> Max({row.seen, t}), val |-> t]
FilesystemUpsert(t) == t

\* The VMs a payload has rows for, from its interfaces and from its VM list, and
\* a row of this payload over the halves n and q of an older one.
Named(p) == p.net \cup p.perf
Halves(v, t, p, n, q) ==
    [seen |-> t, net |-> IF v \in p.net THEN t ELSE n,
                 perf |-> IF v \in p.perf THEN t ELSE q]

\* Mutant: a payload without performance data resets that half.
MergeLatestResets(v, t, p) ==
    IF v \notin Named(p) \/ t < latest[v].seen THEN latest[v]
    ELSE Halves(v, t, p, 0, 0)

\* _v5052_merge_latest_metrics: a half that is not reported is kept.
MergeLatest(v, t, p) ==
    IF v \notin Named(p) \/ t < latest[v].seen THEN latest[v]
    ELSE Halves(v, t, p, latest[v].net, latest[v].perf)

\* ON CONFLICT ... WHERE excluded.last_seen >= last_seen
Guarded(old, t, new) == IF t >= old THEN new ELSE old

\* _v5052_current_writer: a half that is not reported is zero; a complete
\* inventory deletes older rows.
CurrentRow(v, t, p) ==
    IF v \in Named(p) /\ t >= cur[v].seen THEN Halves(v, t, p, 0, 0) ELSE cur[v]
CurrentKept(v, t, p) ==
    IF p.complete /\ CurrentRow(v, t, p).seen < t THEN Nothing ELSE CurrentRow(v, t, p)
IfaceKept(v, t, p) ==
    LET s == IF v \in p.net THEN Guarded(ifc[v], t, t) ELSE ifc[v]
    IN  IF p.complete /\ s < t THEN 0 ELSE s

\* vm_nic_identity_lookup has no guard: the address that came last.
NicLookup(v, t, p) == IF v \in p.net THEN t ELSE nic[v]

\* The rows of this payload, before older ones are deleted.
OfPayload(t, p) == {v \in CVms : CurrentRow(v, t, p).seen = t}

NodeUpsert(t, p) ==
    IF t >= nodeRow.seen THEN [seen |-> t, vms |-> Cardinality(OfPayload(t, p))]
    ELSE nodeRow

\* _v5052_ingest_disk_io_current: rows older than the payload are deleted
\* whether or not the inventory is complete.
DiskRow(v, t, p) ==
    LET d == IF v \in p.perf /\ t >= disk[v].t THEN [t |-> t, cust |-> p.cust] ELSE disk[v]
    IN  IF d.t < t THEN NoDisk ELSE d
MountRow(t, p) ==
    LET m == IF p.mount THEN Guarded(mount, t, t) ELSE mount IN IF m < t THEN 0 ELSE m

\* Mutant: summaries of VMs without customer disks are not deleted.
DiskSummaryKeeps(d, v) == IF d[v].cust THEN d[v].t ELSE dsum[v]

\* _v48140_refresh_node_summaries, from the disk rows d and the mount's row m.
DiskSummary(d, v) == IF d[v].cust THEN d[v].t ELSE 0
MountSummary(d, m) ==
    IF m = 0 THEN [t |-> 0, disks |-> 0]
    ELSE [t |-> m, disks |-> Cardinality({v \in CVms : d[v].cust})]

\* write_storage_v2: chart rows are read back from vm_current_fast, and only
\* those this payload wrote; raw rows are written from the payload.
ChartRow(v, t, p) == IF cur'[v].seen = t THEN t ELSE chart[BucketOf(t)][v]
RawRow(v, t, p) == IF v \in p.net THEN t ELSE raw[BucketOf(t)][v]
NodeChart(t) ==
    IF nodeRow'.seen = t THEN [t |-> t, vms |-> nodeRow'.vms, host |-> hostRow'.host.val]
    ELSE nchart[BucketOf(t)]

\* push, one transaction
push(t, p) ==
    LET b == BucketOf(t) IN
    /\ t \notin got /\ got' = got \cup {t}
    /\ snap' = [snap EXCEPT ![b] = Snapshot(t, p)]
    /\ hostRow' = [phys |-> PhysUpsert(hostRow.phys, t), host |-> HostUpsert(hostRow.host, t),
                    health |-> HealthUpsert(hostRow.health, t), fs |-> FilesystemUpsert(t)]
    /\ latest' = [v \in CVms |-> MergeLatest(v, t, p)]
    /\ IF p.present
       THEN /\ disk' = [v \in CVms |-> DiskRow(v, t, p)]
            /\ mount' = MountRow(t, p)
            /\ dsum' = [v \in CVms |-> DiskSummary(disk', v)]
            /\ msum' = MountSummary(disk', mount')
            /\ cur' = [v \in CVms |-> CurrentKept(v, t, p)]
            /\ ifc' = [v \in CVms |-> IfaceKept(v, t, p)]
            /\ nic' = [v \in CVms |-> NicLookup(v, t, p)]
            /\ nodeRow' = NodeUpsert(t, p)
            /\ swept' = (swept /\ nodeRow'.seen # t)
       ELSE UNCHANGED <<disk, mount, dsum, msum, cur, ifc, nic, nodeRow, swept>>
    /\ chart' = [chart EXCEPT ![b] = [v \in CVms |-> ChartRow(v, t, p)]]
    /\ raw' = [raw EXCEPT ![b] = [v \in CVms |-> RawRow(v, t, p)]]
    /\ nchart' = [nchart EXCEPT ![b] = NodeChart(t)]
    /\ UNCHANGED <<purges, thinned>>

(***************************************************************************)
(* Purges                                                                  *)
(***************************************************************************)
Without(f, v) == [b \in Buckets |-> [f[b] EXCEPT ![v] = 0]]

\* _refresh_node_snapshot_vm_counts, from the history that is left
Recount(r) ==
    [b \in Buckets |-> [snap[b] EXCEPT !.vms = Cardinality({v \in CVms : r[b][v] # 0})]]

\* purge_vm_data with the wrappers of the later layers
purge_vm_data(v) ==
    /\ purges < MaxPurges /\ purges' = purges + 1
    /\ latest' = [latest EXCEPT ![v] = Nothing] /\ cur' = [cur EXCEPT ![v] = Nothing]
    /\ ifc' = [ifc EXCEPT ![v] = 0] /\ nic' = [nic EXCEPT ![v] = 0]
    /\ disk' = [disk EXCEPT ![v] = NoDisk]
    /\ dsum' = [u \in CVms |-> DiskSummary(disk', u)]
    /\ msum' = MountSummary(disk', mount)
    /\ chart' = Without(chart, v) /\ raw' = Without(raw, v) /\ thinned' = TRUE
    /\ snap' = Recount(raw')
    /\ nodeRow' = IF nodeRow.seen = 0 THEN nodeRow
                  ELSE [nodeRow EXCEPT !.vms = Cardinality({u \in CVms : cur'[u].seen # 0})]
    /\ swept' = (swept \/ \E u \in CVms : cur'[u].seen \notin {0, nodeRow.seen})
    /\ UNCHANGED <<got, hostRow, mount, nchart>>

\* purge_all_vms_for_node: node_current_fast is left as it is.
NoVms ==
    /\ purges < MaxPurges /\ purges' = purges + 1
    /\ latest' = [v \in CVms |-> Nothing] /\ cur' = [v \in CVms |-> Nothing]
    /\ ifc' = [v \in CVms |-> 0] /\ disk' = [v \in CVms |-> NoDisk]
    /\ dsum' = [v \in CVms |-> 0]
    /\ swept' = TRUE
    /\ UNCHANGED nodeRow
purge_all_vms_for_node ==
    /\ NoVms
    /\ msum' = MountSummary(disk', mount)
    /\ snap' = [b \in Buckets |-> [snap[b] EXCEPT !.vms = 0]]
    /\ UNCHANGED <<got, nic, hostRow, mount, chart, raw, nchart, thinned>>

\* purge_node_data: receipts go too, so old payloads are new again.
purge_node_data ==
    /\ NoVms
    /\ got' = {} /\ nic' = [v \in CVms |-> 0]
    /\ hostRow' = NoHost
    /\ mount' = 0 /\ msum' = [t |-> 0, disks |-> 0]
    /\ chart' = [b \in Buckets |-> [v \in CVms |-> 0]]
    /\ raw' = [b \in Buckets |-> [v \in CVms |-> 0]]
    /\ nchart' = [b \in Buckets |-> NoChart] /\ snap' = [b \in Buckets |-> NoSnap]
    /\ UNCHANGED thinned

CMNext ==
    \/ \E t \in 1..MaxStamp, p \in Payloads : push(t, p)
    \/ \E v \in CVms : purge_vm_data(v)
    \/ purge_all_vms_for_node
    \/ purge_node_data

CMSpec == CMInit /\ [][CMNext]_cmVars

(***************************************************************************)
(* Properties                                                              *)
(***************************************************************************)
\* MERGE and ON CONFLICT ... WHERE excluded.last_seen >= ...: whatever halves
\* payloads bring and in whatever order they come, no half of a VM's latest
\* row, no current row, no node row and no chart row of the node goes back to
\* an older payload without a purge.  (A current row that a complete inventory
\* deleted may come back; a VM's chart row may then go back within its bucket.)
ForwardOnly(old, new) == new = 0 \/ new >= old
CurrentForward ==
    [][purges' = purges =>
        /\ \A v \in CVms : /\ latest'[v].net >= latest[v].net
                           /\ latest'[v].perf >= latest[v].perf
                           /\ ForwardOnly(cur[v].seen, cur'[v].seen)
                           /\ ForwardOnly(ifc[v], ifc'[v])
                           /\ ForwardOnly(disk[v].t, disk'[v].t)
        /\ nodeRow'.seen >= nodeRow.seen
        /\ \A b \in Buckets : nchart'[b].t >= nchart[b].t]_cmVars

\* _v48140_refresh_node_summaries: the materialised summaries always agree with
\* the disk rows, after pushes of every kind and after every purge.
SummariesAgree ==
    /\ \A v \in CVms : dsum[v] = IF disk[v].cust THEN disk[v].t ELSE 0
    /\ msum.t = mount
    /\ mount # 0 => msum.disks = Cardinality({v \in CVms : disk[v].cust})

\* node_current_fast: the node's number of VMs is the number of current rows that
\* came with it, whatever came later or was purged.
NodeRowAgrees ==
    nodeRow.vms = Cardinality({v \in CVms : cur[v].seen # 0 /\ cur[v].seen = nodeRow.seen})

\* The same until a purge of the node, or of a VM beside rows of other times.
UnsweptNodeRowAgrees == swept \/ NodeRowAgrees

\* write_storage_v2: a chart row holds a payload of its own bucket, and the
\* node's chart row counts all VMs that are charted from the same payload (a
\* late payload may have replaced some since) and has its host values.
ChartsAgree ==
    \A b \in Buckets :
        /\ \A v \in CVms : chart[b][v] # 0 => BucketOf(chart[b][v]) = b
        /\ nchart[b].t # 0 => BucketOf(nchart[b].t) = b /\ nchart[b].host = nchart[b].t
        /\ ~thinned /\ nchart[b].t # 0 =>
              nchart[b].vms >= Cardinality({v \in CVms : chart[b][v] = nchart[b].t})
=============================================================================
