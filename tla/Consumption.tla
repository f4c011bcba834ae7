----------------------------- MODULE Consumption -----------------------------
(***************************************************************************)
(* Consumption of one node: accepted pushes are added to five-minute,      *)
(* hourly and daily rows of the node and to hourly and daily rows of every *)
(* VM, whose hourly row also keeps its five-minute slots; rolling windows  *)
(* are read back from the largest rows that fit.  Retention, purges and    *)
(* the backfill of an update rewrite the rows.  Time is counted in         *)
(* five-minute slots: a push at time b brings what passed in slot b - 1,   *)
(* one unit for the node's physical network and one for every VM named.    *)
(***************************************************************************)
EXTENDS Integers, FiniteSets, FiniteSetsExt

CONSTANTS
    UVms,           \* VMs of the node
    Loads,          \* what a push may bring: VMs, physical interfaces
    SlotsPerHour, HoursPerDay,
    RawKeep,        \* slots that five-minute rows and raw samples are kept
    RollKeep,       \* slots that hourly and daily rows are kept
    OldRows,        \* bytes that VMs' first hours may hold from before slots
    MaxSlot,        \* bound: time
    MaxSent,        \* bound: pushes
    MaxRewrites     \* bound: retention runs, purges and backfills

ASSUME ConsumptionAssumption ==
    /\ Loads \subseteq [vms : SUBSET UVms, phys : BOOLEAN]
    /\ SlotsPerHour \in Nat \ {0} /\ HoursPerDay \in Nat \ {0}
    /\ RawKeep \in Nat /\ RollKeep \in Nat /\ RawKeep <= RollKeep
    /\ OldRows \subseteq [UVms -> Nat]
    /\ MaxSlot \in Nat /\ MaxSent \in Nat /\ MaxRewrites \in Nat

VARIABLES
    clock,      \* the newest time seen
    n5, nh, nd, \* node_consumption_5m, _hourly, _daily
    vh, vd,     \* vm_consumption_hourly, _daily
    rawVm,      \* node_stats: bytes by bucket and VM
    rawPhys,    \* node_physical_net_stats: bytes by bucket
    rewrites,   \* rewrites so far
    sentVm,     \* history: bytes of a VM by the bucket of the push
    sentPhys,   \* history: bytes of the node by the bucket of the push
    old,        \* history: bytes from before slots
    lost        \* history: first slot that no retention or backfill has touched

useVars == <<clock, n5, nh, nd, vh, vd, rawVm, rawPhys, rewrites, sentVm, sentPhys,
             old, lost>>

\* local_hour_start, local_day_start: the hours and days of a slot, as numbers,
\* and the slots they begin with.
SlotsPerDay == SlotsPerHour * HoursPerDay
HourOf(s) == s \div SlotsPerHour
DayOf(s) == s \div SlotsPerDay
FloorHour(s) == HourOf(s) * SlotsPerHour
CeilHour(s) == IF FloorHour(s) = s THEN s ELSE FloorHour(s) + SlotsPerHour
FloorDay(s) == DayOf(s) * SlotsPerDay
CeilDay(s) == IF FloorDay(s) = s THEN s ELSE FloorDay(s) + SlotsPerDay

Slots == 0..MaxSlot
Hours == 0..HourOf(MaxSlot)
Days == 0..DayOf(MaxSlot)
NoUse == [phys |-> 0, vm |-> 0, pcov |-> 0, vcov |-> 0]
NoHour == [bytes |-> 0, samples |-> 0, slot |-> [i \in 0..(SlotsPerHour - 1) |-> 0],
           mask |-> {}, v2 |-> FALSE]
NoDay == [bytes |-> 0, samples |-> 0]

\* A VM's row of the first hour may be older than the slots.
UseInit ==
    /\ clock = 0 /\ rewrites = 0 /\ lost = 0
    /\ n5 = [b \in Slots |-> NoUse] /\ rawPhys = [b \in Slots |-> 0]
    /\ rawVm = [b \in Slots |-> [v \in UVms |-> 0]]
    /\ sentVm = [b \in Slots |-> [v \in UVms |-> 0]] /\ sentPhys = [b \in Slots |-> 0]
    /\ old \in OldRows
    /\ vh = [h \in Hours |-> [v \in UVms |->
          IF h = 0 THEN [NoHour EXCEPT !.bytes = old[v], !.samples = old[v]] ELSE NoHour]]
    /\ vd = [d \in Days |-> [v \in UVms |->
          IF d = 0 THEN [bytes |-> old[v], samples |-> old[v]] ELSE NoDay]]
    /\ nh = [h \in Hours |-> IF h = 0 THEN [NoUse EXCEPT !.vm = MapThenSumSet(
                                                LAMBDA v : old[v], UVms)] ELSE NoUse]
    /\ nd = [d \in Days |-> IF d = 0 THEN [NoUse EXCEPT !.vm = MapThenSumSet(
                                                LAMBDA v : old[v], UVms)] ELSE NoUse]

(***************************************************************************)
(* A push                                                                  *)
(***************************************************************************)
Least(a, b) == IF a < b THEN a ELSE b
Most(a, b) == IF a > b THEN a ELSE b

\* _r2211_slot_coordinates: the interval that just ended.
SlotOf(b) == b - 1
SlotNo(b) == SlotOf(b) - FloorHour(SlotOf(b))

\* _v5058r4_rollup_physical_consumption on one row, coverage capped.
PhysAdd(row, cap) == [row EXCEPT !.phys = @ + 1, !.pcov = Least(cap, @ + 1)]

\* _r21_merge_node_vm_preaggregates on one row: all VMs of the payload.
NodeVmAdd(row, n, cap) == [row EXCEPT !.vm = @ + n, !.vcov = Least(cap, @ + 1)]

\* Mutant: the slots of an old row are kept.
VmHourAddKeeps(row, i) ==
    [row EXCEPT !.bytes = @ + 1, !.samples = @ + 1, !.slot[i] = 1, !.mask = @ \cup {i},
                !.v2 = TRUE]

\* _v5052_write_interface_copy_batch on a VM's hourly row: a row from before
\* the slots starts them afresh, and keeps its total.
VmHourAdd(row, i) ==
    LET r == IF row.v2 THEN row ELSE [NoHour EXCEPT !.bytes = row.bytes, !.samples = row.samples]
    IN  [r EXCEPT !.bytes = @ + 1, !.samples = @ + 1, !.slot[i] = @ + 1,
                  !.mask = @ \cup {i}, !.v2 = TRUE]
VmDayAdd(row) == [bytes |-> row.bytes + 1, samples |-> row.samples + 1]

\* push, as far as it writes consumption: the node's VM columns of a
\* five-minute row are those of the push's bucket, like its physical columns;
\* the hour and the day of VM bytes are those of the interval that ended.
UsePush(b, l) ==
    LET n == Cardinality(l.vms)
        P(row, cap) == IF l.phys THEN PhysAdd(row, cap) ELSE row
        V(row, cap) == IF n > 0 THEN NodeVmAdd(row, n, cap) ELSE row
    IN
    /\ MapThenSumSet(LAMBDA x : sentPhys[x] + MapThenSumSet(LAMBDA v : sentVm[x][v], UVms),
                     Slots) < MaxSent
    /\ clock' = Most(clock, b)
    /\ n5' = [n5 EXCEPT ![b] = V(P(@, 1), 1)]
    /\ nh' = [h \in Hours |->
          LET p == IF h = HourOf(b) THEN P(nh[h], SlotsPerHour) ELSE nh[h]
          IN  IF h = HourOf(SlotOf(b)) THEN V(p, SlotsPerHour) ELSE p]
    /\ nd' = [d \in Days |->
          LET p == IF d = DayOf(b) THEN P(nd[d], SlotsPerDay) ELSE nd[d]
          IN  IF d = DayOf(SlotOf(b)) THEN V(p, SlotsPerDay) ELSE p]
    /\ vh' = [vh EXCEPT ![HourOf(SlotOf(b))] = [v \in UVms |->
          IF v \in l.vms THEN VmHourAdd(@[v], SlotNo(b)) ELSE @[v]]]
    /\ vd' = [vd EXCEPT ![DayOf(SlotOf(b))] = [v \in UVms |->
          IF v \in l.vms THEN VmDayAdd(@[v]) ELSE @[v]]]
    /\ rawVm' = [rawVm EXCEPT ![b] = [v \in UVms |-> @[v] + IF v \in l.vms THEN 1 ELSE 0]]
    /\ rawPhys' = [rawPhys EXCEPT ![b] = @ + IF l.phys THEN 1 ELSE 0]
    /\ sentVm' = [sentVm EXCEPT ![b] = [v \in UVms |-> @[v] + IF v \in l.vms THEN 1 ELSE 0]]
    /\ sentPhys' = [sentPhys EXCEPT ![b] = @ + IF l.phys THEN 1 ELSE 0]
    /\ UNCHANGED <<rewrites, old, lost>>

(***************************************************************************)
(* Rolling windows: slots s..e-1                                           *)
(***************************************************************************)
Total(f(_), from, to) == MapThenSumSet(f, from..(to - 1))

\* ROUND(a * k / m) of PostgreSQL for a, k >= 0 and m > 0
RoundShare(a, k, m) == (2 * a * k + m) \div (2 * m)

\* _r2210_vm_edge_branch: the slots i..j-1 of an hour.  What the slots do not
\* explain is spread over the slots that have none.
VmEdge(row, i, j) ==
    LET at(k) == IF row.v2 THEN row.slot[k] ELSE 0
        mask == IF row.v2 THEN row.mask ELSE {}
        picked == Total(at, i, j)
        packed == Total(at, 0, SlotsPerHour)
        known == Cardinality(mask \cap i..(j - 1))
        unknown == SlotsPerHour - Cardinality(mask)
    IN  [bytes |-> picked + IF unknown = 0 THEN 0
                            ELSE RoundShare(Most(row.bytes - packed, 0),
                                            Most(j - i - known, 0), unknown),
         samples |-> Least(j - i, known + IF unknown = 0 THEN 0
                        ELSE Least(Most(Least(SlotsPerHour, row.samples)
                                        - Cardinality(mask), 0),
                                   Most(j - i - known, 0)))]

\* _r2210_add_edge_parts: hour by hour.
VmEdges(v, s, e) ==
    MapThenSumSet(LAMBDA h : VmEdge(vh[h][v], Most(s - h * SlotsPerHour, 0),
                                    Least(e - h * SlotsPerHour, SlotsPerHour)).bytes,
                  {h \in Hours : h * SlotsPerHour < e /\ (h + 1) * SlotsPerHour > s})

\* _r2210_vm_hourly_branch, _v5058r7_vm_daily_branch
VmHours(v, s, e) == MapThenSumSet(LAMBDA h : vh[h][v].bytes,
                        {h \in Hours : s <= h * SlotsPerHour /\ h * SlotsPerHour < e})
VmDays(v, s, e) == MapThenSumSet(LAMBDA d : vd[d][v].bytes,
                        {d \in Days : s <= d * SlotsPerDay /\ d * SlotsPerDay < e})

\* Mutant: the hours after the last full day are read from the day's row too.
VmMiddleTail(v, s, e) ==
    IF CeilDay(s) < FloorDay(e)
    THEN VmHours(v, s, CeilDay(s)) + VmDays(v, CeilDay(s), e) + VmHours(v, FloorDay(e), e)
    ELSE VmHours(v, s, e)

\* _r2210_add_complete_middle: days where whole days fit.
VmMiddle(v, s, e) ==
    IF CeilDay(s) < FloorDay(e)
    THEN VmHours(v, s, CeilDay(s)) + VmDays(v, CeilDay(s), FloorDay(e))
         + VmHours(v, FloorDay(e), e)
    ELSE VmHours(v, s, e)

\* _v5058c_vm_source_sql
VmWindow(v, s, e) ==
    IF CeilHour(s) >= FloorHour(e) THEN VmEdges(v, s, e)
    ELSE VmEdges(v, s, CeilHour(s)) + VmMiddle(v, CeilHour(s), FloorHour(e))
         + VmEdges(v, FloorHour(e), e)

\* _r22_node_raw_available_start: older five-minute rows are not asked for.
RawAvailable(now) == Most(0, now - RawKeep)

\* _r21_node_source_sql for one column and one edge: whole hours from hourly
\* rows, the rest from five-minute rows.
NodeRaw(f, s, e) ==
    LET from == Most(s, RawAvailable(clock)) IN MapThenSumSet(LAMBDA b : n5[b][f], from..(e - 1))
NodeHours(f, s, e) == MapThenSumSet(LAMBDA h : nh[h][f],
                             {h \in Hours : s <= h * SlotsPerHour /\ h * SlotsPerHour < e})

NodeEdge(f, s, e) ==
    IF CeilHour(s) >= FloorHour(e) THEN NodeRaw(f, s, e)
    ELSE NodeRaw(f, s, CeilHour(s)) + NodeHours(f, CeilHour(s), FloorHour(e))
         + NodeRaw(f, FloorHour(e), e)
NodeWindow(f, s, e) ==
    IF CeilDay(s) < FloorDay(e)
    THEN MapThenSumSet(LAMBDA d : nd[d][f],
              {d \in Days : CeilDay(s) <= d * SlotsPerDay /\ d * SlotsPerDay < FloorDay(e)})
         + NodeEdge(f, s, CeilDay(s)) + NodeEdge(f, FloorDay(e), e)
    ELSE NodeEdge(f, s, e)

(***************************************************************************)
(* Retention, purges, backfill                                             *)
(***************************************************************************)
\* A rewrite at time n.
At(n) ==
    /\ rewrites < MaxRewrites /\ rewrites' = rewrites + 1
    /\ n >= clock /\ clock' = n

\* Rows of a table that begin before the cutoff are deleted.
Since(table, size, none, cutoff) ==
    [k \in DOMAIN table |-> IF k * size < cutoff THEN none ELSE table[k]]
NoVmHours == [v \in UVms |-> NoHour]
NoVmDays == [v \in UVms |-> NoDay]

\* run_consumption_retention_cleanup, of the node's rows alone or of VM rows too
ConsumptionCleanup(n, include_vm) ==
    LET cut == n - RollKeep IN
    /\ At(n)
    /\ n5' = Since(n5, 1, NoUse, n - RawKeep)
    /\ nh' = Since(nh, SlotsPerHour, NoUse, cut)
    /\ nd' = Since(nd, SlotsPerDay, NoUse, IF cut < 0 THEN 0 ELSE FloorDay(cut))
    /\ IF include_vm
       THEN /\ vh' = Since(vh, SlotsPerHour, NoVmHours, cut)
            /\ vd' = Since(vd, SlotsPerDay, NoVmDays, IF cut < 0 THEN 0 ELSE FloorDay(cut))
       ELSE UNCHANGED <<vh, vd>>
    /\ lost' = Most(lost, CeilDay(Most(cut, 0)))
    /\ UNCHANGED <<rawVm, rawPhys, sentVm, sentPhys, old>>

\* run_retention: raw samples older than RawKeep, but for one an hour, old VM
\* rows, and then the node's rows.
KeptAnHour(b, cut) ==
    /\ b < cut /\ b >= cut - RollKeep
    /\ \A c \in Slots : HourOf(c) = HourOf(b) /\ c < b => rawPhys[c] = 0 /\ \A v \in UVms : rawVm[c][v] = 0
UseRetention(n) ==
    LET cut == n - RollKeep
        raw == n - RawKeep
    IN
    /\ At(n)
    /\ rawVm' = [b \in Slots |-> IF b < raw /\ ~KeptAnHour(b, raw) THEN [v \in UVms |-> 0]
                                 ELSE rawVm[b]]
    /\ rawPhys' = [b \in Slots |-> IF b < raw /\ ~KeptAnHour(b, raw) THEN 0 ELSE rawPhys[b]]
    /\ vh' = Since(vh, SlotsPerHour, NoVmHours, cut) /\ vd' = Since(vd, SlotsPerDay, NoVmDays, cut)
    /\ n5' = Since(n5, 1, NoUse, raw)
    /\ nh' = Since(nh, SlotsPerHour, NoUse, cut)
    /\ nd' = Since(nd, SlotsPerDay, NoUse, IF cut < 0 THEN 0 ELSE FloorDay(cut))
    /\ lost' = Most(lost, CeilDay(Most(cut, 0)))
    /\ UNCHANGED <<sentVm, sentPhys, old>>

\* _r21_rebuild_node_vm_columns: the VM columns of the rows a node has, from the
\* rows of its VMs.
Rebuilt5(raws) ==
    [b \in Slots |-> IF n5[b] = NoUse THEN NoUse ELSE
        [n5[b] EXCEPT !.vm = MapThenSumSet(LAMBDA v : raws[b][v], UVms),
                      !.vcov = IF \E v \in UVms : raws[b][v] # 0 THEN 1 ELSE 0]]
VmColumns(row, of, cap) ==
    [row EXCEPT !.vm = MapThenSumSet(LAMBDA v : of[v].bytes, UVms),
                !.vcov = Least(cap, Max({of[v].samples : v \in UVms}))]

RebuiltRows(rows, of, cap) ==
    [k \in DOMAIN rows |-> IF rows[k] = NoUse THEN NoUse ELSE VmColumns(rows[k], of[k], cap)]

\* purge_vm_data
UsePurgeVm(v) ==
    /\ At(clock)
    /\ vh' = [h \in Hours |-> [vh[h] EXCEPT ![v] = NoHour]]
    /\ vd' = [d \in Days |-> [vd[d] EXCEPT ![v] = NoDay]]
    /\ rawVm' = [b \in Slots |-> [rawVm[b] EXCEPT ![v] = 0]]
    /\ n5' = Rebuilt5(rawVm')
    /\ nh' = RebuiltRows(nh, vh', SlotsPerHour) /\ nd' = RebuiltRows(nd, vd', SlotsPerDay)
    /\ sentVm' = [b \in Slots |-> [sentVm[b] EXCEPT ![v] = 0]] /\ old' = [old EXCEPT ![v] = 0]
    /\ UNCHANGED <<rawPhys, sentPhys, lost>>

\* purge_all_vms_for_node
UsePurgeAll ==
    LET without(rows) == [k \in DOMAIN rows |-> [rows[k] EXCEPT !.vm = 0, !.vcov = 0]] IN
    /\ At(clock)
    /\ vh' = [h \in Hours |-> NoVmHours] /\ vd' = [d \in Days |-> NoVmDays]
    /\ rawVm' = [b \in Slots |-> [v \in UVms |-> 0]]
    /\ n5' = without(n5) /\ nh' = without(nh) /\ nd' = without(nd)
    /\ sentVm' = [b \in Slots |-> [v \in UVms |-> 0]] /\ old' = [v \in UVms |-> 0]
    /\ UNCHANGED <<rawPhys, sentPhys, lost>>

\* _backfill_impl: five-minute rows and the hours' physical columns from raw
\* samples since the raw cutoff, VM columns from VM rows, physical days from
\* hours.  The first hour and the first day may be rebuilt from a part.
Backfill5(row, b, raw) ==
    IF b < raw THEN row
    ELSE [phys |-> IF rawPhys[b] # 0 THEN rawPhys[b] ELSE row.phys,
          pcov |-> IF rawPhys[b] # 0 THEN 1 ELSE row.pcov,
          vm |-> IF \E v \in UVms : rawVm[b][v] # 0
                 THEN MapThenSumSet(LAMBDA v : rawVm[b][v], UVms) ELSE row.vm,
          vcov |-> IF \E v \in UVms : rawVm[b][v] # 0 THEN 1 ELSE row.vcov]
BackfillHour(row, h, raw, cut) ==
    LET bs == {b \in Slots : b >= raw /\ HourOf(b) = h /\ rawPhys[b] # 0}
        p == IF bs = {} THEN row
             ELSE [row EXCEPT !.phys = MapThenSumSet(LAMBDA b : rawPhys[b], bs),
                              !.pcov = Least(SlotsPerHour, Cardinality(bs))]
    IN  IF h * SlotsPerHour < cut \/ \A v \in UVms : vh[h][v] = NoHour THEN p
        ELSE VmColumns(p, vh[h], SlotsPerHour)
BackfillDay(row, d, hours, cut) ==
    LET hs == {h \in Hours : h * SlotsPerHour >= cut /\ DayOf(h * SlotsPerHour) = d
                             /\ hours[h] # NoUse}
        p == IF hs = {} THEN row
             ELSE [row EXCEPT !.phys = MapThenSumSet(LAMBDA h : hours[h].phys, hs),
                       !.pcov = Least(SlotsPerDay, MapThenSumSet(LAMBDA h : hours[h].pcov, hs))]
    IN  IF d * SlotsPerDay < cut \/ \A v \in UVms : vd[d][v] = NoDay THEN p
        ELSE VmColumns(p, vd[d], SlotsPerDay)

\* backfill, with the services stopped.
backfill(n, span) ==
    LET cut == Most(0, n - span)
        raw == Most(cut, n - RawKeep)
    IN
    /\ At(n)
    /\ n5' = [b \in Slots |-> Backfill5(n5[b], b, raw)]
    /\ nh' = [h \in Hours |-> BackfillHour(nh[h], h, raw, cut)]
    /\ nd' = [d \in Days |-> BackfillDay(nd[d], d, nh', FloorDay(cut))]
    /\ lost' = Most(lost, CeilDay(raw))
    /\ UNCHANGED <<vh, vd, rawVm, rawPhys, sentVm, sentPhys, old>>

UseNext ==
    \/ \E b \in 1..MaxSlot, l \in Loads : UsePush(b, l)
    \/ \E n \in Slots :
        \/ \E include_vm \in BOOLEAN : ConsumptionCleanup(n, include_vm)
        \/ UseRetention(n)
        \/ \E span \in {RawKeep, RollKeep} : backfill(n, span)
    \/ \E v \in UVms : UsePurgeVm(v)
    \/ UsePurgeAll

UseSpec == UseInit /\ [][UseNext]_useVars

(***************************************************************************)
(* Properties                                                              *)
(***************************************************************************)
UseRows(cap) == [phys : Nat, vm : Nat, pcov : 0..cap, vcov : 0..cap]
UseTypeOK ==
    /\ clock \in Slots /\ lost \in Nat
    /\ n5 \in [Slots -> UseRows(1)] /\ nh \in [Hours -> UseRows(SlotsPerHour)]
    /\ nd \in [Days -> UseRows(SlotsPerDay)]
    /\ \A h \in Hours, v \in UVms :
          vh[h][v] \in [bytes : Nat, samples : Nat, slot : [0..(SlotsPerHour - 1) -> Nat],
                        mask : SUBSET (0..(SlotsPerHour - 1)), v2 : BOOLEAN]
    /\ \A d \in Days, v \in UVms : vd[d][v] \in [bytes : Nat, samples : Nat]

\* Windows of what is kept, up to the newest slot.
Windows == UNION {{<<s, e>> : e \in (s + 1)..Least(clock + 1, MaxSlot)} : s \in lost..clock}
SentVm(v, s, e) == MapThenSumSet(LAMBDA b : sentVm[b][v], (s + 1)..Least(e, MaxSlot))

\* _v5058c_vm_source_sql: "true rolling window".  Every window of slots, however
\* it is cut into slots, hours and days, reports for every VM what was pushed
\* for exactly its slots, through late pushes, several pushes of one slot,
\* retention, purges and backfills, as far back as nothing was deleted; the
\* hour that is older than the slots counts in windows that hold all of it and
\* never adds more than it has to the others.
VmWindowExact ==
    \A v \in UVms, w \in Windows :
        LET got == VmWindow(v, w[1], w[2])
            sent == SentVm(v, w[1], w[2])
        IN  IF w[1] = 0 /\ w[2] >= SlotsPerHour THEN got = sent + old[v]
            ELSE IF w[1] >= SlotsPerHour \/ old[v] = 0 THEN got = sent
            ELSE got >= sent /\ got <= sent + old[v]

\* _r21_node_source_sql: every window of slots reports the physical bytes pushed
\* at its slots; an edge older than the five-minute rows is left out.
NodePhysExact ==
    \A w \in Windows :
        LET got == NodeWindow("phys", w[1], w[2])
            sent == MapThenSumSet(LAMBDA b : sentPhys[b], w[1]..(w[2] - 1))
        IN  /\ got <= sent
            /\ w[1] >= RawAvailable(clock) => got = sent

\* _r21_node_source_sql: the node's total of its VMs is the sum of what the VM
\* table shows for the same window.
NodeVmAgrees(w) ==
    NodeWindow("vm", w[1], w[2])
        = MapThenSumSet(LAMBDA v : VmWindow(v, w[1], w[2]), UVms)
NodeVmExact == \A w \in Windows : w[1] >= RawAvailable(clock) => NodeVmAgrees(w)

\* The same for windows of whole hours, however rows were rewritten.
NodeVmWholeHours ==
    \A w \in Windows : FloorHour(w[1]) = w[1] /\ FloorHour(w[2]) = w[2] => NodeVmAgrees(w)
=============================================================================
