----------------------------- MODULE AgentCollect -----------------------------
(***************************************************************************)
(* What an Agent reads on its node: the counters of VM interfaces, disks   *)
(* and uplinks, each reported as the growth since the reading that the     *)
(* committed state keeps, and the samples that a thread takes of the       *)
(* interfaces between two pushes.  VMs start and stop, tap names are       *)
(* reused, commands fail and the Agent is restarted while it collects.     *)
(* Delivery is AgentDelivery: here a collected payload is committed.       *)
(***************************************************************************)
EXTENDS Integers, FiniteSets, FiniteSetsExt, Functions

CONSTANTS
    AgVms, FirstUp,   \* VMs; those that run at first
    TapOf,      \* VM -> the name of its tap; VMs that share one do not run at once
    AgDisks,    \* <<"disk", VM, identity>>: "target|source" of the disks of VMs
    Links,      \* <<"phys", interface>>: uplinks of the bridges
    VmNamed,    \* taps whose name tells that they are taps
    StaleTicks, \* STALE_IFACE_SECONDS
    MaxAgTick, MaxUnits, MaxCycles, MaxStarts, MaxFailures   \* bounds

\* A tap has one VM at a time; the keys tell what they are of.
ASSUME AgentAssumption ==
    /\ FirstUp \subseteq AgVms /\ \A v, w \in FirstUp : TapOf[v] = TapOf[w] => v = w
    /\ \A k \in AgDisks : k[1] = "disk" /\ k[2] \in AgVms
    /\ \A k \in Links : k[1] = "phys"

Taps == {TapOf[v] : v \in AgVms}
NetKey(v, i) == <<"net", v, i>>
NetKeys == {NetKey(v, TapOf[v]) : v \in AgVms}
CounterKeys == NetKeys \cup AgDisks \cup Links
KeysOf(v) == {k \in NetKeys \cup AgDisks : k[2] = v}

VARIABLES
    agtick,     \* the monotonic clock
    up,         \* the VMs that run
    linked,     \* the uplinks that are members of a bridge
    counter,    \* key -> the kernel's counter
    kept,       \* the committed state: key -> counter
    imap,       \* runtime["iface_map"]: tap -> VM
    known,      \* the sampler's known_ifaces
    last,       \* the sampler's last: tap -> counter and time
    active,     \* the sampler's window: tap -> bytes, samples and seconds
    carry,      \* runtime["carry"]: tap -> the same
    cyc,        \* the collection in progress
    owed,       \* key -> what passed since its first reading and is not reported; -1 unread
    sowed,      \* tap -> what passed since its first sample and is not sampled; -1 unsampled
    spanned,    \* tap -> the seconds of the windows that were reported
    excused, sexcused,  \* keys and taps whose reading was disturbed
    agcount     \* units, cycles, starts, failures: counted against the bounds

agentVars == <<agtick, up, linked, counter, kept, imap, known, last, active, carry, cyc,
               owed, sowed, spanned, excused, sexcused, agcount>>

NoMap == [x \in {} |-> 0]
Resting == [pc |-> "rest"]
NoCount == [units |-> 0, cycles |-> 0, starts |-> 0, failures |-> 0]
Count(c) == agcount' = [agcount EXCEPT ![c] = @ + 1]

AgentInit ==
    /\ agtick = 0 /\ linked = Links
    /\ up = FirstUp
    /\ counter = [k \in CounterKeys |-> 0]
    /\ kept = NoMap /\ imap = NoMap /\ known = {}
    /\ last = NoMap /\ active = NoMap /\ carry = NoMap
    /\ cyc = Resting
    /\ owed = [k \in CounterKeys |-> -1] /\ sowed = [i \in Taps |-> -1]
    /\ spanned = [i \in Taps |-> 0]
    /\ excused = {} /\ sexcused = {} /\ agcount = NoCount

-----------------------------------------------------------------------------
(* Readings. *)

\* A counter that went backwards counts for nothing.
delta_counter(new, old) == IF new < old THEN 0 ELSE new - old

\* What is read now takes the place of what was known.
Updated(now, old) == [k \in DOMAIN now \cup DOMAIN old |-> IF k \in DOMAIN now THEN now[k] ELSE old[k]]

\* A first reading reports nothing.
Growth(state, k, now) == IF k \in DOMAIN state THEN delta_counter(now, state[k]) ELSE 0

\* The VM that has a tap now.
OwnerOf(i) == {v \in up : TapOf[v] = i}
collect_interface_counters(i) == {counter[NetKey(v, i)] : v \in OwnerOf(i)}

\* The rows of VM interfaces, key -> counter: of VMs that virsh listed, without
\* those whose interfaces or counters cannot be read.
collect_network(names, unread) ==
    LET read == {v \in names \ unread : collect_interface_counters(TapOf[v]) # {}} IN
    [k \in {NetKey(v, TapOf[v]) : v \in read} |-> CHOOSE c \in collect_interface_counters(k[3]) : TRUE]

\* The same from the cached map, on an overloaded node: a tap that another VM has
\* by now is read in the name of the old one.
collect_network_from_mapping ==
    LET read == {i \in DOMAIN imap : collect_interface_counters(i) # {}} IN
    [k \in {NetKey(imap[i], i) : i \in read} |-> CHOOSE c \in collect_interface_counters(k[3]) : TRUE]

build_iface_map(rows) == [i \in {k[3] : k \in DOMAIN rows} |-> CHOOSE v \in AgVms : NetKey(v, i) \in DOMAIN rows]

\* virsh domstats: the disks of running VMs; the state of a VM is replaced.
split_domstats_blocks(ok) == [k \in IF ok THEN {d \in AgDisks : d[2] \in up} ELSE {} |-> counter[k]]
collect_vm_perf(state, rows) ==
    LET seen == {k[2] : k \in DOMAIN rows}
        forgotten == {k \in AgDisks : k[2] \in seen} \ DOMAIN rows IN
    Updated(rows, Restrict(state, DOMAIN state \ forgotten))

\* Uplinks that are members of a bridge now and can be read.
is_bridge_member_candidate_uplink(k) == k \in Links
bridge_member_ifaces == linked
collect_physical_network(unread) ==
    [k \in {l \in bridge_member_ifaces \ unread : is_bridge_member_candidate_uplink(l)} |-> counter[k]]

\* Mutant: an empty list of VMs is as good as any.
prune_metric_stateAlways(state, rows, names, complete) ==
    Restrict(state, {k \in DOMAIN state : /\ k \in NetKeys => k \in DOMAIN rows
                                          /\ k \in AgDisks => k[2] \in names})
prune_metric_state(state, rows, names, complete) ==
    IF ~complete THEN state
    ELSE Restrict(state, {k \in DOMAIN state : /\ k \in NetKeys => k \in DOMAIN rows
                                               /\ k \in AgDisks => k[2] \in names})

-----------------------------------------------------------------------------
(* The sampler. *)

empty_network_window == NoMap

merge_iface_summary(a, b) == [bytes |-> a.bytes + b.bytes, n |-> a.n + b.n, over |-> a.over + b.over]
NoSummary == [bytes |-> 0, n |-> 0, over |-> 0]
SummaryOf(w, i) == IF i \in DOMAIN w THEN w[i] ELSE NoSummary

merge_network_windows(l, r) ==
    [i \in DOMAIN l \cup DOMAIN r |-> merge_iface_summary(SummaryOf(l, i), SummaryOf(r, i))]

_candidate(i) == i \in known \cup VmNamed

\* The taps that a scan sees; those with an older sample.  A second scan in the
\* same second takes a new base and counts nothing.
Scanned == {i \in Taps : OwnerOf(i) # {} /\ _candidate(i)}
CountOf(i) == CHOOSE c \in collect_interface_counters(i) : TRUE
Gap(i) == agtick - last[i].at
Timed == {i \in Scanned \cap DOMAIN last : Gap(i) >= 1}

\* The growth; every sample of a tap that grows is over the thresholds.
SampleOf(i) ==
    LET d == delta_counter(CountOf(i), last[i].c) IN
    [bytes |-> d, n |-> 1, over |-> IF d > 0 THEN Gap(i) ELSE 0]
StaleTaps == {i \in DOMAIN last \ Scanned : Gap(i) > StaleTicks}

\* A scan: the samples it takes, the window after it, and what it is owed.
sample ==
    /\ last' = [i \in (DOMAIN last \cup Scanned) \ StaleTaps |->
                  IF i \in Scanned THEN [c |-> CountOf(i), at |-> agtick] ELSE last[i]]
    /\ sowed' = [i \in Taps |-> CASE i \in Timed -> sowed[i] - SampleOf(i).bytes
                                  [] i \in Scanned \ DOMAIN last -> 0
                                  [] OTHER -> sowed[i]]
    /\ sexcused' = (sexcused \ (Scanned \ DOMAIN last))
                   \cup {i \in (Scanned \cap DOMAIN last) \ Timed : CountOf(i) # last[i].c}
WindowAfter ==
    LET w == merge_network_windows(active, [i \in Timed |-> SampleOf(i)]) IN
    Restrict(w, DOMAIN w \ StaleTaps)

\* A scan of the sampler's thread.
sampler_loop ==
    /\ sample /\ active' = WindowAfter
    /\ last' # last \/ active' # active
    /\ UNCHANGED <<agtick, up, linked, counter, kept, imap, known, carry, cyc, owed, spanned,
                   excused, agcount>>

-----------------------------------------------------------------------------
(* The cycle. *)

\* A last scan freezes the window, and the carry is written with it.
rotate ==
    /\ sample /\ active' = empty_network_window
    /\ carry' = merge_network_windows(carry, WindowAfter)

\* The older payload is not delivered: nothing is collected, the carry stays.
RetryFails ==
    /\ cyc = Resting /\ agcount.cycles < MaxCycles /\ Count("cycles")
    /\ rotate
    /\ UNCHANGED <<agtick, up, linked, counter, kept, imap, known, cyc, owed, spanned, excused>>

Failing(fails) ==
    /\ agcount.failures + fails <= MaxFailures
    /\ agcount' = [agcount EXCEPT !.failures = @ + fails]

\* The names of the running VMs; none, and no complete inventory, if virsh fails.
\* An overloaded node that may skip the heavy part reads what its map knows.
get_vm_names(ok) == IF ok THEN up ELSE {}
BeginCycle(how) ==
    /\ cyc = Resting /\ agcount.cycles < MaxCycles
    /\ how # "fine" => agcount.failures < MaxFailures
    /\ agcount' = [agcount EXCEPT !.cycles = @ + 1, !.failures = IF how = "fine" THEN @ ELSE @ + 1]
    /\ rotate
    /\ cyc' = [pc |-> IF how = "overload" THEN "limited" ELSE "net",
               names |-> get_vm_names(how = "fine"), complete |-> how = "fine", rows |-> NoMap]
    /\ UNCHANGED <<agtick, up, linked, counter, kept, imap, known, owed, spanned, excused>>

\* The interfaces of the VMs that were named.
ReadInterfaces(unread) ==
    /\ cyc.pc = "net" /\ unread \subseteq cyc.names
    /\ Failing(Cardinality(unread))
    /\ cyc' = [cyc EXCEPT !.pc = "host", !.rows = collect_network(cyc.names, unread)]
    /\ excused' = excused \cup UNION {KeysOf(v) \cap NetKeys : v \in unread}
    /\ UNCHANGED <<agtick, up, linked, counter, kept, imap, known, last, active, carry, owed, sowed,
                   spanned, sexcused>>

\* The payload and the state after it: what it reports is no more owed.
Committed(rows, state, map) ==
    /\ kept' = state /\ imap' = map /\ known' = DOMAIN map
    /\ owed' = [k \in CounterKeys |->
                  IF k \notin DOMAIN rows \/ (k \notin Links /\ k[2] \notin up) THEN owed[k]
                  ELSE IF owed[k] = -1 THEN delta_counter(counter[k], rows[k])
                  ELSE owed[k] - Growth(kept, k, rows[k])]
    /\ spanned' = [i \in Taps |-> spanned[i] + SummaryOf(carry, i).over]
    /\ carry' = empty_network_window
    /\ cyc' = Resting

\* collect_cycle_payload: disks, uplinks, the map and the pruned state.
collect_cycle_payload(ok, unread) ==
    /\ cyc.pc = "host"
    /\ Failing(Cardinality(unread) + IF ok THEN 0 ELSE 1)
    /\ LET disks == split_domstats_blocks(ok)
           links == collect_physical_network(unread)
           map == build_iface_map(cyc.rows)
           state == prune_metric_state(collect_vm_perf(Updated(cyc.rows, kept), disks),
                                       cyc.rows, cyc.names, cyc.complete)
       IN  Committed(Updated(Updated(cyc.rows, disks), links), Updated(links, state),
                     IF map # NoMap \/ cyc.complete THEN map ELSE imap)
    /\ UNCHANGED <<agtick, up, linked, counter, last, active, sowed, excused, sexcused>>

\* The same on an overloaded node.
collect_cycle_limited ==
    /\ cyc.pc = "limited"
    /\ LET rows == Updated(collect_network_from_mapping, collect_physical_network({})) IN
       /\ Committed(rows, Updated(rows, kept), imap)
       /\ excused' = excused \cup {k \in DOMAIN rows : k \notin Links /\ k[2] \notin up}
    /\ UNCHANGED <<agtick, up, linked, counter, last, active, sowed, sexcused, agcount>>

-----------------------------------------------------------------------------
(* Restarts of the Agent, and the node. *)

\* A graceful stop keeps the window in the carry, a crash loses it; the new
\* process starts with what is on disk.
Restart(graceful) ==
    /\ agcount.failures < MaxFailures /\ Count("failures")
    /\ carry' = IF graceful /\ cyc = Resting THEN merge_network_windows(carry, WindowAfter) ELSE carry
    /\ last' = NoMap /\ active' = NoMap /\ known' = DOMAIN imap /\ cyc' = Resting
    /\ sowed' = [i \in Taps |-> -1] /\ sexcused' = {}
    /\ UNCHANGED <<agtick, up, linked, counter, kept, imap, owed, spanned, excused>>

AgentTick ==
    /\ agtick < MaxAgTick /\ agtick' = agtick + 1
    /\ UNCHANGED <<up, linked, counter, kept, imap, known, last, active, carry, cyc, owed, sowed, spanned,
                   excused, sexcused, agcount>>

\* A unit of traffic or I/O.
Passes(k) ==
    /\ agcount.units < MaxUnits /\ Count("units")
    /\ k \notin Links => k[2] \in up
    /\ counter' = [counter EXCEPT ![k] = @ + 1]
    /\ owed' = [owed EXCEPT ![k] = IF @ = -1 THEN -1 ELSE @ + 1]
    /\ sowed' = [i \in Taps |-> IF k \in NetKeys /\ k[3] = i /\ sowed[i] # -1 THEN sowed[i] + 1 ELSE sowed[i]]
    /\ UNCHANGED <<agtick, up, linked, kept, imap, known, last, active, carry, cyc, spanned,
                   excused, sexcused>>

Stop(v) ==
    /\ v \in up /\ up' = up \ {v}
    /\ owed' = [k \in CounterKeys |-> IF k \in KeysOf(v) THEN -1 ELSE owed[k]]
    /\ UNCHANGED <<agtick, linked, counter, kept, imap, known, last, active, carry, cyc, sowed, spanned,
                   excused, sexcused, agcount>>

\* A VM starts: its counters are new.
Start(v) ==
    /\ v \notin up /\ OwnerOf(TapOf[v]) = {}
    /\ agcount.starts < MaxStarts /\ Count("starts")
    /\ up' = up \cup {v}
    /\ counter' = [k \in CounterKeys |-> IF k \in KeysOf(v) THEN 0 ELSE counter[k]]
    /\ excused' = (excused \ KeysOf(v))
                  \cup (IF cyc = Resting THEN KeysOf(v) \cap DOMAIN kept ELSE KeysOf(v))
    /\ LET i == TapOf[v] IN
       /\ sowed' = [sowed EXCEPT ![i] = IF i \in DOMAIN last THEN 0 ELSE -1]
       /\ sexcused' = IF i \in DOMAIN last THEN sexcused \cup {i} ELSE sexcused
    /\ UNCHANGED <<agtick, linked, kept, imap, known, last, active, carry, cyc, owed, spanned>>

\* An uplink leaves or joins its bridge.
Replug(l) ==
    /\ agcount.starts < MaxStarts /\ Count("starts")
    /\ linked' = IF l \in linked THEN linked \ {l} ELSE linked \cup {l}
    /\ UNCHANGED <<agtick, up, counter, kept, imap, known, last, active, carry, cyc, owed, sowed, spanned,
                   excused, sexcused>>

AgentNext ==
    \/ AgentTick \/ sampler_loop \/ RetryFails \/ collect_cycle_limited
    \/ \E how \in {"fine", "nolist", "overload"} : BeginCycle(how)
    \/ \E vs \in SUBSET AgVms : ReadInterfaces(vs)
    \/ \E ok \in BOOLEAN, ls \in SUBSET Links : collect_cycle_payload(ok, ls)
    \/ \E g \in BOOLEAN : Restart(g)
    \/ \E k \in CounterKeys : Passes(k)
    \/ \E v \in AgVms : Start(v) \/ Stop(v)
    \/ \E l \in Links : Replug(l)

AgentSpec == AgentInit /\ [][AgentNext]_agentVars

-----------------------------------------------------------------------------
\* The shapes: keys and taps that exist, counted in Nat.
AgentTypeOK ==
    /\ agtick \in 0..MaxAgTick /\ up \subseteq AgVms /\ linked \subseteq Links
    /\ DOMAIN kept \subseteq CounterKeys /\ DOMAIN last \subseteq Taps
    /\ \A k \in DOMAIN kept : kept[k] \in Nat
    /\ \A i \in DOMAIN imap : imap[i] \in AgVms
    /\ \A k \in CounterKeys : owed[k] >= -1

\* delta_counter over the committed state: whatever fails while a node is read and
\* whatever is restarted, a payload never reports more than passed since the
\* counter's last reading, and what is not reported yet is what the next reading
\* will report: nothing is lost between two readings.  (Excused are a VM that
\* started while the state still had its older self, or while a cycle was
\* running, and interfaces that could not be read while the inventory was complete.)
NothingLost ==
    \A k \in CounterKeys \ excused :
        owed[k] >= 0 => k \in DOMAIN kept /\ owed[k] = counter[k] - kept[k]

\* NetworkSampler: the samples of all windows have what passed since the first scan,
\* once; and the seconds over a threshold, of all windows, are no more than there
\* were.  (Excused is a tap that a VM was given while the sampler knew it from
\* another one, and one that two scans read in the same second.)
SampledOnce ==
    /\ \A i \in Taps : /\ sowed[i] >= -1
                       /\ i \in DOMAIN last \ sexcused /\ OwnerOf(i) # {} => sowed[i] = CountOf(i) - last[i].c
                       /\ spanned[i] + SummaryOf(carry, i).over + SummaryOf(active, i).over <= agtick
=============================================================================
