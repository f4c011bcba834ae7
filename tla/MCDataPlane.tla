----------------------------- MODULE MCDataPlane -----------------------------
(***************************************************************************)
(* The components that read, store, evaluate and list what pushes bring,   *)
(* one scene each: in a scene one component runs and the others stay as    *)
(* they start.                                                             *)
(***************************************************************************)
EXTENDS AbuseEngine, CurrentMetrics, Consumption, HistoryTiers, Listings, AgentCollect,
        AgentHost

CONSTANTS
    v1, v2,     \* VMs
    Scenes      \* the components that run

VARIABLE scene

dpVars == <<abuseVars, cmVars, useVars, historyVars, listVars, agentVars, hostVars, scene>>

\* Reports for the abuse engine: v1 hits rules, or a complete or partial
\* inventory does not name it.
Said(h, w) == [hits |-> [v \in {v1} |-> h], warn |-> w, complete |-> TRUE]
Silent(c) == [hits |-> [v \in {} |-> {}], warn |-> 1, complete |-> c]
AbuseReports == {Said({}, 1), Said({"cpu", "pps"}, 1),
                 Said({"cpu", "pps"}, 2), Silent(TRUE), Silent(FALSE)}

\* Payloads for the current tables: everything, one VM with a disk that is not
\* a customer's, halves of two VMs, interfaces only, performance only, nothing.
Brings(net, perf, present, complete, cust, dev) ==
    [net |-> net, perf |-> perf, present |-> present, complete |-> complete,
     cust |-> cust, mount |-> dev]
CurrentPayloads ==
    {Brings({v1, v2}, {v1, v2}, TRUE, TRUE, TRUE, TRUE),
     Brings({v1}, {v1}, TRUE, TRUE, FALSE, TRUE),
     Brings({v1}, {v2}, TRUE, FALSE, TRUE, FALSE),
     Brings({v2}, {}, FALSE, FALSE, TRUE, TRUE),
     Brings({}, {v1}, TRUE, FALSE, TRUE, TRUE),
     Brings({}, {}, TRUE, TRUE, TRUE, FALSE)}

\* What a push brings to consumption, and the bytes of v1 that are older than
\* five-minute slots.
Carries(vms, phys) == [vms |-> vms, phys |-> phys]
ConsumptionLoads == {Carries({v1, v2}, TRUE), Carries({v1}, FALSE), Carries({}, TRUE)}
ConsumptionOld == {[v \in {v1, v2} |-> IF v = v1 THEN 1 ELSE 0]}

\* Metric tables in the order of their deletion, and pushes that reach them.
HistoryOrder == <<"net", "host">>
HistoryKinds == {[tables |-> {"net"}, complete |-> FALSE],
                 [tables |-> {"net", "host"}, complete |-> TRUE]}

\* A VM that may be on either node.
ListedPairs == {<<1, "vm">>, <<2, "vm">>}

\* Two VMs that are given the same tap, one with a disk; an uplink.
SharedTap == [v \in {v1, v2} |-> "vnet0"]
OneDisk == {<<"disk", v1, "vda">>}
OneLink == {<<"phys", "eth0">>}

\* Mounts: "/", a separate /home, a second mount of it, another filesystem of the
\* same device below it, a bind alias, and one that is not listed.
MountAt(path, ord, fs, dev, root) ==
    [path |-> path, ord |-> ord, fs |-> fs, dev |-> dev, root |-> root, kind |-> "disk"]
RootMount == MountAt(<<>>, 0, 1, "sda", TRUE)
SomeMounts ==
    {RootMount, MountAt(<<"home">>, 1, 2, "lv", TRUE), MountAt(<<"srv">>, 0, 2, "lv", TRUE),
     MountAt(<<"home", "vm">>, 0, 2, "lv", TRUE), MountAt(<<"home", "vm">>, 0, 3, "sda", TRUE),
     MountAt(<<"home">>, 1, 1, "sda", FALSE), MountAt(<<"run", "x">>, 0, 4, "lv", TRUE)}
SomeBlocks == [d \in {"sda", "lv", "swapfile"} |->
                 CASE d = "sda" -> "md0" [] d = "lv" -> "dm0" [] d = "swapfile" -> ""]
SomeImages == {<<"home", "vm", "a">>, <<"home", "b">>}
Address(cidr, usable, scope, secondary) ==
    [cidr |-> cidr, usable |-> usable, scope |-> scope, secondary |-> secondary, dynamic |-> FALSE]
SomeAddresses == {Address(1, TRUE, 2, FALSE), Address(2, TRUE, 0, TRUE), Address(3, FALSE, 0, FALSE)}

ScenesInit ==
    /\ scene \in Scenes
    /\ AbuseInit
    /\ CMInit
    /\ UseInit
    /\ HistoryInit
    /\ ListInit
    /\ AgentInit
    /\ HostInit

ScenesNext ==
    \/ /\ scene = "abuse" /\ AbuseNext
       /\ UNCHANGED <<cmVars, useVars, historyVars, listVars, agentVars, hostVars, scene>>
    \/ /\ scene = "current" /\ CMNext
       /\ UNCHANGED <<abuseVars, useVars, historyVars, listVars, agentVars, hostVars, scene>>
    \/ /\ scene = "consumption" /\ UseNext
       /\ UNCHANGED <<abuseVars, cmVars, historyVars, listVars, agentVars, hostVars, scene>>
    \/ /\ scene = "history" /\ HistoryNext
       /\ UNCHANGED <<abuseVars, cmVars, useVars, listVars, agentVars, hostVars, scene>>
    \/ /\ scene = "lists" /\ ListNext
       /\ UNCHANGED <<abuseVars, cmVars, useVars, historyVars, agentVars, hostVars, scene>>
    \/ /\ scene = "readings" /\ AgentNext
       /\ UNCHANGED <<abuseVars, cmVars, useVars, historyVars, listVars, hostVars, scene>>
    \/ /\ scene = "host" /\ HostNext
       /\ UNCHANGED <<abuseVars, cmVars, useVars, historyVars, listVars, agentVars, scene>>

ScenesSpec == ScenesInit /\ [][ScenesNext]_dpVars
-----------------------------------------------------------------------------
\* The types of the components.  (Of a component that does not run, nothing is
\* evaluated.)
DPTypeOK ==
    CASE scene = "abuse" -> AbuseTypeOK
      [] scene = "current" -> CMTypeOK
      [] scene = "consumption" -> UseTypeOK
      [] scene = "history" -> HistoryTypeOK
      [] scene = "lists" -> ListTypeOK
      [] scene = "readings" -> AgentTypeOK
      [] scene = "host" -> HostTypeOK

\* vm_abuse_state, vm_abuse_events and vm_abuse_incidents: flags only after a whole
\* streak, an open incident only for an abusive VM, and both told by the events.
AbuseTold == scene = "abuse" => SustainedOnly /\ WholeOpenIsActive /\ StateIsTold

\* The summaries, the node's row and the chart rows agree with the current rows
\* they are made from.
CurrentAgrees == scene = "current" => SummariesAgree /\ UnsweptNodeRowAgrees /\ ChartsAgree

\* Every window of the Consumption pages reports what was pushed for it.
WindowsExact == scene = "consumption" => VmWindowExact /\ NodePhysExact /\ NodeVmWholeHours

\* run_retention: usage is billed once, one real push of an hour is kept, raw
\* buckets are not thinned out, and charts show both ends of what is kept.
HistoryKept == scene = "history" => BilledOnce /\ HourlyOneReal /\ RawUntouched /\ ChartShowsEnds

\* The pages: whatever changes between the reads of a request, a page shows what
\* was visible at a moment of it, and all that was visible during it.
ListsTell == scene = "lists" => PagesTell

\* The counts of the pages agree with their rows.
ListsAgree == scene = "lists" => CountsAgree

\* delta_counter and NetworkSampler: what a node has counted is reported once, and
\* sampled once, whatever fails or is restarted in between.
ReadingsTell == scene = "readings" => NothingLost /\ SampledOnce

\* The host part of a payload: one row for each filesystem, the I/O of each block
\* once, VM disks on the filesystem they are on, no missing uplink without error.
HostHolds == scene = "host" => HostTells
=============================================================================
